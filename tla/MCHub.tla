-------------------------------- MODULE MCHub --------------------------------
(***************************************************************************)
(* Instances of Hub.  Of up to three connections, c1 and c2 are of player  *)
(* p1, and c3 is of player p2.  p1 hosts game g1, and p2 hosts g2.         *)
(***************************************************************************)
EXTENDS Hub, TLC

CONSTANTS p1, p2, c1, c2, c3, g1, g2

MCLogin  == [c \in Conns |-> IF c = c3 THEN p2 ELSE p1]
MCHostOf == [g \in Games |-> IF g = g1 THEN p1 ELSE p2]

\* p1's connections are interchangeable.
Same == Permutations({c1, c2})
=============================================================================

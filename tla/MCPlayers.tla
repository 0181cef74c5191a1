------------------------------ MODULE MCPlayers ------------------------------
(* Instances of Players: a few requests for one or two base names, with so  *)
(* few discriminators that they run out.                                    *)
EXTENDS Players
=============================================================================

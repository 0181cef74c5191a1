------------------------------- MODULE Mutex -------------------------------
(***************************************************************************)
(* What hub.lockGame promises: one mutex per game ID.  A process holds at  *)
(* most one of them at a time (the handlers release one game's lock before *)
(* they take another's), and no lock has two holders.                      *)
(***************************************************************************)
CONSTANTS Procs, Ids

VARIABLE holders  \* holders[i]: the processes inside the lock of game i

Init == holders = [i \in Ids |-> {}]

Take(p, i) ==
  /\ \A j \in Ids : p \notin holders[j]
  /\ holders[i] = {}
  /\ holders' = [holders EXCEPT ![i] = {p}]

Give(p, i) ==
  /\ holders[i] = {p}
  /\ holders' = [holders EXCEPT ![i] = {}]

Next == \E p \in Procs, i \in Ids : Take(p, i) \/ Give(p, i)

Spec == Init /\ [][Next]_holders
=============================================================================

----------------------------- MODULE MCGameLock -----------------------------
(***************************************************************************)
(* Three processes, two games and one lock address per process: as many    *)
(* objects as can be reachable at once, so that addresses are reused.      *)
(***************************************************************************)
EXTENDS GameLock

\* Before its first call a process's locals are arbitrary: fix one choice.
MCInit ==
  /\ Init
  /\ id = [p \in Procs |-> CHOOSE i \in Ids : TRUE]
  /\ lock = [p \in Procs |-> CHOOSE l \in Locks : TRUE]

MCSpec == MCInit /\ [][Next]_vars /\ Fairness
=============================================================================

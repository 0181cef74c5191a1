------------------------------- MODULE Series -------------------------------
(***************************************************************************)
(* What a game promises its two players, without throws or statuses: a     *)
(* series of rounds.  In a round each seat commits once; the second        *)
(* commitment ends the round and adds exactly one point to exactly one     *)
(* counter; the next round begins only after a request for it that has     *)
(* neither been refused nor overtaken; an ended series never goes on.      *)
(***************************************************************************)
EXTENDS Naturals, FiniteSets

CONSTANTS Seats, Outcomes

VARIABLES
  phase,      \* "absent", "open", "round", "between", "over" or "deleted"
  committed,  \* the seats that have committed in the current round
  asking,     \* the seats that ask for another round
  score       \* how many rounds ended in each outcome

vars == <<phase, committed, asking, score>>

Phases == {"absent", "open", "round", "between", "over", "deleted"}

TypeOK ==
  /\ phase \in Phases
  /\ committed \in SUBSET Seats
  /\ asking \in SUBSET Seats
  /\ score \in [Outcomes -> Nat]

Init ==
  /\ phase = "absent"
  /\ committed = {} /\ asking = {}
  /\ score = [o \in Outcomes |-> 0]

Open ==
  /\ phase = "absent"
  /\ phase' = "open"
  /\ UNCHANGED <<committed, asking, score>>

Begin ==
  /\ phase = "open"
  /\ phase' = "round"
  /\ UNCHANGED <<committed, asking, score>>

Commit(seat) ==
  /\ phase = "round"
  /\ seat \notin committed
  /\ committed' = committed \cup {seat}
  /\ committed' # Seats
  /\ UNCHANGED <<phase, asking, score>>

Settle(seat) ==
  /\ phase = "round"
  /\ seat \notin committed
  /\ committed' = committed \cup {seat}
  /\ committed' = Seats
  /\ phase' = "between"
  /\ \E o \in Outcomes : score' = [score EXCEPT ![o] = @ + 1]
  /\ UNCHANGED asking

Ask(seat) ==
  /\ phase = "between"
  /\ asking = {}
  /\ asking' = {seat}
  /\ UNCHANGED <<phase, committed, score>>

Agree(seat) ==
  /\ phase = "between"
  /\ asking = Seats \ {seat}
  /\ phase' = "round"
  /\ committed' = {} /\ asking' = {}
  /\ UNCHANGED score

Decline(seat) ==
  /\ phase = "between"
  /\ asking = Seats \ {seat}
  /\ asking' = {}
  /\ UNCHANGED <<phase, committed, score>>

End ==
  /\ phase \in {"open", "round", "between"}
  /\ phase' = "over"
  /\ asking' = {}
  /\ UNCHANGED <<committed, score>>

\* Expiry: the stored game and all it knew are gone.
Forget ==
  /\ phase \notin {"absent", "deleted"}
  /\ phase' = "deleted"
  /\ committed' = {} /\ asking' = {}
  /\ score' = [o \in Outcomes |-> 0]

Next ==
  \/ Open \/ Begin \/ End \/ Forget
  \/ \E seat \in Seats :
       Commit(seat) \/ Settle(seat) \/ Ask(seat) \/ Agree(seat) \/ Decline(seat)

Spec == Init /\ [][Next]_vars
=============================================================================

------------------------------- MODULE Roster -------------------------------
(***************************************************************************)
(* What POST /players promises, without statements, draws and scans: a     *)
(* request is given a display name nobody has, or it is refused because    *)
(* all names of its base name were taken at some moment since it asked, or *)
(* it fails.  Names are given back when the player expires.                *)
(***************************************************************************)
EXTENDS Integers

CONSTANTS Requests, Names, NoName, Discriminators

VARIABLES
  held,    \* the display names held, with their holders
  status,  \* the answer to each request
  wants,   \* the base name it asked for
  given,   \* the discriminator in its answer
  refusable  \* the waiting requests that found their base name full

vars == <<held, status, wants, given, refusable>>

Free(n, d) == \A p \in held : p.name # n \/ p.disc # d

Full(n) == \A d \in Discriminators : ~Free(n, d)

Init ==
  /\ held = {}
  /\ status = [r \in Requests |-> "idle"]
  /\ wants = [r \in Requests |-> NoName]
  /\ given = [r \in Requests |-> 0]
  /\ refusable = {}

Ask(r, n) ==
  /\ status[r] = "idle"
  /\ status' = [status EXCEPT ![r] = "waiting"]
  /\ wants' = [wants EXCEPT ![r] = n]
  /\ UNCHANGED <<held, given, refusable>>

Give(r, d) ==
  /\ status[r] = "waiting"
  /\ Free(wants[r], d)
  /\ held' = held \cup {[id |-> r, name |-> wants[r], disc |-> d]}
  /\ status' = [status EXCEPT ![r] = "created"]
  /\ given' = [given EXCEPT ![r] = d]
  /\ UNCHANGED wants
  /\ refusable' = refusable \ {r}

FindFull(r) ==
  /\ status[r] = "waiting"
  /\ Full(wants[r])
  /\ refusable' = refusable \cup {r}
  /\ UNCHANGED <<held, status, wants, given>>

Refuse(r) ==
  /\ status[r] = "waiting"
  /\ r \in refusable
  /\ status' = [status EXCEPT ![r] = "exhausted"]
  /\ refusable' = refusable \ {r}
  /\ UNCHANGED <<held, wants, given>>

Fail(r) ==
  /\ status[r] = "waiting"
  /\ status' = [status EXCEPT ![r] = "failed"]
  /\ refusable' = refusable \ {r}
  /\ UNCHANGED <<held, wants, given>>

GiveBack(p) ==
  /\ held' = held \ {p}
  /\ UNCHANGED <<status, wants, given, refusable>>

Next ==
  \/ \E r \in Requests :
       \/ \E n \in Names : Ask(r, n)
       \/ \E d \in Discriminators : Give(r, d)
       \/ FindFull(r) \/ Refuse(r) \/ Fail(r)
  \/ \E p \in held : GiveBack(p)

Spec == Init /\ [][Next]_vars
=============================================================================

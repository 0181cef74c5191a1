------------------------------- MODULE Players -------------------------------
(***************************************************************************)
(* POST /players: Store.CreatePlayer run by concurrent requests, while the *)
(* sweeper deletes players.  A player's display name is a base name and a  *)
(* discriminator; the UNIQUE constraint of the table keeps it unique, and  *)
(* CreatePlayer copes with the constraint: some random draws, then a scan  *)
(* for a gap, again whenever another request was faster.                   *)
(*                                                                         *)
(* A statement is one step.  The rows of the scan are read from the        *)
(* snapshot (WAL) that the SELECT took, one step per row.  The secret, the *)
(* ID and the time of the row are left out, and so are requests refused    *)
(* before they reach the store.                                            *)
(***************************************************************************)
EXTENDS Integers

CONSTANTS
  Requests,             \* requests; each makes at most one player, so they name it too
  Names,                \* base names
  NoName,               \* none asked for yet
  MaxDiscriminator,     \* 9999
  DiscriminatorRetries  \* 20

ASSUME PlayersAssumption ==
  MaxDiscriminator \in Nat /\ DiscriminatorRetries \in Nat \ {0}

Discriminators == 0 .. MaxDiscriminator

VARIABLES
  players,  \* the rows: whose, base_name, discriminator
  pc,       \* where each request is; at the end, its answer
  name,     \* the base name it asks for
  tries,    \* its failed draws
  seen,     \* the discriminators in the snapshot of its last scan
  rest,     \* those of them whose rows it has not read yet
  next,     \* the candidate of freeDiscriminator
  disc      \* the discriminator in its answer

scanVars == <<seen, rest, next>>
vars == <<players, pc, name, tries, scanVars, disc>>

Row == [id: Requests, name: Names, disc: Discriminators]

Running == {"draw", "scan", "rows", "insert"}
Answers == {"created", "exhausted", "failed"}

TypeOK ==
  /\ players \subseteq Row
  /\ pc \in [Requests -> {"idle"} \cup Running \cup Answers]
  /\ name \in [Requests -> Names \cup {NoName}]
  /\ tries \in [Requests -> 0 .. DiscriminatorRetries]
  /\ seen \in [Requests -> SUBSET Discriminators]
  /\ rest \in [Requests -> SUBSET Discriminators]
  /\ next \in [Requests -> 0 .. MaxDiscriminator + 1]
  /\ disc \in [Requests -> Discriminators]

-----------------------------------------------------------------------------
Taken(n) == {p.disc : p \in {q \in players : q.name = n}}

\* Mutant: no constraint.
CollidesNever(n, d) == FALSE

\* The UNIQUE constraint is violated.
Collides(n, d) == d \in Taken(n)

Goto(r, stage) == pc' = [pc EXCEPT ![r] = stage]

\* createPlayer, with a valid user name.
Post(r, n) ==
  /\ pc[r] = "idle"
  /\ Goto(r, "draw")
  /\ name' = [name EXCEPT ![r] = n]
  /\ UNCHANGED <<players, tries, scanVars, disc>>

\* The INSERT succeeds: the answer is the player with discriminator d.
Inserted(r, d) ==
  /\ ~Collides(name[r], d)
  /\ players' = players \cup {[id |-> r, name |-> name[r], disc |-> d]}
  /\ disc' = [disc EXCEPT ![r] = d]
  /\ Goto(r, "created")

\* Mutant: off by one.
LastTryLate(t) == t > DiscriminatorRetries

LastTry(t) == t = DiscriminatorRetries

\* One of the random draws, free or not.
Draw(r) ==
  /\ pc[r] = "draw"
  /\ \E d \in Discriminators :
       \/ Inserted(r, d) /\ UNCHANGED tries
       \/ /\ Collides(name[r], d)
          /\ tries' = [tries EXCEPT ![r] = @ + 1]
          /\ Goto(r, IF LastTry(tries[r] + 1) THEN "scan" ELSE "draw")
          /\ UNCHANGED <<players, disc>>
  /\ UNCHANGED <<name, scanVars>>

\* freeDiscriminator's SELECT.
Scan(r) ==
  /\ pc[r] = "scan"
  /\ seen' = [seen EXCEPT ![r] = Taken(name[r])]
  /\ rest' = [rest EXCEPT ![r] = Taken(name[r])]
  /\ next' = [next EXCEPT ![r] = 0]
  /\ Goto(r, "rows")
  /\ UNCHANGED <<players, name, tries, disc>>

\* The next row in the order of the discriminators.
IsNextRow(r, d) == d \in rest[r] /\ \A e \in rest[r] : d <= e

\* The row leaves no gap below it.
ReadRow(r) ==
  /\ pc[r] = "rows"
  /\ \E d \in rest[r] :
       /\ IsNextRow(r, d) /\ d <= next[r]
       /\ next' = [next EXCEPT ![r] = d + 1]
       /\ rest' = [rest EXCEPT ![r] = @ \ {d}]
  /\ UNCHANGED <<players, pc, name, tries, seen, disc>>

\* Mutants: a row at the candidate is a gap; the last discriminator is not used.
GapOrEndEarly(r) == \A d \in rest[r] : IsNextRow(r, d) => d >= next[r]
NoneLeftEarly(r) == next[r] >= MaxDiscriminator

\* There is a gap before the row, or no row.
GapOrEnd(r) == \A d \in rest[r] : d > next[r]

NoneLeft(r) == next[r] > MaxDiscriminator

EndScan(r) ==
  /\ pc[r] = "rows"
  /\ GapOrEnd(r)
  /\ Goto(r, IF NoneLeft(r) THEN "exhausted" ELSE "insert")
  /\ UNCHANGED <<players, name, tries, scanVars, disc>>

\* Mutant: the same discriminator is tried again.
AfterLostRaceSame == "insert"

AfterLostRace == "scan"

Insert(r) ==
  /\ pc[r] = "insert"
  /\ \/ Inserted(r, next[r])
     \/ /\ Collides(name[r], next[r])
        /\ Goto(r, AfterLostRace)
        /\ UNCHANGED <<players, disc>>
  /\ UNCHANGED <<name, tries, scanVars>>

\* A statement fails, or the client's context is cancelled.
Fail(r) ==
  /\ pc[r] \in Running
  /\ Goto(r, "failed")
  /\ UNCHANGED <<players, name, tries, scanVars, disc>>

\* The sweeper deletes a player (Server has the details).
Expire(p) ==
  /\ players' = players \ {p}
  /\ UNCHANGED <<pc, name, tries, scanVars, disc>>

-----------------------------------------------------------------------------
Init ==
  /\ players = {}
  /\ pc = [r \in Requests |-> "idle"]
  /\ name = [r \in Requests |-> NoName]
  /\ tries = [r \in Requests |-> 0]
  /\ seen = [r \in Requests |-> {}]
  /\ rest = [r \in Requests |-> {}]
  /\ next = [r \in Requests |-> 0]
  /\ disc = [r \in Requests |-> 0]

Serve(r) == Draw(r) \/ Scan(r) \/ ReadRow(r) \/ EndScan(r) \/ Insert(r)

Next ==
  \/ \E r \in Requests : Serve(r) \/ Fail(r) \/ \E n \in Names : Post(r, n)
  \/ \E p \in players : Expire(p)

Spec == Init /\ [][Next]_vars

\* Requests are served; clients and the sweeper do as they like.
FairSpec == Spec /\ \A r \in Requests : WF_vars(Serve(r))
-----------------------------------------------------------------------------
(***************************************************************************)
(* No two players have the same display name.                              *)
(***************************************************************************)
NamesUnique ==
  \A p, q \in players : p.name = q.name /\ p.disc = q.disc => p = q

(***************************************************************************)
(* The scan is exact: what it comes up with is the least discriminator     *)
(* free in its snapshot, and it comes up with nothing only if every one,   *)
(* the first and the last included, was taken there.                       *)
(***************************************************************************)
ScanExact ==
  \A r \in Requests :
    /\ pc[r] = "insert" => next[r] \notin seen[r] /\ \A d \in 0 .. next[r] - 1 : d \in seen[r]
    /\ pc[r] = "exhausted" => seen[r] = Discriminators

\* The answer as the client sees it.
Status(r) == IF pc[r] \in Running THEN "waiting" ELSE pc[r]

Rost == INSTANCE Roster WITH
  held <- players,
  status <- [r \in Requests |-> Status(r)],
  wants <- name,
  given <- disc,
  refusable <- {r \in Requests : pc[r] = "rows" /\ seen[r] = Discriminators}

(***************************************************************************)
(* Whatever races with whatever, a request ends as Roster promises: with a *)
(* display name that was free at that moment and is the one in the answer, *)
(* refused because all names of its base name were taken at a moment since *)
(* it asked, or failed without a trace in the table.                       *)
(***************************************************************************)
ImplementsRoster == Rost!Spec

(***************************************************************************)
(* Every request is answered: a race for a gap is lost only to a request   *)
(* that got it, so that scanning again ends.                               *)
(***************************************************************************)
Answered == \A r \in Requests : pc[r] \in Running ~> pc[r] \in Answers
=============================================================================

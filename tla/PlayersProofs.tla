---------------------------- MODULE PlayersProofs ----------------------------
(***************************************************************************)
(* Proofs about CreatePlayer, for any requests, any names, any number of   *)
(* discriminators and any number of draws.                                 *)
(***************************************************************************)
EXTENDS Players, TLAPS

(***************************************************************************)
(* The loop invariant of freeDiscriminator: all below the candidate are    *)
(* taken in the snapshot, and the rows not yet read are the others.        *)
(***************************************************************************)
AllBelow(r) == \A d \in 0 .. next[r] - 1 : d \in seen[r]

Unread(r) == \A d \in Discriminators : d \in rest[r] <=> d \in seen[r] /\ next[r] <= d

RequestInv(r) ==
  /\ pc[r] # "idle" => name[r] \in Names
  /\ pc[r] \in {"idle", "draw"} => tries[r] < DiscriminatorRetries
  /\ pc[r] = "rows" => AllBelow(r) /\ Unread(r)
  /\ pc[r] = "insert" => next[r] \in Discriminators \ seen[r] /\ AllBelow(r)
  /\ pc[r] = "exhausted" => seen[r] = Discriminators

IInv ==
  /\ TypeOK
  /\ NamesUnique
  /\ \A r \in Requests : RequestInv(r)

-----------------------------------------------------------------------------
(* The invariant.                                                           *)

LEMMA InitInv == Init => IInv
  BY PlayersAssumption
     DEF Init, IInv, TypeOK, NamesUnique, RequestInv, Row, Discriminators, scanVars

\* A request does not disturb what is known of the others.
LEMMA OthersKept ==
  ASSUME NEW r \in Requests, NEW q \in Requests, q # r, RequestInv(q), TypeOK,
         pc' = [pc EXCEPT ![r] = pc'[r]],
         name' = [name EXCEPT ![r] = name'[r]],
         tries' = [tries EXCEPT ![r] = tries'[r]],
         seen' = [seen EXCEPT ![r] = seen'[r]],
         rest' = [rest EXCEPT ![r] = rest'[r]],
         next' = [next EXCEPT ![r] = next'[r]]
  PROVE  RequestInv(q)'
  <1>1. /\ pc'[q] = pc[q] /\ name'[q] = name[q] /\ tries'[q] = tries[q]
        /\ seen'[q] = seen[q] /\ rest'[q] = rest[q] /\ next'[q] = next[q]
    BY DEF TypeOK
  <1> QED
    BY <1>1 DEF RequestInv, AllBelow, Unread

\* The constraint keeps names unique; the row is one of the table.
LEMMA InsertedKeeps ==
  ASSUME IInv, NEW r \in Requests, NEW d \in Discriminators, pc[r] \in Running, Inserted(r, d)
  PROVE  /\ players' \subseteq Row
         /\ NamesUnique'
         /\ disc' \in [Requests -> Discriminators]
         /\ pc' = [pc EXCEPT ![r] = "created"]
  <1>1. name[r] \in Names
    BY DEF IInv, RequestInv, Running
  <1>2. players' = players \cup {[id |-> r, name |-> name[r], disc |-> d]}
    BY DEF Inserted
  <1>3. \A p \in players : ~(p.name = name[r] /\ p.disc = d)
    BY DEF Inserted, Collides, Taken
  <1>4. NamesUnique'
    BY <1>2, <1>3 DEF IInv, NamesUnique
  <1>5. players' \subseteq Row
    BY <1>1, <1>2 DEF IInv, TypeOK, Row
  <1> QED
    BY <1>4, <1>5 DEF Inserted, IInv, TypeOK, Goto

LEMMA PostInv ==
  ASSUME IInv, NEW r \in Requests, NEW n \in Names, Post(r, n)
  PROVE  IInv'
  <1>1. TypeOK'
    BY DEF IInv, TypeOK, Post, Goto, Running, scanVars
  <1>2. NamesUnique'
    BY DEF IInv, NamesUnique, Post
  <1>3. RequestInv(r)'
    BY PlayersAssumption, <1>1 DEF IInv, TypeOK, Post, Goto, RequestInv, scanVars
  <1>4. ASSUME NEW q \in Requests, q # r PROVE RequestInv(q)'
    BY <1>4, OthersKept DEF IInv, TypeOK, Post, Goto, scanVars
  <1> QED
    BY <1>1, <1>2, <1>3, <1>4 DEF IInv

LEMMA DrawInv ==
  ASSUME IInv, NEW r \in Requests, Draw(r)
  PROVE  IInv'
  <1>1. /\ TypeOK /\ pc[r] = "draw" /\ RequestInv(r)
        /\ UNCHANGED <<name, seen, rest, next>>
    BY DEF IInv, Draw, scanVars
  <1>2. PICK d \in Discriminators :
          \/ Inserted(r, d) /\ UNCHANGED tries
          \/ /\ tries' = [tries EXCEPT ![r] = @ + 1]
             /\ Goto(r, IF LastTry(tries[r] + 1) THEN "scan" ELSE "draw")
             /\ UNCHANGED <<players, disc>>
    BY DEF Draw
  <1>3. CASE Inserted(r, d) /\ UNCHANGED tries
    <2>1. /\ players' \subseteq Row /\ NamesUnique' /\ disc' \in [Requests -> Discriminators]
          /\ pc' = [pc EXCEPT ![r] = "created"]
      BY <1>1, <1>3, InsertedKeeps DEF Running
    <2>2. TypeOK'
      BY <1>1, <1>3, <2>1 DEF TypeOK, Answers
    <2>3. RequestInv(r)'
      BY <1>1, <2>1 DEF RequestInv, TypeOK
    <2>4. ASSUME NEW q \in Requests, q # r PROVE RequestInv(q)'
      BY <1>1, <1>3, <2>1, <2>4, OthersKept DEF IInv, TypeOK
    <2> QED
      BY <2>1, <2>2, <2>3, <2>4 DEF IInv
  <1>4. CASE /\ tries' = [tries EXCEPT ![r] = @ + 1]
             /\ Goto(r, IF LastTry(tries[r] + 1) THEN "scan" ELSE "draw")
             /\ UNCHANGED <<players, disc>>
    <2>1. tries[r] + 1 \in 0 .. DiscriminatorRetries
      BY <1>1, PlayersAssumption DEF RequestInv, TypeOK
    <2>2. TypeOK'
      BY <1>1, <1>4, <2>1 DEF TypeOK, Goto, Running
    <2>3. RequestInv(r)'
      BY <1>1, <1>4, <2>1, PlayersAssumption DEF RequestInv, TypeOK, Goto, LastTry
    <2>4. ASSUME NEW q \in Requests, q # r PROVE RequestInv(q)'
      BY <1>1, <1>4, <2>4, OthersKept DEF IInv, TypeOK, Goto
    <2> QED
      BY <1>4, <2>2, <2>3, <2>4 DEF IInv, NamesUnique
  <1> QED
    BY <1>2, <1>3, <1>4

LEMMA ScanInv ==
  ASSUME IInv, NEW r \in Requests, Scan(r)
  PROVE  IInv'
  <1>1. /\ TypeOK /\ pc[r] = "scan" /\ RequestInv(r)
        /\ UNCHANGED <<players, name, tries, disc>>
        /\ pc' = [pc EXCEPT ![r] = "rows"]
        /\ seen' = [seen EXCEPT ![r] = Taken(name[r])]
        /\ rest' = [rest EXCEPT ![r] = Taken(name[r])]
        /\ next' = [next EXCEPT ![r] = 0]
    BY DEF IInv, Scan, Goto
  <1>2. Taken(name[r]) \subseteq Discriminators
    BY <1>1 DEF Taken, TypeOK, Row
  <1>3. TypeOK'
    BY <1>1, <1>2, PlayersAssumption DEF TypeOK, Running
  <1>4. RequestInv(r)'
    BY <1>1, <1>2, PlayersAssumption
       DEF RequestInv, TypeOK, AllBelow, Unread, Discriminators
  <1>5. ASSUME NEW q \in Requests, q # r PROVE RequestInv(q)'
    BY <1>1, <1>5, OthersKept DEF IInv, TypeOK
  <1> QED
    BY <1>1, <1>3, <1>4, <1>5 DEF IInv, NamesUnique

LEMMA ReadRowInv ==
  ASSUME IInv, NEW r \in Requests, ReadRow(r)
  PROVE  IInv'
  <1>1. /\ TypeOK /\ pc[r] = "rows" /\ RequestInv(r) /\ AllBelow(r) /\ Unread(r)
        /\ UNCHANGED <<players, pc, name, tries, seen, disc>>
    BY DEF IInv, ReadRow, RequestInv
  <1>2. PICK d \in rest[r] :
          /\ d <= next[r]
          /\ next' = [next EXCEPT ![r] = d + 1]
          /\ rest' = [rest EXCEPT ![r] = @ \ {d}]
    BY DEF ReadRow
  <1>3. d \in Discriminators /\ d \in seen[r] /\ d = next[r] /\ next[r] \in Nat
    BY <1>1, <1>2, PlayersAssumption DEF TypeOK, Unread, Discriminators
  <1>4. TypeOK'
    BY <1>1, <1>2, <1>3, PlayersAssumption DEF TypeOK, Discriminators
  <1>5. AllBelow(r)' /\ Unread(r)'
    <2>1. /\ next'[r] = next[r] + 1 /\ rest'[r] = rest[r] \ {next[r]} /\ seen'[r] = seen[r]
      BY <1>1, <1>2, <1>3 DEF TypeOK
    <2>2. AllBelow(r)'
      BY <1>1, <1>3, <2>1 DEF AllBelow
    <2>3. Unread(r)'
      BY <1>1, <1>3, <2>1, PlayersAssumption DEF Unread, Discriminators
    <2> QED
      BY <2>2, <2>3
  <1>6. RequestInv(r)'
    BY <1>1, <1>5 DEF RequestInv
  <1>7. ASSUME NEW q \in Requests, q # r PROVE RequestInv(q)'
    BY <1>1, <1>2, <1>7, OthersKept DEF IInv, TypeOK
  <1> QED
    BY <1>1, <1>4, <1>6, <1>7 DEF IInv, NamesUnique

(***************************************************************************)
(* The end of the scan: the candidate is free and the least such, or       *)
(* everything was taken.                                                   *)
(***************************************************************************)
LEMMA ScanResult ==
  ASSUME TypeOK, NEW r \in Requests, AllBelow(r), Unread(r), GapOrEnd(r)
  PROVE  /\ NoneLeft(r) => seen[r] = Discriminators
         /\ ~NoneLeft(r) => next[r] \in Discriminators \ seen[r]
  <1>1. next[r] \in 0 .. MaxDiscriminator + 1 /\ seen[r] \subseteq Discriminators
    BY DEF TypeOK
  <1>2. ASSUME NoneLeft(r) PROVE seen[r] = Discriminators
    <2>1. next[r] = MaxDiscriminator + 1
      BY <1>1, <1>2, PlayersAssumption DEF NoneLeft
    <2>2. next[r] - 1 = MaxDiscriminator
      BY <2>1, PlayersAssumption
    <2>3. \A d \in Discriminators : d \in seen[r]
      BY <2>2 DEF AllBelow, Discriminators
    <2> QED
      BY <1>1, <2>3
  <1>3. ASSUME ~NoneLeft(r) PROVE next[r] \in Discriminators \ seen[r]
    <2>1. next[r] \in Discriminators
      BY <1>1, <1>3, PlayersAssumption DEF NoneLeft, Discriminators
    <2>2. next[r] \notin rest[r]
      BY <1>1, PlayersAssumption DEF GapOrEnd
    <2> QED
      BY <1>1, <2>1, <2>2, PlayersAssumption DEF Unread
  <1> QED
    BY <1>2, <1>3

LEMMA EndScanInv ==
  ASSUME IInv, NEW r \in Requests, EndScan(r)
  PROVE  IInv'
  <1>1. /\ TypeOK /\ pc[r] = "rows" /\ RequestInv(r) /\ AllBelow(r) /\ Unread(r) /\ GapOrEnd(r)
        /\ UNCHANGED <<players, name, tries, seen, rest, next, disc>>
        /\ pc' = [pc EXCEPT ![r] = IF NoneLeft(r) THEN "exhausted" ELSE "insert"]
    BY DEF IInv, EndScan, RequestInv, Goto, scanVars
  <1>2. TypeOK'
    BY <1>1 DEF TypeOK, Running, Answers
  <1>3. RequestInv(r)'
    BY <1>1, ScanResult DEF RequestInv, TypeOK, AllBelow
  <1>4. ASSUME NEW q \in Requests, q # r PROVE RequestInv(q)'
    BY <1>1, <1>4, OthersKept DEF IInv, TypeOK
  <1> QED
    BY <1>1, <1>2, <1>3, <1>4 DEF IInv, NamesUnique

LEMMA InsertInv ==
  ASSUME IInv, NEW r \in Requests, Insert(r)
  PROVE  IInv'
  <1>1. /\ TypeOK /\ pc[r] = "insert" /\ RequestInv(r) /\ next[r] \in Discriminators
        /\ UNCHANGED <<name, tries, seen, rest, next>>
    BY DEF IInv, Insert, RequestInv, scanVars
  <1>2. CASE Inserted(r, next[r])
    <2>1. /\ players' \subseteq Row /\ NamesUnique' /\ disc' \in [Requests -> Discriminators]
          /\ pc' = [pc EXCEPT ![r] = "created"]
      BY <1>1, <1>2, InsertedKeeps DEF Running
    <2>2. TypeOK'
      BY <1>1, <2>1 DEF TypeOK, Answers
    <2>3. RequestInv(r)'
      BY <1>1, <2>1 DEF RequestInv, TypeOK
    <2>4. ASSUME NEW q \in Requests, q # r PROVE RequestInv(q)'
      BY <1>1, <2>1, <2>4, OthersKept DEF IInv, TypeOK
    <2> QED
      BY <2>1, <2>2, <2>3, <2>4 DEF IInv
  <1>3. CASE Goto(r, AfterLostRace) /\ UNCHANGED <<players, disc>>
    <2>1. TypeOK'
      BY <1>1, <1>3 DEF TypeOK, Goto, AfterLostRace, Running
    <2>2. RequestInv(r)'
      BY <1>1, <1>3 DEF RequestInv, TypeOK, Goto, AfterLostRace
    <2>3. ASSUME NEW q \in Requests, q # r PROVE RequestInv(q)'
      BY <1>1, <1>3, <2>3, OthersKept DEF IInv, TypeOK, Goto
    <2> QED
      BY <1>3, <2>1, <2>2, <2>3 DEF IInv, NamesUnique
  <1> QED
    BY <1>2, <1>3 DEF Insert

LEMMA FailInv ==
  ASSUME IInv, NEW r \in Requests, Fail(r)
  PROVE  IInv'
  <1>1. /\ TypeOK /\ pc[r] \in Running /\ RequestInv(r)
        /\ UNCHANGED <<players, name, tries, seen, rest, next, disc>>
        /\ pc' = [pc EXCEPT ![r] = "failed"]
    BY DEF IInv, Fail, Goto, scanVars
  <1>2. TypeOK'
    BY <1>1 DEF TypeOK, Answers
  <1>3. RequestInv(r)'
    BY <1>1 DEF RequestInv, TypeOK, Running
  <1>4. ASSUME NEW q \in Requests, q # r PROVE RequestInv(q)'
    BY <1>1, <1>4, OthersKept DEF IInv, TypeOK
  <1> QED
    BY <1>1, <1>2, <1>3, <1>4 DEF IInv, NamesUnique

LEMMA ExpireInv ==
  ASSUME IInv, NEW p \in players, Expire(p)
  PROVE  IInv'
  BY DEF IInv, TypeOK, NamesUnique, RequestInv, AllBelow, Unread, Expire, scanVars

LEMMA NextInv == IInv /\ [Next]_vars => IInv'
  <1> SUFFICES ASSUME IInv, [Next]_vars PROVE IInv'
    OBVIOUS
  <1>1. ASSUME UNCHANGED vars PROVE IInv'
    BY <1>1 DEF IInv, TypeOK, NamesUnique, RequestInv, AllBelow, Unread, vars, scanVars
  <1> QED
    BY <1>1, PostInv, DrawInv, ScanInv, ReadRowInv, EndScanInv, InsertInv, FailInv, ExpireInv
       DEF Next, Serve

THEOREM Invariant == Spec => []IInv
  BY InitInv, NextInv, PTL DEF Spec

-----------------------------------------------------------------------------
(***************************************************************************)
(* Every request is in a state the code has: no candidate beyond the last  *)
(* discriminator is inserted, and no draw is made after the last.          *)
(***************************************************************************)
THEOREM TypeCorrect == Spec => []TypeOK
  <1>1. IInv => TypeOK
    BY DEF IInv
  <1> QED
    BY <1>1, Invariant, PTL

(***************************************************************************)
(* No two players share a display name.                                    *)
(***************************************************************************)
THEOREM DisplayNamesUnique == Spec => []NamesUnique
  <1>1. IInv => NamesUnique
    BY DEF IInv
  <1> QED
    BY <1>1, Invariant, PTL

(***************************************************************************)
(* freeDiscriminator returns the least discriminator free in its snapshot, *)
(* and reports exhaustion only if every one was taken.                     *)
(***************************************************************************)
THEOREM ScansAreExact == Spec => []ScanExact
  <1>1. IInv => ScanExact
    BY DEF IInv, RequestInv, ScanExact, AllBelow
  <1> QED
    BY <1>1, Invariant, PTL

(***************************************************************************)
(* CreatePlayer keeps the promise of Roster: a name that was free, or a    *)
(* refusal justified by a moment at which every name was taken.            *)
(***************************************************************************)
THEOREM PlayersImplementRoster == Spec => ImplementsRoster
  <1> DEFINE status == [r \in Requests |-> Status(r)]
             refusable == {r \in Requests : pc[r] = "rows" /\ seen[r] = Discriminators}
  <1>1. Init => Rost!Init
    BY DEF Init, Rost!Init, Status, Running
  <1>2. IInv /\ [Next]_vars => [Rost!Next]_<<players, status, name, disc, refusable>>
    <2> SUFFICES ASSUME IInv, [Next]_vars
                 PROVE  [Rost!Next]_<<players, status, name, disc, refusable>>
      OBVIOUS
    <2>0. TypeOK
      BY DEF IInv
    <2>1. ASSUME NEW r \in Requests, NEW n \in Names, Post(r, n) PROVE Rost!Ask(r, n)
      BY <2>0, <2>1 DEF Post, Goto, Rost!Ask, Status, TypeOK, Running, scanVars
    <2>2. ASSUME NEW r \in Requests, NEW d \in Discriminators, Inserted(r, d),
                 pc[r] \in {"draw", "insert"}, UNCHANGED <<name, seen>>
          PROVE  Rost!Give(r, d)
      BY <2>0, <2>2
         DEF Inserted, Goto, Rost!Give, Rost!Free, Collides, Taken, Status, TypeOK, Running
    <2>3. ASSUME NEW r \in Requests, Draw(r)
          PROVE  \/ \E d \in Discriminators : Rost!Give(r, d)
                 \/ UNCHANGED <<players, status, name, disc, refusable>>
      <3>1. CASE \E d \in Discriminators : Inserted(r, d)
        BY <2>2, <2>3, <3>1 DEF Draw, scanVars
      <3>2. CASE Goto(r, IF LastTry(tries[r] + 1) THEN "scan" ELSE "draw")
                 /\ UNCHANGED <<players, disc>>
        BY <2>0, <2>3, <3>2 DEF Draw, Goto, Status, TypeOK, Running, scanVars
      <3> QED
        BY <2>3, <3>1, <3>2 DEF Draw
    <2>4. ASSUME NEW r \in Requests, Scan(r)
          PROVE  Rost!FindFull(r) \/ UNCHANGED <<players, status, name, disc, refusable>>
      <3>1. /\ pc[r] = "scan" /\ pc' = [pc EXCEPT ![r] = "rows"]
            /\ seen' = [seen EXCEPT ![r] = Taken(name[r])]
            /\ UNCHANGED <<players, name, disc>>
        BY <2>4 DEF Scan, Goto
      <3>2. status' = status /\ status[r] = "waiting"
        BY <2>0, <3>1 DEF Status, TypeOK, Running
      <3>3. CASE Taken(name[r]) = Discriminators
        <4>1. refusable' = refusable \cup {r}
          BY <2>0, <3>1, <3>3 DEF TypeOK
        <4>2. Rost!Full(name[r])
          BY <3>3 DEF Rost!Full, Rost!Free, Taken
        <4> QED
          BY <3>1, <3>2, <4>1, <4>2 DEF Rost!FindFull
      <3>4. CASE Taken(name[r]) # Discriminators
        BY <2>0, <3>1, <3>2, <3>4 DEF TypeOK
      <3> QED
        BY <3>3, <3>4
    <2>5. ASSUME NEW r \in Requests, ReadRow(r)
          PROVE  UNCHANGED <<players, status, name, disc, refusable>>
      BY <2>5 DEF ReadRow, Status
    <2>6. ASSUME NEW r \in Requests, EndScan(r)
          PROVE  Rost!Refuse(r) \/ UNCHANGED <<players, status, name, disc, refusable>>
      <3>1. /\ pc[r] = "rows" /\ UNCHANGED <<players, name, seen, disc>>
            /\ pc' = [pc EXCEPT ![r] = IF NoneLeft(r) THEN "exhausted" ELSE "insert"]
        BY <2>6 DEF EndScan, Goto, scanVars
      <3>2. /\ NoneLeft(r) => seen[r] = Discriminators
            /\ ~NoneLeft(r) => next[r] \in Discriminators \ seen[r]
        BY <2>0, <2>6, <3>1, ScanResult DEF IInv, RequestInv, EndScan
      <3>3. CASE NoneLeft(r)
        BY <2>0, <3>1, <3>2, <3>3 DEF Rost!Refuse, Status, TypeOK, Running
      <3>4. CASE ~NoneLeft(r)
        BY <2>0, <3>1, <3>2, <3>4 DEF Status, TypeOK, Running
      <3> QED
        BY <3>3, <3>4
    <2>7. ASSUME NEW r \in Requests, Insert(r)
          PROVE  \/ \E d \in Discriminators : Rost!Give(r, d)
                 \/ UNCHANGED <<players, status, name, disc, refusable>>
      <3>1. pc[r] = "insert" /\ next[r] \in Discriminators /\ UNCHANGED <<name, seen>>
        BY <2>7 DEF Insert, IInv, RequestInv, scanVars
      <3>2. CASE Inserted(r, next[r])
        BY <2>2, <3>1, <3>2
      <3>3. CASE Goto(r, AfterLostRace) /\ UNCHANGED <<players, disc>>
        BY <2>0, <3>1, <3>3 DEF Goto, AfterLostRace, Status, TypeOK, Running
      <3> QED
        BY <2>7, <3>2, <3>3 DEF Insert
    <2>8. ASSUME NEW r \in Requests, Fail(r) PROVE Rost!Fail(r)
      BY <2>0, <2>8 DEF Fail, Goto, Rost!Fail, Status, TypeOK, Running, scanVars
    <2>9. ASSUME NEW p \in players, Expire(p) PROVE Rost!GiveBack(p)
      BY <2>9 DEF Expire, Rost!GiveBack, Status, scanVars
    <2>10. CASE UNCHANGED vars
      BY <2>10 DEF vars, Status, scanVars
    <2> HIDE DEF status, refusable
    <2> QED
      BY <2>1, <2>3, <2>4, <2>5, <2>6, <2>7, <2>8, <2>9, <2>10
         DEF Next, Serve, Rost!Next
  <1> QED
    BY <1>1, <1>2, Invariant, PTL DEF Spec, ImplementsRoster, Rost!Spec, Rost!vars
=============================================================================

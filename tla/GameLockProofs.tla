--------------------------- MODULE GameLockProofs ---------------------------
(***************************************************************************)
(* Proofs about lockGame, for any finite set of processes and any sets of  *)
(* games and lock addresses.                                               *)
(***************************************************************************)
EXTENDS GameLock, FiniteSetTheorems, TLAPS

LEMMA UsersFinite ==
  ASSUME NEW l \in Locks
  PROVE  IsFiniteSet(Users[l]) /\ Cardinality(Users[l]) \in Nat
  <1>1. Users[l] \in SUBSET Procs
    BY DEF Users
  <1>2. IsFiniteSet(Users[l])
    BY <1>1, FS_Subset, LockAssumption
  <1> QED
    BY <1>2, FS_CardinalityType

-----------------------------------------------------------------------------
(* Each step keeps the invariant.                                           *)

LEMMA InitInv == Init => IInv
  BY LockAssumption
     DEF Init, IInv, TypeOK, Stages, SameObject, OwnObject, CountExact, OwnerInside

\* Entering gives p one object, and changes the users of no other one.
LEMMA EnterUsers ==
  ASSUME TypeOK, NEW p \in Procs, NEW i \in Ids, Enter(p, i), NEW l \in Locks
  PROVE  /\ p \notin Users[l]
         /\ Users'[l] = IF l = lock'[p] THEN Users[l] \cup {p} ELSE Users[l]
  <1>1. /\ pc[p] = "idle" /\ pc' = [pc EXCEPT ![p] = "waiting"]
        /\ lock' = [lock EXCEPT ![p] = lock'[p]]
    BY DEF Enter, Find, Make, TypeOK
  <1> QED
    BY <1>1 DEF Users, TypeOK

LEMMA EnterInv ==
  ASSUME IInv, NEW p \in Procs, NEW i \in Ids, Enter(p, i)
  PROVE  IInv'
  <1> DEFINE l == lock'[p]
  <1>1. /\ TypeOK /\ SameObject /\ OwnObject /\ CountExact /\ OwnerInside
        /\ pc[p] = "idle" /\ pc' = [pc EXCEPT ![p] = "waiting"]
        /\ id' = [id EXCEPT ![p] = i]
    BY DEF IInv, Enter
  <1>2. CASE Find(p, i)
    <2>1. /\ l = locks[i] /\ l \in Locks /\ lock' = [lock EXCEPT ![p] = l]
          /\ refs' = [refs EXCEPT ![l] = @ + 1]
          /\ locks' = locks /\ owner' = owner
      BY <1>1, <1>2 DEF Find, TypeOK
    <2> HIDE DEF l
    <2>2. TypeOK'
      BY <1>1, <2>1 DEF TypeOK, Stages
    <2>3. SameObject'
      BY <1>1, <2>1 DEF SameObject, TypeOK
    <2>4. OwnObject'
      BY <1>1, <2>1 DEF OwnObject
    <2>5. OwnerInside'
      BY <1>1, <2>1 DEF OwnerInside, TypeOK
    <2>6. CountExact'
      <3> SUFFICES ASSUME NEW j \in Ids, locks[j] # NoLock
                   PROVE  /\ refs'[locks[j]] = Cardinality(Users'[locks[j]])
                          /\ Users'[locks[j]] # {}
        BY <2>1 DEF CountExact
      <3>1. /\ refs[locks[j]] = Cardinality(Users[locks[j]]) /\ Users[locks[j]] # {}
            /\ locks[j] \in Locks
        BY <1>1 DEF CountExact, TypeOK
      <3>2. CASE j = i
        <4>1. p \notin Users[l] /\ Users'[l] = Users[l] \cup {p}
          BY <1>1, <2>1, EnterUsers DEF l
        <4>2. Cardinality(Users[l] \cup {p}) = Cardinality(Users[l]) + 1
          BY <2>1, <4>1, UsersFinite, FS_AddElement
        <4>3. refs'[l] = refs[l] + 1
          BY <1>1, <2>1 DEF TypeOK
        <4> QED
          BY <2>1, <3>1, <3>2, <4>1, <4>2, <4>3
      <3>3. CASE j # i
        <4>1. locks[j] # l
          BY <1>1, <2>1, <3>3 DEF OwnObject
        <4>2. Users'[locks[j]] = Users[locks[j]]
          BY <1>1, <3>1, <4>1, EnterUsers DEF l
        <4>3. refs'[locks[j]] = refs[locks[j]]
          BY <1>1, <2>1, <3>1, <4>1 DEF TypeOK
        <4> QED
          BY <3>1, <4>2, <4>3
      <3> QED
        BY <3>2, <3>3
    <2> QED
      BY <2>2, <2>3, <2>4, <2>5, <2>6 DEF IInv
  <1>3. CASE Make(p, i)
    <2>1. /\ l \in Locks /\ Fresh(l) /\ locks[i] = NoLock
          /\ locks' = [locks EXCEPT ![i] = l]
          /\ lock' = [lock EXCEPT ![p] = l]
          /\ refs' = [refs EXCEPT ![l] = 1]
          /\ owner' = [owner EXCEPT ![l] = NoProc]
      BY <1>1, <1>3 DEF Make, TypeOK
    <2> HIDE DEF l
    <2>2. /\ \A q \in Procs : pc[q] # "idle" => lock[q] # l
          /\ \A j \in Ids : locks[j] # l
          /\ l # NoLock
      BY <2>1, LockAssumption DEF Fresh, Users
    <2>3. TypeOK'
      BY <1>1, <2>1 DEF TypeOK, Stages
    <2>4. SameObject'
      <3>1. \A q \in Procs : pc[q] # "idle" => id[q] # i
        BY <1>1, <2>1, LockAssumption DEF SameObject, TypeOK
      <3> QED
        BY <1>1, <2>1, <3>1 DEF SameObject, TypeOK
    <2>5. OwnObject'
      BY <1>1, <2>1, <2>2 DEF OwnObject, TypeOK
    <2>6. OwnerInside'
      BY <1>1, <2>1, <2>2 DEF OwnerInside, TypeOK
    <2>7. CountExact'
      <3> SUFFICES ASSUME NEW j \in Ids, locks'[j] # NoLock
                   PROVE  /\ refs'[locks'[j]] = Cardinality(Users'[locks'[j]])
                          /\ Users'[locks'[j]] # {}
        BY DEF CountExact
      <3>1. CASE j = i
        <4>1. locks'[j] = l /\ refs'[l] = 1
          BY <1>1, <2>1, <3>1 DEF TypeOK
        <4>2. Users[l] = {}
          BY <2>1 DEF Fresh
        <4>3. Users'[l] = {p}
          BY <1>1, <2>1, <4>2, EnterUsers DEF l
        <4>4. Cardinality({p}) = 1
          BY FS_Singleton
        <4> QED
          BY <4>1, <4>3, <4>4
      <3>2. CASE j # i
        <4>1. locks'[j] = locks[j] /\ locks[j] \in Locks /\ locks[j] # l
          BY <1>1, <2>1, <2>2, <3>2 DEF TypeOK
        <4>2. Users'[locks[j]] = Users[locks[j]]
          BY <1>1, <4>1, EnterUsers DEF l
        <4>3. refs'[locks[j]] = refs[locks[j]]
          BY <1>1, <2>1, <4>1 DEF TypeOK
        <4> QED
          BY <1>1, <4>1, <4>2, <4>3 DEF CountExact
      <3> QED
        BY <3>1, <3>2
    <2> QED
      BY <2>3, <2>4, <2>5, <2>6, <2>7 DEF IInv
  <1> QED
    BY <1>2, <1>3 DEF Enter

\* Moving on inside lockGame changes no object's users.
LEMMA SameUsers ==
  ASSUME TypeOK, NEW p \in Procs, NEW q \in Stages, pc[p] # "idle", q # "idle",
         pc' = [pc EXCEPT ![p] = q], lock' = lock
  PROVE  Users' = Users
  BY DEF Users, TypeOK

LEMMA AcquireInv ==
  ASSUME IInv, NEW p \in Procs, Acquire(p)
  PROVE  IInv'
  <1>1. /\ TypeOK /\ SameObject /\ OwnObject /\ CountExact /\ OwnerInside
        /\ pc[p] = "waiting" /\ owner[lock[p]] = NoProc
        /\ owner' = [owner EXCEPT ![lock[p]] = p]
        /\ pc' = [pc EXCEPT ![p] = "holding"]
        /\ locks' = locks /\ refs' = refs /\ id' = id /\ lock' = lock
    BY DEF IInv, Acquire
  <1>2. TypeOK'
    BY <1>1 DEF TypeOK, Stages
  <1>3. SameObject'
    BY <1>1 DEF SameObject, TypeOK
  <1>4. OwnObject'
    BY <1>1 DEF OwnObject
  <1>5. CountExact'
    BY <1>1, SameUsers DEF CountExact, Stages
  <1>6. OwnerInside'
    BY <1>1, LockAssumption DEF OwnerInside, TypeOK
  <1> QED
    BY <1>2, <1>3, <1>4, <1>5, <1>6 DEF IInv

LEMMA UnlockInv ==
  ASSUME IInv, NEW p \in Procs, Unlock(p)
  PROVE  IInv'
  <1>1. /\ TypeOK /\ SameObject /\ OwnObject /\ CountExact /\ OwnerInside
        /\ pc[p] = "holding"
        /\ owner' = [owner EXCEPT ![lock[p]] = NoProc]
        /\ pc' = [pc EXCEPT ![p] = "releasing"]
        /\ locks' = locks /\ refs' = refs /\ id' = id /\ lock' = lock
    BY DEF IInv, Unlock
  <1>2. TypeOK'
    BY <1>1 DEF TypeOK, Stages
  <1>3. SameObject'
    BY <1>1 DEF SameObject, TypeOK
  <1>4. OwnObject'
    BY <1>1 DEF OwnObject
  <1>5. CountExact'
    BY <1>1, SameUsers DEF CountExact, Stages
  <1>6. OwnerInside'
    BY <1>1 DEF OwnerInside, TypeOK
  <1> QED
    BY <1>2, <1>3, <1>4, <1>5, <1>6 DEF IInv

LEMMA DropInv ==
  ASSUME IInv, NEW p \in Procs, Drop(p)
  PROVE  IInv'
  <1> DEFINE l == lock[p]
             left == refs[l] - 1
  <1>1. /\ TypeOK /\ SameObject /\ OwnObject /\ CountExact /\ OwnerInside
        /\ pc[p] = "releasing" /\ pc' = [pc EXCEPT ![p] = "idle"]
        /\ refs' = [refs EXCEPT ![l] = left]
        /\ owner' = owner /\ id' = id /\ lock' = lock
        /\ id[p] \in Ids /\ l \in Locks /\ l # NoLock
    BY LockAssumption DEF IInv, Drop, TypeOK
  <1>2. locks[id[p]] = l /\ p \in Users[l]
    BY <1>1 DEF SameObject, Users
  <1>3. refs[l] = Cardinality(Users[l]) /\ IsFiniteSet(Users[l])
    BY <1>1, <1>2, UsersFinite DEF CountExact
  <1>4. left = Cardinality(Users[l] \ {p}) /\ IsFiniteSet(Users[l] \ {p})
    BY <1>2, <1>3, FS_RemoveElement
  <1>5. left \in Nat /\ (left = 0 <=> Users[l] = {p})
    BY <1>2, <1>4, FS_CardinalityType, FS_EmptySet
  <1>6. Users' = [Users EXCEPT ![l] = @ \ {p}]
    BY <1>1 DEF Users, TypeOK
  <1>7. locks' = IF left = 0 THEN [locks EXCEPT ![id[p]] = NoLock] ELSE locks
    BY <1>1 DEF Drop, TypeOK
  <1> HIDE DEF l, left
  <1>8. TypeOK'
    BY <1>1, <1>5, <1>7 DEF TypeOK, Stages
  <1>9. SameObject'
    <2> SUFFICES ASSUME NEW q \in Procs, pc'[q] # "idle"
                 PROVE  locks'[id[q]] = lock[q]
      BY <1>1 DEF SameObject
    <2>1. q # p /\ pc[q] # "idle" /\ locks[id[q]] = lock[q]
      BY <1>1 DEF SameObject, TypeOK
    <2>2. CASE left = 0
      <3>1. lock[q] # l
        BY <1>1, <1>5, <2>1, <2>2 DEF Users
      <3>2. id[q] # id[p]
        BY <1>2, <2>1, <3>1
      <3> QED
        BY <1>7, <2>1, <2>2, <3>2 DEF TypeOK
    <2>3. CASE left # 0
      BY <1>7, <2>1, <2>3
    <2> QED
      BY <2>2, <2>3
  <1>10. OwnObject'
    BY <1>1, <1>7 DEF OwnObject, TypeOK
  <1>11. OwnerInside'
    BY <1>1 DEF OwnerInside, TypeOK
  <1>12. CountExact'
    <2> SUFFICES ASSUME NEW j \in Ids, locks'[j] # NoLock
                 PROVE  /\ refs'[locks'[j]] = Cardinality(Users'[locks'[j]])
                        /\ Users'[locks'[j]] # {}
      BY DEF CountExact
    <2>1. locks'[j] = locks[j] /\ locks[j] \in Locks /\ (j = id[p] => left # 0)
      BY <1>1, <1>7 DEF TypeOK
    <2>2. CASE j = id[p]
      <3>1. locks[j] = l /\ refs'[l] = left
        BY <1>1, <1>2, <2>2 DEF TypeOK
      <3>2. Users'[l] = Users[l] \ {p}
        BY <1>1, <1>6 DEF Users
      <3>3. Users[l] \ {p} # {}
        BY <1>2, <1>5, <2>1, <2>2
      <3> QED
        BY <1>4, <2>1, <3>1, <3>2, <3>3
    <2>3. CASE j # id[p]
      <3>1. locks[j] # l
        BY <1>1, <1>2, <2>1, <2>3 DEF OwnObject
      <3>2. refs'[locks[j]] = refs[locks[j]]
        BY <1>1, <2>1, <3>1 DEF TypeOK
      <3>3. Users'[locks[j]] = Users[locks[j]]
        BY <1>6, <2>1, <3>1 DEF Users
      <3> QED
        BY <1>1, <2>1, <3>2, <3>3 DEF CountExact
    <2> QED
      BY <2>2, <2>3
  <1> QED
    BY <1>8, <1>9, <1>10, <1>11, <1>12 DEF IInv

LEMMA StutterInv == IInv /\ UNCHANGED vars => IInv'
  <1> SUFFICES ASSUME IInv, UNCHANGED vars PROVE IInv'
    OBVIOUS
  <1>1. Users' = Users
    BY DEF vars, Users
  <1>2. TypeOK' /\ SameObject'
    BY DEF vars, IInv, TypeOK, SameObject
  <1>3. OwnObject' /\ OwnerInside'
    BY DEF vars, IInv, OwnObject, OwnerInside
  <1>4. CountExact'
    BY <1>1 DEF vars, IInv, CountExact
  <1> QED
    BY <1>2, <1>3, <1>4 DEF IInv

-----------------------------------------------------------------------------
(***************************************************************************)
(* Every user of a game holds the object the map has, the reference count  *)
(* is exact, and the owner of a mutex is the process inside, whatever the  *)
(* interleaving of lockGame and the release functions.                     *)
(***************************************************************************)
THEOREM Invariant == Spec => []IInv
  <1>1. Init => IInv
    BY InitInv
  <1>2. IInv /\ [Next]_vars => IInv'
    <2> SUFFICES ASSUME IInv, [Next]_vars PROVE IInv'
      OBVIOUS
    <2>1. ASSUME NEW p \in Procs, NEW i \in Ids, Enter(p, i) PROVE IInv'
      BY <2>1, EnterInv
    <2>2. ASSUME NEW p \in Procs, Acquire(p) PROVE IInv'
      BY <2>2, AcquireInv
    <2>3. ASSUME NEW p \in Procs, Unlock(p) PROVE IInv'
      BY <2>3, UnlockInv
    <2>4. ASSUME NEW p \in Procs, Drop(p) PROVE IInv'
      BY <2>4, DropInv
    <2>5. CASE UNCHANGED vars
      BY <2>5, StutterInv
    <2> QED
      BY <2>1, <2>2, <2>3, <2>4, <2>5 DEF Next, Step
  <1> QED
    BY <1>1, <1>2, PTL DEF Spec

(***************************************************************************)
(* Reference counts stay within the number of processes, and every process *)
(* that uses a lock holds an address of one.                               *)
(***************************************************************************)
THEOREM TypeCorrect == Spec => []TypeOK
  <1>1. IInv => TypeOK
    BY DEF IInv
  <1> QED
    BY <1>1, Invariant, PTL

(***************************************************************************)
(* Two processes are never inside the lock of the same game: they would    *)
(* have to own the same mutex.                                             *)
(***************************************************************************)
THEOREM Exclusion == Spec => []MutualExclusion
  <1>1. IInv => MutualExclusion
    BY DEF IInv, TypeOK, SameObject, OwnerInside, MutualExclusion, Holding
  <1> QED
    BY <1>1, Invariant, PTL

(***************************************************************************)
(* No entry of the map leaks or is deleted under somebody who uses it, and *)
(* its count is the number of those who do.                                *)
(***************************************************************************)
THEOREM NothingLeaks == Spec => []NoLeak
  <1>1. IInv => NoLeak
    <2> SUFFICES ASSUME IInv, NEW i \in Ids
                 PROVE  /\ locks[i] = NoLock <=> Callers[i] = {}
                        /\ locks[i] # NoLock => refs[locks[i]] = Cardinality(Callers[i])
      BY DEF NoLeak
    <2> USE DEF IInv
    <2>1. CASE locks[i] = NoLock
      BY <2>1, LockAssumption DEF TypeOK, SameObject, Callers
    <2>2. CASE locks[i] # NoLock
      <3>1. /\ locks[i] \in Locks
            /\ refs[locks[i]] = Cardinality(Users[locks[i]]) /\ Users[locks[i]] # {}
        BY <2>2 DEF TypeOK, CountExact
      <3>2. Users[locks[i]] = Callers[i]
        BY <2>2, <3>1 DEF TypeOK, SameObject, OwnObject, Users, Callers
      <3> QED
        BY <2>2, <3>1, <3>2
    <2> QED
      BY <2>1, <2>2
  <1> QED
    BY <1>1, Invariant, PTL

(***************************************************************************)
(* lockGame is a mutex per game.                                           *)
(***************************************************************************)
THEOREM LockImplementsMutex == Spec => ImplementsMutex
  <1> DEFINE held == [i \in Ids |-> Holding(i)]
  <1>1. Init => M!Init
    BY DEF Init, M!Init, Holding
  <1>2. IInv /\ [Next]_vars => [M!Next]_held
    <2> SUFFICES ASSUME IInv, [Next]_vars PROVE [M!Next]_held
      OBVIOUS
    <2> USE DEF IInv
    <2>1. ASSUME NEW p \in Procs, NEW i \in Ids, Enter(p, i) PROVE held' = held
      BY <2>1 DEF Enter, Find, Make, Holding, TypeOK
    <2>2. ASSUME NEW p \in Procs, Acquire(p) PROVE M!Take(p, id[p])
      <3>1. /\ pc[p] = "waiting" /\ owner[lock[p]] = NoProc
            /\ pc' = [pc EXCEPT ![p] = "holding"] /\ id' = id
            /\ id[p] \in Ids
        BY <2>2 DEF Acquire, TypeOK
      <3>2. \A j \in Ids : p \notin held[j]
        BY <3>1 DEF Holding
      <3>3. held[id[p]] = {}
        BY <3>1, LockAssumption DEF Holding, SameObject, OwnerInside
      <3>4. \A j \in Ids : held'[j] = IF j = id[p] THEN {p} ELSE held[j]
        BY <3>1, <3>3 DEF Holding, TypeOK
      <3>5. held' = [held EXCEPT ![id[p]] = {p}]
        BY <3>4
      <3> QED
        BY <3>2, <3>3, <3>5 DEF M!Take
    <2>3. ASSUME NEW p \in Procs, Unlock(p) PROVE M!Give(p, id[p])
      <3>1. /\ pc[p] = "holding" /\ pc' = [pc EXCEPT ![p] = "releasing"] /\ id' = id
            /\ id[p] \in Ids
        BY <2>3 DEF Unlock, TypeOK
      <3>2. held[id[p]] = {p}
        BY <3>1 DEF Holding, SameObject, OwnerInside, TypeOK
      <3>3. \A j \in Ids : held'[j] = IF j = id[p] THEN {} ELSE held[j]
        BY <3>1, <3>2 DEF Holding, TypeOK
      <3>4. held' = [held EXCEPT ![id[p]] = {}]
        BY <3>3
      <3> QED
        BY <3>2, <3>4 DEF M!Give
    <2>4. ASSUME NEW p \in Procs, Drop(p) PROVE held' = held
      BY <2>4 DEF Drop, Holding, TypeOK
    <2>5. CASE UNCHANGED vars
      BY <2>5 DEF vars, Holding
    <2>6. \A p \in Procs : id[p] \in Ids
      BY DEF TypeOK
    <2> HIDE DEF held
    <2> QED
      BY <2>1, <2>2, <2>3, <2>4, <2>5, <2>6 DEF Next, Step, M!Next
  <1> QED
    BY <1>1, <1>2, Invariant, PTL DEF Spec, ImplementsMutex, M!Spec
=============================================================================

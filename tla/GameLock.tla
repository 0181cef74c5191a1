------------------------------ MODULE GameLock ------------------------------
(***************************************************************************)
(* hub.lockGame (internal/hub/hub.go): the per-game mutex.  Lock objects   *)
(* are made on demand, counted by holders + waiters, and deleted from the  *)
(* map h.locks with their last user.  The two blocks under h.mu and the    *)
(* operations of sync.Mutex are atomic, and anything may happen in         *)
(* between: after a process has looked its lock up and before it has       *)
(* locked it, and after it has unlocked it and before it has given up its  *)
(* reference.                                                              *)
(***************************************************************************)
EXTENDS Naturals, FiniteSets

CONSTANTS
  Procs,   \* goroutines that run handlers, plus the sweeper
  Ids,     \* game IDs
  Locks,   \* addresses a *gameLock may have; one is reused once unreachable
  NoLock,  \* a nil *gameLock
  NoProc   \* the owner of an unlocked sync.Mutex

ASSUME LockAssumption ==
  /\ IsFiniteSet(Procs) /\ NoProc \notin Procs
  /\ NoLock \notin Locks

VARIABLES
  locks,  \* h.locks
  refs,   \* gameLock.refs
  owner,  \* who holds gameLock.mu
  pc,     \* where each process is in lockGame or its release function
  id,     \* the argument id of each process's call
  lock    \* the local l of each process's call

vars == <<locks, refs, owner, pc, id, lock>>

Stages == {"idle", "waiting", "holding", "releasing"}

TypeOK ==
  /\ locks \in [Ids -> Locks \cup {NoLock}]
  /\ refs \in [Locks -> Nat]
  /\ owner \in [Locks -> Procs \cup {NoProc}]
  /\ pc \in [Procs -> Stages]
  /\ id \in [Procs -> Ids]
  /\ lock \in [Procs -> Locks]

\* The holders and waiters a lock object has, and those of a game.
Users   == [l \in Locks |-> {p \in Procs : pc[p] # "idle" /\ lock[p] = l}]
Callers == [i \in Ids |-> {p \in Procs : pc[p] # "idle" /\ id[p] = i}]

\* An address the allocator may hand out: nothing refers to it.
Fresh(l) == Users[l] = {} /\ \A i \in Ids : locks[i] # l

-----------------------------------------------------------------------------
Init ==
  /\ locks = [i \in Ids |-> NoLock]
  /\ refs = [l \in Locks |-> 0]
  /\ owner = [l \in Locks |-> NoProc]
  /\ pc = [p \in Procs |-> "idle"]
  /\ id \in [Procs -> Ids] /\ lock \in [Procs -> Locks]

\* The first block under h.mu: find or make the lock, and count this user.
Find(p, i) ==
  /\ locks[i] # NoLock
  /\ lock' = [lock EXCEPT ![p] = locks[i]]
  /\ refs' = [refs EXCEPT ![locks[i]] = @ + 1]
  /\ UNCHANGED <<locks, owner>>

\* Mutant: the maker of a lock is not counted.
MakeUncounted(p, i) ==
  /\ locks[i] = NoLock
  /\ \E l \in Locks :
       /\ Fresh(l)
       /\ locks' = [locks EXCEPT ![i] = l]
       /\ lock' = [lock EXCEPT ![p] = l]
       /\ refs' = [refs EXCEPT ![l] = 0]
       /\ owner' = [owner EXCEPT ![l] = NoProc]

Make(p, i) ==
  /\ locks[i] = NoLock
  /\ \E l \in Locks :
       /\ Fresh(l)
       /\ locks' = [locks EXCEPT ![i] = l]
       /\ lock' = [lock EXCEPT ![p] = l]
       /\ refs' = [refs EXCEPT ![l] = 1]
       /\ owner' = [owner EXCEPT ![l] = NoProc]

Enter(p, i) ==
  /\ pc[p] = "idle"
  /\ pc' = [pc EXCEPT ![p] = "waiting"]
  /\ id' = [id EXCEPT ![p] = i]
  /\ Find(p, i) \/ Make(p, i)

\* Mutant: a mutex that does not wait.
AcquireAnyway(p) ==
  /\ pc[p] = "waiting"
  /\ owner' = [owner EXCEPT ![lock[p]] = p]
  /\ pc' = [pc EXCEPT ![p] = "holding"]
  /\ UNCHANGED <<locks, refs, id, lock>>

\* l.mu.Lock()
Acquire(p) ==
  /\ pc[p] = "waiting"
  /\ owner[lock[p]] = NoProc
  /\ owner' = [owner EXCEPT ![lock[p]] = p]
  /\ pc' = [pc EXCEPT ![p] = "holding"]
  /\ UNCHANGED <<locks, refs, id, lock>>

\* Mutant: the reference is dropped, the mutex stays locked.
UnlockForgotten(p) ==
  /\ pc[p] = "holding"
  /\ pc' = [pc EXCEPT ![p] = "releasing"]
  /\ UNCHANGED <<locks, refs, owner, id, lock>>

\* l.mu.Unlock()
Unlock(p) ==
  /\ pc[p] = "holding"
  /\ owner' = [owner EXCEPT ![lock[p]] = NoProc]
  /\ pc' = [pc EXCEPT ![p] = "releasing"]
  /\ UNCHANGED <<locks, refs, id, lock>>

\* Mutants: the entry is deleted whoever else uses it, or never.
DropDeletes(p) ==
  /\ pc[p] = "releasing"
  /\ refs' = [refs EXCEPT ![lock[p]] = @ - 1]
  /\ locks' = [locks EXCEPT ![id[p]] = NoLock]
  /\ pc' = [pc EXCEPT ![p] = "idle"]
  /\ UNCHANGED <<owner, id, lock>>

DropKeeps(p) ==
  /\ pc[p] = "releasing"
  /\ refs' = [refs EXCEPT ![lock[p]] = @ - 1]
  /\ pc' = [pc EXCEPT ![p] = "idle"]
  /\ UNCHANGED <<locks, owner, id, lock>>

\* The second block under h.mu: the last user deletes the entry of its id.
Drop(p) ==
  /\ pc[p] = "releasing"
  /\ refs' = [refs EXCEPT ![lock[p]] = @ - 1]
  /\ locks' = IF refs'[lock[p]] = 0 THEN [locks EXCEPT ![id[p]] = NoLock] ELSE locks
  /\ pc' = [pc EXCEPT ![p] = "idle"]
  /\ UNCHANGED <<owner, id, lock>>

Step(p) == Acquire(p) \/ Unlock(p) \/ Drop(p)

Next == \E p \in Procs : Step(p) \/ \E i \in Ids : Enter(p, i)

Spec == Init /\ [][Next]_vars

(***************************************************************************)
(* A process that holds a lock goes on to release it, and sync.Mutex lets  *)
(* no waiter starve (its starvation mode hands the lock over after 1ms).   *)
(***************************************************************************)
Fairness ==
  \A p \in Procs : SF_vars(Acquire(p)) /\ WF_vars(Unlock(p)) /\ WF_vars(Drop(p))

FairSpec == Spec /\ Fairness

-----------------------------------------------------------------------------
Holding(i) == {p \in Procs : pc[p] = "holding" /\ id[p] = i}

\* Two handlers are never inside the lock of the same game, although lock
\* objects for one game come and go while they arrive and leave.
MutualExclusion == \A i \in Ids : \A p, q \in Holding(i) : p = q

(***************************************************************************)
(* The map holds a lock for exactly the games somebody uses, with the      *)
(* right count, so that no entry leaks and none is deleted under a waiter. *)
(***************************************************************************)
NoLeak ==
  \A i \in Ids :
    /\ locks[i] = NoLock <=> Callers[i] = {}
    /\ locks[i] # NoLock => refs[locks[i]] = Cardinality(Callers[i])

\* Every process that asks for a game's lock gets it.
Served == \A p \in Procs : pc[p] = "waiting" ~> pc[p] = "holding"

M == INSTANCE Mutex WITH holders <- [i \in Ids |-> Holding(i)]

\* lockGame is a mutex per game ID.
ImplementsMutex == M!Spec

-----------------------------------------------------------------------------
(***************************************************************************)
(* The inductive invariant behind these properties: every user of a game   *)
(* holds the object the map has, games do not share objects, the counter   *)
(* is exact, and a mutex is owned by exactly the process that is inside.   *)
(***************************************************************************)
SameObject == \A p \in Procs : pc[p] # "idle" => locks[id[p]] = lock[p]

OwnObject ==
  \A i, j \in Ids : locks[i] = locks[j] /\ locks[i] # NoLock => i = j

CountExact ==
  \A i \in Ids : locks[i] # NoLock =>
    /\ refs[locks[i]] = Cardinality(Users[locks[i]])
    /\ Users[locks[i]] # {}

OwnerInside ==
  \A p \in Procs : pc[p] = "holding" => owner[lock[p]] = p

IInv == TypeOK /\ SameObject /\ OwnObject /\ CountExact /\ OwnerInside
=============================================================================

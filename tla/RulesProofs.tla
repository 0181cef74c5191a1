----------------------------- MODULE RulesProofs -----------------------------
(***************************************************************************)
(* Lemmas about package rules, for the proofs about games and the hub.     *)
(***************************************************************************)
EXTENDS Rules, TLAPS

USE DEF Pending

-----------------------------------------------------------------------------
(* The transitions of package rules map states to states.                   *)

LEMMA NewStateType == NewState \in State
  BY DEF NewState, State, Statuses, GameStates, Outcomes, Moves, Throws, Seats

LEMMA ResolveType ==
  ASSUME NEW host \in Throws, NEW guest \in Throws
  PROVE  Resolve(host, guest) \in Outcomes
  BY DEF Resolve, Outcomes

LEMMA OtherType ==
  ASSUME NEW seat \in Seats
  PROVE  Other(seat) \in Seats /\ Other(seat) # seat /\ Seats = {seat, Other(seat)}
  BY DEF Other, Seats

LEMMA SettleType ==
  ASSUME NEW s \in State, NEW outcome \in Outcomes
  PROVE  /\ Settle(s, outcome) \in State
         /\ Settle(s, outcome).move = s.move
         /\ Settle(s, outcome).gameState = outcome
         /\ Settle(s, outcome).status = "COMPLETE"
  <1> DEFINE wins  == [seat \in Seats |->
                         IF outcome = Won(seat) THEN s.wins[seat] + 1 ELSE s.wins[seat]]
             draws == IF outcome = "DRAW" THEN s.draws + 1 ELSE s.draws
  <1>1. wins \in [Seats -> Nat]
    BY DEF State
  <1>2. draws \in Nat
    BY DEF State
  <1>3. Settle(s, outcome) =
          [s EXCEPT !.gameState = outcome, !.wins = wins, !.draws = draws,
                    !.status = "COMPLETE"]
    BY DEF Settle
  <1> HIDE DEF wins, draws
  <1> QED
    BY <1>1, <1>2, <1>3 DEF State, Statuses, GameStates

LEMMA JoinType == ASSUME NEW s \in State PROVE Join(s) \in State
  BY DEF Join, State, Statuses

LEMMA RematchType ==
  ASSUME NEW s \in State, NEW seat \in Seats
  PROVE  Rematch(s, seat) \in State
  BY DEF Rematch, Accepts, IssuedBy, State, Statuses, GameStates, Moves, Seats

LEMMA DeclineType == ASSUME NEW s \in State PROVE DeclineRematch(s) \in State
  BY DEF DeclineRematch, State, Statuses

LEMMA CloseType == ASSUME NEW s \in State PROVE Close(s) \in State
  BY DEF Close, State, Statuses

LEMMA LockedType ==
  ASSUME NEW s \in State, NEW seat \in Seats, NEW m \in Throws
  PROVE  /\ Locked(s, seat, m) \in State
         /\ Locked(s, seat, m).status = s.status
         /\ Locked(s, seat, m).gameState = s.gameState
         /\ Locked(s, seat, m).move = [s.move EXCEPT ![seat] = m]
  <1> DEFINE move == [s.move EXCEPT ![seat] = m]
  <1>1. move \in [Seats -> Moves]
    BY DEF State, Moves
  <1>2. Locked(s, seat, m) = [s EXCEPT !.move = move]
    BY DEF Locked
  <1> HIDE DEF move
  <1>3. /\ Locked(s, seat, m) \in State
        /\ Locked(s, seat, m).status = s.status
        /\ Locked(s, seat, m).gameState = s.gameState
        /\ Locked(s, seat, m).move = move
    BY <1>1, <1>2 DEF State
  <1> QED
    BY <1>3 DEF move

\* A transition of package rules changes a state in one of these two ways:
\* it locks a throw in, or it locks the second one in and settles.
LEMMA PlayMoveType ==
  ASSUME NEW s \in State, NEW seat \in Seats, NEW m \in Throws
  PROVE  PlayMove(s, seat, m) \in State
  <1> DEFINE t == Locked(s, seat, m)
  <1>1. t \in State
    BY LockedType
  <1>2. CASE Thrown(t) # Seats
    BY <1>1, <1>2 DEF PlayMove
  <1>3. CASE Thrown(t) = Seats
    <2>1. t.move["HOST"] \in Throws /\ t.move["GUEST"] \in Throws
      BY <1>1, <1>3 DEF Thrown, Seats, State, Moves
    <2>2. Resolve(t.move["HOST"], t.move["GUEST"]) \in Outcomes
      BY <2>1, ResolveType
    <2>3. PlayMove(s, seat, m) = Settle(t, Resolve(t.move["HOST"], t.move["GUEST"]))
      BY <1>3 DEF PlayMove
    <2> QED
      BY <1>1, <2>2, <2>3, SettleType
  <1> QED
    BY <1>2, <1>3

\* A round goes on or ends; it is not closed by a throw.
LEMMA PlayMoveStatus ==
  ASSUME NEW s \in State, NEW seat \in Seats, NEW m \in Throws, s.status = "ACTIVE"
  PROVE  PlayMove(s, seat, m).status \in {"ACTIVE", "COMPLETE"}
  <1> DEFINE t == Locked(s, seat, m)
  <1>1. t \in State /\ t.status = "ACTIVE"
    BY LockedType
  <1>2. CASE Thrown(t) # Seats
    BY <1>1, <1>2 DEF PlayMove
  <1>3. CASE Thrown(t) = Seats
    <2>1. t.move["HOST"] \in Throws /\ t.move["GUEST"] \in Throws
      BY <1>1, <1>3 DEF Thrown, Seats, State, Moves
    <2>2. Resolve(t.move["HOST"], t.move["GUEST"]) \in Outcomes
      BY <2>1, ResolveType
    <2>3. PlayMove(s, seat, m) = Settle(t, Resolve(t.move["HOST"], t.move["GUEST"]))
      BY <1>3 DEF PlayMove
    <2> QED
      BY <1>1, <2>2, <2>3, SettleType
  <1> QED
    BY <1>2, <1>3
=============================================================================

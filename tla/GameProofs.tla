----------------------------- MODULE GameProofs -----------------------------
(***************************************************************************)
(* Proofs about the life of one game, for every bound on its rounds.       *)
(***************************************************************************)
EXTENDS Game, RulesProofs

USE DEF Pending, Exists

-----------------------------------------------------------------------------
LEMMA TypeStep == TypeOK /\ [Next]_vars => TypeOK'
  <1> SUFFICES ASSUME TypeOK, [Next]_vars PROVE TypeOK'
    OBVIOUS
  <1>1. CASE Create
    BY <1>1, NewStateType DEF Create, TypeOK
  <1>2. CASE JoinGuest
    BY <1>2, JoinType DEF JoinGuest, TypeOK
  <1>3. CASE Leave
    BY <1>3, CloseType DEF Leave, TypeOK
  <1>4. CASE Expire
    BY <1>4 DEF Expire, TypeOK
  <1>5. ASSUME NEW seat \in Seats, NEW m \in Throws, Move(seat, m) PROVE TypeOK'
    BY <1>5, PlayMoveType DEF Move, TypeOK
  <1>6. ASSUME NEW seat \in Seats, PlayAgain(seat) PROVE TypeOK'
    BY <1>6, RematchType DEF PlayAgain, TypeOK
  <1>7. ASSUME NEW seat \in Seats, Decline(seat) PROVE TypeOK'
    BY <1>7, DeclineType DEF Decline, TypeOK
  <1>8. CASE UNCHANGED vars
    BY <1>8 DEF vars, TypeOK
  <1> QED
    BY <1>1, <1>2, <1>3, <1>4, <1>5, <1>6, <1>7, <1>8 DEF Next, SeatNext

(***************************************************************************)
(* The row of a game is always a well-formed rules.State, for any number   *)
(* of rounds (scanGame would otherwise load something the rules were not   *)
(* written for).                                                           *)
(***************************************************************************)
THEOREM TypeCorrect == Spec => []TypeOK
  <1>1. Init => TypeOK
    BY DEF Init, TypeOK
  <1> QED
    BY <1>1, TypeStep, PTL DEF Spec

-----------------------------------------------------------------------------
(* Each transition of package rules keeps a state consistent.               *)

LEMMA NewStateConsistent == Consistent(NewState)
  BY DEF NewState, Consistent, Thrown, RematchIssuer, IssuedBy, RoundsPlayed, Seats

LEMMA JoinConsistent ==
  ASSUME NEW s \in State, Consistent(s), CanJoin(s)
  PROVE  Consistent(Join(s))
  BY DEF State, Join, CanJoin, Consistent, Thrown, RematchIssuer, IssuedBy, Seats

LEMMA CloseConsistent ==
  ASSUME NEW s \in State, Consistent(s)
  PROVE  Consistent(Close(s))
  BY DEF State, Close, Consistent, Thrown, RematchIssuer, IssuedBy, Seats

LEMMA DeclineConsistent ==
  ASSUME NEW s \in State, Consistent(s), NEW seat \in Seats, CanDeclineRematch(s, seat)
  PROVE  Consistent(DeclineRematch(s))
  <1>1. RematchIssuer(s) # {}
    BY DEF CanDeclineRematch
  <1> QED
    BY <1>1 DEF State, DeclineRematch, Consistent, Thrown, RematchIssuer, IssuedBy, Seats

LEMMA RematchConsistent ==
  ASSUME NEW s \in State, Consistent(s), NEW seat \in Seats, CanRematch(s, seat)
  PROVE  Consistent(Rematch(s, seat))
  <1>1. CASE Accepts(s)
    BY <1>1 DEF State, Rematch, Consistent, Thrown, RematchIssuer, IssuedBy, Seats
  <1>2. CASE ~ Accepts(s)
    BY <1>2 DEF Accepts, State, Rematch, Consistent, Thrown, RematchIssuer, IssuedBy, Seats
  <1> QED
    BY <1>1, <1>2

\* Locking a throw in adds exactly the seat to those that have thrown.
LEMMA LockedThrown ==
  ASSUME NEW s \in State, NEW seat \in Seats, NEW m \in Throws
  PROVE  Thrown(Locked(s, seat, m)) = Thrown(s) \cup {seat}
  <1>1. m # Pending
    BY DEF Throws
  <1>2. /\ s.move \in [Seats -> Moves]
        /\ Locked(s, seat, m).move = [s.move EXCEPT ![seat] = m]
    BY LockedType DEF State
  <1>3. \A x \in Seats :
          Locked(s, seat, m).move[x] # Pending <=> x = seat \/ s.move[x] # Pending
    BY <1>1, <1>2
  <1> QED
    BY <1>3 DEF Thrown

LEMMA PlayMoveConsistent ==
  ASSUME NEW s \in State, Consistent(s), NEW seat \in Seats, NEW m \in Throws,
         CanPlayMove(s, seat, m)
  PROVE  Consistent(PlayMove(s, seat, m))
  <1> DEFINE t == Locked(s, seat, m)
             outcome == Resolve(t.move["HOST"], t.move["GUEST"])
  <1>1. /\ t \in State
        /\ t.status = "ACTIVE"
        /\ t.gameState = s.gameState
    BY LockedType DEF CanPlayMove
  <1>2. s.gameState = "WAITING_FOR_MOVES"
    BY DEF Consistent, CanPlayMove
  <1>3. CASE Thrown(t) # Seats
    <2>1. PlayMove(s, seat, m) = t
      BY <1>3 DEF PlayMove
    <2>2. RematchIssuer(t) = {}
      BY <1>1 DEF RematchIssuer, IssuedBy
    <2> QED
      BY <1>1, <1>2, <1>3, <2>1, <2>2 DEF Consistent
  <1>4. CASE Thrown(t) = Seats
    <2>1. t.move["HOST"] \in Throws /\ t.move["GUEST"] \in Throws
      BY <1>1, <1>4 DEF Thrown, Seats, State, Moves
    <2>2. outcome \in Outcomes
      BY <2>1, ResolveType
    <2>3. PlayMove(s, seat, m) = Settle(t, outcome)
      BY <1>4 DEF PlayMove
    <2>4. /\ Settle(t, outcome).move = t.move
          /\ Settle(t, outcome).gameState = outcome
          /\ Settle(t, outcome).status = "COMPLETE"
      BY <1>1, <2>2, SettleType
    <2>5. Thrown(Settle(t, outcome)) = Seats
      BY <1>4, <2>4 DEF Thrown
    <2> QED
      BY <2>3, <2>4, <2>5 DEF Consistent
  <1> QED
    BY <1>3, <1>4

-----------------------------------------------------------------------------
(***************************************************************************)
(* status, game_state, the throws and the counters of a row always agree,  *)
(* for any number of rounds.  The property is inductive once the type of   *)
(* the row is known.                                                       *)
(***************************************************************************)
IInv == TypeOK /\ RoundConsistent

THEOREM RoundsConsistent == Spec => []RoundConsistent
  <1>1. Init => IInv
    BY DEF Init, IInv, TypeOK, RoundConsistent
  <1>2. IInv /\ [Next]_vars => RoundConsistent'
    <2> SUFFICES ASSUME IInv, [Next]_vars PROVE RoundConsistent'
      OBVIOUS
    <2> USE DEF IInv, TypeOK, RoundConsistent
    <2>1. CASE Create
      BY <2>1, NewStateConsistent DEF Create
    <2>2. CASE JoinGuest
      BY <2>2, JoinConsistent DEF JoinGuest
    <2>3. CASE Leave
      BY <2>3, CloseConsistent DEF Leave
    <2>4. CASE Expire
      BY <2>4 DEF Expire
    <2>5. ASSUME NEW seat \in Seats, NEW m \in Throws, Move(seat, m)
          PROVE  RoundConsistent'
      BY <2>5, PlayMoveConsistent DEF Move
    <2>6. ASSUME NEW seat \in Seats, PlayAgain(seat) PROVE RoundConsistent'
      BY <2>6, RematchConsistent DEF PlayAgain
    <2>7. ASSUME NEW seat \in Seats, Decline(seat) PROVE RoundConsistent'
      BY <2>7, DeclineConsistent DEF Decline
    <2>8. CASE UNCHANGED vars
      BY <2>8 DEF vars
    <2> QED
      BY <2>1, <2>2, <2>3, <2>4, <2>5, <2>6, <2>7, <2>8 DEF Next, SeatNext
  <1>3. IInv /\ [Next]_vars => TypeOK'
    BY TypeStep DEF IInv
  <1> QED
    BY <1>1, <1>2, <1>3, PTL DEF Spec, IInv

(***************************************************************************)
(* Nobody sees the opponent's throw before throwing: a visible throw means *)
(* a game that is not ACTIVE, and in such a game either both throws are in *)
(* or (waiting for its guest) none, unless it is closed.                   *)
(***************************************************************************)
THEOREM NobodyPeeks == Spec => []NoPeeking
  <1>1. TypeOK /\ RoundConsistent => NoPeeking
    <2> SUFFICES ASSUME TypeOK, RoundConsistent, Exists, game.status # "CLOSED",
                        NEW seat \in Seats,
                        VisibleMove(game, seat, Other(seat)) # Pending
                 PROVE  seat \in Thrown(game)
      BY DEF NoPeeking
    <2>1. game \in State /\ Consistent(game)
      BY DEF TypeOK, RoundConsistent
    <2>2. game.status # "ACTIVE" /\ Other(seat) \in Thrown(game)
      BY OtherType DEF VisibleMove, Thrown
    <2>3. \/ game.status \in {"COMPLETE", "WAITING_FOR_GUEST_TO_JOIN"}
          \/ RematchIssuer(game) # {}
      BY <2>1, <2>2 DEF State, Statuses, RematchIssuer, IssuedBy, Seats
    <2>4. Thrown(game) = Seats
      BY <2>1, <2>2, <2>3 DEF Consistent
    <2> QED
      BY <2>4
  <1> QED
    BY <1>1, TypeCorrect, RoundsConsistent, PTL

-----------------------------------------------------------------------------
(* What a throw does to the rest of the row, when it waits for the other    *)
(* one and when it settles the round.                                       *)

LEMMA PointsType ==
  ASSUME NEW s \in State, NEW o \in Outcomes
  PROVE  Points(s, o) \in Nat
  BY DEF Points, State, Seats

LEMMA SettlePoints ==
  ASSUME NEW s \in State, NEW outcome \in Outcomes, NEW o \in Outcomes
  PROVE  Points(Settle(s, outcome), o) =
           Points(s, o) + IF o = outcome THEN 1 ELSE 0
  <1> DEFINE wins  == [seat \in Seats |->
                         IF outcome = Won(seat) THEN s.wins[seat] + 1 ELSE s.wins[seat]]
             draws == IF outcome = "DRAW" THEN s.draws + 1 ELSE s.draws
  <1>1. Settle(s, outcome) =
          [s EXCEPT !.gameState = outcome, !.wins = wins, !.draws = draws,
                    !.status = "COMPLETE"]
    BY DEF Settle
  <1>2. /\ wins["HOST"] = s.wins["HOST"] + IF outcome = "HOST_WON" THEN 1 ELSE 0
        /\ wins["GUEST"] = s.wins["GUEST"] + IF outcome = "GUEST_WON" THEN 1 ELSE 0
        /\ draws = s.draws + IF outcome = "DRAW" THEN 1 ELSE 0
    BY DEF Won, Seats, State
  <1> HIDE DEF wins, draws
  <1>3. Settle(s, outcome).wins = wins /\ Settle(s, outcome).draws = draws
    BY <1>1 DEF State
  <1> QED
    BY <1>2, <1>3 DEF Points, Outcomes

LEMMA PlayMoveWaits ==
  ASSUME NEW s \in State, NEW seat \in Seats, NEW m \in Throws,
         Thrown(s) \cup {seat} # Seats
  PROVE  PlayMove(s, seat, m) = Locked(s, seat, m)
  BY LockedThrown DEF PlayMove

LEMMA PlayMoveSettles ==
  ASSUME NEW s \in State, NEW seat \in Seats, NEW m \in Throws,
         Thrown(s) \cup {seat} = Seats
  PROVE  \E outcome \in Outcomes :
           PlayMove(s, seat, m) = Settle(Locked(s, seat, m), outcome)
  <1> DEFINE t == Locked(s, seat, m)
             outcome == Resolve(t.move["HOST"], t.move["GUEST"])
  <1>1. t \in State /\ Thrown(t) = Seats
    BY LockedType, LockedThrown
  <1>2. t.move["HOST"] \in Throws /\ t.move["GUEST"] \in Throws
    BY <1>1 DEF Thrown, Seats, State, Moves
  <1>3. outcome \in Outcomes
    BY <1>2, ResolveType
  <1>4. PlayMove(s, seat, m) = Settle(t, outcome)
    BY <1>1 DEF PlayMove
  <1> QED
    BY <1>3, <1>4

\* Either way nobody else's throw changes, and a point is added for the
\* round that ended, if one did.
LEMMA PlayMoveThrows ==
  ASSUME NEW s \in State, NEW seat \in Seats, NEW m \in Throws
  PROVE  /\ PlayMove(s, seat, m).move = [s.move EXCEPT ![seat] = m]
         /\ Thrown(PlayMove(s, seat, m)) = Thrown(s) \cup {seat}
  <1> DEFINE t == PlayMove(s, seat, m)
             l == Locked(s, seat, m)
  <1>1. /\ l \in State
        /\ l.move = [s.move EXCEPT ![seat] = m]
        /\ Thrown(l) = Thrown(s) \cup {seat}
    BY LockedType, LockedThrown
  <1>2. t.move = l.move
    <2>1. CASE Thrown(s) \cup {seat} # Seats
      BY <2>1, PlayMoveWaits
    <2>2. CASE Thrown(s) \cup {seat} = Seats
      BY <1>1, <2>2, PlayMoveSettles, SettleType
    <2> QED
      BY <2>1, <2>2
  <1>3. Thrown(t) = Thrown(l)
    BY <1>2 DEF Thrown
  <1> QED
    BY <1>1, <1>2, <1>3

LEMMA PlayMovePoints ==
  ASSUME NEW s \in State, NEW seat \in Seats, NEW m \in Throws, NEW o \in Outcomes
  PROVE  \/ /\ Thrown(s) \cup {seat} = Seats
            /\ PlayMove(s, seat, m).status = "COMPLETE"
            /\ PlayMove(s, seat, m).gameState \in Outcomes
            /\ Points(PlayMove(s, seat, m), o) =
                 IF o = PlayMove(s, seat, m).gameState THEN Points(s, o) + 1
                 ELSE Points(s, o)
         \/ /\ Thrown(s) \cup {seat} # Seats
            /\ PlayMove(s, seat, m).status = s.status
            /\ Points(PlayMove(s, seat, m), o) = Points(s, o)
  <1> DEFINE t == PlayMove(s, seat, m)
             l == Locked(s, seat, m)
  <1>1. l \in State /\ l.status = s.status
    BY LockedType
  <1>2. Points(l, o) = Points(s, o) /\ Points(s, o) \in Nat
    <2>1. l.wins = s.wins /\ l.draws = s.draws
      BY DEF Locked, State
    <2> QED
      BY <2>1, PointsType DEF Points
  <1>3. CASE Thrown(s) \cup {seat} # Seats
    BY <1>1, <1>2, <1>3, PlayMoveWaits
  <1>4. CASE Thrown(s) \cup {seat} = Seats
    <2>1. PICK outcome \in Outcomes : t = Settle(l, outcome)
      BY <1>4, PlayMoveSettles
    <2>2. t.gameState = outcome /\ t.status = "COMPLETE"
      BY <1>1, <2>1, SettleType
    <2>3. Points(t, o) = Points(l, o) + IF o = outcome THEN 1 ELSE 0
      BY <1>1, <2>1, SettlePoints
    <2>4. Points(t, o) = IF o = t.gameState THEN Points(s, o) + 1 ELSE Points(s, o)
      BY <1>2, <2>2, <2>3
    <2> QED
      BY <1>4, <2>2, <2>4
  <1> QED
    BY <1>3, <1>4

\* The other transitions never touch a throw, except the acceptance of a
\* rematch, which clears both, and none touches a counter.
LEMMA QuietEffect ==
  ASSUME NEW s \in State, NEW t \in {Join(s), Close(s), DeclineRematch(s)}
  PROVE  /\ Thrown(t) = Thrown(s) /\ t.move = s.move
         /\ \A o \in Outcomes : Points(t, o) = Points(s, o)
  <1>1. t.move = s.move /\ t.wins = s.wins /\ t.draws = s.draws
    BY DEF Join, Close, DeclineRematch, State
  <1> QED
    BY <1>1 DEF Thrown, Points

LEMMA RematchEffect ==
  ASSUME NEW s \in State, NEW seat \in Seats
  PROVE  LET t == Rematch(s, seat)
         IN  /\ \A o \in Outcomes : Points(t, o) = Points(s, o)
             /\ IF Accepts(s) THEN t.status = "ACTIVE" /\ Thrown(t) = {}
                ELSE /\ t.status = IssuedBy(seat)
                     /\ t.move = s.move /\ Thrown(t) = Thrown(s)
  <1> DEFINE t == Rematch(s, seat)
             none == [x \in Seats |-> Pending]
  <1>1. CASE Accepts(s)
    <2>1. t = [s EXCEPT !.status = "ACTIVE", !.gameState = "WAITING_FOR_MOVES", !.move = none]
      BY <1>1 DEF Rematch
    <2>2. /\ t.wins = s.wins /\ t.draws = s.draws /\ t.status = "ACTIVE"
          /\ t.move = none
      BY <2>1 DEF State
    <2> QED
      BY <1>1, <2>2 DEF Points, Thrown
  <1>2. CASE ~ Accepts(s)
    <2>1. /\ t.wins = s.wins /\ t.draws = s.draws /\ t.status = IssuedBy(seat)
          /\ t.move = s.move
      BY <1>2 DEF Rematch, State
    <2> QED
      BY <1>2, <2>1 DEF Points, Thrown
  <1> QED
    BY <1>1, <1>2

LEMMA NewStateEffect ==
  /\ Thrown(NewState) = {}
  /\ \A o \in Outcomes : Points(NewState, o) = 0
  BY DEF NewState, Thrown, Points, Outcomes, Seats

-----------------------------------------------------------------------------
(***************************************************************************)
(* A throw once locked in is never changed or withdrawn within its round.  *)
(***************************************************************************)
THEOREM ThrowsAreFinal == Spec => ThrowsFinal
  <1>1. TypeOK /\ [Next]_vars => [KeepsThrows]_vars
    <2> SUFFICES ASSUME TypeOK, Next, Exists, game' # Deleted,
                        NEW seat \in Seats, game.move[seat] # Pending,
                        game'.move[seat] # game.move[seat]
                 PROVE  /\ RematchIssuer(game) # {}
                        /\ game'.status = "ACTIVE"
                        /\ Thrown(game') = {}
      BY DEF KeepsThrows, Thrown
    <2>1. game \in State /\ game # Absent
      BY DEF TypeOK
    <2>2. ~ Create /\ ~ Expire
      BY <2>1 DEF Create, Expire
    <2>3. ~ JoinGuest
      BY <2>1, QuietEffect DEF JoinGuest
    <2>4. ~ Leave
      BY <2>1, QuietEffect DEF Leave
    <2>5. ASSUME NEW x \in Seats, NEW m \in Throws, Move(x, m) PROVE FALSE
      <3>1. game.move \in [Seats -> Moves] /\ game.move[x] = Pending
        BY <2>1, <2>5 DEF State, Move, CanPlayMove
      <3>2. game'.move = [game.move EXCEPT ![x] = m]
        BY <2>1, <2>5, PlayMoveThrows DEF Move
      <3> QED
        BY <3>1, <3>2
    <2>6. ASSUME NEW x \in Seats, Decline(x) PROVE FALSE
      BY <2>1, <2>6, QuietEffect DEF Decline
    <2>7. PICK x \in Seats : PlayAgain(x)
      BY <2>2, <2>3, <2>4, <2>5, <2>6 DEF Next, SeatNext
    <2>8. Accepts(game)
      BY <2>1, <2>7, RematchEffect DEF PlayAgain
    <2>9. RematchIssuer(game) # {}
      BY <2>7, <2>8 DEF PlayAgain, CanRematch, Accepts
    <2> QED
      BY <2>1, <2>7, <2>8, <2>9, RematchEffect DEF PlayAgain
  <1> QED
    BY <1>1, TypeCorrect, PTL DEF Spec, ThrowsFinal

(***************************************************************************)
(* The counters count rounds.                                              *)
(***************************************************************************)
THEOREM CountersCountRounds == Spec => ScoreCountsRounds
  <1>1. IInv /\ IInv' /\ [Next]_vars => [CountsRound]_vars
    <2> SUFFICES ASSUME IInv, IInv', Next, Exists, game' # Deleted,
                        NEW o \in Outcomes
                 PROVE  Points(game', o) = Points(game, o)
                          + IF /\ game.status = "ACTIVE" /\ game'.status = "COMPLETE"
                               /\ o = game'.gameState THEN 1 ELSE 0
      BY DEF CountsRound
    <2>1. /\ game \in State /\ game # Absent /\ Consistent(game)
          /\ Points(game, o) \in Nat
      BY PointsType DEF IInv, TypeOK, RoundConsistent
    <2>2. ~ Create /\ ~ Expire
      BY <2>1 DEF Create, Expire
    <2>3. CASE JoinGuest
      BY <2>1, <2>3, QuietEffect DEF JoinGuest, CanJoin
    <2>4. CASE Leave
      <3>1. game'.status = "CLOSED"
        BY <2>1, <2>4 DEF Leave, Close, State
      <3> QED
        BY <2>1, <2>4, <3>1, QuietEffect DEF Leave
    <2>5. ASSUME NEW seat \in Seats, NEW m \in Throws, Move(seat, m)
          PROVE  Points(game', o) = Points(game, o)
                          + IF /\ game.status = "ACTIVE" /\ game'.status = "COMPLETE"
                               /\ o = game'.gameState THEN 1 ELSE 0
      <3> DEFINE t == PlayMove(game, seat, m)
      <3>1. game.status = "ACTIVE" /\ game' = t
        BY <2>5 DEF Move, CanPlayMove
      <3>2. \/ t.status = "COMPLETE" /\ Points(t, o) =
                 IF o = t.gameState THEN Points(game, o) + 1 ELSE Points(game, o)
            \/ t.status = game.status /\ Points(t, o) = Points(game, o)
        BY <2>1, PlayMovePoints
      <3> QED
        BY <2>1, <3>1, <3>2
    <2>6. ASSUME NEW seat \in Seats, PlayAgain(seat)
          PROVE  Points(game', o) = Points(game, o) /\ game.status # "ACTIVE"
      BY <2>1, <2>6, RematchEffect
         DEF PlayAgain, CanRematch, RematchIssuer, IssuedBy, Seats
    <2>7. ASSUME NEW seat \in Seats, Decline(seat)
          PROVE  Points(game', o) = Points(game, o) /\ game.status # "ACTIVE"
      BY <2>1, <2>7, QuietEffect
         DEF Decline, CanDeclineRematch, RematchIssuer, IssuedBy, Seats
    <2> QED
      BY <2>1, <2>2, <2>3, <2>4, <2>5, <2>6, <2>7 DEF Next, SeatNext
  <1> QED
    BY <1>1, TypeCorrect, RoundsConsistent, PTL DEF Spec, ScoreCountsRounds, IInv

-----------------------------------------------------------------------------
(* The refinement mapping, status by status.                                *)

LEMMA PhaseOf ==
  ASSUME NEW s \in State
  PROVE  /\ s.status = "WAITING_FOR_GUEST_TO_JOIN" => Phase(s) = "open"
         /\ s.status = "ACTIVE" => Phase(s) = "round"
         /\ s.status = "CLOSED" => Phase(s) = "over"
         /\ s.status \notin {"WAITING_FOR_GUEST_TO_JOIN", "ACTIVE", "CLOSED"}
              => Phase(s) = "between"
  BY GameAssumption DEF Phase

LEMMA MapOf ==
  ASSUME NEW s \in State
  PROVE  /\ Committed(s) = Thrown(s)
         /\ Asking(s) = RematchIssuer(s)
         /\ Score(s) = [o \in Outcomes |-> Points(s, o)]
  BY DEF Committed, Asking, Score

LEMMA MapOfNothing ==
  ASSUME NEW g \in {Absent, Deleted}
  PROVE  /\ Phase(g) = IF g = Absent THEN "absent" ELSE "deleted"
         /\ Committed(g) = {} /\ Asking(g) = {}
         /\ Score(g) = [o \in Outcomes |-> 0]
  BY GameAssumption DEF Phase, Committed, Asking, Score

\* Who asks for a rematch in each status.
LEMMA AskingOf ==
  ASSUME NEW s
  PROVE  /\ \A seat \in Seats : s.status = IssuedBy(seat) => RematchIssuer(s) = {seat}
         /\ s.status \notin {"HOST_ISSUED_REMATCH", "GUEST_ISSUED_REMATCH"}
              => RematchIssuer(s) = {}
  BY DEF RematchIssuer, IssuedBy, Seats

-----------------------------------------------------------------------------
(***************************************************************************)
(* Every step of the game is a step of Series, or leaves everything Series *)
(* sees unchanged.                                                         *)
(***************************************************************************)
LEMMA CreateOpens == Create => S!Open
  <1> SUFFICES ASSUME Create PROVE S!Open
    OBVIOUS
  <1>1. game = Absent /\ game' = NewState /\ game' \in State
    BY NewStateType DEF Create
  <1>2. Phase(game') = "open" /\ Asking(game') = {}
    BY <1>1, PhaseOf, MapOf, AskingOf DEF NewState
  <1>3. Committed(game') = {} /\ Score(game') = [o \in Outcomes |-> 0]
    BY <1>1, MapOf, NewStateEffect
  <1> QED
    BY <1>1, <1>2, <1>3, MapOfNothing DEF S!Open

LEMMA JoinBegins == TypeOK /\ JoinGuest => S!Begin
  <1> SUFFICES ASSUME TypeOK, JoinGuest PROVE S!Begin
    OBVIOUS
  <1>1. /\ game \in State /\ game' \in State /\ game' = Join(game)
        /\ game.status = "WAITING_FOR_GUEST_TO_JOIN" /\ game'.status = "ACTIVE"
    BY JoinType DEF TypeOK, JoinGuest, CanJoin, Join, State
  <1>2. Phase(game) = "open" /\ Phase(game') = "round"
    BY <1>1, PhaseOf
  <1>3. Asking(game) = {} /\ Asking(game') = {}
    BY <1>1, MapOf, AskingOf
  <1>4. Committed(game') = Committed(game) /\ Score(game') = Score(game)
    BY <1>1, MapOf, QuietEffect
  <1> QED
    BY <1>2, <1>3, <1>4 DEF S!Begin

LEMMA LeaveEnds == TypeOK /\ Leave => S!End
  <1> SUFFICES ASSUME TypeOK, Leave PROVE S!End
    OBVIOUS
  <1>1. /\ game \in State /\ game' \in State /\ game' = Close(game)
        /\ game.status # "CLOSED" /\ game'.status = "CLOSED"
    BY CloseType DEF TypeOK, Leave, CanClose, Close, State
  <1>2. Phase(game) \in {"open", "round", "between"} /\ Phase(game') = "over"
    BY <1>1, PhaseOf
  <1>3. Asking(game') = {}
    BY <1>1, MapOf, AskingOf
  <1>4. Committed(game') = Committed(game) /\ Score(game') = Score(game)
    BY <1>1, MapOf, QuietEffect
  <1> QED
    BY <1>2, <1>3, <1>4 DEF S!End

LEMMA ExpireForgets == TypeOK /\ Expire => S!Forget
  <1> SUFFICES ASSUME TypeOK, Expire PROVE S!Forget
    OBVIOUS
  <1>1. game \in State /\ game' = Deleted
    BY DEF TypeOK, Expire
  <1>2. Phase(game) \in {"open", "round", "over", "between"}
    BY <1>1, PhaseOf
  <1> QED
    BY <1>1, <1>2, MapOfNothing, GameAssumption DEF S!Forget

LEMMA MoveCommits ==
  ASSUME TypeOK, NEW seat \in Seats, NEW m \in Throws, Move(seat, m)
  PROVE  S!Commit(seat) \/ S!Settle(seat)
  <1> DEFINE t == PlayMove(game, seat, m)
  <1>1. /\ game \in State /\ t \in State /\ game' = t
        /\ game.status = "ACTIVE" /\ seat \notin Thrown(game)
    BY PlayMoveType DEF TypeOK, Move, CanPlayMove, Thrown
  <1>2. Phase(game) = "round" /\ Asking(game) = {}
    BY <1>1, PhaseOf, MapOf, AskingOf
  <1>3. /\ Committed(game) = Thrown(game)
        /\ Committed(t) = Thrown(game) \cup {seat}
    BY <1>1, MapOf, PlayMoveThrows
  <1>4. CASE Thrown(game) \cup {seat} # Seats
    <2>1. t.status = "ACTIVE"
      BY <1>1, <1>4, PlayMovePoints DEF Outcomes
    <2>2. \A o \in Outcomes : Points(t, o) = Points(game, o)
      BY <1>1, <1>4, PlayMovePoints
    <2>3. Score(t) = Score(game)
      BY <1>1, <2>2, MapOf
    <2>4. Phase(t) = "round" /\ Asking(t) = {}
      BY <1>1, <2>1, PhaseOf, MapOf, AskingOf
    <2> QED
      BY <1>1, <1>2, <1>3, <1>4, <2>3, <2>4 DEF S!Commit
  <1>5. CASE Thrown(game) \cup {seat} = Seats
    <2>1. t.status = "COMPLETE" /\ t.gameState \in Outcomes
      BY <1>1, <1>5, PlayMovePoints DEF Outcomes
    <2>2. \A o \in Outcomes :
            Points(t, o) = IF o = t.gameState THEN Points(game, o) + 1 ELSE Points(game, o)
      BY <1>1, <1>5, PlayMovePoints
    <2>3. Score(t) = [Score(game) EXCEPT ![t.gameState] = @ + 1]
      BY <1>1, <2>1, <2>2, MapOf
    <2>4. Phase(t) = "between" /\ Asking(t) = {}
      BY <1>1, <2>1, PhaseOf, MapOf, AskingOf
    <2> QED
      BY <1>1, <1>2, <1>3, <1>5, <2>1, <2>3, <2>4 DEF S!Settle
  <1> QED
    BY <1>4, <1>5

LEMMA PlayAgainAsks ==
  ASSUME TypeOK, NEW seat \in Seats, PlayAgain(seat)
  PROVE  S!Ask(seat) \/ S!Agree(seat)
  <1> DEFINE t == Rematch(game, seat)
  <1>1. /\ game \in State /\ t \in State /\ game' = t
        /\ CanRematch(game, seat)
    BY RematchType DEF TypeOK, PlayAgain
  <1>2. Score(t) = Score(game)
    BY <1>1, MapOf, RematchEffect
  <1>3. CASE Accepts(game)
    <2>1. RematchIssuer(game) = {Other(seat)}
      BY <1>1, <1>3 DEF Accepts, CanRematch
    <2>2. Asking(game) = Seats \ {seat}
      BY <1>1, <2>1, MapOf, OtherType
    <2>3. Phase(game) = "between"
      BY <1>1, <2>1, PhaseOf, AskingOf
    <2>4. t.status = "ACTIVE" /\ Thrown(t) = {}
      BY <1>1, <1>3, RematchEffect
    <2>5. Phase(t) = "round" /\ Committed(t) = {} /\ Asking(t) = {}
      BY <1>1, <2>4, PhaseOf, MapOf, AskingOf
    <2> QED
      BY <1>1, <1>2, <2>2, <2>3, <2>5 DEF S!Agree
  <1>4. CASE ~ Accepts(game)
    <2>1. Phase(game) = "between" /\ Asking(game) = {}
      BY <1>1, <1>4, PhaseOf, MapOf, AskingOf DEF Accepts
    <2>2. t.status = IssuedBy(seat) /\ Thrown(t) = Thrown(game)
      BY <1>1, <1>4, RematchEffect
    <2>3. Phase(t) = "between"
      BY <1>1, <2>2, PhaseOf DEF IssuedBy
    <2>4. Asking(t) = {seat} /\ Committed(t) = Committed(game)
      BY <1>1, <2>2, MapOf, AskingOf
    <2> QED
      BY <1>1, <1>2, <2>1, <2>3, <2>4 DEF S!Ask
  <1> QED
    BY <1>3, <1>4

LEMMA DeclineDeclines ==
  ASSUME TypeOK, NEW seat \in Seats, Decline(seat)
  PROVE  S!Decline(seat)
  <1>1. /\ game \in State /\ game' \in State /\ game' = DeclineRematch(game)
        /\ RematchIssuer(game) = {Other(seat)}
        /\ game'.status = "COMPLETE"
    BY DeclineType DEF TypeOK, Decline, CanDeclineRematch, DeclineRematch, State
  <1>2. Phase(game) = "between" /\ Asking(game) = Seats \ {seat}
    BY <1>1, PhaseOf, MapOf, AskingOf, OtherType
  <1>3. Phase(game') = "between" /\ Asking(game') = {}
    BY <1>1, PhaseOf, MapOf, AskingOf
  <1>4. Committed(game') = Committed(game) /\ Score(game') = Score(game)
    BY <1>1, MapOf, QuietEffect
  <1> QED
    BY <1>2, <1>3, <1>4 DEF S!Decline

(***************************************************************************)
(* The game keeps the promise of Series, for any number of rounds.         *)
(***************************************************************************)
THEOREM GameImplementsSeries == Spec => ImplementsSeries
  <1>1. Init => S!Init
    BY MapOfNothing DEF Init, S!Init
  <1>2. TypeOK /\ [Next]_vars => [S!Next]_(S!vars)
    <2> SUFFICES ASSUME TypeOK, [Next]_vars PROVE [S!Next]_(S!vars)
      OBVIOUS
    <2>1. CASE UNCHANGED vars
      BY <2>1 DEF vars, S!vars
    <2>2. CASE Create
      BY <2>2, CreateOpens DEF S!Next
    <2>3. CASE JoinGuest
      BY <2>3, JoinBegins DEF S!Next
    <2>4. CASE Leave
      BY <2>4, LeaveEnds DEF S!Next
    <2>5. CASE Expire
      BY <2>5, ExpireForgets DEF S!Next
    <2>6. ASSUME NEW seat \in Seats, NEW m \in Throws, Move(seat, m) PROVE S!Next
      BY <2>6, MoveCommits DEF S!Next
    <2>7. ASSUME NEW seat \in Seats, PlayAgain(seat) PROVE S!Next
      BY <2>7, PlayAgainAsks DEF S!Next
    <2>8. ASSUME NEW seat \in Seats, Decline(seat) PROVE S!Next
      BY <2>8, DeclineDeclines DEF S!Next
    <2> QED
      BY <2>1, <2>2, <2>3, <2>4, <2>5, <2>6, <2>7, <2>8 DEF Next, SeatNext
  <1> QED
    BY <1>1, <1>2, TypeCorrect, PTL DEF Spec, ImplementsSeries, S!Spec
=============================================================================

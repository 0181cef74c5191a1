------------------------------- MODULE Rules -------------------------------
(***************************************************************************)
(* Package rules (internal/rules/rules.go): the pure Rock-Paper-Scissors   *)
(* logic.  Each transition T of the package is split in two: CanT(s, ...)  *)
(* holds when T returns a nil error, and T(s, ...) is the state it then    *)
(* returns.  When T returns an error the caller keeps its old state.       *)
(***************************************************************************)
EXTENDS Naturals

Throws    == {"ROCK", "PAPER", "SCISSORS"}
Pending   == "PENDING"
Moves     == Throws \cup {Pending}
Statuses  == {"WAITING_FOR_GUEST_TO_JOIN", "ACTIVE", "COMPLETE",
              "HOST_ISSUED_REMATCH", "GUEST_ISSUED_REMATCH", "CLOSED"}
Outcomes  == {"HOST_WON", "GUEST_WON", "DRAW"}
GameStates == Outcomes \cup {"WAITING_FOR_MOVES"}
Seats     == {"HOST", "GUEST"}

\* Seat.Other.
Other(seat) == IF seat = "HOST" THEN "GUEST" ELSE "HOST"

\* The table `beats`: each throw and the throw it defeats.
Beats == [ROCK |-> "SCISSORS", SCISSORS |-> "PAPER", PAPER |-> "ROCK"]

Resolve(host, guest) ==
  IF host = guest THEN "DRAW"
  ELSE IF Beats[host] = guest THEN "HOST_WON" ELSE "GUEST_WON"

(***************************************************************************)
(* rules.State.  HostMove/GuestMove and HostWins/GuestWins are one         *)
(* function each, indexed by seat (State.MoveOf is s.move[seat]).          *)
(***************************************************************************)
State == [status: Statuses, gameState: GameStates,
          move: [Seats -> Moves], wins: [Seats -> Nat], draws: Nat]

NewState ==
  [status |-> "WAITING_FOR_GUEST_TO_JOIN", gameState |-> "WAITING_FOR_MOVES",
   move |-> [seat \in Seats |-> Pending], wins |-> [seat \in Seats |-> 0],
   draws |-> 0]

IssuedBy(seat) ==
  IF seat = "HOST" THEN "HOST_ISSUED_REMATCH" ELSE "GUEST_ISSUED_REMATCH"

\* RematchIssuer as a set: empty when it reports ok = false.
RematchIssuer(s) == {seat \in Seats : s.status = IssuedBy(seat)}

CanJoin(s) == s.status = "WAITING_FOR_GUEST_TO_JOIN"
Join(s)    == [s EXCEPT !.status = "ACTIVE"]

\* Mutant: a second throw in the same round is accepted.
CanPlayMoveAgain(s, seat, m) == m \in Throws /\ s.status = "ACTIVE"

(***************************************************************************)
(* PlayMove locks in seat's throw and, once both are in, resolves the      *)
(* round: outcome, one counter, COMPLETE.                                  *)
(***************************************************************************)
CanPlayMove(s, seat, m) ==
  /\ m \in Throws
  /\ s.status = "ACTIVE"
  /\ s.move[seat] = Pending

Won(seat) == IF seat = "HOST" THEN "HOST_WON" ELSE "GUEST_WON"

\* Mutant: a draw counts as a win of both.
SettleDrawForBoth(s, outcome) ==
  [s EXCEPT !.gameState = outcome,
            !.wins = [seat \in Seats |->
                        IF outcome \in {Won(seat), "DRAW"} THEN @[seat] + 1 ELSE @[seat]],
            !.status = "COMPLETE"]

Settle(s, outcome) ==
  [s EXCEPT !.gameState = outcome,
            !.wins = [seat \in Seats |-> IF outcome = Won(seat) THEN @[seat] + 1 ELSE @[seat]],
            !.draws  = IF outcome = "DRAW" THEN @ + 1 ELSE @,
            !.status = "COMPLETE"]

Locked(s, seat, m) == [s EXCEPT !.move[seat] = m]

Thrown(s) == {seat \in Seats : s.move[seat] # Pending}

PlayMove(s, seat, m) ==
  LET locked == Locked(s, seat, m)
  IN  IF Thrown(locked) # Seats THEN locked
      ELSE Settle(locked, Resolve(locked.move["HOST"], locked.move["GUEST"]))

\* Mutant: the issuer may accept its own rematch.
CanRematchAlone(s, seat) == s.status = "COMPLETE" \/ RematchIssuer(s) # {}

(***************************************************************************)
(* Rematch either issues a rematch from COMPLETE or accepts the one the    *)
(* opponent issued, which starts a new round and keeps the counters.       *)
(***************************************************************************)
CanRematch(s, seat) == s.status = "COMPLETE" \/ RematchIssuer(s) = {Other(seat)}

\* Mutant: asking for a rematch starts it.
AcceptsAtOnce(s) == TRUE

Accepts(s) == s.status # "COMPLETE"

\* Mutants: the outcome of the last round stays; the throws are cleared to
\* Go's zero value instead of PENDING.
RematchKeepsOutcome(s, seat) ==
  IF Accepts(s) THEN [s EXCEPT !.status = "ACTIVE", !.move = [x \in Seats |-> Pending]]
  ELSE [s EXCEPT !.status = IssuedBy(seat)]

RematchZeroed(s, seat) ==
  IF Accepts(s)
  THEN [s EXCEPT !.status = "ACTIVE", !.gameState = "WAITING_FOR_MOVES",
                 !.move = [x \in Seats |-> ""]]
  ELSE [s EXCEPT !.status = IssuedBy(seat)]

Rematch(s, seat) ==
  IF Accepts(s)
  THEN [s EXCEPT !.status = "ACTIVE", !.gameState = "WAITING_FOR_MOVES",
                 !.move = [x \in Seats |-> Pending]]
  ELSE [s EXCEPT !.status = IssuedBy(seat)]

CanDeclineRematch(s, seat) == RematchIssuer(s) = {Other(seat)}
DeclineRematch(s)          == [s EXCEPT !.status = "COMPLETE"]

\* rules.Close: leave, or the expiry of a player.
CanClose(s) == s.status # "CLOSED"
Close(s)    == [s EXCEPT !.status = "CLOSED"]

\* Mutant: the status is not looked at.
VisibleMoveAlways(s, viewer, owner) == s.move[owner]

(***************************************************************************)
(* VisibleMove: the throw of owner that a snapshot for viewer shows;       *)
(* Pending stands for a null move (ok = false).                            *)
(***************************************************************************)
VisibleMove(s, viewer, owner) ==
  IF viewer # owner /\ s.status = "ACTIVE" THEN Pending ELSE s.move[owner]

\* Rounds settled so far.
RoundsPlayed(s) == s.wins["HOST"] + s.wins["GUEST"] + s.draws
=============================================================================

-------------------------------- MODULE Game --------------------------------
(***************************************************************************)
(* The life of one stored game: the row of table games as the handlers of  *)
(* internal/hub change it, one action per transition of package rules.     *)
(* This is the game as the game lock makes it look: every action is one    *)
(* load, one call of rules and one save.  Module Hub models the handlers   *)
(* step by step and implements this module.                                *)
(***************************************************************************)
EXTENDS Rules, FiniteSets

CONSTANTS
  Absent,    \* the game has not been created
  Deleted,   \* the game has expired and its row is gone
  MaxRounds  \* bound: no rematch is accepted after so many rounds

ASSUME GameAssumption ==
  /\ Absent \notin State /\ Deleted \notin State /\ Absent # Deleted
  /\ MaxRounds \in Nat

VARIABLE game  \* Absent, Deleted, or the rules.State of the row

vars == game

Exists == game \notin {Absent, Deleted}

TypeOK == game \in State \cup {Absent, Deleted}

-----------------------------------------------------------------------------
Init == game = Absent

\* POST /games (store.CreateGame).
Create ==
  /\ game = Absent
  /\ game' = NewState

\* game::connect by the player who becomes the guest.
JoinGuest ==
  /\ Exists /\ CanJoin(game)
  /\ game' = Join(game)

\* game::move.
Move(seat, m) ==
  /\ Exists /\ CanPlayMove(game, seat, m)
  /\ game' = PlayMove(game, seat, m)

\* game::rematch, issuing or accepting.
PlayAgain(seat) ==
  /\ Exists /\ CanRematch(game, seat)
  /\ Accepts(game) => RoundsPlayed(game) < MaxRounds
  /\ game' = Rematch(game, seat)

\* game::rematch_decline.
Decline(seat) ==
  /\ Exists /\ CanDeclineRematch(game, seat)
  /\ game' = DeclineRematch(game)

\* game::leave, or the expiry of a player (closeForExpiredPlayer).
Leave ==
  /\ Exists /\ CanClose(game)
  /\ game' = Close(game)

\* ExpireGame: whatever its status, an inactive game is deleted.
Expire ==
  /\ Exists
  /\ game' = Deleted

SeatNext(seat) ==
  \/ \E m \in Throws : Move(seat, m)
  \/ PlayAgain(seat)
  \/ Decline(seat)

Next ==
  \/ Create \/ JoinGuest \/ Leave \/ Expire
  \/ \E seat \in Seats : SeatNext(seat)

Spec == Init /\ [][Next]_vars

-----------------------------------------------------------------------------
(***************************************************************************)
(* The four facets of a row (status, game_state, the two throws and the    *)
(* counters) are written by different transitions and always agree: an     *)
(* outcome is stored exactly when both throws are, it is the outcome of    *)
(* those throws, a game is ACTIVE only with a throw missing, COMPLETE or   *)
(* in a rematch only with both, and untouched while it waits.  A closed    *)
(* game keeps whichever of these it had.                                   *)
(***************************************************************************)
Consistent(s) ==
  /\ s.gameState = IF Thrown(s) = Seats
                   THEN Resolve(s.move["HOST"], s.move["GUEST"])
                   ELSE "WAITING_FOR_MOVES"
  /\ s.status = "ACTIVE" => Thrown(s) # Seats
  /\ s.status = "COMPLETE" \/ RematchIssuer(s) # {} => Thrown(s) = Seats
  /\ s.status = "WAITING_FOR_GUEST_TO_JOIN" => Thrown(s) = {} /\ RoundsPlayed(s) = 0

RoundConsistent == Exists => Consistent(game)

(***************************************************************************)
(* Nobody sees the opponent's throw before throwing, whatever sequence of  *)
(* rounds, rematches and refusals came first; only a closed game, where no *)
(* throw can follow, shows it (VisibleMove as snapshots use it).           *)
(***************************************************************************)
NoPeeking ==
  Exists =>
    \A seat \in Seats :
      VisibleMove(game, seat, Other(seat)) # Pending =>
        seat \in Thrown(game) \/ game.status = "CLOSED"

(***************************************************************************)
(* A throw once locked in is never changed or withdrawn within its round:  *)
(* a step that touches a stored throw is the acceptance of a rematch (or   *)
(* the deletion of the row), which clears both throws.                     *)
(***************************************************************************)
KeepsThrows ==
  Exists /\ game' # Deleted =>
    \A seat \in Thrown(game) :
      game'.move[seat] # game.move[seat] =>
        /\ RematchIssuer(game) # {}
        /\ game'.status = "ACTIVE"
        /\ Thrown(game') = {}

ThrowsFinal == [][KeepsThrows]_vars

(***************************************************************************)
(* The counters count rounds: they change in exactly the steps that        *)
(* complete a round, by one in all, in the counter of that round's         *)
(* outcome, and survive rematches and closing.                             *)
(***************************************************************************)
Points(s, outcome) ==
  CASE outcome = "HOST_WON"  -> s.wins["HOST"]
    [] outcome = "GUEST_WON" -> s.wins["GUEST"]
    [] OTHER                 -> s.draws

CountsRound ==
  Exists /\ game' # Deleted =>
    \A outcome \in Outcomes :
      Points(game', outcome) =
        Points(game, outcome)
          + IF /\ game.status = "ACTIVE" /\ game'.status = "COMPLETE"
               /\ outcome = game'.gameState THEN 1 ELSE 0

ScoreCountsRounds == [][CountsRound]_vars

-----------------------------------------------------------------------------
(***************************************************************************)
(* The refinement mapping to Series: the throws are forgotten, the six     *)
(* statuses become four phases and the seat that asks for a rematch.       *)
(***************************************************************************)
Phase(g) ==
  CASE g = Absent -> "absent"
    [] g = Deleted -> "deleted"
    [] g \in State /\ g.status = "WAITING_FOR_GUEST_TO_JOIN" -> "open"
    [] g \in State /\ g.status = "ACTIVE" -> "round"
    [] g \in State /\ g.status = "CLOSED" -> "over"
    [] OTHER -> "between"

Committed(g) == IF g \in State THEN Thrown(g) ELSE {}
Asking(g)    == IF g \in State THEN RematchIssuer(g) ELSE {}
Score(g)     == [o \in Outcomes |-> IF g \in State THEN Points(g, o) ELSE 0]

S == INSTANCE Series WITH
       phase     <- Phase(game),
       committed <- Committed(game),
       asking    <- Asking(game),
       score     <- Score(game)

\* The game keeps the promise of Series: the rules never skip a commitment,
\* settle twice, or start a round one of the players did not agree to.
ImplementsSeries == S!Spec
=============================================================================

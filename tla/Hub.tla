--------------------------------- MODULE Hub ---------------------------------
(***************************************************************************)
(* Package hub (internal/hub): live connections, their attachments to      *)
(* games, and the handlers of the client actions, run concurrently by one  *)
(* read goroutine per connection.  A step is what a handler does between   *)
(* two points where another goroutine can be noticed: an acquisition of a  *)
(* game lock, a block under h.mu, a transaction, a Close.                  *)
(*                                                                         *)
(* Game locks are atomic acquire and release (module GameLock shows that   *)
(* lockGame is that).  A block under the game lock that only reads, sends  *)
(* and edits attachments is one step: nothing it uses changes without      *)
(* that lock, except that a receiver may start closing.                    *)
(***************************************************************************)
EXTENDS Store

CONSTANTS
  Conns,      \* connections, each used once
  NoConn,     \* a nil *Conn
  NoGame,     \* c.gameID = ""
  Sweeper,    \* the sweeper's goroutine
  NoProc,     \* the holder of a free game lock
  Deleted,    \* a game that had a row once
  NoView,     \* a client that has been shown nothing of its game
  NoFrame,    \* the locals of a goroutine that runs no handler
  Login,      \* Login[c]: the player whose credentials the client at c has
  HostOf,     \* HostOf[g]: the player that created game g
  ClientThrows, \* the throws clients send
  ClientOps,  \* what else they ask for: "rematch", "decline", "leave"
  MaxRounds,  \* bound: no rematch is accepted after so many rounds
  MaxFaults   \* bound: how many statements of the store fail

ASSUME HubAssumption ==
  /\ NoConn \notin Conns /\ NoGame \notin Games
  /\ NoRow \notin State /\ Deleted \notin State
  /\ Sweeper \notin Conns /\ NoProc \notin Conns \cup {Sweeper}
  /\ Login \in [Conns -> Players] /\ HostOf \in [Games -> Players]
  /\ ClientThrows \subseteq Throws
  /\ ClientOps \subseteq {"rematch", "decline", "leave"}
  /\ MaxRounds \in Nat /\ MaxFaults \in Nat

Procs == Conns \cup {Sweeper}

VARIABLES
  conns,       \* h.conns
  playerConn,  \* h.players
  attached,    \* h.games
  conn,        \* the fields of each Conn
  lock,        \* the process inside each game's lock
  pc,          \* where each goroutine is
  fr,          \* its locals
  shown,       \* what the client at each connection was last told of its game
  faults       \* failed statements so far

connVars == <<conns, playerConn, attached, conn>>
procVars == <<pc, fr>>
hubVars  == <<storeVars, connVars, lock, procVars, shown, faults>>

\* Game actions: the handlers that withGame runs.
Ops == {"move", "rematch", "decline", "leave"}

Stages == {"unborn", "reading", "touch", "register", "replace", "detach", "detachLock",
           "connectLock", "connectSave", "connectAttach", "opLock", "opSave",
           "opNotify", "unregister", "gone"}

ConnFields ==
  [player: Players \cup {NoPlayer}, game: Games \cup {NoGame},
   seat: Seats \cup {NoSeat}, closing: BOOLEAN]

NewConn == [player |-> NoPlayer, game |-> NoGame, seat |-> NoSeat, closing |-> FALSE]

-----------------------------------------------------------------------------
(* Locals of a running handler.                                             *)

\* A handler for a game: the game, the action and its throw, the row to save.
Frame(op, throw, g) ==
  [op |-> op, throw |-> throw, game |-> g, row |-> NoRow,
   target |-> NoConn, from |-> NoGame, then |-> "", stamp |-> 0]

\* authenticate, which has read the clock at time t.
AuthFrame(t) ==
  [op |-> "authenticate", throw |-> Pending, game |-> NoGame, row |-> NoRow,
   target |-> NoConn, from |-> NoGame, then |-> "", stamp |-> t]

\* detach(target), called by a handler for game g that goes on at `then`;
\* `from` is its local gameID.
DetachFrame(target, then, g) ==
  [op |-> "detach", throw |-> Pending, game |-> g, row |-> NoRow,
   target |-> target, from |-> NoGame, then |-> then, stamp |-> 0]

Frames ==
  [op: Ops \cup {"authenticate", "connect", "detach", "expire"}, throw: Moves, game: Games \cup {NoGame},
   row: Row \cup {NoRow}, target: Conns \cup {NoConn}, from: Games \cup {NoGame},
   then: {"", "reading", "connectLock", "unregister", "deletePlayer"}, stamp: Times]

Goto(p, stage) == pc' = [pc EXCEPT ![p] = stage]

Keep(p, frame) == fr' = [fr EXCEPT ![p] = frame]

\* The handler returns to the read loop.
Return(p) == Goto(p, "reading") /\ Keep(p, NoFrame)

Free(g) == lock[g] = NoProc

\* Mutant: lockGame hands out a new mutex each time.
HoldNothing(g, p) == UNCHANGED lock

\* lockGame and its release.
Hold(g, p) == Free(g) /\ lock' = [lock EXCEPT ![g] = p]
Release(g) == lock' = [lock EXCEPT ![g] = NoProc]

\* A statement of the store fails (disk full, I/O error, busy timeout).  The
\* first load of a handler failing is the same as the handler not running.
Fault == faults < MaxFaults /\ faults' = faults + 1

-----------------------------------------------------------------------------
(* Attachments and messages.                                                *)

Live(c) == c \in conns /\ ~conn[c].closing

Attached(c, g, seat) ==
  /\ attached' = [attached EXCEPT ![g] = @ \cup {c}]
  /\ conn' = [conn EXCEPT ![c].game = g, ![c].seat = seat]

\* detachLocked, for every connection of cs, all of them attached to g.
Detached(cs, g) ==
  /\ attached' = [attached EXCEPT ![g] = @ \ cs]
  /\ conn' = [c \in Conns |->
                IF c \in cs THEN [conn[c] EXCEPT !.game = NoGame, !.seat = NoSeat]
                ELSE conn[c]]

Closed(c) == conn' = [conn EXCEPT ![c].closing = TRUE]

\* The seats that view finds connected, given the connections attached.
Up(row, cs) == {SeatOf(row, conn[c].player) : c \in {x \in cs : ~conn[x].closing}}

(***************************************************************************)
(* The players that view may find: it reads the two of the row one after   *)
(* the other, and one that has lost its row since the row was saved may    *)
(* have lost it after it was read.                                         *)
(***************************************************************************)
Finds(row) ==
  {players \cup late : late \in SUBSET ({row.who[seat] : seat \in Seats} \ {NoPlayer})}

\* view and gameView.For: what a client in seat `you` is shown.  A seat
\* whose player was not found is null.
Snapshot(g, row, you, cs, found) ==
  [game |-> g, you |-> you, status |-> row.st.status,
   gameState |-> row.st.gameState, draws |-> row.st.draws,
   player |-> [seat \in {s \in Seats : row.who[s] \in found} |->
                 [id     |-> row.who[seat],
                  up     |-> seat \in Up(row, cs),
                  locked |-> row.st.move[seat] # Pending,
                  wins   |-> row.st.wins[seat],
                  move   |-> VisibleMove(row.st, you, seat)]]]

\* What a client may have been shown: a null seat has no card.
Card == [id: Players, up: BOOLEAN, locked: BOOLEAN, wins: Nat, move: Moves]

Views ==
  [game: Games, you: Seats, status: Statuses, gameState: GameStates, draws: Nat,
   player: UNION {[seats -> Card] : seats \in SUBSET Seats}]

ASSUME ViewAssumption == NoView \notin Views

\* Every live connection of cs is told something; Tell(c) is what it knows then.
Send(cs, Tell(_)) ==
  shown' = [c \in Conns |-> IF c \in cs /\ ~conn[c].closing THEN Tell(c) ELSE shown[c]]

\* game::opponent_disconnected{seat} and game::closed, applied to a view.
WithDown(v, seat) ==
  IF v # NoView /\ seat \in DOMAIN v.player THEN [v EXCEPT !.player[seat].up = FALSE] ELSE v
WithClosed(v) == IF v # NoView THEN [v EXCEPT !.status = "CLOSED"] ELSE v

-----------------------------------------------------------------------------
(* Connecting, authenticating, being replaced.                              *)

\* The transport accepts a socket (ServeHTTP calls NewConn).
Accept(c) ==
  /\ pc[c] = "unborn"
  /\ conns' = conns \cup {c}
  /\ Goto(c, "reading")
  /\ UNCHANGED <<storeVars, playerConn, attached, conn, lock, fr, shown, faults>>

\* A client action arrives on c and Handle lets it in.
Handles(c) == pc[c] = "reading" /\ ~conn[c].closing

HandlesGame(c) == Handles(c) /\ conn[c].player # NoPlayer /\ conn[c].game # NoGame

\* player::authenticate: the checks up to TouchPlayer, and the clock.
Authenticate(c) ==
  /\ Handles(c)
  /\ conn[c].player = NoPlayer
  /\ Login[c] \in players
  /\ Goto(c, "touch") /\ Keep(c, AuthFrame(now))
  /\ UNCHANGED <<storeVars, connVars, lock, shown, faults>>

AuthTouch(c) ==
  /\ pc[c] = "touch"
  /\ \/ TouchPlayer(Login[c], fr[c].stamp) /\ Goto(c, "register") /\ UNCHANGED faults
     \/ Fault /\ Goto(c, "reading") /\ UNCHANGED storeVars
  /\ Keep(c, NoFrame)
  /\ UNCHANGED <<connVars, lock, shown>>

\* The block under h.mu: c becomes the player's connection.
Register(c) ==
  /\ pc[c] = "register"
  /\ LET p   == Login[c]
         old == playerConn[p]
     IN  /\ playerConn' = [playerConn EXCEPT ![p] = c]
         /\ conn' = [conn EXCEPT ![c].player = p]
         /\ IF old = NoConn THEN Return(c)
            ELSE Goto(c, "replace") /\ Keep(c, DetachFrame(old, "reading", NoGame))
  /\ UNCHANGED <<storeVars, conns, attached, lock, shown, faults>>

\* connection::replaced and close code 4000 to the old connection.
Replace(c) ==
  /\ pc[c] = "replace"
  /\ Closed(fr[c].target)
  /\ Goto(c, "detach")
  /\ UNCHANGED <<storeVars, conns, playerConn, attached, lock, fr, shown, faults>>

-----------------------------------------------------------------------------
(* detach: look the game up, lock it, look again, detach, tell the others.  *)

\* detach returns to its caller.
Continue(p) ==
  /\ Goto(p, fr[p].then)
  /\ Keep(p, IF fr[p].then = "connectLock" THEN Frame("connect", Pending, fr[p].game)
             ELSE NoFrame)

DetachLook(p) ==
  /\ pc[p] = "detach"
  /\ LET g == conn[fr[p].target].game
     IN  IF g = NoGame THEN Continue(p)
         ELSE Goto(p, "detachLock") /\ Keep(p, [fr[p] EXCEPT !.from = g])
  /\ UNCHANGED <<storeVars, connVars, lock, shown, faults>>

\* Mutant: the retry does not look up the attachment again.
DetachRetrySame(p) ==
  /\ pc[p] = "detachLock"
  /\ conn[fr[p].target].game # fr[p].from
  /\ UNCHANGED hubVars

\* The attachment changed while p waited for the lock: retry.
DetachRetry(p) ==
  /\ pc[p] = "detachLock"
  /\ Free(fr[p].from)
  /\ conn[fr[p].target].game # fr[p].from
  /\ Goto(p, "detach")
  /\ Keep(p, [fr[p] EXCEPT !.from = NoGame])
  /\ UNCHANGED <<storeVars, connVars, lock, shown, faults>>

\* Mutant: switching games leaves the old one without a word.
RemainingUnlessSwitching(p) ==
  IF fr[p].then = "connectLock" THEN {} ELSE attached[fr[p].from] \ {fr[p].target}

\* The participants game::opponent_disconnected goes to.
Remaining(p) == attached[fr[p].from] \ {fr[p].target}

\* A client that switches games expects nothing more of the old one.
Detach(p) ==
  LET t == fr[p].target
      g == fr[p].from
      leaver == IF fr[p].then = "connectLock" THEN {t} ELSE {}
  IN  /\ pc[p] = "detachLock"
      /\ Free(g)
      /\ conn[t].game = g
      /\ Detached({t}, g)
      /\ Send(leaver \cup Remaining(p),
              LAMBDA o : IF o = t THEN NoView ELSE WithDown(shown[o], conn[t].seat))
      /\ Continue(p)
      /\ UNCHANGED <<storeVars, conns, playerConn, lock, faults>>

-----------------------------------------------------------------------------
(* game::connect.                                                           *)

Open(g) == games[g] # NoRow /\ games[g].st.status # "CLOSED"

\* Mutant: another game is not left first.
LeavesFirstNever(c, g) == FALSE

LeavesFirst(c, g) == conn[c].game \notin {NoGame, g}

\* The unlocked load, then leaving another game first.
Connect(c, g) ==
  /\ Handles(c)
  /\ conn[c].player # NoPlayer
  /\ Open(g)
  /\ IF LeavesFirst(c, g)
     THEN Goto(c, "detach") /\ Keep(c, DetachFrame(c, "connectLock", g))
     ELSE Goto(c, "connectLock") /\ Keep(c, Frame("connect", Pending, g))
  /\ UNCHANGED <<storeVars, connVars, lock, shown, faults>>

\* The row a connecting player p saves: the row itself for host and guest,
\* the row joined by p when the guest's seat is free, none otherwise.
Seated(row, p) ==
  IF SeatOf(row, p) # NoSeat THEN {row}
  ELSE IF row.who["GUEST"] = NoPlayer /\ CanJoin(row.st)
       THEN {[row EXCEPT !.who["GUEST"] = p, !.st = Join(@)]}
       ELSE {}

Admitted(g, p) == IF Open(g) THEN Seated(games[g], p) ELSE {}

\* An error under the lock: reply, unlock, return.
Reject(c, g) == Free(g) /\ Return(c) /\ UNCHANGED lock

\* Mutant: the time is rounded up to the next tick.
StampedRoundedUp(row) == [row EXCEPT !.last = now + 1]

\* Hub.save reads the clock before its transaction.  Nothing that the handler
\* goes on to use changes between its load and then, unless its save fails: the
\* two are one step.
Stamped(row) == [row EXCEPT !.last = now]

\* Reload under the lock.
ConnectLock(c) ==
  LET g    == fr[c].game
      rows == Admitted(g, conn[c].player)
  IN  /\ pc[c] = "connectLock"
      /\ \/ rows = {} /\ Reject(c, g) /\ UNCHANGED faults
         \/ \E row \in rows :
              /\ Hold(g, c)
              /\ Goto(c, "connectSave") /\ Keep(c, [fr[c] EXCEPT !.row = Stamped(row)])
              /\ UNCHANGED faults
         \/ Fault /\ Reject(c, g)
      /\ UNCHANGED <<storeVars, connVars, shown>>

\* The transaction of Hub.save, and what a handler does when it fails: reply
\* and unlock.
Save(c, next) ==
  LET g   == fr[c].game
      row == fr[c].row
  IN  \/ /\ CanSave(g, row)
         /\ SaveGame(g, row, conn[c].player)
         /\ Goto(c, next)
         /\ UNCHANGED <<lock, fr, faults>>
      \/ /\ ~CanSave(g, row)
         /\ Return(c) /\ Release(g)
         /\ UNCHANGED <<storeVars, faults>>
      \/ /\ Fault
         /\ Return(c) /\ Release(g)
         /\ UNCHANGED storeVars

ConnectSave(c) ==
  /\ pc[c] = "connectSave"
  /\ Save(c, "connectAttach")
  /\ UNCHANGED <<connVars, shown>>

\* Mutants: only a re-attachment is announced; everyone is sent one view.
AnnouncedSwapped(c, g) == IF conn[c].game = g THEN attached[g] \cup {c} ELSE {c}
SeatShownSame(o, c, seat) == seat

\* Who hears of the attachment, and the seat whose view goes to o.
Announced(c, g) == IF conn[c].game = g THEN {c} ELSE attached[g] \cup {c}
SeatShown(o, c, seat) == IF o = c THEN seat ELSE Other(seat)

\* Attach, reply, and tell the others: they are shown the other seat's view.
ConnectAttach(c) ==
  LET g    == fr[c].game
      row  == fr[c].row
      seat == SeatOf(row, conn[c].player)
      all  == attached[g] \cup {c}
  IN  /\ pc[c] = "connectAttach"
      /\ Attached(c, g, seat)
      /\ \/ /\ \E found \in Finds(row) :
                 Send(Announced(c, g),
                      LAMBDA o : Snapshot(g, row, SeatShown(o, c, seat), all, found))
            /\ UNCHANGED faults
         \/ Fault /\ UNCHANGED shown
      /\ Return(c) /\ Release(g)
      /\ UNCHANGED <<storeVars, conns, playerConn>>

-----------------------------------------------------------------------------
(* game::move, rematch, rematch_decline and leave, run by withGame.         *)

Allowed(op, throw, seat, s) ==
  CASE op = "move"    -> CanPlayMove(s, seat, throw)
    [] op = "rematch" -> CanRematch(s, seat) /\ (Accepts(s) => RoundsPlayed(s) < MaxRounds)
    [] op = "decline" -> CanDeclineRematch(s, seat)
    [] op = "leave"   -> CanClose(s)

Result(op, throw, seat, s) ==
  CASE op = "move"    -> PlayMove(s, seat, throw)
    [] op = "rematch" -> Rematch(s, seat)
    [] op = "decline" -> DeclineRematch(s)
    [] op = "leave"   -> Close(s)

\* The request: read c.gameID, go for its lock.
Request(c, op, throw) ==
  /\ HandlesGame(c)
  /\ Goto(c, "opLock") /\ Keep(c, Frame(op, throw, conn[c].game))
  /\ UNCHANGED <<storeVars, connVars, lock, shown, faults>>

\* Still attached, row still there, and the rules agree.
OpAccepted(c) ==
  LET g == fr[c].game
  IN  /\ conn[c].game = g
      /\ games[g] # NoRow
      /\ Allowed(fr[c].op, fr[c].throw, conn[c].seat, games[g].st)

OpLock(c) ==
  LET g == fr[c].game
  IN  /\ pc[c] = "opLock"
      /\ \/ /\ OpAccepted(c)
            /\ Hold(g, c)
            /\ Goto(c, "opSave")
            /\ Keep(c, [fr[c] EXCEPT !.row = Stamped([games[g] EXCEPT !.st =
                          Result(fr[c].op, fr[c].throw, conn[c].seat, @)])])
            /\ UNCHANGED faults
         \/ ~OpAccepted(c) /\ Reject(c, g) /\ UNCHANGED faults
         \/ Fault /\ Reject(c, g)
      /\ UNCHANGED <<storeVars, connVars, shown>>

OpSave(c) ==
  /\ pc[c] = "opSave"
  /\ Save(c, "opNotify")
  /\ UNCHANGED <<connVars, shown>>

\* broadcastState: everyone attached is shown the view of its own seat.
Broadcast(g, row) ==
  /\ \/ /\ \E found \in Finds(row) :
             Send(attached[g], LAMBDA o : Snapshot(g, row, conn[o].seat, attached[g], found))
        /\ UNCHANGED faults
     \/ Fault /\ UNCHANGED shown
  /\ UNCHANGED <<attached, conn>>

\* Mutants: the rest stays attached; nobody else is told.
EmptiedOwnOnly(g, own) == own
ToldNobody(g, own) == {}

\* Who is detached from a game that closes, and who is told of it.
Emptied(g, own) == attached[g]
Told(g, own)    == attached[g] \ own

\* closeGameFor when its view fails: game::closed without game::state.
CloseBlind(g, own, asked) ==
  /\ Fault
  /\ Detached(Emptied(g, own), g)
  /\ Send(asked \cup Told(g, own),
          LAMBDA o : IF o \in asked THEN NoView ELSE WithClosed(shown[o]))

\* detachLocked of the connections in own, then closeGameFor the rest.
\* Those in asked left by their own request and expect nothing more.
CloseGameFor(g, row, own, asked) ==
  \/ /\ Detached(Emptied(g, own), g)
     /\ \E found \in Finds(row) :
          Send(asked \cup Told(g, own),
               LAMBDA o : IF o \in asked THEN NoView
                          ELSE Snapshot(g, row, conn[o].seat, attached[g] \ own, found))
     /\ UNCHANGED faults
  \/ CloseBlind(g, own, asked)

OpNotify(c) ==
  LET g == fr[c].game
  IN  /\ pc[c] = "opNotify"
      /\ IF fr[c].op = "leave" THEN CloseGameFor(g, fr[c].row, {c}, {c})
         ELSE Broadcast(g, fr[c].row)
      /\ Return(c) /\ Release(g)
      /\ UNCHANGED <<storeVars, conns, playerConn>>

-----------------------------------------------------------------------------
(* The end of a connection.                                                 *)

(***************************************************************************)
(* Its send buffer is full when a reply or an event comes, the             *)
(* authentication timer that looked at it earlier closes it, or CloseAll   *)
(* does: at any point of its handler.  The message that does not fit is    *)
(* lost, so this step comes before the one that sends it.                  *)
(***************************************************************************)
Abandon(c) ==
  /\ Live(c)
  /\ Closed(c)
  /\ UNCHANGED <<storeVars, conns, playerConn, attached, lock, procVars, shown, faults>>

\* The socket is gone, from either side: Disconnect closes and detaches.
Disconnect(c) ==
  /\ pc[c] = "reading"
  /\ Closed(c)
  /\ Goto(c, "detach") /\ Keep(c, DetachFrame(c, "unregister", NoGame))
  /\ UNCHANGED <<storeVars, conns, playerConn, attached, lock, shown, faults>>

\* Mutant: the player's entry goes, whosever it is.
WithoutBlindly(c) == [p \in Players |-> IF p = conn[c].player THEN NoConn ELSE playerConn[p]]

Without(c) == [p \in Players |-> IF playerConn[p] = c THEN NoConn ELSE playerConn[p]]

Unregister(c) ==
  /\ pc[c] = "unregister"
  /\ playerConn' = Without(c)
  /\ conns' = conns \ {c}
  /\ shown' = [shown EXCEPT ![c] = NoView]
  /\ Goto(c, "gone")
  /\ UNCHANGED <<storeVars, attached, conn, lock, fr, faults>>

-----------------------------------------------------------------------------
HubInit ==
  /\ conns = {}
  /\ playerConn = [p \in Players |-> NoConn]
  /\ attached = [g \in Games |-> {}]
  /\ conn = [c \in Conns |-> NewConn]
  /\ lock = [g \in Games |-> NoProc]
  /\ pc = [p \in Procs |-> IF p = Sweeper THEN "asleep" ELSE "unborn"]
  /\ fr = [p \in Procs |-> NoFrame]
  /\ shown = [c \in Conns |-> NoView]
  /\ faults = 0

\* The players and the games have been created over HTTP.
Init ==
  /\ players = Players
  /\ active = [p \in Players |-> 0]
  /\ games = [g \in Games |-> Created(HostOf[g], 0)]
  /\ used = Games
  /\ now = 0
  /\ HubInit

\* What the environment does to c: sockets and client actions.
Client(c) ==
  \/ Accept(c) \/ Authenticate(c) \/ Abandon(c) \/ Disconnect(c)
  \/ \E g \in Games : Connect(c, g)
  \/ \E m \in ClientThrows : Request(c, "move", m)
  \/ \E op \in ClientOps : Request(c, op, Pending)

\* The steps of detach, whoever runs it.
DetachStep(p) == DetachLook(p) \/ DetachRetry(p) \/ Detach(p)

\* What the goroutine of c does, once it has begun.
Handler(c) ==
  \/ AuthTouch(c) \/ Register(c) \/ Replace(c) \/ DetachStep(c)
  \/ ConnectLock(c) \/ ConnectSave(c) \/ ConnectAttach(c)
  \/ OpLock(c) \/ OpSave(c) \/ OpNotify(c)
  \/ Unregister(c)

HubNext == \E c \in Conns : Client(c) \/ Handler(c)

Spec == Init /\ [][HubNext]_hubVars
-----------------------------------------------------------------------------
(* Properties.                                                              *)

TypeOK ==
  /\ StoreTypeOK
  /\ conns \subseteq Conns
  /\ playerConn \in [Players -> Conns \cup {NoConn}]
  /\ attached \in [Games -> SUBSET Conns]
  /\ conn \in [Conns -> ConnFields]
  /\ lock \in [Games -> Procs \cup {NoProc}]
  /\ \A c \in Conns : pc[c] \in Stages
  /\ fr \in [Procs -> Frames \cup {NoFrame}]
  /\ faults \in 0 .. MaxFaults

(***************************************************************************)
(* The registries of the hub and the fields of the connections tell the    *)
(* same story, however authentications, switches and disconnections        *)
(* interleave: h.games holds c exactly when c.gameID says so, h.players    *)
(* only registered connections of that player, and a connection whose      *)
(* goroutine has ended is in neither.                                      *)
(***************************************************************************)
RegistriesAgree ==
  /\ \A c \in Conns, g \in Games : c \in attached[g] <=> conn[c].game = g
  /\ \A p \in Players : playerConn[p] # NoConn =>
       playerConn[p] \in conns /\ conn[playerConn[p]].player = p
  /\ \A c \in Conns : conn[c].game # NoGame => c \in conns /\ conn[c].player # NoPlayer

(***************************************************************************)
(* A player has one live connection, the one in h.players: any other       *)
(* connection that is authenticated as the player is closing, or a newer   *)
(* one has replaced it and is about to close it.  Disconnecting the old    *)
(* one never takes the new one out of h.players.                           *)
(***************************************************************************)
BeingReplaced(c) == \E d \in Conns : pc[d] = "replace" /\ fr[d].target = c

NewestRegistered ==
  \A c \in Conns :
    Live(c) /\ conn[c].player # NoPlayer /\ ~BeingReplaced(c) => playerConn[conn[c].player] = c

(***************************************************************************)
(* When nobody is inside a game's lock, whoever is attached to the game    *)
(* sits in the seat the stored row gives to its player, and the row is     *)
(* there and not CLOSED: leaving and expiring detach everyone.  (A player  *)
(* that was deleted has no seat in any row.)                               *)
(***************************************************************************)
AttachmentBacked ==
  \A g \in Games : Free(g) =>
    \A c \in attached[g] :
      /\ Open(g)
      /\ conn[c].player \in players => conn[c].seat = SeatOf(games[g], conn[c].player)

(***************************************************************************)
(* Nobody is left on a stale picture: when nobody is inside a game's lock, *)
(* every live connection attached to it has been shown the round, the      *)
(* score and the locked-in throws as they are stored.  (A handler whose    *)
(* view fails after its save tells nobody, hence NoFault.)                 *)
(***************************************************************************)
NoFault == faults = 0

Board(v) ==
  <<v.game, v.status, v.gameState, v.draws,
    [seat \in DOMAIN v.player |->
       <<v.player[seat].id, v.player[seat].locked, v.player[seat].wins>>]>>

BoardCurrent ==
  \A g \in Games : NoFault /\ Free(g) =>
    \A c \in attached[g] : Live(c) =>
      /\ shown[c] # NoView
      /\ Board(shown[c]) = Board(Snapshot(g, games[g], conn[c].seat, attached[g], players))

(***************************************************************************)
(* A snapshot is personal: with the lock free, a live connection has been  *)
(* shown its game from its own seat, with the throws VisibleMove lets that *)
(* seat see.                                                               *)
(***************************************************************************)
OwnView ==
  \A g \in Games : NoFault /\ Free(g) =>
    \A c \in attached[g] : Live(c) =>
      LET v == shown[c]
      IN  /\ v # NoView
          /\ v.you = conn[c].seat
          /\ \A seat \in DOMAIN v.player :
               v.player[seat].move = VisibleMove(games[g].st, conn[c].seat, seat)

(***************************************************************************)
(* Nobody is dropped silently: a live client that waits for the next       *)
(* message and was last shown an open game is attached to that game,       *)
(* unless somebody is closing it at this moment.                           *)
(***************************************************************************)
NotDroppedSilently ==
  \A c \in Conns :
    Live(c) /\ pc[c] = "reading" /\ shown[c] # NoView /\ shown[c].status # "CLOSED" =>
      conn[c].game = shown[c].game

(***************************************************************************)
(* What the players see of each other: while a round is in progress no     *)
(* client has been shown the throw of the seat its player does not sit in. *)
(***************************************************************************)
ThrowsHidden ==
  \A c \in Conns :
    LET v == shown[c]
    IN  Live(c) /\ v # NoView /\ v.status = "ACTIVE" =>
          \A seat \in DOMAIN v.player :
            v.player[seat].id # conn[c].player => v.player[seat].move = Pending

(***************************************************************************)
(* Presence: with the game's lock free and no attached connection closing, *)
(* every client attached is shown as connected exactly the seats that have *)
(* a connection attached.                                                  *)
(***************************************************************************)
PresenceAccurate ==
  \A g \in Games :
    NoFault /\ Free(g) /\ (\A c \in attached[g] : Live(c)) =>
      \A c \in attached[g] : shown[c] # NoView =>
        \A seat \in DOMAIN shown[c].player :
          shown[c].player[seat].up <=> \E o \in attached[g] : conn[o].seat = seat

\* A game as module Game has it.
Life(g) == IF games[g] # NoRow THEN games[g].st ELSE IF g \in used THEN Deleted ELSE NoRow

G(g) == INSTANCE Game WITH game <- Life(g), Absent <- NoRow

(***************************************************************************)
(* Under the game lock a load, a transition of rules and a save are one    *)
(* step of Game: no update of a row is lost or applied to a row that has   *)
(* changed since it was loaded.                                            *)
(***************************************************************************)
GameSteps == [][\A g \in Games : G(g)!Next \/ UNCHANGED Life(g)]_hubVars

(***************************************************************************)
(* A further round needs both players: the throws of a round are cleared   *)
(* only while one seat's request stands, and only by the save of a         *)
(* connection in the other seat, whatever was requested, declined or       *)
(* replaced since.                                                         *)
(***************************************************************************)
RematchNeedsBoth ==
  [][\A g \in Games :
       games[g] # NoRow /\ games'[g] # NoRow
       /\ Thrown(games[g].st) = Seats /\ Thrown(games'[g].st) = {} =>
         \E c \in Conns :
           /\ pc[c] = "opSave" /\ fr[c].game = g
           /\ RematchIssuer(games[g].st) = {Other(conn[c].seat)}]_hubVars

-----------------------------------------------------------------------------
(***************************************************************************)
(* Every running goroutine goes on (WF), a waiter for a game lock gets it  *)
(* if the lock is free again and again (SF: sync.Mutex does not starve     *)
(* waiters), and the transport notices a closing connection: its writer    *)
(* closes the socket, which ends the read loop.                            *)
(***************************************************************************)
HubFairness ==
  \A c \in Conns :
    /\ WF_hubVars(Handler(c))
    /\ SF_hubVars(ConnectLock(c) \/ OpLock(c) \/ Detach(c) \/ DetachRetry(c))
    /\ WF_hubVars(Disconnect(c) /\ conn[c].closing)

FairSpec == Spec /\ HubFairness

\* No handler hangs: whatever it waits for, it returns to its read loop.
HandlersReturn ==
  \A c \in Conns : pc[c] \notin {"unborn", "reading", "gone"} ~> pc[c] \in {"reading", "gone"}

\* A connection told to close is cleaned up: detached, and out of the registries.
ClosingEnds ==
  \A c \in Conns :
    conn[c].closing ~> pc[c] = "gone" /\ c \notin conns /\ conn[c].game = NoGame
=============================================================================

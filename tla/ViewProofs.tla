------------------------------ MODULE ViewProofs ------------------------------
(***************************************************************************)
(* Proofs about what the hub shows its clients: the views that are         *)
(* current, personal and true about who is there, and the throws that      *)
(* nobody sees too early. The invariant of HubProofs says what each        *)
(* goroutine knows; ViewInv and PInv add what each client was shown last.  *)
(* Every step is of one of six kinds (Kinds): it stores, tells, attaches   *)
(* and detaches nothing (Quiet); it unregisters a connection; it stores a  *)
(* row and tells nobody yet (Saved); it tells everyone of the row that was *)
(* stored (Tells); it closes the game (Closes); it detaches one connection *)
(* (Leaves). For each action one lemma names its kind, and for each kind   *)
(* one lemma (...Shows, ...Personal) says what it does to the pictures.    *)
(***************************************************************************)
EXTENDS HubProofs

-----------------------------------------------------------------------------
(* What the clients have been shown, whoever is connected.                  *)

\* The row is saved and not everybody has been told.
Notifying == {"connectAttach", "opNotify"}

ViewsTyped == shown \in [Conns -> Views \cup {NoView}]

\* Nobody deletes a player here, so that no seat loses its player.
AllPlayers == players = Players

\* Only a registered and authenticated connection is shown anything.
MembersOnly == \A c \in Conns : shown[c] # NoView => c \in conns /\ conn[c].player # NoPlayer

\* A live client that was last shown an open game is attached to it.
Watching ==
  \A c \in Conns :
    Live(c) /\ shown[c] # NoView /\ shown[c].status # "CLOSED" => conn[c].game = shown[c].game

\* A handler tells what it has just stored.
TellsStored ==
  \A c \in Conns : pc[c] \in Notifying =>
    /\ fr[c].row = games[fr[c].game] /\ fr[c].row \in Row
    /\ pc[c] = "opNotify" => conn[c].game = fr[c].game
    /\ pc[c] = "opNotify" /\ fr[c].op = "leave" => fr[c].row.st.status = "CLOSED"

\* p detaches a connection whose client switches games, or a closing one.
DetachesClosed(p) ==
  pc[p] \in {"detach", "detachLock"} /\ fr[p].then # "connectLock" => conn[fr[p].target].closing

\* Whom somebody else detaches, and who disconnects, is closing.
ClosedFirst == \A p \in Conns : DetachesClosed(p)

\* Somebody is about to tell everyone attached to g.
Telling(g) ==
  \E p \in Conns :
    /\ \/ pc[p] = "opNotify"
       \/ pc[p] = "connectAttach" /\ conn[p].game # g
    /\ fr[p].game = g

\* What everyone may know of a row, whatever their seat.
RowBoard(g, row) ==
  <<g, row.st.status, row.st.gameState, row.st.draws,
    [seat \in {s \in Seats : row.who[s] \in players} |->
       <<row.who[seat], row.st.move[seat] # Pending, row.st.wins[seat]>>]>>

Current(g) ==
  NoFault /\ ~Telling(g) =>
    \A c \in attached[g] : Live(c) =>
      shown[c] # NoView /\ Board(shown[c]) = RowBoard(g, games[g])

VInv ==
  /\ ViewsTyped /\ AllPlayers /\ MembersOnly /\ Watching /\ TellsStored
  /\ \A g \in Games : Current(g)

ViewInv == VInv /\ ClosedFirst

-----------------------------------------------------------------------------
(* What they have been shown of their own seat.                             *)

(***************************************************************************)
(* A live connection shares its seat with no other attached connection.    *)
(* The code does not ensure it: a replaced connection that is slow to be   *)
(* detached still has the seat when its player's new connection attaches,  *)
(* and then Other(seat) of ConnectAttach is the wrong seat for it (and its *)
(* own detach is announced as the disconnection of a player who is there). *)
(* SequentialSockets and SingleSockets say when it does hold.              *)
(***************************************************************************)
SeatsUnshared ==
  \A g \in Games : \A c, d \in attached[g] :
    Live(c) /\ c # d => conn[c].seat # conn[d].seat

\* Telling, with the sweeper, which has closed a game.
Tellers == Notifying \cup {"closeNotify"}

SomeoneTells(g) == Telling(g) \/ (pc[Sweeper] = "closeNotify" /\ fr[Sweeper].game = g)

(***************************************************************************)
(* Whoever is attached sits where the row seats its player, or did until   *)
(* the player was deleted.                                                 *)
(***************************************************************************)
SeatsBacked ==
  \A g \in Games : \A c \in attached[g] :
    games[g].who[conn[c].seat] \in {conn[c].player, NoPlayer}

\* The row p tells of is the stored one, except that a player may be gone.
TellsRow(p) ==
  LET g   == fr[p].game
      row == fr[p].row
  IN  pc[p] \in Tellers =>
        /\ row \in Row /\ games[g] \in Row /\ row.st = games[g].st /\ Fits(row, g)
        /\ pc[p] = "opNotify" => conn[p].game = g
        /\ pc[p] = "closeNotify" \/ (pc[p] = "opNotify" /\ fr[p].op = "leave") =>
             row.st.status = "CLOSED"
        /\ pc[p] = "connectAttach" =>
             /\ SeatOf(row, conn[p].player) # NoSeat
             /\ conn[p].game = g => conn[p].seat = SeatOf(row, conn[p].player)

\* A row agrees that player p sits in this seat, or does not know p.
SeatedAs(row, p, seat) ==
  row.who[seat] \in {p, NoPlayer} /\ SeatOf(row, p) \in {seat, NoSeat}

\* The row c tells of is that of everybody attached.
RowOfAll(c) ==
  pc[c] \in Notifying =>
    \A d \in attached[fr[c].game] : SeatedAs(fr[c].row, conn[d].player, conn[d].seat)

\* The view of a seat, and the throws it may see.
OwnSeat(v, seat, s) ==
  /\ v.you = seat
  /\ \A x \in DOMAIN v.player : v.player[x].move = VisibleMove(s, seat, x)

Personal(g) ==
  NoFault /\ ~SomeoneTells(g) =>
    \A c \in attached[g] : Live(c) =>
      shown[c] # NoView /\ OwnSeat(shown[c], conn[c].seat, games[g].st)

\* A client attached to g has been shown who is there.
SeesPresence(c, g) ==
  \A seat \in DOMAIN shown[c].player :
    /\ (\E o \in attached[g] : Live(o) /\ conn[o].seat = seat) => shown[c].player[seat].up
    /\ shown[c].player[seat].up => \E o \in attached[g] : conn[o].seat = seat

Presence(g) ==
  NoFault => \A c \in attached[g] : Live(c) /\ shown[c] # NoView => SeesPresence(c, g)

PInv ==
  /\ ViewsTyped /\ MembersOnly /\ ThrowsHidden
  /\ \A g \in Games : Personal(g) /\ Presence(g)
-----------------------------------------------------------------------------
(* Views.                                                                   *)

\* A view finds the players that are there, and may find others of its row.
LEMMA FindsPlayers ==
  ASSUME StoreTypeOK, NEW row \in Row, NEW found \in Finds(row)
  PROVE  /\ players \subseteq found /\ found \subseteq Players
         /\ players = Players => found = players
  <1>1. \A seat \in Seats : row.who[seat] \in Players \cup {NoPlayer}
    BY RowParts
  <1> QED
    BY <1>1 DEF Finds, StoreTypeOK

\* A snapshot is a view of its row from its seat.
LEMMA SnapshotView ==
  ASSUME NEW g \in Games, NEW row \in Row, NEW you \in Seats, NEW cs, NEW found \in SUBSET Players,
         StoreTypeOK
  PROVE  LET v == Snapshot(g, row, you, cs, found)
         IN  /\ v \in Views /\ v # NoView
             /\ v.game = g /\ v.you = you /\ v.status = row.st.status
             /\ v.gameState = row.st.gameState /\ v.draws = row.st.draws
             /\ DOMAIN v.player = {s \in Seats : row.who[s] \in found}
             /\ \A x \in DOMAIN v.player :
                  /\ v.player[x].id = row.who[x]
                  /\ v.player[x].up <=> x \in Up(row, cs)
                  /\ v.player[x].locked = (row.st.move[x] # Pending)
                  /\ v.player[x].wins = row.st.wins[x]
                  /\ v.player[x].move = VisibleMove(row.st, you, x)
             /\ found = players => Board(v) = RowBoard(g, row)
  <1> DEFINE D    == {s \in Seats : row.who[s] \in found}
             card(x) == [id     |-> row.who[x],
                         up     |-> x \in Up(row, cs),
                         locked |-> row.st.move[x] # Pending,
                         wins   |-> row.st.wins[x],
                         move   |-> VisibleMove(row.st, you, x)]
             hand == [x \in D |-> card(x)]
             v    == [game |-> g, you |-> you, status |-> row.st.status,
                      gameState |-> row.st.gameState, draws |-> row.st.draws, player |-> hand]
  <1>1. Snapshot(g, row, you, cs, found) = v
    BY DEF Snapshot
  <1>2. /\ row.st \in State /\ row.who \in [Seats -> Players \cup {NoPlayer}]
        /\ NoPlayer \notin found
    BY RowParts, StoreAssumption
  <1>3. ASSUME NEW x \in D PROVE card(x) \in Card
    <2>1. VisibleMove(row.st, you, x) \in Moves
      BY <1>2 DEF VisibleMove, State, Moves
    <2> QED
      BY <1>2, <2>1 DEF Card, State
  <1>4. hand \in [D -> Card] /\ D \in SUBSET Seats
    BY <1>3
  <1>5. \A x \in D : /\ hand[x].id = row.who[x]
                     /\ hand[x].up <=> x \in Up(row, cs)
                     /\ hand[x].move = VisibleMove(row.st, you, x)
                     /\ hand[x].locked = (row.st.move[x] # Pending)
                     /\ hand[x].wins = row.st.wins[x]
    OBVIOUS
  <1> HIDE DEF D, hand
  <1>6. v \in Views
    BY <1>2, <1>4 DEF Views, State
  <1>7. ASSUME found = players PROVE Board(v) = RowBoard(g, row)
    <2>1. Board(v) = <<g, row.st.status, row.st.gameState, row.st.draws,
                       [x \in D |-> <<row.who[x], row.st.move[x] # Pending, row.st.wins[x]>>]>>
      BY <1>4, <1>5 DEF Board
    <2>2. RowBoard(g, row) = <<g, row.st.status, row.st.gameState, row.st.draws,
                       [x \in D |-> <<row.who[x], row.st.move[x] # Pending, row.st.wins[x]>>]>>
      BY <1>7 DEF RowBoard, D
    <2> QED
      BY <2>1, <2>2
  <1>8. DOMAIN hand = D
    BY <1>4
  <1> QED
    BY <1>1, <1>5, <1>6, <1>7, <1>8, ViewAssumption DEF D

\* game::opponent_disconnected changes one flag of a view.
LEMMA DownView ==
  ASSUME NEW v \in Views, NEW seat
  PROVE  LET w == WithDown(v, seat)
         IN  /\ w \in Views /\ w # NoView
             /\ w.game = v.game /\ w.you = v.you /\ w.status = v.status
             /\ DOMAIN w.player = DOMAIN v.player
             /\ \A x \in DOMAIN v.player :
                  /\ w.player[x].id = v.player[x].id
                  /\ w.player[x].up <=> v.player[x].up /\ x # seat
                  /\ w.player[x].move = v.player[x].move
             /\ Board(w) = Board(v)
  <1>1. PICK D \in SUBSET Seats : v.player \in [D -> Card]
    BY DEF Views
  <1>2. CASE seat \notin D
    BY <1>1, <1>2, ViewAssumption DEF WithDown
  <1>3. CASE seat \in D
    <2>1. PICK card \in Card : card = [v.player[seat] EXCEPT !.up = FALSE]
      BY <1>1, <1>3 DEF Card
    <2>2. PICK hand \in [D -> Card] : hand = [v.player EXCEPT ![seat] = card]
      BY <1>1, <1>3
    <2>3. PICK w : w = [v EXCEPT !.player = hand]
      OBVIOUS
    <2>4. WithDown(v, seat) = w
      BY <1>1, <1>3, <2>1, <2>2, <2>3, ViewAssumption, Zenon DEF WithDown
    <2>5. /\ w \in Views /\ w.player = hand /\ w.game = v.game /\ w.you = v.you
          /\ w.status = v.status /\ w.gameState = v.gameState /\ w.draws = v.draws
      BY <1>1, <2>2, <2>3 DEF Views
    <2>6. \A x \in D : /\ hand[x].id = v.player[x].id
                       /\ hand[x].up <=> v.player[x].up /\ x # seat
                       /\ hand[x].move = v.player[x].move
                       /\ hand[x].locked = v.player[x].locked
                       /\ hand[x].wins = v.player[x].wins
      BY <1>1, <1>3, <2>1, <2>2 DEF Card
    <2>7. Board(w) = Board(v)
      BY <1>1, <2>5, <2>6 DEF Board
    <2> QED
      BY <1>1, <2>4, <2>5, <2>6, <2>7, ViewAssumption
  <1> QED
    BY <1>2, <1>3

\* Who is shown what when a connection is detached.
LEMMA DetachShows ==
  ASSUME NEW p \in Procs, Detach(p)
  PROVE  \A o \in Conns :
           shown'[o] = IF /\ o = fr[p].target /\ fr[p].then = "connectLock"
                          /\ ~conn[o].closing
                       THEN NoView
                       ELSE IF o \in attached[fr[p].from] \ {fr[p].target} /\ ~conn[o].closing
                       THEN WithDown(shown[o], conn[fr[p].target].seat)
                       ELSE shown[o]
  BY DEF Detach, Send, Remaining

-----------------------------------------------------------------------------
(* What a step that shows nothing leaves alone.                             *)

\* A step that stores, tells, attaches and detaches nothing.
Quiet ==
  /\ UNCHANGED <<games, players, attached, shown>>
  /\ \A d \in Conns :
       /\ conn'[d].game = conn[d].game /\ conn'[d].seat = conn[d].seat
       /\ conn[d].player # NoPlayer => conn'[d].player = conn[d].player
       /\ conn[d].closing => conn'[d].closing
       /\ d \in conns => d \in conns'
       /\ pc[d] \in Notifying \/ pc'[d] \in Notifying => pc'[d] = pc[d] /\ fr'[d] = fr[d]
  /\ faults' = 0 => faults = 0

\* Moving between two places that are not Notifying.
LEMMA MovesQuietly ==
  ASSUME Typed, NEW c \in Conns, NEW stage, Goto(c, stage), pc[c] \notin Notifying,
         stage \notin Notifying, \A d \in Conns \ {c} : fr'[d] = fr[d]
  PROVE  \A d \in Conns :
           pc[d] \in Notifying \/ pc'[d] \in Notifying => pc'[d] = pc[d] /\ fr'[d] = fr[d]
  BY DEF Typed, Goto, Procs

\* A failure is never forgotten.
LEMMA FaultsGrow == ASSUME Typed, Fault PROVE faults' # 0
  BY HubAssumption DEF Typed, TypeOK, Fault

\* Nothing the environment does is seen by another client.
LEMMA ClientQuiet ==
  ASSUME IInv, NEW c \in Conns, Client(c)
  PROVE  Quiet
  <1> USE DEF Notifying, storeVars, connVars
  <1>1. Typed /\ c \in Procs
    BY DEF IInv, Procs
  <1>2. ASSUME Accept(c) PROVE Quiet
    <2>1. Goto(c, "reading") /\ pc[c] = "unborn" /\ fr' = fr
      BY <1>2 DEF Accept
    <2> QED
      BY <1>1, <1>2, <2>1, MovesQuietly DEF Accept, Quiet
  <1>3. ASSUME Authenticate(c) PROVE Quiet
    <2>1. Goto(c, "touch") /\ pc[c] = "reading" /\ \A d \in Conns \ {c} : fr'[d] = fr[d]
      BY <1>1, <1>3 DEF Authenticate, Handles, Keep, Typed, TypeOK, Procs
    <2> QED
      BY <1>1, <1>3, <2>1, MovesQuietly DEF Authenticate, Quiet
  <1>4. ASSUME Abandon(c) PROVE Quiet
    <2>1. Closed(c) /\ pc' = pc /\ fr' = fr
      BY <1>4 DEF Abandon, procVars
    <2> QED
      BY <1>1, <1>4, <2>1, ClosedFields DEF Abandon, Quiet
  <1>5. ASSUME Disconnect(c) PROVE Quiet
    <2>1. Goto(c, "detach") /\ pc[c] = "reading" /\ Closed(c)
          /\ \A d \in Conns \ {c} : fr'[d] = fr[d]
      BY <1>1, <1>5 DEF Disconnect, Keep, Typed, TypeOK, Procs
    <2> QED
      BY <1>1, <1>5, <2>1, ClosedFields, MovesQuietly DEF Disconnect, Quiet
  <1>6. ASSUME NEW g \in Games, Connect(c, g) PROVE Quiet
    <2>1. PICK stage \in {"detach", "connectLock"} : Goto(c, stage) /\ \E f : Keep(c, f)
      BY <1>6 DEF Connect
    <2>2. pc[c] = "reading" /\ UNCHANGED <<storeVars, connVars, lock, shown, faults>>
      BY <1>6 DEF Connect, Handles
    <2>3. \A d \in Conns \ {c} : fr'[d] = fr[d]
      BY <1>1, <2>1 DEF Keep, Typed, TypeOK, Procs
    <2> QED
      BY <1>1, <2>1, <2>2, <2>3, MovesQuietly DEF Quiet
  <1>7. ASSUME NEW op, NEW m, Request(c, op, m) PROVE Quiet
    <2>1. Goto(c, "opLock") /\ pc[c] = "reading" /\ \A d \in Conns \ {c} : fr'[d] = fr[d]
      BY <1>1, <1>7 DEF Request, HandlesGame, Handles, Keep, Typed, TypeOK, Procs
    <2> QED
      BY <1>1, <1>7, <2>1, MovesQuietly DEF Request, Quiet
  <1> QED
    BY <1>2, <1>3, <1>4, <1>5, <1>6, <1>7 DEF Client

\* Neither is a request that is turned down,
LEMMA RejectQuiet ==
  ASSUME IInv, NEW c \in Conns, NEW g, Reject(c, g), pc[c] \notin Notifying,
         UNCHANGED <<storeVars, connVars, shown>>, UNCHANGED faults \/ Fault
  PROVE  Quiet
  <1>1. Typed /\ Goto(c, "reading") /\ \A d \in Conns \ {c} : fr'[d] = fr[d]
    BY DEF IInv, Reject, Return, Keep, Typed, TypeOK, Procs
  <1>2. faults' = 0 => faults = 0
    BY <1>1, FaultsGrow
  <1> QED
    BY <1>1, <1>2, MovesQuietly DEF Quiet, storeVars, connVars, Notifying

\* nor a handler that has not stored anything yet,
LEMMA HandlerQuiet ==
  ASSUME IInv, NEW c \in Conns,
         \/ AuthTouch(c) \/ Register(c) \/ Replace(c) \/ DetachLook(c) \/ DetachRetry(c)
         \/ ConnectLock(c) \/ OpLock(c)
  PROVE  Quiet
  <1> USE DEF Notifying, storeVars, connVars
  <1>1. Typed /\ c \in Procs /\ Local(c)
    BY DEF IInv, Procs
  <1>2. ASSUME AuthTouch(c) PROVE Quiet
    <2>1. PICK stage \in {"register", "reading"} : Goto(c, stage)
      BY <1>2 DEF AuthTouch
    <2>2. pc[c] = "touch" /\ (faults' = 0 => faults = 0)
          /\ UNCHANGED <<games, players, attached, shown, conn, conns>>
      BY <1>1, <1>2, FaultsGrow DEF AuthTouch, TouchPlayer
    <2>3. \A d \in Conns \ {c} : fr'[d] = fr[d]
      BY <1>1, <1>2 DEF AuthTouch, Keep, Typed, TypeOK, Procs
    <2> QED
      BY <1>1, <2>1, <2>2, <2>3, MovesQuietly DEF Quiet
  <1>3. ASSUME Register(c) PROVE Quiet
    <2>1. PICK stage \in {"reading", "replace"} : Goto(c, stage) /\ \E f : Keep(c, f)
      BY <1>3 DEF Register, Return
    <2>2. pc[c] = "register" /\ conn' = [conn EXCEPT ![c].player = Login[c]]
          /\ UNCHANGED <<games, players, attached, shown, conns, faults>>
      BY <1>3 DEF Register
    <2>3. \A d \in Conns \ {c} : fr'[d] = fr[d]
      BY <1>1, <2>1 DEF Keep, Typed, TypeOK, Procs
    <2>4. conn[c].player = NoPlayer /\ conn \in [Conns -> ConnFields]
      BY <1>1, <2>2 DEF Local, Place, Typed, TypeOK
    <2>5. \A d \in Conns :
            /\ conn'[d].game = conn[d].game /\ conn'[d].seat = conn[d].seat
            /\ conn[d].player # NoPlayer => conn'[d].player = conn[d].player
            /\ conn[d].closing => conn'[d].closing
      BY <2>2, <2>4 DEF ConnFields
    <2> QED
      BY <1>1, <2>1, <2>2, <2>3, <2>5, MovesQuietly DEF Quiet
  <1>4. ASSUME Replace(c) PROVE Quiet
    <2>1. Goto(c, "detach") /\ pc[c] = "replace" /\ fr' = fr
          /\ fr[c].target \in Conns /\ Closed(fr[c].target)
      BY <1>1, <1>4 DEF Replace, Local, Locals, Detaching
    <2> QED
      BY <1>1, <1>4, <2>1, ClosedFields, MovesQuietly DEF Replace, Quiet
  <1>5. ASSUME DetachLook(c) \/ DetachRetry(c) PROVE Quiet
    <2>1. fr[c].then \in {"reading", "connectLock", "unregister"}
      BY <1>1, <1>5 DEF DetachLook, DetachRetry, Local, Locals, Detaching
    <2>2. PICK stage \in {"reading", "connectLock", "unregister", "detach", "detachLock"} :
            Goto(c, stage) /\ \E f : Keep(c, f)
      BY <1>5, <2>1 DEF DetachLook, DetachRetry, Continue
    <2>3. pc[c] \in {"detach", "detachLock"}
          /\ UNCHANGED <<storeVars, connVars, lock, shown, faults>>
      BY <1>5 DEF DetachLook, DetachRetry
    <2>4. \A d \in Conns \ {c} : fr'[d] = fr[d]
      BY <1>1, <2>2 DEF Keep, Typed, TypeOK, Procs
    <2> QED
      BY <1>1, <2>2, <2>3, <2>4, MovesQuietly DEF Quiet
  <1>6. ASSUME NEW row, NEW stage \in {"connectSave", "opSave"},
               Goto(c, stage), Keep(c, [fr[c] EXCEPT !.row = row]), pc[c] \notin Notifying,
               UNCHANGED <<storeVars, connVars, shown, faults>>
        PROVE  Quiet
    <2>1. \A d \in Conns \ {c} : fr'[d] = fr[d]
      BY <1>1, <1>6 DEF Keep, Typed, TypeOK, Procs
    <2> QED
      BY <1>1, <1>6, <2>1, MovesQuietly DEF Quiet
  <1>7. ASSUME ConnectLock(c) PROVE Quiet
    <2>1. pc[c] = "connectLock" /\ UNCHANGED <<storeVars, connVars, shown>>
      BY <1>7 DEF ConnectLock
    <2>2. CASE Reject(c, fr[c].game) /\ (UNCHANGED faults \/ Fault)
      BY <2>1, <2>2, RejectQuiet
    <2> QED
      BY <1>6, <1>7, <2>1, <2>2 DEF ConnectLock
  <1>8. ASSUME OpLock(c) PROVE Quiet
    <2>1. pc[c] = "opLock" /\ UNCHANGED <<storeVars, connVars, shown>>
      BY <1>8 DEF OpLock
    <2>2. CASE Reject(c, fr[c].game) /\ (UNCHANGED faults \/ Fault)
      BY <2>1, <2>2, RejectQuiet
    <2> QED
      BY <1>6, <1>8, <2>1, <2>2 DEF OpLock
  <1> QED
    BY <1>2, <1>3, <1>4, <1>5, <1>7, <1>8

\* The holder of a game's lock has stored what it is about to tell.
Saved(c, g) ==
  /\ UNCHANGED <<players, conns, attached, conn, shown, faults>>
  /\ \A d \in Conns \ {c} : pc'[d] = pc[d] /\ fr'[d] = fr[d]
  /\ \A h \in Games \ {g} : games'[h] = games[h]
  /\ lock[g] = c /\ fr[c].game = g /\ games'[g] \in Row
  /\ fr'[c].game = g /\ fr'[c].row = games'[g]
  /\ \A seat \in Seats : games'[g].who[seat] \in players \cup {NoPlayer}
  /\ \/ /\ pc[c] = "opSave" /\ pc'[c] = "opNotify" /\ conn[c].game = g
        /\ fr'[c].op = "leave" => games'[g].st.status = "CLOSED"
     \/ /\ pc[c] = "connectSave" /\ pc'[c] = "connectAttach"
        /\ conn[c].player \in players /\ SeatOf(games'[g], conn[c].player) # NoSeat
        /\ conn[c].game = g =>
             /\ games[g] \in Row /\ games'[g].st = games[g].st
             /\ \A seat \in Seats : games'[g].who[seat] = games[g].who[seat]

\* nor a save that fails.
LEMMA FailedSaveQuiet ==
  ASSUME IInv, NEW c \in Conns, NEW next, Save(c, next), pc[c] \in {"connectSave", "opSave"},
         UNCHANGED <<connVars, shown>>, ~(Goto(c, next) /\ UNCHANGED <<lock, faults>>)
  PROVE  Quiet
  <1>1. /\ Return(c) /\ UNCHANGED storeVars /\ (UNCHANGED faults \/ Fault)
        /\ Typed /\ c \in Procs
    BY DEF Save, IInv, Procs
  <1>2. Goto(c, "reading") /\ \A d \in Conns \ {c} : fr'[d] = fr[d]
    BY <1>1 DEF Return, Keep, Typed, TypeOK, Procs
  <1>3. faults' = 0 => faults = 0
    BY <1>1, FaultsGrow
  <1> QED
    BY <1>1, <1>2, <1>3, MovesQuietly DEF Quiet, storeVars, connVars, Notifying

\* What a successful save leaves in the store and in its locals.
LEMMA StoredRow ==
  ASSUME IInv, NEW c \in Conns, NEW next, Goto(c, next), next \in Notifying,
         NEW g \in Games, g = fr[c].game, pc[c] \in {"connectSave", "opSave"},
         NEW row \in Row, SaveGame(g, row, conn[c].player), fr[c].row = row, fr' = fr,
         UNCHANGED <<connVars, shown, faults>>
  PROVE  /\ UNCHANGED <<players, conns, attached, conn, shown, faults>>
         /\ \A d \in Conns \ {c} : pc'[d] = pc[d] /\ fr'[d] = fr[d]
         /\ \A h \in Games \ {g} : games'[h] = games[h]
         /\ lock[g] = c /\ games'[g] = row
         /\ fr'[c].game = g /\ fr'[c].row = row /\ fr'[c].op = fr[c].op /\ pc'[c] = next
  <1>1. /\ Typed /\ c \in Procs /\ Local(c) /\ fr[c] \in Frames /\ lock[g] = c
        /\ games \in [Games -> Row \cup {NoRow}]
    BY DEF IInv, Procs, Local, Locals, InGame, Holding, Typed, TypeOK, StoreTypeOK
  <1>2. pc'[c] = next /\ \A d \in Conns \ {c} : pc'[d] = pc[d]
    BY <1>1 DEF Goto, Typed, Procs
  <1>3. games'[g] = row /\ \A h \in Games \ {g} : games'[h] = games[h]
    BY <1>1 DEF SaveGame
  <1> QED
    BY <1>1, <1>2, <1>3 DEF SaveGame, connVars

\* The saves of game::connect and of the game actions.
LEMMA ConnectSaves ==
  ASSUME IInv, NEW c \in Conns, ConnectSave(c)
  PROVE  Quiet \/ \E g \in Games : Saved(c, g)
  <1>1. PICK g \in Games, p \in Players, row \in Row :
          /\ g = fr[c].game /\ p = conn[c].player /\ row = fr[c].row
          /\ pc[c] = "connectSave" /\ Save(c, "connectAttach") /\ UNCHANGED <<connVars, shown>>
          /\ Open(g) /\ (Returns(row, g, p) \/ Joins(row, g, p))
          /\ games[g] \in Row
    <2>1. pc[c] = "connectSave" /\ Save(c, "connectAttach") /\ UNCHANGED <<connVars, shown>>
      BY DEF ConnectSave
    <2>2. Locals(c) /\ Place(c) /\ Ready(c) /\ conn[c] \in ConnFields
          /\ games \in [Games -> Row \cup {NoRow}]
      BY DEF IInv, Procs, Local, Typed, TypeOK, StoreTypeOK
    <2>3. fr[c].game \in Games /\ conn[c].player \in Players
      BY <2>1, <2>2 DEF Locals, Place, InGame, Holding, Connecting, ConnFields
    <2> QED
      BY <2>1, <2>2, <2>3 DEF Ready, Open
  <1>2. CASE ~(Goto(c, "connectAttach") /\ UNCHANGED <<lock, faults>>)
    BY <1>1, <1>2, FailedSaveQuiet
  <1>3. CASE Goto(c, "connectAttach") /\ UNCHANGED <<lock, faults>>
    <2>1. pc'[c] = "connectAttach"
      BY <1>3 DEF Goto, IInv, Typed, Procs
    <2>2. CanSave(g, row) /\ SaveGame(g, row, p) /\ fr' = fr
      BY <1>1, <2>1 DEF Save, Return, Goto, IInv, Typed, Procs
    <2>3. /\ UNCHANGED <<players, conns, attached, conn, shown, faults>>
          /\ \A d \in Conns \ {c} : pc'[d] = pc[d] /\ fr'[d] = fr[d]
          /\ \A h \in Games \ {g} : games'[h] = games[h]
          /\ lock[g] = c /\ games'[g] = row
          /\ fr'[c].game = g /\ fr'[c].row = row
      BY <1>1, <1>3, <2>2, StoredRow DEF Notifying
    <2>4. p \in players /\ SeatOf(row, p) # NoSeat
      <3>1. \E seat \in Seats : row.who[seat] = p
        BY <1>1 DEF Returns, Joins, SeatOf, Seats
      <3>2. p \in players
        BY <2>2, <3>1, StoreAssumption DEF CanSave
      <3>3. p # NoPlayer /\ "HOST" # NoSeat /\ "GUEST" # NoSeat
        BY StoreAssumption DEF NoSeat
      <3> QED
        BY <3>1, <3>2, <3>3 DEF SeatOf, Seats
    <2>5. ASSUME conn[c].game = g
          PROVE  row.st = games[g].st /\ \A seat \in Seats : row.who[seat] = games[g].who[seat]
      <3>1. SeatOf(games[g], p) # NoSeat
        <4>1. c \in attached[g] /\ Backed(g)
          BY <2>5 DEF IInv, RegistriesAgree
        <4> QED
          BY <1>1, <2>4, <4>1, SeatDistinct DEF Backed
      <3>2. Returns(row, g, p)
        BY <1>1, <3>1 DEF Joins
      <3>3. Fits(row, g)
        BY <1>1, <3>2 DEF Returns, Fits
      <3> QED
        BY <1>1, <2>2, <3>2, <3>3, FitsExactly DEF Returns
    <2>6. Saved(c, g)
      BY <1>1, <2>1, <2>2, <2>3, <2>4, <2>5 DEF Saved, CanSave
    <2> QED
      BY <2>6
  <1> QED
    BY <1>2, <1>3

LEMMA OpSaves ==
  ASSUME IInv, NEW c \in Conns, OpSave(c)
  PROVE  Quiet \/ \E g \in Games : Saved(c, g)
  <1>1. PICK g \in Games, row \in Row :
          /\ g = fr[c].game /\ row = fr[c].row
          /\ pc[c] = "opSave" /\ Save(c, "opNotify") /\ UNCHANGED <<connVars, shown>>
          /\ games[g] \in Row /\ conn[c].game = g
          /\ fr[c].op = "leave" => row.st = Close(games[g].st)
    <2>1. pc[c] = "opSave" /\ Save(c, "opNotify") /\ UNCHANGED <<connVars, shown>>
      BY DEF OpSave
    <2>2. Locals(c) /\ Ready(c) /\ games \in [Games -> Row \cup {NoRow}]
      BY DEF IInv, Procs, Local, Typed, TypeOK, StoreTypeOK
    <2>3. fr[c].game \in Games
      BY <2>1, <2>2 DEF Locals, InGame, Holding
    <2> QED
      BY <2>1, <2>2, <2>3 DEF Ready, Result
  <1>2. CASE ~(Goto(c, "opNotify") /\ UNCHANGED <<lock, faults>>)
    BY <1>1, <1>2, FailedSaveQuiet
  <1>3. CASE Goto(c, "opNotify") /\ UNCHANGED <<lock, faults>>
    <2>1. pc'[c] = "opNotify"
      BY <1>3 DEF Goto, IInv, Typed, Procs
    <2>2. CanSave(g, row) /\ SaveGame(g, row, conn[c].player) /\ fr' = fr
      BY <1>1, <2>1 DEF Save, Return, Goto, IInv, Typed, Procs
    <2>3. /\ UNCHANGED <<players, conns, attached, conn, shown, faults>>
          /\ \A d \in Conns \ {c} : pc'[d] = pc[d] /\ fr'[d] = fr[d]
          /\ \A h \in Games \ {g} : games'[h] = games[h]
          /\ lock[g] = c /\ games'[g] = row
          /\ fr'[c].game = g /\ fr'[c].row = row /\ fr'[c].op = fr[c].op
      BY <1>1, <1>3, <2>2, StoredRow DEF Notifying
    <2>4. fr[c].op = "leave" => row.st.status = "CLOSED"
      BY <1>1, RowParts DEF Close, State
    <2>5. Saved(c, g)
      BY <1>1, <2>1, <2>2, <2>3, <2>4 DEF Saved, CanSave
    <2> QED
      BY <2>5
  <1> QED
    BY <1>2, <1>3

-----------------------------------------------------------------------------
(* The steps that keep everyone's picture.                                  *)

\* Nobody else is about to tell game g, while somebody holds its lock.
LEMMA OneTeller ==
  ASSUME IInv, NEW c \in Procs, NEW d \in Procs, pc[c] \in Holding, pc[d] \in Holding,
         fr[c].game = fr[d].game
  PROVE  c = d
  BY DEF IInv, Local, Locals

\* Each kind of step keeps what everyone was shown.
LEMMA QuietShows ==
  ASSUME IInv, VInv, Quiet
  PROVE  VInv'
  <1>1. /\ UNCHANGED <<games, players, attached, shown>>
        /\ faults' = 0 => faults = 0
    BY DEF Quiet
  <1>2. \A d \in Conns :
          /\ conn'[d].game = conn[d].game /\ conn'[d].seat = conn[d].seat
          /\ conn[d].player # NoPlayer => conn'[d].player = conn[d].player
          /\ Live(d)' => Live(d) \/ d \notin conns
          /\ d \in conns => d \in conns'
          /\ pc[d] \in Notifying \/ pc'[d] \in Notifying => pc'[d] = pc[d] /\ fr'[d] = fr[d]
    BY DEF Quiet, Live
  <1>3. ViewsTyped' /\ AllPlayers'
    BY <1>1 DEF VInv, ViewsTyped, AllPlayers
  <1>4. MembersOnly' /\ Watching'
    BY <1>1, <1>2 DEF VInv, MembersOnly, Watching
  <1>5. TellsStored'
    BY <1>1, <1>2 DEF VInv, TellsStored, Notifying
  <1>6. ASSUME NEW g \in Games PROVE Current(g)'
    <2>1. Telling(g)' <=> Telling(g)
      BY <1>2 DEF Telling, Notifying
    <2>2. RowBoard(g, games[g])' = RowBoard(g, games[g])
      BY <1>1 DEF RowBoard
    <2>3. \A d \in attached[g] : d \in Conns /\ d \in conns
      BY HubAssumption DEF IInv, RegistriesAgree, Typed, TypeOK
    <2>4. \A d \in attached'[g] : d \in attached[g] /\ (Live(d)' => Live(d)) /\ shown'[d] = shown[d]
      BY <1>1, <1>2, <2>3
    <2>5. Current(g) /\ (NoFault' => NoFault)
      BY <1>1 DEF VInv, NoFault
    <2>6. \A d \in attached'[g] : Board(shown[d])' = Board(shown[d])
      BY <2>4 DEF Board
    <2> QED
      BY <2>1, <2>2, <2>4, <2>5, <2>6 DEF Current
  <1> QED
    BY <1>3, <1>4, <1>5, <1>6 DEF VInv

LEMMA SavedShows ==
  ASSUME IInv, VInv, NEW c \in Conns, NEW g \in Games, Saved(c, g)
  PROVE  VInv'
  <1>1. /\ UNCHANGED <<players, conns, attached, conn, shown, faults>>
        /\ \A d \in Conns \ {c} : pc'[d] = pc[d] /\ fr'[d] = fr[d]
        /\ \A h \in Games \ {g} : games'[h] = games[h]
        /\ pc[c] \in {"opSave", "connectSave"} /\ pc'[c] \in Notifying
        /\ fr[c].game = g /\ fr'[c].game = g /\ fr'[c].row = games'[g]
        /\ pc[c] = "opSave" <=> pc'[c] = "opNotify"
    BY DEF Saved, Notifying
  <1>2. ViewsTyped' /\ AllPlayers' /\ MembersOnly' /\ Watching'
    BY <1>1 DEF VInv, ViewsTyped, AllPlayers, MembersOnly, Watching, Live
  <1>3. ASSUME NEW d \in Conns \ {c}, pc[d] \in Notifying
        PROVE  fr[d].game \in Games \ {g}
    <2>1. pc[d] \in Holding /\ pc[c] \in Holding
      BY <1>1, <1>3 DEF Notifying, Holding
    <2>2. fr[d].game \in Games
      BY <2>1 DEF IInv, Local, Locals, Procs, InGame
    <2> QED
      BY <1>1, <1>3, <2>1, <2>2, OneTeller DEF Procs
  <1>4. TellsStored'
    <2> SUFFICES ASSUME NEW d \in Conns, pc'[d] \in Notifying
                 PROVE  /\ fr'[d].row = games'[fr'[d].game] /\ fr'[d].row \in Row
                        /\ pc'[d] = "opNotify" => conn'[d].game = fr'[d].game
                        /\ pc'[d] = "opNotify" /\ fr'[d].op = "leave" =>
                             fr'[d].row.st.status = "CLOSED"
      BY DEF TellsStored
    <2>1. CASE d = c
      BY <1>1, <2>1 DEF Saved
    <2>2. CASE d # c
      BY <1>1, <1>3, <2>2 DEF VInv, TellsStored
    <2> QED
      BY <2>1, <2>2
  <1>5. ASSUME NEW h \in Games PROVE Current(h)'
    <2>1. CASE h # g
      <3>1. Telling(h)' <=> Telling(h)
        BY <1>1, <2>1 DEF Telling
      <3>2. RowBoard(h, games[h])' = RowBoard(h, games[h])
        BY <1>1, <2>1 DEF RowBoard
      <3> QED
        BY <1>1, <3>1, <3>2 DEF VInv, Current, NoFault, Live, Board
    <2>2. CASE h = g /\ ~Telling(g)'
      <3>1. pc[c] = "connectSave" /\ pc'[c] = "connectAttach" /\ conn[c].game = g
        BY <1>1, <2>2 DEF Telling, Notifying
      <3>2. /\ games[g] \in Row /\ games'[g].st = games[g].st
            /\ \A seat \in Seats : games'[g].who[seat] = games[g].who[seat]
        BY <3>1 DEF Saved
      <3>3. RowBoard(g, games[g])' = RowBoard(g, games[g])
        BY <1>1, <3>2 DEF RowBoard
      <3>4. ~Telling(g)
        BY <1>1, <1>3, <3>1 DEF Telling, Notifying
      <3> QED
        BY <1>1, <2>2, <3>3, <3>4 DEF VInv, Current, NoFault, Live, Board
    <2> QED
      BY <2>1, <2>2 DEF Current
  <1> QED
    BY <1>2, <1>4, <1>5 DEF VInv

\* detachLocked(t) and the word to the rest of game g.
Leaves(c, t, g) ==
  /\ UNCHANGED <<games, players, conns, faults>>
  /\ pc[c] \notin Tellers /\ pc'[c] \notin Tellers
  /\ \A d \in Procs \ {c} : pc'[d] = pc[d] /\ fr'[d] = fr[d]
  /\ Free(g) /\ t \in attached[g] /\ conn'[t].game = NoGame
  /\ attached'[g] = attached[g] \ {t} /\ \A h \in Games \ {g} : attached'[h] = attached[h]
  /\ \A d \in Conns \ {t} : conn'[d].game = conn[d].game /\ conn'[d].seat = conn[d].seat
  /\ \A d \in Conns : conn'[d].player = conn[d].player /\ conn'[d].closing = conn[d].closing
  /\ shown'[t] \in {NoView, shown[t]}
  /\ \A d \in Conns \ {t} :
       shown'[d] = IF d \in attached[g] /\ ~conn[d].closing THEN WithDown(shown[d], conn[t].seat)
                   ELSE shown[d]
  /\ DOMAIN shown' = Conns /\ shown' = [d \in Conns |-> shown'[d]]

\* A live client that is detached has asked for it.
LeftAlone(t) == shown'[t] = NoView \/ conn[t].closing

\* Detach is of that kind.
LEMMA DetachLeaves ==
  ASSUME IInv, NEW c \in Procs, Detach(c)
  PROVE  \E t \in Conns, g \in Games :
           Leaves(c, t, g) /\ (DetachesClosed(c) => LeftAlone(t))
  <1>1. PICK t \in Conns, g \in Games :
          /\ t = fr[c].target /\ g = fr[c].from
          /\ pc[c] = "detachLock" /\ conn[t].game = g /\ Free(g)
          /\ Detached({t}, g) /\ Continue(c)
          /\ UNCHANGED <<storeVars, conns, playerConn, lock, faults>>
          /\ fr[c].then \in {"reading", "connectLock", "unregister", "deletePlayer"}
          /\ DetachesClosed(c) => fr[c].then = "connectLock" \/ conn[t].closing
    <2>1. Local(c) /\ pc[c] = "detachLock"
      BY DEF IInv, Detach
    <2>2. /\ fr[c].target \in Conns /\ fr[c].from \in Games
          /\ fr[c].then \in {"reading", "connectLock", "unregister", "deletePlayer"}
          /\ DetachesClosed(c) => fr[c].then = "connectLock" \/ conn[fr[c].target].closing
      BY <2>1 DEF Local, Locals, Detaching, DetachesClosed, Procs
    <2> QED
      BY <2>1, <2>2 DEF Detach
  <1>2. {t} \subseteq attached[g]
    BY <1>1 DEF IInv, RegistriesAgree
  <1>3. /\ attached'[g] = attached[g] \ {t}
        /\ \A h \in Games \ {g} : attached'[h] = attached[h]
        /\ conn'[t].game = NoGame
        /\ \A d \in Conns \ {t} : conn'[d].game = conn[d].game /\ conn'[d].seat = conn[d].seat
        /\ \A d \in Conns : /\ conn'[d].player = conn[d].player
                            /\ conn'[d].closing = conn[d].closing
    BY <1>1, <1>2, DetachedConns
  <1>4. /\ pc'[c] = fr[c].then /\ \A d \in Procs \ {c} : pc'[d] = pc[d] /\ fr'[d] = fr[d]
    BY <1>1 DEF Continue, Goto, Keep, IInv, Typed, TypeOK
  <1>5. \A o \in Conns :
          shown'[o] = IF o = t /\ fr[c].then = "connectLock" /\ ~conn[o].closing THEN NoView
                      ELSE IF o \in attached[g] \ {t} /\ ~conn[o].closing
                      THEN WithDown(shown[o], conn[t].seat)
                      ELSE shown[o]
    BY <1>1, DetachShows
  <1>6. DOMAIN shown' = Conns /\ shown' = [d \in Conns |-> shown'[d]]
    BY DEF Detach, Send
  <1>7. Leaves(c, t, g)
    BY <1>1, <1>2, <1>3, <1>4, <1>5, <1>6 DEF Leaves, storeVars, Tellers, Notifying
  <1>8. DetachesClosed(c) => LeftAlone(t)
    BY <1>1, <1>5 DEF LeftAlone
  <1> QED
    BY <1>7, <1>8

LEMMA LeavesShows ==
  ASSUME IInv, VInv, NEW c \in Conns, NEW t \in Conns, NEW g \in Games, Leaves(c, t, g),
         LeftAlone(t)
  PROVE  VInv'
  <1>1. /\ UNCHANGED <<games, players, conns, faults>>
        /\ \A d \in Conns \ {c} : pc'[d] = pc[d] /\ fr'[d] = fr[d]
        /\ pc[c] \notin Notifying /\ pc'[c] \notin Notifying
        /\ attached'[g] = attached[g] \ {t} /\ \A h \in Games \ {g} : attached'[h] = attached[h]
    BY DEF Leaves, Tellers, Procs
  <1>2. \A d \in Conns :
          /\ conn'[d].player = conn[d].player
          /\ Live(d)' <=> Live(d)
          /\ d # t => conn'[d].game = conn[d].game
    BY <1>1 DEF Leaves, Live
  <1>3. ASSUME NEW d \in Conns \ {t}
        PROVE  \/ shown[d] = NoView /\ shown'[d] = NoView
               \/ /\ shown[d] \in Views /\ shown'[d] \in Views
                  /\ shown[d] # NoView /\ shown'[d] # NoView
                  /\ shown'[d].game = shown[d].game /\ shown'[d].status = shown[d].status
                  /\ Board(shown[d])' = Board(shown[d])
    <2>1. shown[d] \in Views \cup {NoView}
      BY DEF VInv, ViewsTyped
    <2>2. shown'[d] \in {shown[d], WithDown(shown[d], conn[t].seat)}
      BY DEF Leaves
    <2>3. CASE shown[d] = NoView
      BY <2>2, <2>3 DEF WithDown
    <2>4. CASE shown[d] \in Views
      <3>1. PICK w : w = shown'[d]
        OBVIOUS
      <3>2. /\ w \in Views /\ w # NoView /\ Board(w) = Board(shown[d])
            /\ w.game = shown[d].game /\ w.status = shown[d].status
        BY <2>2, <2>4, <3>1, DownView, ViewAssumption
      <3>3. Board(shown[d])' = Board(w)
        BY <3>1 DEF Board
      <3> QED
        BY <2>4, <3>1, <3>2, <3>3, ViewAssumption
    <2> QED
      BY <2>1, <2>3, <2>4
  <1>4. shown'[t] = NoView \/ (~Live(t) /\ shown'[t] = shown[t])
    BY DEF Leaves, LeftAlone, Live
  <1>5. ViewsTyped' /\ AllPlayers'
    <2>1. \A d \in Conns : shown'[d] \in Views \cup {NoView}
      BY <1>3, <1>4 DEF VInv, ViewsTyped
    <2> QED
      BY <1>1, <2>1 DEF VInv, ViewsTyped, AllPlayers, Leaves
  <1>6. MembersOnly' /\ Watching'
    BY <1>1, <1>2, <1>3, <1>4 DEF VInv, MembersOnly, Watching
  <1>7. TellsStored'
    <2>1. conn[t].game = g
      BY DEF IInv, RegistriesAgree, Leaves
    <2>2. pc[t] = "opNotify" => fr[t].game # g
      BY HubAssumption DEF IInv, Local, Locals, Holding, Procs, Leaves, Free
    <2>3. pc[t] # "opNotify"
      BY <2>1, <2>2 DEF VInv, TellsStored, Notifying
    <2> QED
      BY <1>1, <1>2, <2>3 DEF VInv, TellsStored
  <1>8. ASSUME NEW h \in Games PROVE Current(h)'
    <2>1. t \in attached[g] /\ attached \in [Games -> SUBSET Conns]
      BY DEF Leaves, IInv, Typed, TypeOK
    <2>2. t \notin attached'[h] /\ attached'[h] \subseteq attached[h]
      BY <1>1, <2>1, HubAssumption DEF IInv, RegistriesAgree
    <2>3. Telling(h)' <=> Telling(h)
      <3>1. conn[t].game = g /\ g \in Games /\ conn'[t].game = NoGame
        BY <2>1 DEF IInv, RegistriesAgree, Leaves
      <3>2. pc[t] = "connectAttach" => fr[t].game # g
        BY HubAssumption DEF IInv, Local, Locals, Holding, Procs, Leaves, Free
      <3>3. \A d \in Conns : pc[d] = "connectAttach" /\ fr[d].game = h =>
              (conn'[d].game # h <=> conn[d].game # h)
        BY <1>2, <3>1, <3>2, HubAssumption
      <3> QED
        BY <1>1, <3>3 DEF Telling, Notifying
    <2>4. RowBoard(h, games[h])' = RowBoard(h, games[h])
      BY <1>1 DEF RowBoard
    <2>5. \A d \in attached'[h] : d \in Conns \ {t} /\ d \in attached[h]
      BY <2>1, <2>2
    <2> QED
      BY <1>1, <1>2, <1>3, <2>3, <2>4, <2>5 DEF VInv, Current, NoFault
  <1> QED
    BY <1>5, <1>6, <1>7, <1>8 DEF VInv

LEMMA UnregisterShows ==
  ASSUME IInv, VInv, NEW c \in Conns, Unregister(c)
  PROVE  VInv'
  <1>1. /\ UNCHANGED <<games, players, attached, conn, fr, faults>>
        /\ conns' = conns \ {c} /\ shown' = [shown EXCEPT ![c] = NoView]
        /\ pc[c] = "unregister" /\ pc'[c] = "gone" /\ \A d \in Conns \ {c} : pc'[d] = pc[d]
        /\ shown \in [Conns -> Views \cup {NoView}]
    BY DEF Unregister, Goto, storeVars, IInv, Typed, Procs, VInv, ViewsTyped
  <1>2. shown'[c] = NoView /\ \A d \in Conns \ {c} : shown'[d] = shown[d]
    BY <1>1
  <1>3. ViewsTyped' /\ AllPlayers'
    BY <1>1 DEF VInv, ViewsTyped, AllPlayers
  <1>4. MembersOnly' /\ Watching'
    BY <1>1, <1>2 DEF VInv, MembersOnly, Watching, Live
  <1>5. TellsStored'
    BY <1>1 DEF VInv, TellsStored, Notifying
  <1>6. ASSUME NEW g \in Games PROVE Current(g)'
    <2>1. Telling(g)' <=> Telling(g)
      BY <1>1 DEF Telling
    <2>2. RowBoard(g, games[g])' = RowBoard(g, games[g])
      BY <1>1 DEF RowBoard
    <2>3. c \notin attached[g] /\ attached[g] \subseteq Conns
      BY <1>1, HubAssumption DEF IInv, RegistriesAgree, Typed, TypeOK, Local, Place, Procs
    <2>4. \A d \in attached'[g] : d \in attached[g] /\ (Live(d)' => Live(d)) /\ shown'[d] = shown[d]
      BY <1>1, <1>2, <2>3 DEF Live
    <2>5. \A d \in attached'[g] : Board(shown[d])' = Board(shown[d])
      BY <2>4 DEF Board
    <2> QED
      BY <1>1, <2>1, <2>2, <2>4, <2>5 DEF VInv, Current, NoFault
  <1> QED
    BY <1>3, <1>4, <1>5, <1>6 DEF VInv

\* o is sent the view of the stored row, and that of its own seat unless
\* it shares the seat.
Fresh(o, g) ==
  \E you \in Seats, row \in Row :
    /\ row.st = games[g].st /\ Fits(row, g)
    /\ \E found \in Finds(row) : shown'[o] = Snapshot(g, row, you, attached'[g], found)
    /\ SeatsUnshared' => you = conn'[o].seat
    /\ \A d \in attached'[g] : SeatedAs(row, conn[d].player, conn'[d].seat)

Reattaches(c, g) ==
  /\ pc[c] = "connectAttach" /\ conn[c].game = g
  /\ attached' = attached /\ conn'[c].seat = conn[c].seat

\* c tells those attached to g of the row it has stored.
Tells(c, g) ==
  /\ UNCHANGED <<games, players, conns>>
  /\ faults' = 0 => faults = 0
  /\ pc[c] \in Notifying /\ fr[c].game = g /\ pc'[c] \notin Notifying
  /\ \A d \in Procs \ {c} : pc'[d] = pc[d] /\ fr'[d] = fr[d]
  /\ games[g] \in Row
  /\ \A d \in Conns : conn'[d].player = conn[d].player /\ conn'[d].closing = conn[d].closing
  /\ \A d \in Conns : \/ conn'[d].game = conn[d].game /\ conn'[d].seat = conn[d].seat
                      \/ /\ d = c /\ pc[c] = "connectAttach" /\ conn[c].game \in {NoGame, g}
                         /\ conn'[c].game = g
                         /\ conn'[c].seat = SeatOf(fr[c].row, conn[c].player)
  /\ \A h \in Games \ {g} : attached'[h] = attached[h]
  /\ attached[g] \subseteq attached'[g] /\ attached'[g] \subseteq Conns
  /\ \A d \in attached'[g] :
       /\ conn'[d].game = g /\ conn'[d].seat \in Seats /\ conn[d].player # NoPlayer
       /\ games[g].who[conn'[d].seat] \in {conn[d].player, NoPlayer}
       /\ conn[d].player \in players => conn'[d].seat = SeatOf(games[g], conn[d].player)
  /\ shown' = [d \in Conns |-> shown'[d]]
  /\ \A o \in Conns : shown'[o] = shown[o] \/ (o \in attached'[g] /\ Live(o) /\ Fresh(o, g))
  /\ faults' = 0 => \A o \in attached'[g] :
       Live(o) => Fresh(o, g) \/ (Reattaches(c, g) /\ o # c)

\* The seat of an attached connection is the one the stored row gives it,
\* while its player is there.
LEMMA SeatHeld ==
  ASSUME IInv, NEW g \in Games, NEW d \in attached[g]
  PROVE  /\ d \in Conns /\ d \in conns /\ conn[d].game = g /\ conn[d].seat \in Seats
         /\ conn[d].player \in Players /\ conn[d].player # NoPlayer
         /\ games[g] \in Row
         /\ conn[d].player \in players => conn[d].seat = SeatOf(games[g], conn[d].player)
  <1>1. /\ Typed /\ RegistriesAgree /\ Backed(g)
        /\ attached \in [Games -> SUBSET Conns] /\ conn \in [Conns -> ConnFields]
        /\ games \in [Games -> Row \cup {NoRow}]
    BY DEF IInv, Typed, TypeOK, StoreTypeOK
  <1>2. d \in Conns /\ conn[d].game = g /\ d \in conns /\ conn[d].player # NoPlayer
    BY <1>1, HubAssumption DEF RegistriesAgree
  <1>3. conn[d].player \in Players
    BY <1>1, <1>2 DEF ConnFields
  <1> QED
    BY <1>1, <1>2, <1>3 DEF Backed

LEMMA SeatStored ==
  ASSUME IInv, AllPlayers, NEW g \in Games, NEW d \in attached[g]
  PROVE  /\ d \in Conns /\ d \in conns /\ conn[d].game = g /\ conn[d].seat \in Seats
         /\ conn[d].player \in Players /\ conn[d].player # NoPlayer
         /\ games[g] \in Row
         /\ conn[d].seat = SeatOf(games[g], conn[d].player)
  BY SeatHeld DEF AllPlayers

\* A row that fits the stored one seats every player that is there alike.
LEMMA FitsSeat ==
  ASSUME StoreTypeOK, NEW g \in Games, NEW row, Fits(row, g), NEW p \in players
  PROVE  SeatOf(row, p) = SeatOf(games[g], p)
  <1>1. \A seat \in Seats : row.who[seat] = p <=> games[g].who[seat] = p
    BY StoreAssumption DEF Fits, StoreTypeOK
  <1> QED
    BY <1>1 DEF SeatOf, Seats

\* Attaching changes the game and the seat of one connection.
LEMMA AttachedFields ==
  ASSUME Typed, NEW c \in Conns, NEW g \in Games, NEW seat \in Seats, Attached(c, g, seat)
  PROVE  /\ attached'[g] = attached[g] \cup {c}
         /\ \A h \in Games \ {g} : attached'[h] = attached[h]
         /\ conn'[c].game = g /\ conn'[c].seat = seat
         /\ \A d \in Conns : conn'[d].player = conn[d].player /\ conn'[d].closing = conn[d].closing
         /\ \A d \in Conns \ {c} : conn'[d] = conn[d]
  <1>1. conn' = [conn EXCEPT ![c] = [conn[c] EXCEPT !.game = g, !.seat = seat]]
    BY DEF Attached, ConnFields, Typed, TypeOK
  <1> QED
    BY <1>1 DEF Attached, ConnFields, Typed, TypeOK

\* game::connect tells the game of the row it stored,
LEMMA AttachTells ==
  ASSUME IInv, ViewsTyped, SeatsBacked, NEW c \in Conns, TellsRow(c), RowOfAll(c),
         ConnectAttach(c)
  PROVE  \E g \in Games : Tells(c, g)
  <1>1. PICK g \in Games, p \in Players, row \in Row :
          /\ g = fr[c].game /\ p = conn[c].player /\ row = fr[c].row
          /\ pc[c] = "connectAttach" /\ Typed
          /\ conn[c].game \in {NoGame, g} /\ games[g] \in Row
          /\ row.st = games[g].st /\ Fits(row, g) /\ SeatOf(row, p) # NoSeat
          /\ conn[c].game = g => conn[c].seat = SeatOf(row, p)
    <2>1. Typed /\ Locals(c) /\ Place(c) /\ pc[c] = "connectAttach"
      BY DEF IInv, Local, Procs, ConnectAttach
    <2>2. fr[c].game \in Games /\ conn[c].game \in {NoGame, fr[c].game} /\ conn[c].player # NoPlayer
      BY <2>1 DEF Locals, InGame, Holding, Place, Connecting
    <2>3. conn[c].player \in Players
      BY <2>1, <2>2 DEF Typed, TypeOK, ConnFields
    <2> QED
      BY <2>1, <2>2, <2>3 DEF TellsRow, Tellers, Notifying
  <1>2. PICK seat \in Seats : seat = SeatOf(row, p)
    BY <1>1, SeatOfType
  <1>3. /\ Attached(c, g, seat) /\ Return(c) /\ UNCHANGED <<storeVars, conns>>
    BY <1>1, <1>2 DEF ConnectAttach
  <1>4. /\ attached'[g] = attached[g] \cup {c} /\ attached[g] \subseteq Conns
        /\ \A h \in Games \ {g} : attached'[h] = attached[h]
        /\ conn'[c].game = g /\ conn'[c].seat = seat
        /\ \A d \in Conns : conn'[d].player = conn[d].player /\ conn'[d].closing = conn[d].closing
        /\ \A d \in Conns \ {c} : conn'[d] = conn[d]
        /\ c \in attached[g] <=> conn[c].game = g
    BY <1>1, <1>3, AttachedFields DEF Typed, TypeOK, IInv, RegistriesAgree
  <1>5. pc'[c] = "reading" /\ \A d \in Procs \ {c} : pc'[d] = pc[d] /\ fr'[d] = fr[d]
    BY <1>1, <1>3 DEF Return, Goto, Keep, Typed, TypeOK, Procs
  <1>6. \A d \in attached'[g] :
          /\ conn'[d].game = g /\ conn'[d].seat \in Seats
          /\ d \in Conns /\ d \in conns /\ conn[d].player # NoPlayer
          /\ games[g].who[conn'[d].seat] \in {conn[d].player, NoPlayer}
          /\ conn[d].player \in players => conn'[d].seat = SeatOf(games[g], conn[d].player)
    <2>1. ASSUME NEW d \in attached[g] \ {c}
          PROVE  /\ conn'[d].game = g /\ conn'[d].seat \in Seats
                 /\ d \in Conns /\ d \in conns /\ conn[d].player # NoPlayer
                 /\ games[g].who[conn'[d].seat] \in {conn[d].player, NoPlayer}
                 /\ conn[d].player \in players => conn'[d].seat = SeatOf(games[g], conn[d].player)
      BY <1>4, <2>1, SeatHeld DEF SeatsBacked
    <2>2. c \in conns /\ p # NoPlayer
      BY <1>1, StoreAssumption DEF IInv, Local, Place, Procs
    <2>3. row.who[seat] = p
      BY <1>2, SeatDistinct DEF SeatOf
    <2>4. games[g].who[seat] \in {p, NoPlayer}
      BY <1>1, <1>2, <2>3 DEF Fits
    <2>5. p \in players => seat = SeatOf(games[g], p)
      BY <1>1, <1>2, FitsSeat DEF Typed, TypeOK
    <2> QED
      BY <1>1, <1>4, <2>1, <2>2, <2>4, <2>5
  <1>7. \A d \in attached'[g] : SeatedAs(row, conn[d].player, conn'[d].seat)
    <2>1. SeatedAs(row, p, seat)
      BY <1>1, <1>2, SeatDistinct DEF SeatedAs, SeatOf
    <2> QED
      BY <1>1, <1>4, <2>1 DEF RowOfAll, Notifying
  <1>8. \/ UNCHANGED shown /\ Fault
        \/ /\ UNCHANGED faults
           /\ \E found \in Finds(row) :
                shown' = [o \in Conns |->
                  IF o \in Announced(c, g) /\ ~conn[o].closing
                  THEN Snapshot(g, row, SeatShown(o, c, seat), attached'[g], found)
                  ELSE shown[o]]
    <2>1. \/ UNCHANGED shown /\ Fault
          \/ /\ UNCHANGED faults
             /\ \E found \in Finds(fr[c].row) :
                  shown' = [o \in Conns |->
                    IF o \in Announced(c, fr[c].game) /\ ~conn[o].closing
                    THEN Snapshot(fr[c].game, fr[c].row,
                                  SeatShown(o, c, SeatOf(fr[c].row, conn[c].player)),
                                  attached[fr[c].game] \cup {c}, found)
                    ELSE shown[o]]
      BY Zenon DEF ConnectAttach, Send
    <2>2. /\ fr[c].game = g /\ fr[c].row = row /\ SeatOf(fr[c].row, conn[c].player) = seat
          /\ attached[fr[c].game] \cup {c} = attached'[g]
      BY <1>1, <1>2, <1>4
    <2> QED
      BY <2>1, <2>2, ZenonT(30)
  <1>9. ASSUME NEW o \in attached'[g], Live(o),
               \E found \in Finds(row) :
                 shown'[o] = Snapshot(g, row, SeatShown(o, c, seat), attached'[g], found)
        PROVE  Fresh(o, g)
    <2>1. o \in Conns /\ SeatShown(o, c, seat) \in Seats
      BY <1>4, <1>9 DEF SeatShown, Other, Seats
    <2>2. SeatsUnshared' => SeatShown(o, c, seat) = conn'[o].seat
      <3>1. CASE o = c
        BY <1>4, <3>1 DEF SeatShown
      <3>2. CASE o # c
        <4>1. Live(o)' /\ c \in attached'[g]
          BY <1>3, <1>4, <1>9, <2>1 DEF Live
        <4>2. SeatsUnshared' => conn'[o].seat # seat
          BY <1>4, <1>9, <3>2, <4>1 DEF SeatsUnshared
        <4>3. conn'[o].seat \in Seats
          BY <1>6, <1>9
        <4> QED
          BY <3>2, <4>2, <4>3 DEF SeatShown, Other, Seats
      <3> QED
        BY <3>1, <3>2
    <2> QED
      BY <1>1, <1>9, <1>7, <2>1, <2>2 DEF Fresh
  <1>10. shown' = [d \in Conns |-> shown'[d]]
    BY <1>8 DEF ViewsTyped
  <1>11. \A o \in Conns : shown'[o] = shown[o] \/ (o \in attached'[g] /\ Live(o) /\ Fresh(o, g))
    <2>1. Announced(c, g) \subseteq attached'[g]
      BY <1>4 DEF Announced
    <2> QED
      BY <1>6, <1>8, <1>9, <2>1 DEF Live
  <1>12. faults' = 0 => faults = 0
    BY <1>1, <1>8, FaultsGrow
  <1>13. faults' = 0 => \A o \in attached'[g] :
           Live(o) => Fresh(o, g) \/ (Reattaches(c, g) /\ o # c)
    <2> SUFFICES ASSUME faults' = 0, NEW o \in attached'[g], Live(o), ~Fresh(o, g)
                 PROVE  Reattaches(c, g) /\ o # c
      OBVIOUS
    <2>1. o \notin Announced(c, g)
      BY <1>1, <1>4, <1>8, <1>9, FaultsGrow DEF Live
    <2>2. conn[c].game = g /\ o # c
      BY <1>4, <2>1 DEF Announced
    <2>3. attached' = attached
      BY <1>3, <1>4, <2>2 DEF Attached, Typed, TypeOK, IInv
    <2> QED
      BY <1>1, <1>2, <1>4, <2>2, <2>3 DEF Reattaches
  <1>14. \A d \in Conns :
           \/ conn'[d].game = conn[d].game /\ conn'[d].seat = conn[d].seat
           \/ /\ d = c /\ pc[c] = "connectAttach" /\ conn[c].game \in {NoGame, g}
              /\ conn'[c].game = g
              /\ conn'[c].seat = SeatOf(fr[c].row, conn[c].player)
    BY <1>1, <1>2, <1>4
  <1>15. /\ UNCHANGED <<games, players, conns>> /\ pc[c] \in Notifying /\ fr[c].game = g
         /\ pc'[c] \notin Notifying /\ games[g] \in Row /\ attached[g] \subseteq attached'[g]
         /\ attached'[g] \subseteq Conns
    BY <1>1, <1>3, <1>4, <1>5 DEF storeVars, Notifying
  <1>16. Tells(c, g)
    BY <1>4, <1>5, <1>6, <1>10, <1>11, <1>12, <1>13, <1>14, <1>15 DEF Tells
  <1> QED
    BY <1>16

\* so do the broadcasts,
LEMMA NotifyTells ==
  ASSUME IInv, ViewsTyped, SeatsBacked, NEW c \in Conns, TellsRow(c), RowOfAll(c),
         OpNotify(c), fr[c].op # "leave"
  PROVE  \E g \in Games : Tells(c, g)
  <1>1. PICK g \in Games, row \in Row :
          /\ g = fr[c].game /\ row = fr[c].row
          /\ pc[c] = "opNotify" /\ Typed /\ attached[g] \subseteq Conns
          /\ games[g] \in Row /\ row.st = games[g].st /\ Fits(row, g)
    BY DEF IInv, Local, Locals, InGame, Holding, Procs, OpNotify, TellsRow, Tellers, Notifying,
           Typed, TypeOK
  <1>2. /\ Broadcast(g, row) /\ Return(c) /\ UNCHANGED <<storeVars, conns>>
    BY <1>1 DEF OpNotify
  <1>3. pc'[c] = "reading" /\ \A d \in Procs \ {c} : pc'[d] = pc[d] /\ fr'[d] = fr[d]
    BY <1>1, <1>2 DEF Return, Goto, Keep, Typed, TypeOK, Procs
  <1>4. UNCHANGED <<attached, conn>>
    BY <1>2 DEF Broadcast
  <1>5. \A d \in attached[g] :
          /\ d \in Conns /\ d \in conns /\ conn[d].player # NoPlayer
          /\ conn[d].game = g /\ conn[d].seat \in Seats
          /\ games[g].who[conn[d].seat] \in {conn[d].player, NoPlayer}
          /\ conn[d].player \in players => conn[d].seat = SeatOf(games[g], conn[d].player)
    BY SeatHeld DEF SeatsBacked
  <1>6. \/ UNCHANGED shown /\ Fault
        \/ /\ UNCHANGED faults
           /\ \E found \in Finds(row) :
                shown' = [o \in Conns |->
                  IF o \in attached[g] /\ ~conn[o].closing
                  THEN Snapshot(g, row, conn[o].seat, attached[g], found) ELSE shown[o]]
    BY <1>2 DEF Broadcast, Send
  <1>7. ASSUME NEW o \in attached[g],
               \E found \in Finds(row) :
                 shown'[o] = Snapshot(g, row, conn[o].seat, attached[g], found)
        PROVE  Fresh(o, g)
    BY <1>1, <1>4, <1>5, <1>7 DEF Fresh, RowOfAll, Notifying
  <1>8. /\ shown' = [d \in Conns |-> shown'[d]]
        /\ \A o \in Conns : shown'[o] = shown[o] \/ (o \in attached[g] /\ Live(o) /\ Fresh(o, g))
        /\ faults' = 0 => faults = 0
    BY <1>1, <1>5, <1>6, <1>7, FaultsGrow DEF ViewsTyped, Live
  <1>9. faults' = 0 => \A o \in attached[g] : Live(o) => Fresh(o, g)
    BY <1>1, <1>5, <1>6, <1>7, FaultsGrow DEF Live
  <1>10. Tells(c, g)
    BY <1>1, <1>2, <1>3, <1>4, <1>5, <1>8, <1>9 DEF Tells, storeVars, Notifying
  <1> QED
    BY <1>10

\* Everybody is detached from g, and told nothing but that it closed.
Closes(p, g) ==
  /\ UNCHANGED <<games, players, conns>>
  /\ faults' = 0 => faults = 0
  /\ pc[p] \in Tellers /\ fr[p].game = g /\ pc'[p] \notin Tellers
  /\ \A d \in Procs \ {p} : pc'[d] = pc[d] /\ fr'[d] = fr[d]
  /\ \A d \in Conns : conn'[d].player = conn[d].player /\ conn'[d].closing = conn[d].closing
  /\ \A d \in Conns \ attached[g] : conn'[d].game = conn[d].game /\ conn'[d].seat = conn[d].seat
  /\ \A d \in attached[g] : conn'[d].game = NoGame
  /\ attached'[g] = {} /\ \A h \in Games \ {g} : attached'[h] = attached[h]
  /\ shown' = [d \in Conns |-> shown'[d]]
  /\ \A o \in Conns :
       \/ shown'[o] = shown[o]
       \/ /\ o \in attached[g]
          /\ shown'[o] = NoView \/ (shown'[o] \in Views /\ shown'[o].status = "CLOSED")

\* Every live one of them is told.
AllTold(g) ==
  \A o \in attached[g] : Live(o) => shown'[o] = NoView \/ shown'[o].status = "CLOSED"

\* closeGameFor of a closed row, whoever runs it and for whomever.
LEMMA CloseGameCloses ==
  ASSUME IInv, ViewsTyped, NEW p \in Procs, NEW g \in Games, g = fr[p].game, pc[p] \in Tellers,
         NEW row \in Row, row.st.status = "CLOSED",
         NEW own \in SUBSET Conns, NEW asked \in SUBSET own, asked \subseteq attached[g],
         CloseGameFor(g, row, own, asked), Detached(attached[g], g),
         NEW stage, stage \notin Tellers, Goto(p, stage), Keep(p, NoFrame),
         UNCHANGED <<storeVars, conns>>, UNCHANGED faults \/ Fault
  PROVE  /\ Closes(p, g) /\ (own = asked => AllTold(g))
         /\ \A o \in attached[g] \ own :
              Live(o) => shown'[o] = NoView \/ shown'[o].status = "CLOSED"
  <1>1. Typed /\ attached[g] \subseteq Conns
    BY DEF IInv, Typed, TypeOK
  <1>2. pc'[p] = stage /\ \A d \in Procs \ {p} : pc'[d] = pc[d] /\ fr'[d] = fr[d]
    BY <1>1 DEF Goto, Keep, Typed, TypeOK
  <1>3. /\ attached'[g] = {} /\ \A h \in Games \ {g} : attached'[h] = attached[h]
        /\ \A d \in attached[g] : conn'[d].game = NoGame
        /\ \A d \in Conns \ attached[g] :
             conn'[d].game = conn[d].game /\ conn'[d].seat = conn[d].seat
        /\ \A d \in Conns : /\ conn'[d].player = conn[d].player
                            /\ conn'[d].closing = conn[d].closing
    BY <1>1, DetachedConns
  <1>4. \A d \in attached[g] : d \in Conns /\ conn[d].seat \in Seats
    BY SeatHeld
  <1>5. shown' = [o \in Conns |-> shown'[o]]
    BY DEF CloseGameFor, CloseBlind, Send
  <1>6. \A o \in Conns :
          \/ /\ o \notin asked \cup (attached[g] \ own) \/ conn[o].closing
             /\ shown'[o] = shown[o]
          \/ o \in asked /\ shown'[o] = NoView
          \/ /\ o \in attached[g]
             /\ \/ \E found \in Finds(row) :
                     shown'[o] = Snapshot(g, row, conn[o].seat, attached[g] \ own, found)
                \/ shown'[o] = WithClosed(shown[o])
    BY DEF CloseGameFor, CloseBlind, Send, Told
  <1>7. ASSUME NEW o \in attached[g],
               \/ \E found \in Finds(row) :
                    shown'[o] = Snapshot(g, row, conn[o].seat, attached[g] \ own, found)
               \/ shown'[o] = WithClosed(shown[o])
        PROVE  shown'[o] = NoView \/ (shown'[o] \in Views /\ shown'[o].status = "CLOSED")
    <2>1. CASE \E found \in Finds(row) :
                 shown'[o] = Snapshot(g, row, conn[o].seat, attached[g] \ own, found)
      BY <1>1, <1>4, <2>1, FindsPlayers, SnapshotView DEF Typed, TypeOK
    <2>2. CASE shown'[o] = WithClosed(shown[o])
      <3>1. shown[o] \in Views \cup {NoView}
        BY <1>4 DEF ViewsTyped
      <3>2. ASSUME NEW v \in Views
            PROVE  [v EXCEPT !.status = "CLOSED"] \in Views
                   /\ [v EXCEPT !.status = "CLOSED"].status = "CLOSED"
        BY DEF Views, Statuses
      <3> QED
        BY <2>2, <3>1, <3>2 DEF WithClosed
    <2> QED
      BY <1>7, <2>1, <2>2
  <1>8. \A o \in Conns :
          \/ shown'[o] = shown[o]
          \/ /\ o \in attached[g]
             /\ shown'[o] = NoView \/ (shown'[o] \in Views /\ shown'[o].status = "CLOSED")
    BY <1>6, <1>7
  <1>9. ASSUME own = asked PROVE AllTold(g)
    BY <1>4, <1>6, <1>7, <1>9 DEF AllTold, Live
  <1>10. faults' = 0 => faults = 0
    BY <1>1, FaultsGrow
  <1>11. Closes(p, g)
    BY <1>2, <1>3, <1>5, <1>8, <1>10 DEF Closes, storeVars
  <1>12. \A o \in attached[g] \ own : Live(o) => shown'[o] = NoView \/ shown'[o].status = "CLOSED"
    BY <1>4, <1>6, <1>7 DEF Live
  <1> QED
    BY <1>9, <1>11, <1>12

\* game::leave is of that kind.
LEMMA NotifyCloses ==
  ASSUME IInv, ViewsTyped, NEW c \in Conns, TellsRow(c), OpNotify(c), fr[c].op = "leave"
  PROVE  \E g \in Games : Closes(c, g) /\ AllTold(g)
  <1>1. PICK g \in Games, row \in Row :
          /\ g = fr[c].game /\ row = fr[c].row /\ row.st.status = "CLOSED"
          /\ pc[c] = "opNotify" /\ Typed /\ c \in attached[g]
    BY DEF IInv, RegistriesAgree, Local, Locals, InGame, Holding, Procs, OpNotify, TellsRow, Tellers,
           Notifying, Typed, TypeOK
  <1>2. /\ CloseGameFor(g, row, {c}, {c}) /\ Goto(c, "reading") /\ Keep(c, NoFrame)
        /\ UNCHANGED <<storeVars, conns>>
        /\ Detached(attached[g], g) /\ (UNCHANGED faults \/ Fault)
    BY <1>1, NotifyEffect DEF OpNotify, Return
  <1>3. c \in Procs /\ pc[c] \in Tellers /\ "reading" \notin Tellers
    BY <1>1 DEF Procs, Tellers, Notifying
  <1>4. PICK own \in SUBSET Conns : own = {c} /\ own \in SUBSET own /\ own \subseteq attached[g]
    BY <1>1
  <1>5. CloseGameFor(g, row, own, own)
    BY <1>2, <1>4
  <1>6. Closes(c, g) /\ (own = own => AllTold(g))
    BY <1>1, <1>2, <1>3, <1>4, <1>5, CloseGameCloses, Zenon
  <1> QED
    BY <1>6

\* On the hub nobody's player is gone: what is told is what is stored.
LEMMA TellsStoredRow ==
  ASSUME IInv, VInv
  PROVE  SeatsBacked /\ \A c \in Conns : TellsRow(c) /\ RowOfAll(c)
  <1>1. SeatsBacked
    <2> SUFFICES ASSUME NEW g \in Games, NEW d \in attached[g]
                 PROVE  games[g].who[conn[d].seat] = conn[d].player
      BY DEF SeatsBacked
    <2>1. conn[d].seat \in Seats /\ conn[d].seat = SeatOf(games[g], conn[d].player)
      BY SeatStored DEF VInv
    <2> QED
      BY <2>1, SeatDistinct DEF SeatOf
  <1>2. ASSUME NEW c \in Conns PROVE TellsRow(c)
    <2> SUFFICES ASSUME pc[c] \in Tellers PROVE TellsRow(c)
      BY DEF TellsRow
    <2>1. pc[c] \in Notifying /\ pc[c] # "closeNotify"
      BY DEF IInv, Typed, TypeOK, Stages, Tellers
    <2>2. /\ fr[c].game \in Games /\ fr[c].row \in Row /\ fr[c].row = games[fr[c].game]
          /\ pc[c] = "opNotify" => conn[c].game = fr[c].game
          /\ pc[c] = "opNotify" /\ fr[c].op = "leave" => fr[c].row.st.status = "CLOSED"
      BY <2>1 DEF VInv, TellsStored, IInv, Local, Locals, Procs, InGame, Holding, Notifying
    <2>3. Fits(fr[c].row, fr[c].game)
      BY <2>2 DEF Fits
    <2>4. ASSUME pc[c] = "connectAttach"
          PROVE  /\ SeatOf(fr[c].row, conn[c].player) # NoSeat
                 /\ conn[c].game = fr[c].game => conn[c].seat = SeatOf(fr[c].row, conn[c].player)
      <3>1. SeatOf([fr[c].row EXCEPT !.st = games[fr[c].game].st], conn[c].player) # NoSeat
        BY <2>4 DEF IInv, Local, Procs, Ready, Returns
      <3>2. [fr[c].row EXCEPT !.st = games[fr[c].game].st] = fr[c].row
        BY <2>2 DEF Row
      <3>3. conn[c].game = fr[c].game => c \in attached[fr[c].game]
        BY <2>2 DEF IInv, RegistriesAgree
      <3> QED
        BY <2>2, <3>1, <3>2, <3>3, SeatStored DEF VInv
    <2> QED
      BY <2>1, <2>2, <2>3, <2>4 DEF TellsRow
  <1>3. ASSUME NEW c \in Conns PROVE RowOfAll(c)
    <2> SUFFICES ASSUME pc[c] \in Notifying, NEW d \in attached[fr[c].game]
                 PROVE  SeatedAs(fr[c].row, conn[d].player, conn[d].seat)
      BY DEF RowOfAll
    <2>1. fr[c].game \in Games /\ fr[c].row = games[fr[c].game]
      BY DEF VInv, TellsStored, IInv, Local, Locals, Procs, InGame, Holding, Notifying
    <2>2. /\ conn[d].seat \in Seats
          /\ conn[d].seat = SeatOf(games[fr[c].game], conn[d].player)
      BY <2>1, SeatStored DEF VInv
    <2> QED
      BY <2>1, <2>2, SeatDistinct DEF SeatedAs, SeatOf
  <1> QED
    BY <1>1, <1>2, <1>3

\* What a client that is sent a view has been shown then.
LEMMA FreshView ==
  ASSUME IInv, VInv, NEW c \in Conns, NEW g \in Games, Tells(c, g), NEW o \in attached'[g], Fresh(o, g)
  PROVE  /\ shown'[o] \in Views /\ shown'[o] # NoView
         /\ shown'[o].game = g /\ shown'[o].status = games[g].st.status
         /\ Board(shown'[o]) = RowBoard(g, games[g])
  <1>1. PICK you \in Seats, row \in Row :
          /\ row.st = games[g].st /\ Fits(row, g)
          /\ \E found \in Finds(row) : shown'[o] = Snapshot(g, row, you, attached'[g], found)
    BY DEF Fresh
  <1>2. games[g] \in Row /\ StoreTypeOK /\ players = Players
    BY DEF Tells, IInv, Typed, TypeOK, VInv, AllPlayers
  <1>3. \A seat \in Seats : row.who[seat] = games[g].who[seat]
    <2>1. row.who \in [Seats -> Players \cup {NoPlayer}]
      BY RowParts
    <2> QED
      BY <1>1, <1>2, <2>1 DEF Fits
  <1>4. RowBoard(g, row) = RowBoard(g, games[g])
    BY <1>1, <1>3 DEF RowBoard
  <1> QED
    BY <1>1, <1>2, <1>4, FindsPlayers, SnapshotView

LEMMA TellsShows ==
  ASSUME IInv, VInv, NEW c \in Conns, NEW g \in Games, Tells(c, g)
  PROVE  VInv'
  <1>1. /\ UNCHANGED <<games, players, conns>> /\ (faults' = 0 => faults = 0)
        /\ pc[c] \in Notifying /\ fr[c].game = g /\ pc'[c] \notin Notifying
        /\ \A d \in Conns \ {c} : pc'[d] = pc[d] /\ fr'[d] = fr[d]
        /\ \A h \in Games \ {g} : attached'[h] = attached[h]
        /\ shown' = [d \in Conns |-> shown'[d]]
    BY DEF Tells, Procs
  <1>2. \A d \in Conns :
          /\ conn'[d].player = conn[d].player
          /\ Live(d)' <=> Live(d)
          /\ conn'[d].game = conn[d].game \/ (conn[d].game = NoGame /\ conn'[d].game = g /\ d = c)
    BY <1>1 DEF Tells, Live
  <1>3. ASSUME NEW o \in Conns, shown'[o] # shown[o]
        PROVE  /\ shown'[o] \in Views /\ shown'[o] # NoView /\ shown'[o].game = g
               /\ o \in attached'[g] /\ conn'[o].game = g /\ o \in conns
    BY <1>3, FreshView DEF Tells, Live
  <1>4. ViewsTyped' /\ AllPlayers'
    BY <1>1, <1>3 DEF VInv, ViewsTyped, AllPlayers
  <1>5. \A o \in Conns : conn'[o].game = g => conn'[o].player # NoPlayer
    <2>1. conn[c].player # NoPlayer
      BY <1>1 DEF IInv, Local, Place, Procs, Notifying, Connecting, Operating
    <2> QED
      BY <1>2, <2>1, HubAssumption DEF IInv, RegistriesAgree
  <1>6. MembersOnly'
    BY <1>1, <1>2, <1>3, <1>5 DEF VInv, MembersOnly
  <1>7. Watching'
    <2> SUFFICES ASSUME NEW o \in Conns, Live(o)', shown'[o] # NoView, shown'[o].status # "CLOSED"
                 PROVE  conn'[o].game = shown'[o].game
      BY DEF Watching
    <2>1. CASE shown'[o] # shown[o]
      BY <1>3, <2>1
    <2>2. CASE shown'[o] = shown[o]
      <3>1. Live(o) /\ conn[o].game = shown[o].game /\ shown[o] \in Views
        BY <1>2, <2>2 DEF VInv, Watching, ViewsTyped
      <3>2. conn[o].game # NoGame
        BY <3>1, HubAssumption DEF Views
      <3> QED
        BY <1>2, <2>2, <3>1, <3>2
    <2> QED
      BY <2>1, <2>2
  <1>8. TellsStored'
    BY <1>1, <1>2 DEF VInv, TellsStored
  <1>9. ASSUME NEW h \in Games PROVE Current(h)'
    <2> SUFFICES ASSUME faults' = 0, ~Telling(h)', NEW o \in attached'[h], Live(o)'
                 PROVE  shown'[o] # NoView /\ Board(shown[o])' = RowBoard(h, games[h])'
      BY DEF Current, NoFault
    <2>1. /\ o \in Conns /\ Live(o)
          /\ RowBoard(h, games[h])' = RowBoard(h, games[h])
          /\ attached'[h] \subseteq Conns
      <3>1. attached'[h] \subseteq Conns
        BY <1>1 DEF Tells, IInv, Typed, TypeOK
      <3> QED
        BY <1>1, <1>2, <3>1 DEF RowBoard
    <2>2. CASE h = g /\ Fresh(o, g)
      <3>1. shown'[o] # NoView /\ Board(shown'[o]) = RowBoard(g, games[g])
        BY <2>2, FreshView
      <3>2. Board(shown[o])' = Board(shown'[o])
        BY DEF Board
      <3> QED
        BY <2>1, <2>2, <3>1, <3>2
    <2>3. CASE h # g \/ ~Fresh(o, g)
      <3>1. shown'[o] = shown[o] /\ o \in attached[h] /\ ~Telling(h)
        <4>1. CASE h # g
          <5>1. o \in attached[h] /\ conn[o].game = h
            BY <1>1, <2>1, <4>1 DEF IInv, RegistriesAgree
          <5>2. conn'[o].game = h
            BY <1>2, <2>1, <5>1, HubAssumption
          <5>3. Telling(h) => Telling(h)'
            BY <1>1, <1>2, <4>1, HubAssumption DEF Telling
          <5> QED
            BY <1>3, <2>1, <4>1, <5>1, <5>2, <5>3
        <4>2. CASE h = g
          <5>1. Reattaches(c, g) /\ o # c
            BY <2>1, <2>3, <4>2 DEF Tells
          <5>2. ~Telling(g)
            <6>1. ASSUME NEW d \in Conns, pc[d] \in Notifying, fr[d].game = g PROVE d = c
              BY <1>1, <6>1, OneTeller DEF Notifying, Holding, Procs
            <6> QED
              BY <5>1, <6>1 DEF Telling, Reattaches, Notifying
          <5>3. shown'[o] = shown[o]
            BY <2>1, <2>3, <4>2 DEF Tells
          <5> QED
            BY <4>2, <5>1, <5>2, <5>3 DEF Reattaches
        <4> QED
          BY <4>1, <4>2
      <3>2. Board(shown[o])' = Board(shown[o])
        BY <3>1 DEF Board
      <3> QED
        BY <1>1, <2>1, <3>1, <3>2 DEF VInv, Current, NoFault
    <2> QED
      BY <2>2, <2>3
  <1> QED
    BY <1>4, <1>6, <1>7, <1>8, <1>9 DEF VInv

LEMMA ClosesShows ==
  ASSUME IInv, VInv, NEW c \in Conns, NEW g \in Games, Closes(c, g), AllTold(g)
  PROVE  VInv'
  <1>1. /\ UNCHANGED <<games, players, conns>> /\ (faults' = 0 => faults = 0)
        /\ pc[c] \in Notifying /\ fr[c].game = g /\ pc'[c] \notin Notifying
        /\ \A d \in Conns \ {c} : pc'[d] = pc[d] /\ fr'[d] = fr[d]
        /\ attached'[g] = {} /\ \A h \in Games \ {g} : attached'[h] = attached[h]
        /\ shown' = [d \in Conns |-> shown'[d]]
    BY DEF Closes, Tellers, Procs, IInv, Typed, TypeOK, Stages
  <1>2. \A d \in Conns :
          /\ conn'[d].player = conn[d].player
          /\ Live(d)' <=> Live(d)
          /\ conn'[d].game = IF d \in attached[g] THEN NoGame ELSE conn[d].game
          /\ d \in attached[g] <=> conn[d].game = g
    BY <1>1 DEF Closes, Live, IInv, RegistriesAgree
  <1>3. \A o \in Conns :
          /\ \/ shown'[o] = shown[o]
             \/ /\ o \in attached[g]
                /\ shown'[o] = NoView \/ (shown'[o] \in Views /\ shown'[o].status = "CLOSED")
          /\ o \in attached[g] /\ Live(o) => shown'[o] = NoView \/ shown'[o].status = "CLOSED"
    BY DEF Closes, AllTold
  <1>4. ViewsTyped' /\ AllPlayers'
    BY <1>1, <1>3 DEF VInv, ViewsTyped, AllPlayers
  <1>5. MembersOnly' /\ Watching'
    <2>1. \A o \in attached[g] : o \in conns /\ conn[o].player # NoPlayer
      BY SeatStored DEF VInv
    <2> QED
      BY <1>1, <1>2, <1>3, <2>1 DEF VInv, MembersOnly, Watching
  <1>6. TellsStored'
    <2>1. \A d \in Conns \ {c} : pc[d] = "opNotify" => fr[d].game # g
      BY <1>1, OneTeller DEF Notifying, Holding, Procs
    <2> QED
      BY <1>1, <1>2, <2>1 DEF VInv, TellsStored, Notifying
  <1>7. ASSUME NEW h \in Games PROVE Current(h)'
    <2> SUFFICES ASSUME faults' = 0, ~Telling(h)', NEW o \in attached'[h], Live(o)'
                 PROVE  shown'[o] # NoView /\ Board(shown[o])' = RowBoard(h, games[h])'
      BY DEF Current, NoFault
    <2>1. h # g /\ o \in attached[h] /\ o \in Conns /\ conn[o].game = h
      BY <1>1 DEF IInv, RegistriesAgree, Typed, TypeOK
    <2>2. o \notin attached[g] /\ Live(o)
      BY <1>2, <2>1
    <2>3. ~Telling(h)
      BY <1>1, <1>2, <2>1, HubAssumption DEF Telling
    <2>4. RowBoard(h, games[h])' = RowBoard(h, games[h])
      BY <1>1 DEF RowBoard
    <2>5. shown[o] # NoView /\ Board(shown[o]) = RowBoard(h, games[h])
      BY <1>1, <2>1, <2>2, <2>3 DEF VInv, Current, NoFault
    <2>6. shown'[o] = shown[o]
      BY <1>3, <2>1, <2>2
    <2>7. Board(shown[o])' = Board(shown[o])
      BY <2>6 DEF Board
    <2> QED
      BY <2>4, <2>5, <2>6, <2>7
  <1> QED
    BY <1>4, <1>5, <1>6, <1>7 DEF VInv

-----------------------------------------------------------------------------
(* Every step.                                                              *)

\* A step moves c on, and nobody whose connection closes comes back.
Advances(c) ==
  /\ \A d \in Conns : conn[d].closing => conn'[d].closing
  /\ \A d \in Conns \ {c} : pc'[d] = pc[d] /\ fr'[d] = fr[d]

\* A connection that is closing stays so.
LEMMA ClosedKept ==
  ASSUME IInv, ClosedFirst, NEW c \in Conns, Advances(c),
         \/ pc'[c] \notin {"detach", "detachLock"}
         \/ fr'[c].then = "connectLock"
         \/ conn'[fr'[c].target].closing
         \/ /\ pc[c] \in {"detach", "detachLock"}
            /\ fr'[c].target = fr[c].target /\ fr'[c].then = fr[c].then
         \/ UNCHANGED <<pc, fr>>
  PROVE  ClosedFirst'
  <1>1. \A d \in Conns : pc[d] \in {"detach", "detachLock"} => fr[d].target \in Conns
    BY DEF IInv, Local, Locals, Detaching, Procs
  <1> QED
    BY <1>1 DEF ClosedFirst, DetachesClosed, Advances

\* Every step of c advances c and nobody else.
LEMMA OneMoves ==
  ASSUME IInv, NEW c \in Conns, Client(c) \/ Handler(c)
  PROVE  Advances(c)
  <1>1. \A d \in Conns \ {c} : pc'[d] = pc[d] /\ fr'[d] = fr[d]
    <2>1. pc \in [Procs -> Stages \cup SweeperStages] /\ fr \in [Procs -> Frames \cup {NoFrame}]
      BY DEF IInv, Typed, TypeOK
    <2>2. \/ UNCHANGED procVars
          \/ (\E stage : Goto(c, stage)) /\ (UNCHANGED fr \/ \E f : Keep(c, f))
      <3>1. CASE Client(c)
        BY <3>1 DEF Client, Accept, Authenticate, Abandon, Disconnect, Connect, Request
      <3>2. CASE AuthTouch(c) \/ Register(c) \/ Replace(c) \/ DetachStep(c)
        BY <3>2 DEF AuthTouch, Register, Replace, DetachStep, DetachLook, DetachRetry, Detach,
                    Continue, Return
      <3>3. CASE ConnectLock(c) \/ ConnectSave(c) \/ ConnectAttach(c)
        BY <3>3 DEF ConnectLock, ConnectSave, ConnectAttach, Save, Reject, Return
      <3>4. CASE OpLock(c) \/ OpSave(c) \/ OpNotify(c) \/ Unregister(c)
        BY <3>4 DEF OpLock, OpSave, OpNotify, Unregister, Save, Reject, Return
      <3> QED
        BY <3>1, <3>2, <3>3, <3>4 DEF Handler
    <2>3. \A d \in Conns : d \in Procs
      BY DEF Procs
    <2> QED
      BY <2>1, <2>2, <2>3 DEF procVars, Goto, Keep
  <1> QED
    BY <1>1, ConnSteps DEF Advances

\* Whoever is detached by somebody else has been told to close before.
LEMMA ClosedFirstStep ==
  ASSUME IInv, ClosedFirst, NEW c \in Conns, Client(c) \/ Handler(c)
  PROVE  ClosedFirst'
  <1>1. Advances(c) /\ Typed /\ c \in Procs /\ Locals(c)
    BY OneMoves DEF IInv, Procs, Local
  <1>2. ASSUME NEW stage, Goto(c, stage) PROVE pc'[c] = stage
    BY <1>1, <1>2 DEF Goto, Typed
  <1>3. ASSUME NEW f, Keep(c, f) PROVE fr'[c] = f
    BY <1>1, <1>3 DEF Keep, Typed, TypeOK
  <1>4. CASE Accept(c) \/ Authenticate(c) \/ \E op, m : Request(c, op, m)
    BY <1>1, <1>2, <1>4, ClosedKept DEF Accept, Authenticate, Request
  <1>5. CASE Abandon(c)
    BY <1>1, <1>5, ClosedKept DEF Abandon, procVars
  <1>6. CASE Disconnect(c)
    <2>1. fr'[c].target = c /\ Closed(c)
      BY <1>3, <1>6 DEF Disconnect, DetachFrame
    <2> QED
      BY <1>1, <2>1, ClosedFields, ClosedKept
  <1>7. CASE \E g \in Games : Connect(c, g)
    <2>1. pc'[c] = "connectLock" \/ fr'[c].then = "connectLock"
      BY <1>2, <1>3, <1>7 DEF Connect, DetachFrame
    <2> QED
      BY <1>1, <2>1, ClosedKept
  <1>8. CASE AuthTouch(c) \/ Register(c)
    BY <1>1, <1>2, <1>8, ClosedKept DEF AuthTouch, Register, Return
  <1>9. CASE Replace(c)
    <2>1. fr' = fr /\ fr[c].target \in Conns /\ Closed(fr[c].target)
      BY <1>1, <1>9 DEF Replace, Locals, Detaching
    <2> QED
      BY <1>1, <2>1, ClosedFields, ClosedKept
  <1>10. CASE DetachLook(c) \/ DetachRetry(c)
    <2>1. PICK g \in Games \cup {NoGame} :
             Continue(c) \/ Keep(c, [fr[c] EXCEPT !.from = g])
      BY <1>1, <1>10 DEF DetachLook, DetachRetry, Typed, TypeOK, ConnFields, Locals, Detaching
    <2>2. CASE Continue(c)
      BY <1>1, <1>2, <1>10, <2>2, ClosedKept DEF Continue, DetachLook, DetachRetry, Locals, Detaching
    <2>3. CASE Keep(c, [fr[c] EXCEPT !.from = g])
      <3>1. fr[c] \in Frames /\ pc[c] \in {"detach", "detachLock"}
        BY <1>1, <1>10 DEF DetachLook, DetachRetry, Locals, Detaching
      <3>2. fr'[c].target = fr[c].target /\ fr'[c].then = fr[c].then
        <4>1. PICK f : f = [fr[c] EXCEPT !.from = g]
          OBVIOUS
        <4>2. f.target = fr[c].target /\ f.then = fr[c].then
          BY <3>1, <4>1, FrameKept
        <4> QED
          BY <1>3, <2>3, <4>1, <4>2
      <3> QED
        BY <1>1, <3>1, <3>2, ClosedKept
    <2> QED
      BY <2>1, <2>2, <2>3
  <1>11. CASE Detach(c)
    BY <1>1, <1>2, <1>11, ClosedKept DEF Continue, Detach, Locals, Detaching
  <1>12. CASE ConnectLock(c) \/ ConnectSave(c) \/ ConnectAttach(c)
    BY <1>1, <1>2, <1>12, ClosedKept DEF ConnectLock, ConnectSave, ConnectAttach, Save, Reject, Return
  <1>13. CASE OpLock(c) \/ OpSave(c) \/ OpNotify(c) \/ Unregister(c)
    BY <1>1, <1>2, <1>13, ClosedKept DEF OpLock, OpSave, OpNotify, Unregister, Save, Reject, Return
  <1> QED
    BY <1>4, <1>5, <1>6, <1>7, <1>8, <1>9, <1>10, <1>11, <1>12, <1>13
       DEF Client, Handler, DetachStep

\* What a step of c is for those who watch.
Kinds(c) ==
  \/ Quiet
  \/ Unregister(c)
  \/ \E g \in Games : Saved(c, g) \/ Tells(c, g) \/ (Closes(c, g) /\ AllTold(g))
  \/ \E t \in Conns, g \in Games : Leaves(c, t, g) /\ (ClosedFirst => LeftAlone(t))

\* Every step is of one of the kinds, whatever the sweeper does meanwhile,
LEMMA StepKinds ==
  ASSUME IInv, ViewsTyped, SeatsBacked, NEW c \in Conns, TellsRow(c), RowOfAll(c),
         Client(c) \/ Handler(c)
  PROVE  Kinds(c)
  <1>1. CASE Client(c)
    BY <1>1, ClientQuiet DEF Kinds
  <1>2. CASE \/ AuthTouch(c) \/ Register(c) \/ Replace(c) \/ DetachLook(c) \/ DetachRetry(c)
             \/ ConnectLock(c) \/ OpLock(c)
    BY <1>2, HandlerQuiet DEF Kinds
  <1>3. CASE Detach(c)
    <2>1. c \in Procs
      BY DEF Procs
    <2> QED
      BY <1>3, <2>1, DetachLeaves DEF Kinds, ClosedFirst
  <1>4. CASE ConnectSave(c) \/ OpSave(c)
    BY <1>4, ConnectSaves, OpSaves DEF Kinds
  <1>5. CASE ConnectAttach(c)
    BY <1>5, AttachTells DEF Kinds
  <1>6. CASE OpNotify(c)
    BY <1>6, NotifyTells, NotifyCloses DEF Kinds
  <1>7. CASE Unregister(c)
    BY <1>7 DEF Kinds
  <1> QED
    BY <1>1, <1>2, <1>3, <1>4, <1>5, <1>6, <1>7 DEF Handler, DetachStep

\* and keeps the pictures.
LEMMA ViewStep ==
  ASSUME IInv, ViewInv, NEW c \in Conns, Client(c) \/ Handler(c)
  PROVE  ViewInv'
  <1>1. VInv /\ ClosedFirst /\ ViewsTyped
    BY DEF ViewInv, VInv
  <1>2. Kinds(c)
    BY <1>1, TellsStoredRow, StepKinds
  <1>3. VInv'
    BY <1>1, <1>2, QuietShows, UnregisterShows, SavedShows, TellsShows, ClosesShows, LeavesShows
       DEF Kinds
  <1>4. ClosedFirst'
    BY <1>1, ClosedFirstStep
  <1> QED
    BY <1>3, <1>4 DEF ViewInv

\* Before anybody connects, nobody has been shown anything.
LEMMA ViewInit ==
  ASSUME Init
  PROVE  ViewInv
  <1>1. /\ players = Players /\ conns = {} /\ attached = [g \in Games |-> {}]
        /\ shown = [c \in Conns |-> NoView]
        /\ \A c \in Conns : pc[c] = "unborn"
    BY HubAssumption DEF Init, HubInit, Procs
  <1>2. ViewsTyped /\ AllPlayers /\ MembersOnly /\ Watching
    BY <1>1 DEF ViewsTyped, AllPlayers, MembersOnly, Watching, Live
  <1>3. TellsStored /\ ClosedFirst
    BY <1>1 DEF TellsStored, Notifying, ClosedFirst, DetachesClosed
  <1>4. \A g \in Games : Current(g)
    BY <1>1 DEF Current
  <1> QED
    BY <1>2, <1>3, <1>4 DEF ViewInv, VInv

LEMMA ViewStutter == ViewInv /\ UNCHANGED hubVars => ViewInv'
  <1> SUFFICES ASSUME ViewInv, UNCHANGED hubVars PROVE ViewInv'
    OBVIOUS
  <1>1. UNCHANGED <<games, players, conns, attached, conn, pc, fr, shown, faults>>
    BY DEF hubVars, storeVars, connVars, procVars
  <1>2. ViewsTyped' /\ AllPlayers' /\ MembersOnly' /\ Watching' /\ TellsStored' /\ ClosedFirst'
    BY <1>1 DEF ViewInv, VInv, ViewsTyped, AllPlayers, MembersOnly, Watching, TellsStored,
                ClosedFirst, DetachesClosed, Live
  <1>3. \A g \in Games : Current(g)'
    BY <1>1 DEF ViewInv, VInv, Current, Telling, RowBoard, Board, Live, NoFault
  <1> QED
    BY <1>2, <1>3 DEF ViewInv, VInv

(***************************************************************************)
(* Whoever is attached and alive has been shown the stored row, once the   *)
(* handler that stored it is done; whoever was shown an open game is       *)
(* attached to it. No hypothesis: any number of connections of any         *)
(* players, replaced and closing at any moment.                            *)
(***************************************************************************)
THEOREM Pictures == Spec => []ViewInv
  <1>1. Init => ViewInv
    BY ViewInit
  <1>2. IInv /\ ViewInv /\ [HubNext]_hubVars => ViewInv'
    BY ViewStep, ViewStutter DEF HubNext
  <1> QED
    BY <1>1, <1>2, Invariant, PTL DEF Spec

(***************************************************************************)
(* Nobody is left waiting: a live client that was last shown an open game  *)
(* is still attached to it. Whoever is detached has been told so, has left *)
(* or switched games by its own request, or is closing.                    *)
(***************************************************************************)
THEOREM NobodyDroppedSilently == Spec => []NotDroppedSilently
  <1>1. ViewInv => NotDroppedSilently
    BY DEF ViewInv, VInv, Watching, NotDroppedSilently
  <1> QED
    BY <1>1, Pictures, PTL

\* With its lock free, nobody is about to tell of a game.
LEMMA FreeIsQuiet ==
  ASSUME IInv, NEW g \in Games, Free(g)
  PROVE  ~Telling(g) /\ ~SomeoneTells(g)
  BY HubAssumption DEF IInv, Local, Locals, Holding, Procs, Free, Telling, SomeoneTells

(***************************************************************************)
(* With the game lock free, every live client of the game has been shown   *)
(* the round, the score and the locked-in throws that are stored: no       *)
(* broadcast is missed, overtaken or sent to an old member.                *)
(***************************************************************************)
THEOREM BoardsAreCurrent == Spec => []BoardCurrent
  <1>1. IInv /\ ViewInv => BoardCurrent
    <2> SUFFICES ASSUME IInv, ViewInv, NEW g \in Games, NoFault, Free(g),
                        NEW c \in attached[g], Live(c)
                 PROVE  /\ shown[c] # NoView
                        /\ Board(shown[c]) = Board(Snapshot(g, games[g], conn[c].seat, attached[g], players))
      BY DEF BoardCurrent
    <2>1. shown[c] # NoView /\ Board(shown[c]) = RowBoard(g, games[g])
      BY FreeIsQuiet DEF ViewInv, VInv, Current
    <2>2. conn[c].seat \in Seats /\ games[g] \in Row /\ StoreTypeOK
      BY SeatStored DEF ViewInv, VInv, IInv, Typed, TypeOK
    <2> QED
      BY <2>1, <2>2, SnapshotView DEF StoreTypeOK
  <1> QED
    BY <1>1, Invariant, Pictures, PTL

-----------------------------------------------------------------------------
(* What the clients have been shown of seats, when no seat is shared.       *)

\* Those attached to g, what they were shown and who tells them stay.
SameCrowd(g) ==
  /\ attached'[g] = attached[g]
  /\ \A o \in attached[g] : /\ conn'[o].seat = conn[o].seat /\ shown'[o] = shown[o]
                            /\ Live(o)' => Live(o)
  /\ SomeoneTells(g) => SomeoneTells(g)'
  /\ SomeoneTells(g)' \/ games'[g].st = games[g].st

(***************************************************************************)
(* A step that shows nothing: Quiet, Saved, an unregistration, and what    *)
(* the sweeper, the clock and a crash do besides closing and detaching.    *)
(* Live connections stay in their games, but for those of cs.              *)
(***************************************************************************)
Still(cs) ==
  /\ faults' = 0 => faults = 0
  /\ shown' = [o \in Conns |-> shown'[o]]
  /\ \A o \in Conns :
       \/ shown'[o] = NoView
       \/ /\ shown'[o] = shown[o] /\ o \in conns'
          /\ conn'[o].player = conn[o].player
          /\ conn[o].closing => conn'[o].closing
  /\ \A o \in Conns : Live(o)' => conn'[o].game = conn[o].game \/ o \in cs
  /\ \A g \in Games : attached'[g] = {} \/ SameCrowd(g)

\* Whoever is shown anything then is still registered and authenticated,
LEMMA StillMembers ==
  ASSUME ViewsTyped, MembersOnly, NEW cs, Still(cs)
  PROVE  ViewsTyped' /\ MembersOnly'
  <1>1. \A o \in Conns : shown'[o] = NoView \/
          (shown'[o] = shown[o] /\ o \in conns' /\ conn'[o].player = conn[o].player)
    BY DEF Still
  <1>2. \A o \in Conns : shown'[o] \in Views \cup {NoView}
    BY <1>1 DEF ViewsTyped
  <1>3. shown' = [o \in Conns |-> shown'[o]]
    BY DEF Still
  <1> QED
    BY <1>1, <1>2, <1>3 DEF ViewsTyped, MembersOnly

\* and nobody's view of its seat changes.
LEMMA StillPersonal ==
  ASSUME PInv, NEW cs, Still(cs)
  PROVE  PInv'
  <1>1. \A o \in Conns : shown'[o] = NoView \/
          (shown'[o] = shown[o] /\ o \in conns' /\ conn'[o].player = conn[o].player
           /\ (Live(o)' /\ shown[o] # NoView => Live(o)))
    BY DEF Still, PInv, MembersOnly, Live
  <1>2. ViewsTyped' /\ MembersOnly'
    BY StillMembers DEF PInv
  <1>3. ThrowsHidden'
    BY <1>1 DEF PInv, ThrowsHidden
  <1>4. ASSUME NEW g \in Games, SameCrowd(g) PROVE Personal(g)' /\ Presence(g)'
    <2>1. NoFault' => NoFault
      BY DEF Still, NoFault
    <2>2. Personal(g)'
      BY <1>4, <2>1 DEF PInv, Personal, SameCrowd, OwnSeat
    <2>3. Presence(g)'
      BY <1>4, <2>1 DEF PInv, Presence, SeesPresence, SameCrowd
    <2> QED
      BY <2>2, <2>3
  <1>5. ASSUME NEW g \in Games, attached'[g] = {} PROVE Personal(g)' /\ Presence(g)'
    BY <1>5 DEF Personal, Presence
  <1> QED
    BY <1>2, <1>3, <1>4, <1>5 DEF PInv, Still

\* The sweeper is where it was.
SweeperStays == pc'[Sweeper] = pc[Sweeper] /\ fr'[Sweeper] = fr[Sweeper]

LEMMA QuietStill ==
  ASSUME IInv, ViewsTyped, MembersOnly, Quiet, SweeperStays
  PROVE  Still({})
  <1>1. UNCHANGED <<games, attached, shown>> /\ (faults' = 0 => faults = 0)
    BY DEF Quiet
  <1>2. \A d \in Conns :
          /\ conn'[d].game = conn[d].game /\ conn'[d].seat = conn[d].seat
          /\ conn[d].player # NoPlayer => conn'[d].player = conn[d].player
          /\ conn[d].closing => conn'[d].closing
          /\ d \in conns => d \in conns'
          /\ pc[d] \in Notifying => pc'[d] = pc[d] /\ fr'[d] = fr[d]
    BY DEF Quiet
  <1>3. \A o \in Conns :
          \/ shown'[o] = NoView
          \/ /\ shown'[o] = shown[o] /\ o \in conns'
             /\ conn'[o].player = conn[o].player
             /\ conn[o].closing => conn'[o].closing
    BY <1>1, <1>2 DEF MembersOnly
  <1>4. shown' = [o \in Conns |-> shown'[o]]
    BY <1>1 DEF ViewsTyped
  <1>5. ASSUME NEW g \in Games PROVE SameCrowd(g)
    <2>1. \A d \in attached[g] : d \in Conns /\ d \in conns
      BY HubAssumption DEF IInv, RegistriesAgree, Typed, TypeOK
    <2>2. Telling(g) => Telling(g)'
      BY <1>2 DEF Telling, Notifying
    <2> QED
      BY <1>1, <1>2, <2>1, <2>2 DEF SameCrowd, SomeoneTells, SweeperStays, Live
  <1> QED
    BY <1>1, <1>2, <1>3, <1>4, <1>5 DEF Still

LEMMA UnregisterStill ==
  ASSUME IInv, ViewsTyped, MembersOnly, NEW c \in Conns, Unregister(c)
  PROVE  Still({})
  <1>1. /\ UNCHANGED <<games, attached, conn, fr, faults>>
        /\ conns' = conns \ {c} /\ shown' = [shown EXCEPT ![c] = NoView]
        /\ pc[c] = "unregister" /\ \A d \in Procs \ {c} : pc'[d] = pc[d]
        /\ shown \in [Conns -> Views \cup {NoView}]
    BY DEF Unregister, Goto, storeVars, IInv, Typed, ViewsTyped
  <1>2. shown'[c] = NoView /\ \A d \in Conns \ {c} : shown'[d] = shown[d]
    BY <1>1
  <1>3. ASSUME NEW g \in Games PROVE SameCrowd(g)
    <2>1. c \notin attached[g] /\ attached[g] \subseteq Conns
      <3>1. Place(c)
        BY DEF IInv, Local, Procs
      <3>2. pc[c] = "unregister"
        BY <1>1
      <3> QED
        BY <3>1, <3>2, HubAssumption DEF IInv, RegistriesAgree, Typed, TypeOK, Place
    <2>2. SomeoneTells(g) => SomeoneTells(g)'
      BY <1>1, HubAssumption DEF SomeoneTells, Telling, Procs
    <2> QED
      BY <1>1, <1>2, <2>1, <2>2 DEF SameCrowd, Live
  <1> QED
    BY <1>1, <1>2, <1>3 DEF Still, MembersOnly

LEMMA SavedStill ==
  ASSUME IInv, ViewsTyped, MembersOnly, NEW c \in Conns, NEW g \in Games, Saved(c, g), SweeperStays
  PROVE  Still({})
  <1>1. /\ UNCHANGED <<conns, attached, conn, shown, faults>>
        /\ \A d \in Conns \ {c} : pc'[d] = pc[d] /\ fr'[d] = fr[d]
        /\ \A h \in Games \ {g} : games'[h] = games[h]
        /\ pc[c] \notin Notifying /\ fr'[c].game = g
    BY DEF Saved, Notifying
  <1>2. pc'[c] = "opNotify" \/ (pc'[c] = "connectAttach" /\ conn'[c].game # g)
          \/ games'[g].st = games[g].st
    BY DEF Saved
  <1>3. ASSUME NEW h \in Games PROVE SameCrowd(h)
    <2>1. SomeoneTells(h) => SomeoneTells(h)'
      BY <1>1 DEF SomeoneTells, Telling, Notifying, SweeperStays
    <2>2. SomeoneTells(h)' \/ games'[h].st = games[h].st
      BY <1>1, <1>2 DEF SomeoneTells, Telling
    <2> QED
      BY <1>1, <2>1, <2>2 DEF SameCrowd, Live
  <1> QED
    BY <1>1, <1>3 DEF Still, MembersOnly, ViewsTyped

\* Detaching t concerns those who are left in its game,
LEMMA LeavesCrowd ==
  ASSUME IInv, NEW c \in Procs, NEW t \in Conns, NEW g \in Games, Leaves(c, t, g), NEW h \in Games
  PROVE  /\ \A d \in attached'[h] :
              /\ d \in Conns \ {t} /\ d \in attached[h] /\ (Live(d)' <=> Live(d))
              /\ conn'[d].seat = conn[d].seat
         /\ SomeoneTells(h)' <=> SomeoneTells(h)
  <1>1. /\ \A d \in Procs \ {c} : pc'[d] = pc[d] /\ fr'[d] = fr[d]
        /\ pc[c] \notin Tellers /\ pc'[c] \notin Tellers
        /\ attached'[g] = attached[g] \ {t} /\ \A k \in Games \ {g} : attached'[k] = attached[k]
        /\ t \in attached[g] /\ attached \in [Games -> SUBSET Conns] /\ conn'[t].game = NoGame
    BY DEF Leaves, IInv, Typed, TypeOK
  <1>2. \A d \in Conns :
          /\ Live(d)' <=> Live(d)
          /\ d # t => conn'[d].game = conn[d].game /\ conn'[d].seat = conn[d].seat
    BY DEF Leaves, Live
  <1>3. t \notin attached'[h] /\ attached'[h] \subseteq attached[h]
    BY <1>1, HubAssumption DEF IInv, RegistriesAgree
  <1>4. conn[t].game = g
    BY <1>1 DEF IInv, RegistriesAgree
  <1>5. pc[t] = "connectAttach" => fr[t].game # g
    BY HubAssumption DEF IInv, Local, Locals, Holding, Procs, Leaves, Free
  <1>6. \A d \in Conns : pc[d] = "connectAttach" /\ fr[d].game = h =>
          (conn'[d].game # h <=> conn[d].game # h)
    BY <1>1, <1>2, <1>4, <1>5, HubAssumption
  <1>7. Telling(h)' <=> Telling(h)
    BY <1>1, <1>6 DEF Telling, Tellers, Notifying, Procs
  <1>8. SomeoneTells(h)' <=> SomeoneTells(h)
    BY <1>1, <1>7 DEF SomeoneTells, Tellers, Procs
  <1> QED
    BY <1>1, <1>2, <1>3, <1>8

\* and gives nobody a first view.
LEMMA LeavesMembers ==
  ASSUME ViewsTyped, MembersOnly, NEW c \in Procs, NEW t \in Conns, NEW g \in Games,
         Leaves(c, t, g)
  PROVE  ViewsTyped' /\ MembersOnly'
  <1>1. ASSUME NEW v \in Views \cup {NoView}, NEW seat
        PROVE  /\ WithDown(v, seat) \in Views \cup {NoView}
               /\ WithDown(v, seat) # NoView => v # NoView
    BY DownView DEF WithDown
  <1>2. \A d \in Conns : /\ shown'[d] \in Views \cup {NoView}
                         /\ shown'[d] # NoView => shown[d] # NoView
    <2>1. \A d \in Conns : \/ shown'[d] \in {NoView, shown[d]}
                           \/ shown'[d] = WithDown(shown[d], conn[t].seat)
      BY DEF Leaves
    <2>2. \A d \in Conns : shown[d] \in Views \cup {NoView}
      BY DEF ViewsTyped
    <2> QED
      BY <1>1, <2>1, <2>2
  <1>3. shown' = [d \in Conns |-> shown'[d]]
    BY DEF Leaves
  <1>4. conns' = conns /\ \A d \in Conns : conn'[d].player = conn[d].player
    BY DEF Leaves
  <1> QED
    BY <1>2, <1>3, <1>4 DEF ViewsTyped, MembersOnly

LEMMA LeavesPersonal ==
  ASSUME IInv, PInv, SeatsUnshared,
         NEW c \in Procs, NEW t \in Conns, NEW g \in Games, Leaves(c, t, g)
  PROVE  PInv'
  <1>1. /\ UNCHANGED <<games, players, conns, faults>>
        /\ \A d \in Procs \ {c} : pc'[d] = pc[d] /\ fr'[d] = fr[d]
        /\ pc[c] \notin Tellers /\ pc'[c] \notin Tellers
        /\ attached'[g] = attached[g] \ {t} /\ \A h \in Games \ {g} : attached'[h] = attached[h]
        /\ t \in attached[g] /\ attached \in [Games -> SUBSET Conns] /\ conn'[t].game = NoGame
    BY DEF Leaves, IInv, Typed, TypeOK
  <1>2. \A d \in Conns :
          /\ conn'[d].player = conn[d].player
          /\ Live(d)' <=> Live(d)
          /\ d # t => conn'[d].game = conn[d].game /\ conn'[d].seat = conn[d].seat
    BY <1>1 DEF Leaves, Live
  <1>3. \A d \in Conns \ {t} :
          shown'[d] = IF d \in attached[g] /\ ~conn[d].closing
                      THEN WithDown(shown[d], conn[t].seat) ELSE shown[d]
    BY DEF Leaves
  <1>4. ASSUME NEW d \in Conns \ {t}
        PROVE  \/ shown[d] = NoView /\ shown'[d] = NoView
               \/ /\ shown[d] \in Views /\ shown[d] # NoView
                  /\ shown'[d] \in Views /\ shown'[d] # NoView
                  /\ shown'[d].you = shown[d].you /\ shown'[d].status = shown[d].status
                  /\ DOMAIN shown'[d].player = DOMAIN shown[d].player
                  /\ \A x \in DOMAIN shown[d].player :
                       /\ shown'[d].player[x].id = shown[d].player[x].id
                       /\ shown'[d].player[x].move = shown[d].player[x].move
                       /\ shown'[d].player[x].up <=>
                            /\ shown[d].player[x].up
                            /\ d \in attached[g] /\ ~conn[d].closing => x # conn[t].seat
    <2>1. shown[d] \in Views \cup {NoView}
      BY DEF PInv, ViewsTyped
    <2>2. CASE shown[d] = NoView
      BY <1>3, <2>2 DEF WithDown
    <2>3. CASE shown[d] \in Views
      BY <1>3, <2>3, DownView, ViewAssumption
    <2> QED
      BY <2>1, <2>2, <2>3
  <1>5. shown'[t] \in {NoView, shown[t]}
    BY DEF Leaves
  <1>6. ThrowsHidden'
    <2> SUFFICES ASSUME NEW d \in Conns, Live(d)', shown'[d] # NoView,
                        shown'[d].status = "ACTIVE", NEW x \in DOMAIN shown'[d].player,
                        shown'[d].player[x].id # conn'[d].player
                 PROVE  shown'[d].player[x].move = Pending
      BY DEF ThrowsHidden
    <2>1. Live(d) /\ conn'[d].player = conn[d].player
      BY <1>2
    <2>2. CASE d = t
      BY <1>5, <2>1, <2>2 DEF PInv, ThrowsHidden
    <2>3. CASE d # t
      BY <1>4, <2>1, <2>3 DEF PInv, ThrowsHidden
    <2> QED
      BY <2>2, <2>3
  <1>7. ASSUME NEW h \in Games PROVE Personal(h)' /\ Presence(h)'
    <2>1. \A d \in attached'[h] :
            /\ d \in Conns \ {t} /\ d \in attached[h] /\ (Live(d)' <=> Live(d))
            /\ conn'[d].seat = conn[d].seat
      BY LeavesCrowd
    <2>2. SomeoneTells(h)' <=> SomeoneTells(h)
      BY LeavesCrowd
    <2>3. Personal(h)'
      <3> SUFFICES ASSUME faults' = 0, ~SomeoneTells(h)', NEW d \in attached'[h], Live(d)'
                   PROVE  shown'[d] # NoView /\ OwnSeat(shown'[d], conn'[d].seat, games'[h].st)
        BY DEF Personal, NoFault, OwnSeat
      <3>1. d \in Conns \ {t} /\ d \in attached[h] /\ Live(d) /\ conn'[d].seat = conn[d].seat
        BY <2>1
      <3>2. OwnSeat(shown[d], conn[d].seat, games[h].st) /\ shown[d] # NoView
        BY <1>1, <2>2, <3>1 DEF PInv, Personal, NoFault
      <3> QED
        BY <1>1, <1>4, <3>1, <3>2 DEF OwnSeat
    <2>4. Presence(h)'
      <3> SUFFICES ASSUME faults' = 0, NEW d \in attached'[h], Live(d)', shown'[d] # NoView,
                          NEW x \in DOMAIN shown'[d].player
                   PROVE  /\ (\E o \in attached'[h] : Live(o)' /\ conn'[o].seat = x) =>
                               shown'[d].player[x].up
                          /\ shown'[d].player[x].up => \E o \in attached'[h] : conn'[o].seat = x
        BY DEF Presence, SeesPresence, NoFault
      <3>1. d \in Conns \ {t} /\ d \in attached[h] /\ Live(d) /\ conn'[d].seat = conn[d].seat
            /\ (d \notin attached[g] \/ h = g)
        BY <1>1, <2>1, HubAssumption DEF IInv, RegistriesAgree
      <3>2. /\ shown[d] # NoView /\ x \in DOMAIN shown[d].player
            /\ shown'[d].player[x].up <=>
                 /\ shown[d].player[x].up
                 /\ h = g => x # conn[t].seat
        <4>1. (d \in attached[g] /\ ~conn[d].closing) <=> h = g
          BY <3>1 DEF Live
        <4>2. shown[d] # NoView /\ DOMAIN shown'[d].player = DOMAIN shown[d].player
          BY <1>4, <3>1
        <4>3. x \in DOMAIN shown[d].player
          BY <4>2
        <4> QED
          BY <1>4, <3>1, <4>1, <4>2, <4>3
      <3>3. /\ (\E o \in attached[h] : Live(o) /\ conn[o].seat = x) => shown[d].player[x].up
            /\ shown[d].player[x].up => \E o \in attached[h] : conn[o].seat = x
        <4>1. SeesPresence(d, h)
          BY <1>1, <3>1, <3>2 DEF PInv, Presence, NoFault
        <4> QED
          BY <3>2, <4>1 DEF SeesPresence
      <3>4. CASE h # g
        BY <1>1, <2>1, <3>2, <3>3, <3>4
      <3>5. CASE h = g
        <4>1. \A o \in attached[g] : Live(o) /\ o # t => conn[o].seat # conn[t].seat
          BY <1>1 DEF SeatsUnshared
        <4> QED
          BY <1>1, <2>1, <3>2, <3>3, <3>5, <4>1
      <3> QED
        BY <3>4, <3>5
    <2> QED
      BY <2>3, <2>4
  <1>8. ViewsTyped' /\ MembersOnly'
    BY LeavesMembers DEF PInv
  <1> QED
    BY <1>6, <1>7, <1>8 DEF PInv

\* A view that is sent shows its client's own seat, and who is there.
LEMMA FreshPersonal ==
  ASSUME IInv, SeatsUnshared', NEW c \in Procs, NEW g \in Games, Tells(c, g),
         NEW o \in attached'[g], Fresh(o, g)
  PROVE  /\ o \in Conns /\ conn'[o].seat \in Seats /\ conn[o].player # NoPlayer
         /\ games[g].who[conn'[o].seat] \in {conn[o].player, NoPlayer}
         /\ shown'[o] \in Views /\ shown'[o] # NoView
         /\ shown'[o].status = games[g].st.status
         /\ OwnSeat(shown'[o], conn'[o].seat, games[g].st)
         /\ \A x \in DOMAIN shown'[o].player :
              /\ x = conn'[o].seat => shown'[o].player[x].id = conn[o].player
              /\ shown'[o].player[x].up <=>
                   \E d \in attached'[g] : ~conn[d].closing /\ conn'[d].seat = x
  <1>1. /\ StoreTypeOK
        /\ \A d \in Conns : conn'[d].closing = conn[d].closing
        /\ \A d \in attached'[g] :
             /\ d \in Conns /\ conn'[d].seat \in Seats /\ conn[d].player # NoPlayer
             /\ games[g].who[conn'[d].seat] \in {conn[d].player, NoPlayer}
    BY DEF Tells, IInv, Typed, TypeOK, StoreTypeOK
  <1>2. PICK row \in Row :
          /\ row.st = games[g].st
          /\ \E found \in Finds(row) :
               shown'[o] = Snapshot(g, row, conn'[o].seat, attached'[g], found)
          /\ \A d \in attached'[g] : SeatedAs(row, conn[d].player, conn'[d].seat)
    BY DEF Fresh
  <1>3. PICK found \in Finds(row) :
          shown'[o] = Snapshot(g, row, conn'[o].seat, attached'[g], found)
    BY <1>2
  <1>4. PICK v : v = Snapshot(g, row, conn'[o].seat, attached'[g], found) /\ shown'[o] = v
    BY <1>3
  <1>5. /\ v \in Views /\ v # NoView /\ v.you = conn'[o].seat
        /\ v.status = row.st.status
        /\ DOMAIN v.player = {s \in Seats : row.who[s] \in found}
        /\ \A x \in DOMAIN v.player :
             /\ v.player[x].id = row.who[x]
             /\ v.player[x].up <=> x \in Up(row, attached'[g])
             /\ v.player[x].move = VisibleMove(row.st, conn'[o].seat, x)
    BY <1>1, <1>3, <1>4, FindsPlayers, SnapshotView
  <1>6. OwnSeat(v, conn'[o].seat, games[g].st)
    BY <1>2, <1>5 DEF OwnSeat
  <1>7. ASSUME NEW x \in DOMAIN v.player
        PROVE  /\ x = conn'[o].seat => v.player[x].id = conn[o].player
               /\ v.player[x].up <=>
                    \E d \in attached'[g] : ~conn[d].closing /\ conn'[d].seat = x
    <2>1. x \in Seats /\ row.who[x] # NoPlayer /\ v.player[x].id = row.who[x]
      BY <1>1, <1>5, <1>7, FindsPlayers, StoreAssumption
    <2>2. x \in Up(row, attached'[g]) <=>
            \E d \in attached'[g] : ~conn[d].closing /\ SeatOf(row, conn[d].player) = x
      BY <1>1 DEF Up
    <2>3. ASSUME NEW d \in attached'[g]
          PROVE  SeatOf(row, conn[d].player) = x <=> conn'[d].seat = x
      <3>1. conn[d].player # NoPlayer /\ SeatedAs(row, conn[d].player, conn'[d].seat)
        BY <1>1, <1>2
      <3>2. row.who[x] = conn[d].player => SeatOf(row, conn[d].player) # NoSeat
        BY <2>1, <3>1, SeatDistinct DEF SeatOf, Seats
      <3> QED
        BY <2>1, <3>1, <3>2, SeatDistinct DEF SeatedAs
    <2>4. x = conn'[o].seat => row.who[x] = conn[o].player
      BY <1>2, <2>1 DEF SeatedAs
    <2> QED
      BY <1>1, <1>5, <1>7, <2>1, <2>2, <2>3, <2>4
  <1>8. shown'[o] = v /\ v.status = games[g].st.status
    BY <1>2, <1>4, <1>5
  <1>9. /\ o \in Conns /\ conn'[o].seat \in Seats /\ conn[o].player # NoPlayer
        /\ games[g].who[conn'[o].seat] \in {conn[o].player, NoPlayer}
    BY <1>1
  <1> QED
    BY <1>5, <1>6, <1>7, <1>8, <1>9

\* Those of other games see nothing of it, and whoever of g is not sent the
\* view has seen it before.
LEMMA TellsCrowd ==
  ASSUME IInv, NEW c \in Conns, NEW g \in Games, Tells(c, g)
  PROVE  /\ \A h \in Games \ {g} :
              /\ attached'[h] = attached[h]
              /\ SomeoneTells(h) => SomeoneTells(h)'
              /\ \A o \in attached[h] :
                   /\ o \in Conns /\ conn'[o].seat = conn[o].seat /\ shown'[o] = shown[o]
                   /\ Live(o)' <=> Live(o)
         /\ \A o \in attached'[g] : Live(o) /\ faults' = 0 =>
              \/ Fresh(o, g)
              \/ /\ attached' = attached /\ ~SomeoneTells(g) /\ shown'[o] = shown[o]
                 /\ \A d \in attached[g] : conn'[d].seat = conn[d].seat
  <1>1. /\ UNCHANGED <<games, players, conns>> /\ (faults' = 0 => faults = 0)
        /\ pc[c] \in Notifying /\ fr[c].game = g /\ pc'[c] \notin Notifying
        /\ \A d \in Procs \ {c} : pc'[d] = pc[d] /\ fr'[d] = fr[d]
        /\ \A h \in Games \ {g} : attached'[h] = attached[h]
        /\ attached \in [Games -> SUBSET Conns] /\ attached'[g] \subseteq Conns
    BY DEF Tells, IInv, Typed, TypeOK
  <1>2. \A d \in Conns :
          /\ conn'[d].player = conn[d].player
          /\ Live(d)' <=> Live(d)
          /\ \/ conn'[d].game = conn[d].game /\ conn'[d].seat = conn[d].seat
             \/ d = c /\ conn[c].game \in {NoGame, g} /\ conn'[c].game = g
    BY <1>1 DEF Tells, Live
  <1>3. \A h \in Games \ {g} : \A o \in attached[h] :
          /\ o \in Conns /\ conn'[o].seat = conn[o].seat /\ shown'[o] = shown[o]
          /\ Live(o)' <=> Live(o)
    <2> SUFFICES ASSUME NEW h \in Games \ {g}, NEW o \in attached[h]
                 PROVE  /\ o \in Conns /\ conn'[o].seat = conn[o].seat /\ shown'[o] = shown[o]
                        /\ Live(o)' <=> Live(o)
      OBVIOUS
    <2>1. o \in Conns /\ conn[o].game = h
      BY <1>1 DEF IInv, RegistriesAgree
    <2>2. conn'[o].game = h /\ conn'[o].seat = conn[o].seat
      BY <1>2, <2>1, HubAssumption
    <2>3. o \notin attached'[g]
      BY <2>2 DEF Tells
    <2> QED
      BY <1>2, <2>1, <2>2, <2>3 DEF Tells
  <1>4. ASSUME NEW o \in attached'[g], Live(o), faults' = 0
        PROVE  \/ Fresh(o, g)
               \/ /\ attached' = attached /\ ~SomeoneTells(g)
                  /\ shown'[o] = shown[o]
                  /\ \A d \in attached[g] : conn'[d].seat = conn[d].seat
    <2> SUFFICES ASSUME ~Fresh(o, g)
                 PROVE  /\ attached' = attached /\ ~SomeoneTells(g)
                        /\ shown'[o] = shown[o]
                        /\ \A d \in attached[g] : conn'[d].seat = conn[d].seat
      OBVIOUS
    <2>1. Reattaches(c, g) /\ o # c /\ shown'[o] = shown[o]
      BY <1>1, <1>4 DEF Tells
    <2>2. \A d \in Procs : pc[d] \in Tellers /\ fr[d].game = g => d = c
      BY <1>1, OneTeller DEF Tellers, Notifying, Holding, Procs
    <2>3. ~Telling(g)
      BY <2>1, <2>2 DEF Telling, Reattaches, Tellers, Notifying, Procs
    <2>4. ~(pc[Sweeper] = "closeNotify" /\ fr[Sweeper].game = g)
      BY <2>2, HubAssumption DEF Tellers, Procs
    <2>5. \A d \in attached[g] : conn'[d].seat = conn[d].seat
      BY <1>1, <1>2, <2>1 DEF Reattaches
    <2> QED
      BY <2>1, <2>3, <2>4, <2>5 DEF Reattaches, SomeoneTells
  <1>5. ASSUME NEW h \in Games \ {g}, SomeoneTells(h) PROVE SomeoneTells(h)'
    <2>1. Telling(h) => Telling(h)'
      BY <1>1, <1>2, <1>5, HubAssumption DEF Telling, Procs
    <2> QED
      BY <1>1, <1>5, <2>1, HubAssumption DEF SomeoneTells, Procs
  <1> QED
    BY <1>1, <1>3, <1>4, <1>5

\* Only those attached are sent a view.
LEMMA TellsMembers ==
  ASSUME IInv, ViewsTyped, MembersOnly, NEW c \in Conns, NEW g \in Games, Tells(c, g)
  PROVE  ViewsTyped' /\ MembersOnly'
  <1>1. ASSUME NEW o \in Conns
        PROVE  \/ shown'[o] = shown[o]
               \/ shown'[o] \in Views /\ o \in conns /\ conn[o].player # NoPlayer
    <2>1. shown'[o] = shown[o] \/ (o \in attached'[g] /\ Live(o) /\ Fresh(o, g))
      BY DEF Tells
    <2>2. ASSUME o \in attached'[g], Live(o), Fresh(o, g)
          PROVE  shown'[o] \in Views /\ o \in conns /\ conn[o].player # NoPlayer
      <3>1. shown'[o] \in Views
        BY <2>2, FindsPlayers, SnapshotView DEF Fresh, IInv, Typed, TypeOK
      <3> QED
        BY <2>2, <3>1 DEF Tells, Live
    <2> QED
      BY <2>1, <2>2
  <1>2. conns' = conns /\ \A d \in Conns : conn'[d].player = conn[d].player
    BY DEF Tells
  <1>3. shown' = [o \in Conns |-> shown'[o]]
    BY DEF Tells
  <1>4. \A o \in Conns : shown'[o] \in Views \cup {NoView}
    BY <1>1 DEF ViewsTyped
  <1> QED
    BY <1>1, <1>2, <1>3, <1>4 DEF ViewsTyped, MembersOnly

LEMMA TellsPersonal ==
  ASSUME IInv, PInv, SeatsUnshared', NEW c \in Conns, NEW g \in Games, Tells(c, g)
  PROVE  PInv'
  <1>1. /\ UNCHANGED <<games, players, conns>> /\ (faults' = 0 => faults = 0)
        /\ pc[c] \in Notifying /\ fr[c].game = g /\ pc'[c] \notin Notifying
        /\ \A d \in Procs \ {c} : pc'[d] = pc[d] /\ fr'[d] = fr[d]
        /\ \A h \in Games \ {g} : attached'[h] = attached[h]
        /\ attached \in [Games -> SUBSET Conns] /\ attached'[g] \subseteq Conns
    BY DEF Tells, IInv, Typed, TypeOK
  <1>2. \A d \in Conns :
          /\ conn'[d].player = conn[d].player
          /\ Live(d)' <=> Live(d)
          /\ \/ conn'[d].game = conn[d].game /\ conn'[d].seat = conn[d].seat
             \/ d = c /\ conn[c].game \in {NoGame, g} /\ conn'[c].game = g
    BY <1>1 DEF Tells, Live
  <1>3. ThrowsHidden'
    <2> SUFFICES ASSUME NEW o \in Conns, Live(o)', shown'[o] # NoView,
                        shown'[o].status = "ACTIVE", NEW x \in DOMAIN shown'[o].player,
                        shown'[o].player[x].id # conn'[o].player
                 PROVE  shown'[o].player[x].move = Pending
      BY DEF ThrowsHidden
    <2>1. CASE shown'[o] = shown[o]
      BY <1>2, <2>1 DEF PInv, ThrowsHidden
    <2>2. CASE o \in attached'[g] /\ Fresh(o, g)
      <3>1. c \in Procs
        BY DEF Procs
      <3>2. /\ games[g].st.status = "ACTIVE"
            /\ x = conn'[o].seat => shown'[o].player[x].id = conn'[o].player
            /\ shown'[o].player[x].move = VisibleMove(games[g].st, conn'[o].seat, x)
        BY <1>2, <2>2, <3>1, FreshPersonal DEF OwnSeat
      <3>3. x # conn'[o].seat
        BY <3>2
      <3> QED
        BY <3>2, <3>3 DEF VisibleMove
    <2> QED
      BY <2>1, <2>2 DEF Tells
  <1>4. \A h \in Games \ {g} : \A o \in attached[h] :
          /\ o \in Conns /\ conn'[o].seat = conn[o].seat /\ shown'[o] = shown[o]
          /\ Live(o)' <=> Live(o)
    BY TellsCrowd
  <1>5. ASSUME NEW o \in attached'[g], Live(o), faults' = 0
        PROVE  \/ Fresh(o, g)
               \/ /\ attached' = attached /\ ~SomeoneTells(g)
                  /\ shown'[o] = shown[o]
                  /\ \A d \in attached[g] : conn'[d].seat = conn[d].seat
    BY <1>5, TellsCrowd
  <1>6. ASSUME NEW h \in Games PROVE Personal(h)'
    <2> SUFFICES ASSUME faults' = 0, ~SomeoneTells(h)', NEW o \in attached'[h], Live(o)'
                 PROVE  shown'[o] # NoView /\ OwnSeat(shown'[o], conn'[o].seat, games'[h].st)
      BY DEF Personal, NoFault, OwnSeat
    <2>1. CASE h = g /\ Fresh(o, g)
      <3>1. c \in Procs
        BY DEF Procs
      <3> QED
        BY <1>1, <2>1, <3>1, FreshPersonal
    <2>2. CASE h # g
      <3>1. o \in attached[h] /\ Live(o) /\ conn'[o].seat = conn[o].seat /\ shown'[o] = shown[o]
        BY <1>1, <1>4, <2>2
      <3>2. ~SomeoneTells(h)
        BY <2>2, TellsCrowd
      <3> QED
        BY <1>1, <3>1, <3>2 DEF PInv, Personal, NoFault
    <2>3. CASE h = g /\ ~Fresh(o, g)
      BY <1>1, <1>2, <1>5, <2>3 DEF PInv, Personal, NoFault
    <2> QED
      BY <2>1, <2>2, <2>3
  <1>7. ASSUME NEW h \in Games PROVE Presence(h)'
    <2> SUFFICES ASSUME faults' = 0, NEW o \in attached'[h], Live(o)', shown'[o] # NoView,
                        NEW x \in DOMAIN shown'[o].player
                 PROVE  /\ (\E d \in attached'[h] : Live(d)' /\ conn'[d].seat = x) =>
                             shown'[o].player[x].up
                        /\ shown'[o].player[x].up => \E d \in attached'[h] : conn'[d].seat = x
      BY DEF Presence, SeesPresence, NoFault
    <2>1. CASE h = g /\ Fresh(o, g)
      <3>1. shown'[o].player[x].up <=> \E d \in attached'[g] : ~conn[d].closing /\ conn'[d].seat = x
        <4>1. c \in Procs
          BY DEF Procs
        <4> QED
          BY <2>1, <4>1, FreshPersonal
      <3>2. \A d \in attached'[g] : Live(d)' => ~conn[d].closing
        BY <1>1, <1>2 DEF Live
      <3> QED
        BY <2>1, <3>1, <3>2
    <2>2. CASE h # g \/ ~Fresh(o, g)
      <3>1. /\ attached'[h] = attached[h] /\ shown'[o] = shown[o]
            /\ \A d \in attached[h] : conn'[d].seat = conn[d].seat /\ (Live(d)' <=> Live(d))
        BY <1>1, <1>2, <1>4, <1>5, <2>2
      <3>2. SeesPresence(o, h)
        BY <1>1, <3>1 DEF PInv, Presence, NoFault
      <3> QED
        BY <3>1, <3>2 DEF SeesPresence
    <2> QED
      BY <2>1, <2>2
  <1>8. ViewsTyped' /\ MembersOnly'
    BY TellsMembers DEF PInv
  <1> QED
    BY <1>3, <1>6, <1>7, <1>8 DEF PInv

\* Closing a game concerns nobody outside it,
LEMMA ClosesCrowd ==
  ASSUME IInv, NEW c \in Procs, NEW g \in Games, Closes(c, g), NEW h \in Games, h # g
  PROVE  /\ attached'[h] = attached[h]
         /\ \A o \in attached[h] :
              /\ o \in Conns \ attached[g] /\ conn'[o].seat = conn[o].seat
              /\ shown'[o] = shown[o] /\ (Live(o)' <=> Live(o))
         /\ SomeoneTells(h) => SomeoneTells(h)'
  <1>1. /\ pc[c] \in Tellers /\ fr[c].game = g
        /\ \A d \in Procs \ {c} : pc'[d] = pc[d] /\ fr'[d] = fr[d]
        /\ attached'[h] = attached[h]
        /\ \A d \in Conns : conn'[d].game \in {conn[d].game, NoGame}
        /\ \A d \in Conns : Live(d)' <=> Live(d)
    BY DEF Closes, Live
  <1>2. \A o \in attached[h] : o \in Conns \ attached[g]
    BY DEF IInv, RegistriesAgree, Typed, TypeOK
  <1>3. \A o \in attached[h] : conn'[o].seat = conn[o].seat /\ shown'[o] = shown[o]
    BY <1>2 DEF Closes
  <1>4. SomeoneTells(h) => SomeoneTells(h)'
    BY <1>1, HubAssumption DEF SomeoneTells, Telling, Procs
  <1> QED
    BY <1>1, <1>2, <1>3, <1>4

\* and shows only those in it anything.
LEMMA ClosesMembers ==
  ASSUME IInv, ViewsTyped, MembersOnly, NEW c \in Procs, NEW g \in Games, Closes(c, g)
  PROVE  ViewsTyped' /\ MembersOnly'
  <1>1. \A o \in attached[g] : o \in conns /\ conn[o].player # NoPlayer
    BY SeatHeld
  <1>2. \A o \in Conns :
          \/ shown'[o] = shown[o]
          \/ o \in attached[g] /\ shown'[o] \in Views \cup {NoView}
    BY DEF Closes
  <1>3. /\ shown' = [o \in Conns |-> shown'[o]]
        /\ conns' = conns /\ \A d \in Conns : conn'[d].player = conn[d].player
    BY DEF Closes
  <1>4. \A o \in Conns : shown'[o] \in Views \cup {NoView}
    BY <1>2 DEF ViewsTyped
  <1> QED
    BY <1>1, <1>2, <1>3, <1>4 DEF ViewsTyped, MembersOnly

LEMMA ClosesPersonal ==
  ASSUME IInv, PInv, NEW c \in Procs, NEW g \in Games, Closes(c, g)
  PROVE  PInv'
  <1>1. /\ UNCHANGED <<games, players, conns>> /\ (faults' = 0 => faults = 0)
        /\ pc[c] \in Tellers /\ fr[c].game = g /\ pc'[c] \notin Tellers
        /\ \A d \in Procs \ {c} : pc'[d] = pc[d] /\ fr'[d] = fr[d]
        /\ attached'[g] = {} /\ \A h \in Games \ {g} : attached'[h] = attached[h]
    BY DEF Closes
  <1>2. \A d \in Conns : conn'[d].player = conn[d].player /\ (Live(d)' <=> Live(d))
    BY <1>1 DEF Closes, Live
  <1>3. ThrowsHidden'
    <2> SUFFICES ASSUME NEW o \in Conns, Live(o)', shown'[o] # NoView,
                        shown'[o].status = "ACTIVE", NEW x \in DOMAIN shown'[o].player,
                        shown'[o].player[x].id # conn'[o].player
                 PROVE  shown'[o].player[x].move = Pending
      BY DEF ThrowsHidden
    <2>1. shown'[o] = shown[o]
      BY DEF Closes
    <2> QED
      BY <1>2, <2>1 DEF PInv, ThrowsHidden
  <1>4. ASSUME NEW h \in Games PROVE Personal(h)' /\ Presence(h)'
    <2>1. CASE h = g
      BY <1>1, <2>1 DEF Personal, Presence
    <2>2. CASE h # g
      <3>1. \A o \in attached[h] :
              /\ o \in Conns \ attached[g] /\ conn'[o].seat = conn[o].seat
              /\ shown'[o] = shown[o] /\ (Live(o)' <=> Live(o))
        BY <2>2, ClosesCrowd
      <3>2. SomeoneTells(h) => SomeoneTells(h)'
        BY <2>2, ClosesCrowd
      <3>3. Personal(h)'
        BY <1>1, <2>2, <3>1, <3>2 DEF PInv, Personal, OwnSeat, NoFault
      <3>4. Presence(h)'
        BY <1>1, <2>2, <3>1 DEF PInv, Presence, SeesPresence, NoFault
      <3> QED
        BY <3>3, <3>4
    <2> QED
      BY <2>1, <2>2
  <1>5. ViewsTyped' /\ MembersOnly'
    BY ClosesMembers DEF PInv
  <1> QED
    BY <1>3, <1>4, <1>5 DEF PInv

\* So does every step,
LEMMA KindsPersonal ==
  ASSUME IInv, PInv, SeatsUnshared, SeatsUnshared', NEW c \in Conns, Kinds(c), SweeperStays
  PROVE  PInv'
  <1>1. c \in Procs
    BY DEF Procs
  <1>2. CASE Quiet
    BY <1>2, QuietStill, StillPersonal DEF PInv
  <1>3. CASE Unregister(c)
    BY <1>3, UnregisterStill, StillPersonal DEF PInv
  <1>4. ASSUME NEW g \in Games, Saved(c, g) PROVE PInv'
    BY <1>4, SavedStill, StillPersonal DEF PInv
  <1>5. ASSUME NEW g \in Games, Tells(c, g) PROVE PInv'
    BY <1>5, TellsPersonal
  <1>6. ASSUME NEW g \in Games, Closes(c, g) PROVE PInv'
    BY <1>1, <1>6, ClosesPersonal
  <1>7. ASSUME NEW t \in Conns, NEW g \in Games, Leaves(c, t, g) PROVE PInv'
    BY <1>1, <1>7, LeavesPersonal
  <1> QED
    BY <1>2, <1>3, <1>4, <1>5, <1>6, <1>7 DEF Kinds

\* of whichever connection.
LEMMA PersonalStep ==
  ASSUME IInv, ViewInv, PInv, SeatsUnshared, SeatsUnshared', NEW c \in Conns, Client(c) \/ Handler(c)
  PROVE  PInv'
  <1>1. VInv /\ ViewsTyped
    BY DEF ViewInv, VInv
  <1>2. Kinds(c)
    BY <1>1, TellsStoredRow, StepKinds
  <1>3. SweeperStays
    <2>1. Footprint(c)
      BY ClientInv, HandlerInv
    <2> QED
      BY <2>1, HubAssumption DEF Footprint, Procs, SweeperStays
  <1> QED
    BY <1>2, <1>3, KindsPersonal

LEMMA PersonalInit ==
  ASSUME Init
  PROVE  PInv
  <1>1. conns = {} /\ attached = [g \in Games |-> {}] /\ shown = [c \in Conns |-> NoView]
    BY DEF Init, HubInit
  <1> QED
    BY <1>1 DEF PInv, ViewsTyped, MembersOnly, ThrowsHidden, Live, Personal, Presence

LEMMA PersonalStutter == PInv /\ UNCHANGED hubVars => PInv'
  <1> SUFFICES ASSUME PInv, UNCHANGED hubVars PROVE PInv'
    OBVIOUS
  <1>1. UNCHANGED <<games, players, conns, attached, conn, pc, fr, shown, faults>>
    BY DEF hubVars, storeVars, connVars, procVars
  <1> QED
    BY <1>1 DEF PInv, ViewsTyped, MembersOnly, ThrowsHidden, Personal, OwnSeat, Presence,
                SeesPresence, SomeoneTells, Telling, Live, NoFault

(***************************************************************************)
(* While no live connection shares its seat, every client has been shown   *)
(* its own seat, the throws that this seat may see, and who is there.      *)
(***************************************************************************)
THEOREM SeatPictures == Spec /\ []SeatsUnshared => []PInv
  <1>1. Init => PInv
    BY PersonalInit
  <1>2. IInv /\ ViewInv /\ PInv /\ SeatsUnshared /\ SeatsUnshared' /\ [HubNext]_hubVars => PInv'
    BY PersonalStep, PersonalStutter DEF HubNext
  <1> QED
    BY <1>1, <1>2, Invariant, Pictures, PTL DEF Spec

(***************************************************************************)
(* No client has been shown its opponent's throw of a running round, as    *)
(* long as no live connection shares its seat (run hub_peek shows the      *)
(* throw leaking when one does).                                           *)
(***************************************************************************)
THEOREM ThrowsStayHidden == Spec /\ []SeatsUnshared => []ThrowsHidden
  <1>1. PInv => ThrowsHidden
    BY DEF PInv
  <1> QED
    BY <1>1, SeatPictures, PTL

(***************************************************************************)
(* The views of connect, of the broadcasts and of the close go to the      *)
(* right seats: with the lock free each live client has been shown its     *)
(* game from its own seat.                                                 *)
(***************************************************************************)
THEOREM ViewsArePersonal == Spec /\ []SeatsUnshared => []OwnView
  <1>1. IInv /\ ViewInv /\ PInv => OwnView
    BY FreeIsQuiet DEF PInv, Personal, OwnSeat, OwnView
  <1> QED
    BY <1>1, Invariant, Pictures, SeatPictures, PTL

\* With everybody attached live, who is seen is who is attached.
LEMMA PicturesOfPresence == PInv => PresenceAccurate
  <1> SUFFICES ASSUME PInv, NEW g \in Games, NoFault, \A o \in attached[g] : Live(o),
                      NEW c \in attached[g], shown[c] # NoView, NEW seat \in DOMAIN shown[c].player
               PROVE  shown[c].player[seat].up <=> \E o \in attached[g] : conn[o].seat = seat
    BY DEF PresenceAccurate
  <1>1. SeesPresence(c, g)
    BY DEF PInv, Presence
  <1> QED
    BY <1>1 DEF SeesPresence

(***************************************************************************)
(* The connected flags that attach and detach announce add up: every       *)
(* client attached has been shown as connected exactly the seats that      *)
(* somebody is attached in.                                                *)
(***************************************************************************)
THEOREM PresenceIsAccurate == Spec /\ []SeatsUnshared => []PresenceAccurate
  BY PicturesOfPresence, SeatPictures, PTL

\* No player is authenticated on two connections at once, however often
\* it comes back.
OneSocketAtATime ==
  \A c, d \in conns : conn[c].player = conn[d].player /\ conn[c].player # NoPlayer => c = d

\* Nobody ever comes back.
OneSocketEach == \A c, d \in Conns : Login[c] = Login[d] => c = d

\* Two connections in one seat are two of one player.
LEMMA OneSocketUnshared ==
  ASSUME IInv, ViewInv, OneSocketAtATime
  PROVE  SeatsUnshared
  <1> SUFFICES ASSUME NEW g \in Games, NEW c \in attached[g], NEW d \in attached[g], c # d
               PROVE  conn[c].seat # conn[d].seat
    BY DEF SeatsUnshared
  <1>1. /\ c \in conns /\ d \in conns
        /\ conn[c].player # NoPlayer /\ conn[c].seat \in Seats
        /\ conn[c].seat = SeatOf(games[g], conn[c].player)
        /\ conn[d].seat = SeatOf(games[g], conn[d].player)
        /\ conn[d].player # NoPlayer /\ conn[d].seat \in Seats
    BY SeatStored DEF ViewInv, VInv
  <1>2. conn[c].player # conn[d].player
    BY <1>1 DEF OneSocketAtATime
  <1>3. /\ games[g].who[conn[c].seat] = conn[c].player
        /\ games[g].who[conn[d].seat] = conn[d].player
    BY <1>1, SeatDistinct DEF SeatOf
  <1> QED
    BY <1>2, <1>3

(***************************************************************************)
(* Seats are never shared when a player has one connection at a time: it   *)
(* may come back as often as it likes, on a new socket, after the old one  *)
(* was unregistered.                                                       *)
(***************************************************************************)
THEOREM SequentialSockets ==
  Spec /\ []OneSocketAtATime => [](ThrowsHidden /\ OwnView /\ PresenceAccurate)
  <1>1. IInv /\ ViewInv /\ OneSocketAtATime => SeatsUnshared
    BY OneSocketUnshared
  <1>2. Spec /\ []OneSocketAtATime => []SeatsUnshared
    BY <1>1, Invariant, Pictures, PTL
  <1> QED
    BY <1>2, ThrowsStayHidden, ViewsArePersonal, PresenceIsAccurate, PTL

(***************************************************************************)
(* Nor are they when every client keeps its first socket: then the three   *)
(* properties hold of every behaviour, under a condition on the constants  *)
(* alone (as in run hub_duel).                                             *)
(***************************************************************************)
THEOREM SingleSockets ==
  ASSUME OneSocketEach
  PROVE  Spec => [](ThrowsHidden /\ OwnView /\ PresenceAccurate)
  <1>1. Init => Named
    BY DEF Init, HubInit, Named, NewConn
  <1>2. IInv /\ Named /\ [HubNext]_hubVars => Named'
    <2>1. UNCHANGED hubVars => UNCHANGED conn
      BY DEF hubVars, connVars
    <2> QED
      BY <2>1, NamedStep DEF HubNext, Named
  <1>3. IInv /\ Named => OneSocketAtATime
    BY DEF OneSocketEach, OneSocketAtATime, Named, IInv, Typed, TypeOK
  <1> QED
    BY <1>1, <1>2, <1>3, Invariant, Pictures, SequentialSockets, PTL DEF Spec
=============================================================================

------------------------------ MODULE HubProofs ------------------------------
(***************************************************************************)
(* Proofs about the hub, for any players, games, connections, rounds and   *)
(* failing statements.  IInv is the inductive invariant: what the          *)
(* properties say at rest, and what each goroutine knows at each of its    *)
(* stages.  A step is a step of one goroutine p, and leaves the rest of    *)
(* the system alone up to Footprint(p); so each action owes only what p    *)
(* knows afterwards (Local(p)') and what is shared.                        *)
(***************************************************************************)
EXTENDS Hub, RulesProofs

-----------------------------------------------------------------------------
(* What a goroutine knows at each of its stages.                            *)

\* Under a game's lock; the last three are the sweeper's.
Holding == {"connectSave", "connectAttach", "opSave", "opNotify",
            "closeSave", "closeNotify", "deleteGame"}

\* The handler is for the game in its locals.
InGame == Holding \cup {"connectLock", "opLock"}

Connecting == {"connectLock", "connectSave", "connectAttach"}

Operating == {"opLock", "opSave", "opNotify"}

Detaching == {"replace", "detach", "detachLock"}

SweeperStages == {"asleep", "players", "listOpen", "closeGames", "closeSave", "closeNotify",
                  "deletePlayer", "games", "deleteGame", "detach", "detachLock"}

Typed == TypeOK /\ pc \in [Procs -> Stages \cup SweeperStages]

\* The locals of the handler p.
Locals(p) ==
  /\ pc[p] \in InGame \cup Detaching => fr[p] \in Frames
  /\ pc[p] \in InGame => fr[p].game \in Games
  /\ pc[p] \in Holding => lock[fr[p].game] = p
  /\ pc[p] \in Operating => fr[p].op \in Ops
  /\ pc[p] \in Detaching =>
       /\ fr[p].target \in Conns
       /\ fr[p].then \in {"reading", "connectLock", "unregister"} <=> p \in Conns
       /\ fr[p].then = "deletePlayer" <=> p = Sweeper
       /\ fr[p].then \in {"connectLock", "unregister"} => fr[p].target = p
       /\ fr[p].then = "connectLock" => fr[p].game \in Games /\ conn[p].player # NoPlayer
  /\ pc[p] = "detachLock" => fr[p].from \in Games
  /\ pc[p] = "touch" => fr[p].stamp \in Times

\* Where a connection is tells what it is attached to and as whom.
Place(c) ==
  /\ c \in conns <=> pc[c] \notin {"unborn", "gone"}
  /\ c \notin conns \/ pc[c] = "unregister" => conn[c].game = NoGame
  /\ pc[c] \in {"unborn", "touch", "register"} => conn[c].player = NoPlayer
  /\ pc[c] \in Connecting \cup Operating => conn[c].player # NoPlayer
  /\ pc[c] \in Connecting => conn[c].game \in {NoGame, fr[c].game}

\* The seats of a loaded row are still those of the stored one, except
\* that its players may have been deleted.
Fits(row, g) ==
  \A seat \in Seats :
    \/ row.who[seat] = games[g].who[seat]
    \/ games[g].who[seat] = NoPlayer /\ row.who[seat] \notin players

Returns(row, g, p) ==
  Fits(row, g) /\ row.st = games[g].st /\ SeatOf(row, p) # NoSeat

Joins(row, g, p) ==
  /\ CanJoin(games[g].st) /\ row.st = Join(games[g].st)
  /\ SeatOf(games[g], p) = NoSeat /\ games[g].who["GUEST"] = NoPlayer
  /\ row.who["GUEST"] = p
  /\ \/ row.who["HOST"] = games[g].who["HOST"]
     \/ games[g].who["HOST"] = NoPlayer /\ row.who["HOST"] \notin players

\* The row a handler holds is an update of the row that is stored.
Ready(c) ==
  LET g   == fr[c].game
      row == fr[c].row
  IN  /\ pc[c] \in {"connectSave", "connectAttach"} => row \in Row /\ Open(g)
      /\ pc[c] = "connectSave" =>
           Returns(row, g, conn[c].player) \/ Joins(row, g, conn[c].player)
      /\ pc[c] = "connectAttach" => Returns([row EXCEPT !.st = games[g].st], g, conn[c].player)
      /\ pc[c] = "opSave" =>
           /\ row \in Row /\ games[g] # NoRow /\ Fits(row, g)
           /\ conn[c].game = g
           /\ Allowed(fr[c].op, fr[c].throw, conn[c].seat, games[g].st)
           /\ row.st = Result(fr[c].op, fr[c].throw, conn[c].seat, games[g].st)

Local(p) == Locals(p) /\ (p \in Conns => Place(p) /\ Ready(p))

\* p has closed game g and is about to detach everyone.
Closer(p, g) ==
  /\ lock[g] = p /\ fr[p].game = g
  /\ \/ pc[p] = "opNotify" /\ fr[p].op = "leave"
     \/ pc[p] = "closeNotify"

\* Whoever is attached has a seat in an open game, or in one that p is closing.
Backed(g) ==
  \A c \in attached[g] :
    /\ conn[c].seat \in Seats
    /\ games[g] # NoRow
    /\ Open(g) \/ \E p \in Procs : Closer(p, g)
    /\ conn[c].player \in players => conn[c].seat = SeatOf(games[g], conn[c].player)

IInv ==
  /\ Typed
  /\ RegistriesAgree
  /\ NewestRegistered
  /\ \A g \in Games : Backed(g)
  /\ \A p \in Procs : Local(p)

-----------------------------------------------------------------------------
(* Types of rows and locals.                                                *)

LEMMA SeatOfType == ASSUME NEW row, NEW p PROVE SeatOf(row, p) \in Seats \cup {NoSeat}
  BY DEF SeatOf, Seats

LEMMA SeatDistinct == NoSeat \notin Seats
  BY DEF NoSeat, Seats

LEMMA FrameType ==
  ASSUME NEW op \in Ops \cup {"connect", "expire"}, NEW throw \in Moves, NEW g \in Games
  PROVE  /\ Frame(op, throw, g) \in Frames
         /\ Frame(op, throw, g).game = g /\ Frame(op, throw, g).op = op
  BY StoreAssumption DEF Frame, Frames, Times

LEMMA ConnectFrameType ==
  ASSUME NEW g \in Games
  PROVE  Frame("connect", Pending, g) \in Frames /\ Frame("connect", Pending, g).game = g
  BY StoreAssumption DEF Frame, Frames, Moves, Times

LEMMA DetachFrameType ==
  ASSUME NEW t \in Conns, NEW g \in Games \cup {NoGame},
         NEW then \in {"reading", "connectLock", "unregister", "deletePlayer"}
  PROVE  /\ DetachFrame(t, then, g) \in Frames
         /\ DetachFrame(t, then, g).target = t /\ DetachFrame(t, then, g).then = then
         /\ DetachFrame(t, then, g).game = g
  <1>1. 0 \in Times
    BY StoreAssumption DEF Times
  <1> QED
    BY <1>1 DEF DetachFrame, Frames, Moves

LEMMA AuthFrameType ==
  ASSUME NEW t \in Times
  PROVE  AuthFrame(t) \in Frames /\ AuthFrame(t).stamp = t
  BY DEF AuthFrame, Frames, Moves

LEMMA FrameKept ==
  ASSUME NEW f \in Frames
  PROVE  /\ \A row \in Row \cup {NoRow} : [f EXCEPT !.row = row] \in Frames
         /\ \A g \in Games \cup {NoGame} : [f EXCEPT !.from = g] \in Frames
         /\ \A row : /\ [f EXCEPT !.row = row].row = row
                     /\ [f EXCEPT !.row = row].game = f.game
                     /\ [f EXCEPT !.row = row].op = f.op
                     /\ [f EXCEPT !.row = row].throw = f.throw
         /\ \A g : /\ [f EXCEPT !.from = g].from = g
                   /\ [f EXCEPT !.from = g].target = f.target
                   /\ [f EXCEPT !.from = g].then = f.then
                   /\ [f EXCEPT !.from = g].game = f.game
  BY DEF Frames

\* The rules map a stored state to one, and only leaving closes it.
LEMMA ResultType ==
  ASSUME NEW op \in Ops, NEW throw \in Moves, NEW seat \in Seats, NEW s \in State,
         Allowed(op, throw, seat, s)
  PROVE  /\ Result(op, throw, seat, s) \in State
         /\ op # "leave" => Result(op, throw, seat, s).status # "CLOSED"
         /\ op = "leave" => Result(op, throw, seat, s).status = "CLOSED"
  <1>1. CASE op = "move"
    <2>1. throw \in Throws /\ s.status = "ACTIVE"
      BY <1>1 DEF Allowed, CanPlayMove
    <2>2. Result(op, throw, seat, s) = PlayMove(s, seat, throw)
      BY <1>1 DEF Result
    <2>3. PlayMove(s, seat, throw) \in State
      BY <2>1, PlayMoveType
    <2>4. PlayMove(s, seat, throw).status \in {"ACTIVE", "COMPLETE"}
      BY <2>1, PlayMoveStatus
    <2> QED
      BY <1>1, <2>2, <2>3, <2>4
  <1>2. CASE op = "rematch"
    <2>1. Result(op, throw, seat, s) = Rematch(s, seat)
      BY <1>2 DEF Result
    <2>2. Rematch(s, seat).status \in {"ACTIVE", IssuedBy(seat)}
      BY DEF Rematch, State
    <2> QED
      BY <1>2, <2>1, <2>2, RematchType DEF IssuedBy
  <1>3. CASE op = "decline"
    BY <1>3, DeclineType DEF Result, DeclineRematch, State
  <1>4. CASE op = "leave"
    BY <1>4, CloseType DEF Result, Close, State
  <1> QED
    BY <1>1, <1>2, <1>3, <1>4 DEF Ops

LEMMA RowParts ==
  ASSUME NEW row \in Row
  PROVE  /\ row.st \in State
         /\ row.who \in [Seats -> Players \cup {NoPlayer}]
         /\ \A s \in State : [row EXCEPT !.st = s] \in Row /\ [row EXCEPT !.st = s].who = row.who
                              /\ [row EXCEPT !.st = s].st = s
         /\ \A t \in Times : [row EXCEPT !.last = t] \in Row /\ [row EXCEPT !.last = t].who = row.who
                              /\ [row EXCEPT !.last = t].st = row.st
  BY DEF Row

LEMMA StampedType ==
  ASSUME Typed, NEW row \in Row
  PROVE  /\ Stamped(row) \in Row /\ Stamped(row).st = row.st
         /\ \A seat \in Seats : Stamped(row).who[seat] = row.who[seat]
         /\ \A p : SeatOf(Stamped(row), p) = SeatOf(row, p)
  <1>1. Stamped(row) \in Row /\ Stamped(row).st = row.st /\ Stamped(row).who = row.who
    BY RowParts DEF Stamped, Typed, TypeOK, StoreTypeOK
  <1> QED
    BY <1>1 DEF SeatOf

\* Open rows that connect loads, and what it makes of them.
LEMMA SeatedType ==
  ASSUME NEW row \in Row, NEW p \in Players, NEW seated \in Seated(row, p)
  PROVE  /\ seated \in Row
         /\ \/ SeatOf(row, p) # NoSeat /\ seated = row
            \/ /\ SeatOf(row, p) = NoSeat /\ CanJoin(row.st) /\ row.who["GUEST"] = NoPlayer
               /\ seated.st = Join(row.st) /\ seated.who["GUEST"] = p
               /\ seated.who["HOST"] = row.who["HOST"]
  <1>1. CASE SeatOf(row, p) # NoSeat
    BY <1>1 DEF Seated
  <1>2. CASE SeatOf(row, p) = NoSeat
    <2>1. /\ row.who["GUEST"] = NoPlayer /\ CanJoin(row.st)
          /\ seated = [row EXCEPT !.who["GUEST"] = p, !.st = Join(row.st)]
      BY <1>2 DEF Seated
    <2>2. Join(row.st) \in State
      BY RowParts, JoinType
    <2> DEFINE who == [row.who EXCEPT !["GUEST"] = p]
    <2>3. who \in [Seats -> Players \cup {NoPlayer}] /\ who["GUEST"] = p
          /\ who["HOST"] = row.who["HOST"]
      BY RowParts DEF Seats
    <2>4. seated = [[row EXCEPT !.who = who] EXCEPT !.st = Join(row.st)]
      BY <2>1 DEF Row
    <2> HIDE DEF who
    <2> QED
      BY <1>2, <2>1, <2>2, <2>3, <2>4 DEF Row
  <1> QED
    BY <1>1, <1>2

-----------------------------------------------------------------------------
(* What a step of p leaves alone.                                           *)

(***************************************************************************)
(* A goroutine changes its own place and its own connection; of the others *)
(* it changes rows and attachments only of games whose lock it holds or    *)
(* finds free.                                                             *)
(***************************************************************************)
Footprint(p) ==
  /\ players' = players /\ used' = used /\ now' = now
  /\ \A q \in Procs \ {p} : pc'[q] = pc[q] /\ fr'[q] = fr[q]
  /\ \A g \in Games : lock[g] \notin {NoProc, p} =>
       /\ lock'[g] = lock[g] /\ games'[g] = games[g]
       /\ attached'[g] \subseteq attached[g]
  /\ \A c \in Conns \ {p} :
       /\ c \in conns' <=> c \in conns
       /\ conn'[c].player = conn[c].player
       /\ \/ conn'[c].game = conn[c].game /\ conn'[c].seat = conn[c].seat
          \/ /\ conn[c].game \in Games /\ lock[conn[c].game] \in {NoProc, p}
             /\ conn'[c].game = NoGame

\* A goroutine that has loaded a row relies on that row, on its own
\* connection, and on the players.
LEMMA ReadyKept ==
  ASSUME NEW q, Ready(q), pc'[q] = pc[q], fr'[q] = fr[q], players' = players,
         conn'[q].player = conn[q].player,
         pc[q] \in {"connectSave", "connectAttach", "opSave"} =>
           games'[fr[q].game] = games[fr[q].game],
         pc[q] = "opSave" => conn'[q].game = conn[q].game /\ conn'[q].seat = conn[q].seat
  PROVE  Ready(q)'
  <1>1. ASSUME pc[q] = "connectSave" PROVE Ready(q)'
    BY <1>1 DEF Ready, Returns, Joins, Fits, Open
  <1>2. ASSUME pc[q] = "connectAttach" PROVE Ready(q)'
    BY <1>2 DEF Ready, Returns, Fits, Open
  <1>3. ASSUME pc[q] = "opSave" PROVE Ready(q)'
    BY <1>3 DEF Ready, Fits
  <1>4. ASSUME pc[q] \notin {"connectSave", "connectAttach", "opSave"} PROVE Ready(q)'
    BY <1>4 DEF Ready
  <1> QED
    BY <1>1, <1>2, <1>3, <1>4

\* What one goroutine knows, no other one invalidates.
LEMMA OthersKept ==
  ASSUME IInv, NEW p \in Procs, Footprint(p), NEW q \in Procs \ {p}
  PROVE  Local(q)'
  <1>1. pc'[q] = pc[q] /\ fr'[q] = fr[q] /\ Local(q)
    BY DEF Footprint, IInv
  <1>2. pc[q] \in Holding => /\ fr[q].game \in Games /\ lock[fr[q].game] = q
                             /\ lock'[fr[q].game] = q
                             /\ games'[fr[q].game] = games[fr[q].game]
    BY <1>1, HubAssumption DEF Local, Locals, Footprint, InGame, Procs
  <1>3. q \in Conns => /\ q \in conns' <=> q \in conns
                       /\ conn'[q].player = conn[q].player
                       /\ conn'[q].game \in {conn[q].game, NoGame}
    BY DEF Footprint
  <1>4. Locals(q)'
    <2>1. pc[q] \in Detaching /\ fr[q].then = "connectLock" => q \in Conns
      BY <1>1 DEF Local, Locals
    <2>2. pc[q] \in Detaching /\ fr[q].then = "connectLock" => conn'[q].player = conn[q].player
      BY <2>1, <1>3
    <2> QED
      BY <1>1, <1>2, <2>2 DEF Local, Locals
  <1>5. ASSUME q \in Conns PROVE Place(q)'
    BY <1>1, <1>3, <1>5 DEF Local, Place
  <1>6. ASSUME q \in Conns PROVE Ready(q)'
    <2>1. players' = players
      BY DEF Footprint
    <2>2. pc[q] = "opSave" => conn'[q].game = conn[q].game /\ conn'[q].seat = conn[q].seat
      <3>1. pc[q] = "opSave" => conn[q].game = fr[q].game /\ lock[conn[q].game] = q
        BY <1>1, <1>2, <1>6 DEF Local, Ready, Holding
      <3> QED
        BY <3>1, <1>6, HubAssumption DEF Footprint, Procs
    <2>3. pc[q] \in {"connectSave", "connectAttach", "opSave"} => games'[fr[q].game] = games[fr[q].game]
      BY <1>2 DEF Holding
    <2>4. conn'[q].player = conn[q].player
      BY <1>3, <1>6
    <2>5. Ready(q)
      BY <1>1, <1>6 DEF Local
    <2> QED
      BY <1>1, <2>1, <2>2, <2>3, <2>4, <2>5, ReadyKept
  <1> QED
    BY <1>4, <1>5, <1>6 DEF Local

-----------------------------------------------------------------------------
(* Steps that leave the registries or the attachments alone.                *)

LEMMA RegistriesKept ==
  ASSUME IInv, UNCHANGED <<conns, playerConn, attached>>,
         \A c \in Conns : conn'[c].game = conn[c].game /\ conn'[c].player = conn[c].player
  PROVE  RegistriesAgree'
  <1>1. RegistriesAgree /\ playerConn \in [Players -> Conns \cup {NoConn}]
    BY DEF IInv, Typed, TypeOK
  <1> QED
    BY <1>1 DEF RegistriesAgree

LEMMA NewestKept ==
  ASSUME IInv, NEW p \in Procs, Footprint(p), pc[p] # "replace", UNCHANGED playerConn,
         \A c \in Conns : /\ conn'[c].player = conn[c].player
                          /\ conn[c].closing => conn'[c].closing
                          /\ c \in conns' => c \in conns \/ conn[c].player = NoPlayer
  PROVE  NewestRegistered'
  <1> SUFFICES ASSUME NEW c \in Conns, Live(c)', conn'[c].player # NoPlayer, ~BeingReplaced(c)'
               PROVE  playerConn'[conn'[c].player] = c
    BY DEF NewestRegistered
  <1>1. Live(c) /\ conn[c].player # NoPlayer
    BY DEF Live
  <1>2. ~BeingReplaced(c)
    BY DEF BeingReplaced, Footprint, Procs
  <1> QED
    BY <1>1, <1>2 DEF IInv, NewestRegistered

\* A game whose row stays, with no new attachments.
LEMMA BackedKept ==
  ASSUME IInv, NEW p \in Procs, Footprint(p), pc[p] \notin {"opNotify", "closeNotify"},
         NEW g \in Games, games'[g] = games[g], attached'[g] \subseteq attached[g],
         \A c \in Conns : conn'[c].player = conn[c].player,
         \A c \in attached'[g] : conn'[c].seat = conn[c].seat
  PROVE  Backed(g)'
  <1>1. Backed(g) /\ players' = players /\ attached[g] \subseteq Conns
    BY DEF IInv, Footprint, Typed, TypeOK
  <1>2. ASSUME NEW q \in Procs, Closer(q, g) PROVE Closer(q, g)'
    <2>1. q # p /\ lock[g] = q
      BY <1>2 DEF Closer
    <2>2. pc'[q] = pc[q] /\ fr'[q] = fr[q] /\ lock'[g] = q
      BY <2>1, HubAssumption DEF Footprint, Procs
    <2> QED
      BY <1>2, <2>2 DEF Closer
  <1>3. Open(g)' <=> Open(g)
    BY DEF Open
  <1>4. \A q \in Conns : SeatOf(games'[g], conn'[q].player) = SeatOf(games[g], conn[q].player)
    OBVIOUS
  <1> QED
    BY <1>1, <1>2, <1>3, <1>4 DEF Backed

\* Steps that only move a goroutine, or take or release a lock.
LEMMA QuietKeeps ==
  ASSUME IInv, NEW p \in Procs, Footprint(p), pc[p] \notin {"replace", "opNotify", "closeNotify"},
         UNCHANGED <<games, connVars>>
  PROVE  RegistriesAgree' /\ NewestRegistered' /\ \A g \in Games : Backed(g)'
  <1> USE DEF connVars
  <1>1. RegistriesAgree'
    BY RegistriesKept
  <1>2. NewestRegistered'
    BY NewestKept
  <1>3. \A g \in Games : Backed(g)'
    BY BackedKept
  <1> QED
    BY <1>1, <1>2, <1>3

\* A step that keeps types and everything shared owes only p's own part.
LEMMA StepInv ==
  ASSUME IInv, NEW p \in Procs, Footprint(p), Typed', Local(p)',
         RegistriesAgree', NewestRegistered', \A g \in Games : Backed(g)'
  PROVE  IInv' /\ Footprint(p)
  BY OthersKept DEF IInv

LEMMA QuietInv ==
  ASSUME IInv, NEW p \in Procs, Footprint(p), pc[p] \notin {"replace", "opNotify", "closeNotify"},
         UNCHANGED <<games, connVars>>, Typed', Local(p)'
  PROVE  IInv' /\ Footprint(p)
  BY QuietKeeps, StepInv

-----------------------------------------------------------------------------
(* Connecting, authenticating, being replaced.                              *)

LEMMA Moved ==
  ASSUME Typed, NEW p \in Procs, NEW stage \in Stages \cup SweeperStages, Goto(p, stage)
  PROVE  /\ pc' \in [Procs -> Stages \cup SweeperStages]
         /\ pc'[p] = stage /\ \A q \in Procs \ {p} : pc'[q] = pc[q]
         /\ stage \in Stages \/ p = Sweeper => \A c \in Conns : pc'[c] \in Stages
  BY HubAssumption DEF Typed, TypeOK, Goto, Procs

LEMMA Kept ==
  ASSUME Typed, NEW p \in Procs, NEW f \in Frames \cup {NoFrame}, Keep(p, f)
  PROVE  /\ fr' \in [Procs -> Frames \cup {NoFrame}]
         /\ fr'[p] = f /\ \A q \in Procs \ {p} : fr'[q] = fr[q]
  BY DEF Typed, TypeOK, Keep

LEMMA AcceptInv ==
  ASSUME IInv, NEW c \in Conns, Accept(c)
  PROVE  IInv' /\ Footprint(c)
  <1>1. /\ c \in Procs /\ pc[c] = "unborn" /\ Typed /\ Local(c)
        /\ conns' = conns \cup {c} /\ Goto(c, "reading")
        /\ UNCHANGED <<storeVars, playerConn, attached, conn, lock, fr, faults>>
    BY DEF Accept, IInv, Procs
  <1>2. Typed' /\ pc'[c] = "reading" /\ \A q \in Procs \ {c} : pc'[q] = pc[q]
    BY <1>1, Moved DEF Typed, TypeOK, StoreTypeOK, storeVars, Stages
  <1>3. Footprint(c)
    BY <1>1, <1>2 DEF Footprint, storeVars
  <1>4. conn[c].player = NoPlayer /\ conn[c].game = NoGame
    BY <1>1 DEF Local, Place
  <1>5. Local(c)'
    BY <1>1, <1>2, <1>4 DEF Local, Locals, Place, Ready, InGame, Holding, Detaching, Operating, Connecting
  <1>6. RegistriesAgree'
    BY <1>1 DEF IInv, RegistriesAgree
  <1>7. NewestRegistered'
    BY <1>1, <1>3, <1>4, NewestKept
  <1>8. \A g \in Games : Backed(g)'
    BY <1>1, <1>3, BackedKept DEF storeVars
  <1> QED
    BY <1>1, <1>2, <1>3, <1>5, <1>6, <1>7, <1>8, StepInv

LEMMA AuthenticateInv ==
  ASSUME IInv, NEW c \in Conns, Authenticate(c)
  PROVE  IInv' /\ Footprint(c)
  <1>1. /\ c \in Procs /\ pc[c] = "reading" /\ conn[c].player = NoPlayer /\ Typed /\ Local(c)
        /\ Goto(c, "touch") /\ Keep(c, AuthFrame(now)) /\ now \in Times
        /\ UNCHANGED <<storeVars, connVars, lock, faults>>
    BY DEF Authenticate, Handles, IInv, Procs, Typed, TypeOK, StoreTypeOK
  <1>2. /\ fr' \in [Procs -> Frames \cup {NoFrame}] /\ fr'[c].stamp \in Times
        /\ \A q \in Procs \ {c} : fr'[q] = fr[q]
    BY <1>1, AuthFrameType, Kept
  <1>3. Typed' /\ pc'[c] = "touch" /\ \A q \in Procs \ {c} : pc'[q] = pc[q]
    BY <1>1, <1>2, Moved DEF Typed, TypeOK, StoreTypeOK, storeVars, connVars, Stages
  <1>4. Footprint(c)
    BY <1>1, <1>2, <1>3 DEF Footprint, storeVars, connVars
  <1>5. Local(c)'
    BY <1>1, <1>2, <1>3 DEF Local, Locals, Place, Ready, InGame, Holding, Detaching, Operating, Connecting, connVars
  <1> QED
    BY <1>1, <1>3, <1>4, <1>5, QuietInv DEF storeVars

LEMMA TouchedType ==
  Typed => \A p \in Players \cup {NoPlayer}, t \in Times : Touched(p, t) \in [Players -> Times]
  BY DEF Typed, TypeOK, StoreTypeOK, Touched

LEMMA AuthTouchInv ==
  ASSUME IInv, NEW c \in Conns, AuthTouch(c)
  PROVE  IInv' /\ Footprint(c)
  <1>1. /\ c \in Procs /\ pc[c] = "touch" /\ Typed /\ Local(c)
        /\ fr[c].stamp \in Times /\ Keep(c, NoFrame)
        /\ UNCHANGED <<players, games, used, now, connVars, lock>>
    BY DEF AuthTouch, IInv, Procs, Local, Locals, TouchPlayer, storeVars
  <1>2. active' \in [Players -> Times] /\ faults' \in 0 .. MaxFaults
    <2>1. CASE TouchPlayer(Login[c], fr[c].stamp) /\ UNCHANGED faults
      BY <1>1, <2>1, TouchedType, HubAssumption DEF TouchPlayer, Typed, TypeOK
    <2>2. CASE Fault /\ UNCHANGED storeVars
      BY <1>1, <2>2, HubAssumption DEF Fault, storeVars, Typed, TypeOK, StoreTypeOK
    <2> QED
      BY <2>1, <2>2 DEF AuthTouch
  <1>3. PICK stage \in {"register", "reading"} : Goto(c, stage)
    BY DEF AuthTouch
  <1>4. Typed' /\ pc'[c] = stage /\ \A q \in Procs \ {c} : pc'[q] = pc[q] /\ fr'[q] = fr[q]
    BY <1>1, <1>2, <1>3, Moved, Kept DEF Typed, TypeOK, StoreTypeOK, connVars, Stages
  <1>5. Footprint(c)
    BY <1>1, <1>4 DEF Footprint, connVars
  <1>6. Local(c)'
    BY <1>1, <1>4 DEF Local, Locals, Place, Ready, InGame, Holding, Detaching, Operating, Connecting, connVars
  <1> QED
    BY <1>1, <1>4, <1>5, <1>6, QuietInv

\* One field of one connection changes.
LEMMA NamedConn ==
  ASSUME Typed, NEW c \in Conns, NEW p \in Players, conn' = [conn EXCEPT ![c].player = p]
  PROVE  /\ conn' \in [Conns -> ConnFields] /\ conn'[c].player = p
         /\ conn'[c].closing = conn[c].closing
         /\ \A d \in Conns : conn'[d].game = conn[d].game /\ conn'[d].seat = conn[d].seat
         /\ \A d \in Conns \ {c} : conn'[d] = conn[d]
  <1>1. conn \in [Conns -> ConnFields]
    BY DEF Typed, TypeOK
  <1>2. [conn[c] EXCEPT !.player = p] \in ConnFields
    BY <1>1 DEF ConnFields
  <1> QED
    BY <1>1, <1>2 DEF ConnFields

LEMMA ClosedConn ==
  ASSUME Typed, NEW c \in Conns, Closed(c)
  PROVE  /\ conn' \in [Conns -> ConnFields] /\ conn'[c].closing
         /\ \A d \in Conns : /\ conn'[d].player = conn[d].player
                             /\ conn'[d].game = conn[d].game
                             /\ conn'[d].seat = conn[d].seat
                             /\ conn[d].closing => conn'[d].closing
  <1>1. conn \in [Conns -> ConnFields] /\ conn' = [conn EXCEPT ![c].closing = TRUE]
    BY DEF Typed, TypeOK, Closed
  <1>2. [conn[c] EXCEPT !.closing = TRUE] \in ConnFields
    BY <1>1 DEF ConnFields
  <1> QED
    BY <1>1, <1>2 DEF ConnFields

LEMMA RegisterInv ==
  ASSUME IInv, NEW c \in Conns, Register(c)
  PROVE  IInv' /\ Footprint(c)
  <1> DEFINE p   == Login[c]
             old == playerConn[p]
  <1>1. /\ c \in Procs /\ pc[c] = "register" /\ Typed /\ Local(c) /\ p \in Players
        /\ playerConn' = [playerConn EXCEPT ![p] = c]
        /\ conn' = [conn EXCEPT ![c].player = p]
        /\ UNCHANGED <<storeVars, conns, attached, lock, faults>>
        /\ playerConn \in [Players -> Conns \cup {NoConn}]
    BY HubAssumption DEF Register, IInv, Procs, Typed, TypeOK
  <1>2. conn[c].player = NoPlayer /\ c \in conns
    BY <1>1 DEF Local, Place
  <1>3. /\ conn' \in [Conns -> ConnFields] /\ conn'[c].player = p
        /\ conn'[c].closing = conn[c].closing
        /\ \A d \in Conns : conn'[d].game = conn[d].game /\ conn'[d].seat = conn[d].seat
        /\ \A d \in Conns \ {c} : conn'[d] = conn[d]
    BY <1>1, NamedConn
  <1>4. old # NoConn => /\ old \in Conns
                        /\ Goto(c, "replace") /\ Keep(c, DetachFrame(old, "reading", NoGame))
    BY <1>1 DEF Register
  <1>5. old = NoConn => Goto(c, "reading") /\ Keep(c, NoFrame)
    BY <1>1 DEF Register, Return
  <1>6. PICK stage \in {"replace", "reading"}, f \in Frames \cup {NoFrame} :
          /\ Goto(c, stage) /\ Keep(c, f)
          /\ old # NoConn => /\ stage = "replace" /\ f \in Frames
                             /\ f.target = old /\ f.then = "reading"
          /\ old = NoConn => stage = "reading"
    BY <1>4, <1>5, DetachFrameType
  <1> HIDE DEF p, old
  <1>7. /\ pc' \in [Procs -> Stages \cup SweeperStages] /\ \A d \in Conns : pc'[d] \in Stages
        /\ pc'[c] = stage /\ \A q \in Procs \ {c} : pc'[q] = pc[q]
        /\ fr' \in [Procs -> Frames \cup {NoFrame}]
        /\ fr'[c] = f /\ \A q \in Procs \ {c} : fr'[q] = fr[q]
    BY <1>1, <1>6, Moved, Kept DEF Stages
  <1>8. Typed'
    BY <1>1, <1>3, <1>7 DEF Typed, TypeOK, StoreTypeOK, storeVars
  <1>9. Footprint(c)
    BY <1>1, <1>3, <1>7 DEF Footprint, storeVars
  <1>10. Local(c)'
    <2>1. c # Sweeper
      BY HubAssumption
    <2>2. Locals(c)'
      BY <1>1, <1>4, <1>6, <1>7, <2>1
         DEF Locals, InGame, Holding, Detaching, Operating
    <2>3. Place(c)' /\ Ready(c)'
      BY <1>1, <1>2, <1>6, <1>7 DEF Place, Ready, Connecting, Operating
    <2> QED
      BY <2>2, <2>3 DEF Local
  <1>11. RegistriesAgree'
    <2>1. \A d \in Conns, g \in Games : d \in attached'[g] <=> conn'[d].game = g
      BY <1>1, <1>3 DEF IInv, RegistriesAgree
    <2>2. ASSUME NEW q \in Players, playerConn'[q] # NoConn
          PROVE  playerConn'[q] \in conns' /\ conn'[playerConn'[q]].player = q
      <3>1. CASE q = p
        BY <1>1, <1>2, <1>3, <3>1
      <3>2. CASE q # p
        <4>1. playerConn'[q] = playerConn[q] /\ playerConn[q] \in Conns
          BY <1>1, <2>2, <3>2
        <4>2. playerConn[q] \in conns /\ conn[playerConn[q]].player = q
          BY <2>2, <4>1 DEF IInv, RegistriesAgree
        <4>3. playerConn[q] # c
          BY <1>2, <4>2, StoreAssumption
        <4> QED
          BY <1>1, <1>3, <4>1, <4>2, <4>3
      <3> QED
        BY <3>1, <3>2
    <2>3. \A d \in Conns : conn'[d].game # NoGame => d \in conns' /\ conn'[d].player # NoPlayer
      BY <1>1, <1>3, StoreAssumption DEF IInv, RegistriesAgree
    <2> QED
      BY <2>1, <2>2, <2>3 DEF RegistriesAgree
  <1>12. NewestRegistered'
    <2> SUFFICES ASSUME NEW d \in Conns, Live(d)', conn'[d].player # NoPlayer, ~BeingReplaced(d)'
                 PROVE  playerConn'[conn'[d].player] = d
      BY DEF NewestRegistered
    <2>1. CASE d = c
      BY <1>1, <1>3, <2>1
    <2>2. CASE d # c
      <3>1. Live(d) /\ conn[d].player = conn'[d].player
        BY <1>1, <1>3, <2>2 DEF Live
      <3>2. ~BeingReplaced(d)
        <4> SUFFICES ASSUME NEW e \in Conns, pc[e] = "replace", fr[e].target = d PROVE FALSE
          BY DEF BeingReplaced
        <4>1. e # c /\ e \in Procs
          BY <1>1 DEF Procs
        <4> QED
          BY <1>7, <4>1 DEF BeingReplaced
      <3>3. playerConn[conn[d].player] = d
        BY <3>1, <3>2 DEF IInv, NewestRegistered
      <3>4. conn[d].player # p
        <4> SUFFICES ASSUME conn[d].player = p PROVE FALSE
          OBVIOUS
        <4>1. old = d /\ d # NoConn
          BY <3>3, HubAssumption DEF old
        <4>2. pc'[c] = "replace" /\ fr'[c].target = d
          BY <1>6, <1>7, <4>1
        <4> QED
          BY <4>2 DEF BeingReplaced
      <3>5. conn[d].player \in Players
        BY <3>1 DEF IInv, Typed, TypeOK, ConnFields
      <3> QED
        BY <1>1, <3>1, <3>3, <3>4, <3>5
    <2> QED
      BY <2>1, <2>2
  <1>13. \A g \in Games : Backed(g)'
    <2> SUFFICES ASSUME NEW g \in Games PROVE Backed(g)'
      OBVIOUS
    <2>1. c \notin attached[g]
      <3> SUFFICES ASSUME c \in attached[g] PROVE FALSE
        OBVIOUS
      <3>1. conn[c].game = g
        BY DEF IInv, RegistriesAgree
      <3> QED
        BY <1>2, <3>1, HubAssumption DEF IInv, RegistriesAgree
    <2>2. \A q \in Procs : Closer(q, g) => Closer(q, g)'
      BY <1>1, <1>7 DEF Closer
    <2>3. Backed(g) /\ attached[g] \subseteq Conns /\ attached'[g] = attached[g]
          /\ games' = games /\ players' = players /\ (Open(g)' <=> Open(g))
      BY <1>1 DEF IInv, Typed, TypeOK, storeVars, Open
    <2> QED
      BY <1>3, <2>1, <2>2, <2>3 DEF Backed
  <1> QED
    BY <1>1, <1>8, <1>9, <1>10, <1>11, <1>12, <1>13, StepInv

LEMMA ReplaceInv ==
  ASSUME IInv, NEW c \in Conns, Replace(c)
  PROVE  IInv' /\ Footprint(c)
  <1> DEFINE t == fr[c].target
  <1>1. /\ c \in Procs /\ pc[c] = "replace" /\ Typed /\ Local(c) /\ t \in Conns
        /\ Closed(t) /\ Goto(c, "detach")
        /\ UNCHANGED <<storeVars, conns, playerConn, attached, lock, fr, faults>>
    BY DEF Replace, IInv, Procs, Local, Locals, Detaching
  <1> HIDE DEF t
  <1>2. /\ conn' \in [Conns -> ConnFields] /\ conn'[t].closing
        /\ \A d \in Conns : /\ conn'[d].player = conn[d].player
                            /\ conn'[d].game = conn[d].game
                            /\ conn'[d].seat = conn[d].seat
                            /\ conn[d].closing => conn'[d].closing
    BY <1>1, ClosedConn
  <1>3. Typed' /\ pc'[c] = "detach" /\ \A q \in Procs \ {c} : pc'[q] = pc[q]
    BY <1>1, <1>2, Moved DEF Typed, TypeOK, StoreTypeOK, storeVars, Stages
  <1>4. Footprint(c)
    BY <1>1, <1>2, <1>3 DEF Footprint, storeVars
  <1>5. Local(c)'
    BY <1>1, <1>2, <1>3 DEF Local, Locals, Place, Ready, InGame, Holding, Detaching, Operating, Connecting
  <1>6. RegistriesAgree'
    BY <1>1, <1>2, RegistriesKept
  <1>7. NewestRegistered'
    <2> SUFFICES ASSUME NEW d \in Conns, Live(d)', conn'[d].player # NoPlayer, ~BeingReplaced(d)'
                 PROVE  playerConn'[conn'[d].player] = d
      BY DEF NewestRegistered
    <2>1. Live(d) /\ conn[d].player = conn'[d].player /\ d # t
      BY <1>1, <1>2 DEF Live
    <2>2. ~BeingReplaced(d)
      <3> SUFFICES ASSUME NEW e \in Conns, pc[e] = "replace", fr[e].target = d PROVE FALSE
        BY DEF BeingReplaced
      <3>1. e # c /\ e \in Procs
        BY <2>1 DEF t, Procs
      <3> QED
        BY <1>1, <1>3, <3>1 DEF BeingReplaced
    <2> QED
      BY <1>1, <2>1, <2>2 DEF IInv, NewestRegistered
  <1>8. \A g \in Games : Backed(g)'
    BY <1>1, <1>2, <1>4, BackedKept DEF storeVars, IInv, Typed, TypeOK
  <1> QED
    BY <1>1, <1>3, <1>4, <1>5, <1>6, <1>7, <1>8, StepInv

-----------------------------------------------------------------------------
(* detach, run by a handler or by the sweeper.                              *)

\* detach returns with its target attached to nothing.
LEMMA ContinueLocal ==
  ASSUME IInv, NEW p \in Procs, pc[p] \in {"detach", "detachLock"}, Continue(p),
         conns' = conns, \A c \in Conns : conn'[c].player = conn[c].player,
         conn'[fr[p].target].game = NoGame
  PROVE  /\ pc' \in [Procs -> Stages \cup SweeperStages] /\ \A c \in Conns : pc'[c] \in Stages
         /\ fr' \in [Procs -> Frames \cup {NoFrame}]
         /\ \A q \in Procs \ {p} : pc'[q] = pc[q] /\ fr'[q] = fr[q]
         /\ Local(p)'
  <1> DEFINE then == fr[p].then
             f    == IF then = "connectLock" THEN Frame("connect", Pending, fr[p].game) ELSE NoFrame
  <1>1. /\ Typed /\ Local(p) /\ fr[p] \in Frames /\ fr[p].target \in Conns
        /\ then \in {"reading", "connectLock", "unregister"} <=> p \in Conns
        /\ then = "deletePlayer" <=> p = Sweeper
        /\ then \in {"connectLock", "unregister"} => fr[p].target = p
        /\ then = "connectLock" => fr[p].game \in Games /\ conn[p].player # NoPlayer
    BY DEF IInv, Local, Locals, Detaching
  <1>2. Goto(p, then) /\ Keep(p, f)
    BY DEF Continue
  <1>3. then \in {"reading", "connectLock", "unregister", "deletePlayer"}
    BY <1>1 DEF Procs
  <1>4. ASSUME then = "connectLock" PROVE f \in Frames /\ f.game = fr[p].game
    <2>1. f = Frame("connect", Pending, fr[p].game) /\ fr[p].game \in Games
      BY <1>1, <1>4
    <2> HIDE DEF f
    <2> QED
      BY <2>1, ConnectFrameType
  <1>5. then # "connectLock" => f = NoFrame
    OBVIOUS
  <1> HIDE DEF f, then
  <1>6. /\ pc' \in [Procs -> Stages \cup SweeperStages] /\ \A c \in Conns : pc'[c] \in Stages
        /\ pc'[p] = then /\ \A q \in Procs \ {p} : pc'[q] = pc[q]
    BY <1>1, <1>2, <1>3, Moved DEF Stages, SweeperStages
  <1>7. /\ fr' \in [Procs -> Frames \cup {NoFrame}]
        /\ fr'[p] = f /\ \A q \in Procs \ {p} : fr'[q] = fr[q]
    BY <1>1, <1>2, <1>4, <1>5, Kept
  <1>8. Locals(p)'
    BY <1>1, <1>3, <1>4, <1>6, <1>7 DEF Locals, InGame, Holding, Detaching, Operating
  <1>9. ASSUME p \in Conns PROVE Place(p)' /\ Ready(p)'
    <2>1. then \in {"reading", "connectLock", "unregister"} /\ p \in conns
      BY <1>1, <1>9 DEF Local, Place
    <2> QED
      BY <1>1, <1>6, <1>9, <2>1 DEF Place, Ready, Connecting, Operating
  <1> QED
    BY <1>6, <1>7, <1>8, <1>9 DEF Local

LEMMA DetachLookInv ==
  ASSUME IInv, NEW p \in Procs, DetachLook(p)
  PROVE  IInv' /\ Footprint(p)
  <1> DEFINE t == fr[p].target
             g == conn[t].game
  <1>1. /\ pc[p] = "detach" /\ Typed /\ Local(p) /\ t \in Conns /\ fr[p] \in Frames
        /\ g \in Games \cup {NoGame}
        /\ UNCHANGED <<storeVars, connVars, lock, faults>>
    BY DEF DetachLook, IInv, Local, Locals, Detaching, Typed, TypeOK, ConnFields
  <1>2. CASE g = NoGame
    <2>1. Continue(p)
      BY <1>2 DEF DetachLook
    <2>2. /\ pc' \in [Procs -> Stages \cup SweeperStages] /\ \A c \in Conns : pc'[c] \in Stages
          /\ fr' \in [Procs -> Frames \cup {NoFrame}]
          /\ \A q \in Procs \ {p} : pc'[q] = pc[q] /\ fr'[q] = fr[q]
          /\ Local(p)'
      BY <1>1, <1>2, <2>1, ContinueLocal DEF connVars
    <2>3. Typed'
      BY <1>1, <2>2 DEF Typed, TypeOK, StoreTypeOK, storeVars, connVars
    <2>4. Footprint(p)
      BY <1>1, <2>2 DEF Footprint, storeVars, connVars
    <2> QED
      BY <1>1, <2>2, <2>3, <2>4, QuietInv DEF storeVars
  <1>3. CASE g # NoGame
    <2> DEFINE f == [fr[p] EXCEPT !.from = g]
    <2>1. Goto(p, "detachLock") /\ Keep(p, f)
      BY <1>3 DEF DetachLook
    <2>2. /\ f \in Frames /\ f.from = g /\ f.target = fr[p].target
          /\ f.then = fr[p].then /\ f.game = fr[p].game
      BY <1>1, FrameKept
    <2> HIDE DEF f
    <2>3. /\ pc' \in [Procs -> Stages \cup SweeperStages] /\ \A c \in Conns : pc'[c] \in Stages
          /\ pc'[p] = "detachLock" /\ \A q \in Procs \ {p} : pc'[q] = pc[q]
          /\ fr' \in [Procs -> Frames \cup {NoFrame}]
          /\ fr'[p] = f /\ \A q \in Procs \ {p} : fr'[q] = fr[q]
      BY <1>1, <2>1, <2>2, Moved, Kept DEF Stages
    <2>4. Typed'
      BY <1>1, <2>3 DEF Typed, TypeOK, StoreTypeOK, storeVars, connVars
    <2>5. Footprint(p)
      BY <1>1, <2>3 DEF Footprint, storeVars, connVars
    <2>6. Locals(p)'
      BY <1>1, <1>3, <2>2, <2>3 DEF Local, Locals, InGame, Holding, Detaching, Operating, connVars
    <2>7. p \in Conns => Place(p)' /\ Ready(p)'
      BY <1>1, <2>3 DEF Local, Place, Ready, Connecting, Operating, connVars
    <2> QED
      BY <1>1, <2>4, <2>5, <2>6, <2>7, QuietInv DEF Local, storeVars
  <1> QED
    BY <1>2, <1>3

LEMMA DetachRetryInv ==
  ASSUME IInv, NEW p \in Procs, DetachRetry(p)
  PROVE  IInv' /\ Footprint(p)
  <1> DEFINE f == [fr[p] EXCEPT !.from = NoGame]
  <1>1. /\ pc[p] = "detachLock" /\ Typed /\ Local(p) /\ fr[p] \in Frames
        /\ Goto(p, "detach") /\ Keep(p, f)
        /\ UNCHANGED <<storeVars, connVars, lock, faults>>
    BY DEF DetachRetry, IInv, Local, Locals, Detaching
  <1>2. f \in Frames /\ f.target = fr[p].target /\ f.then = fr[p].then /\ f.game = fr[p].game
    BY <1>1, FrameKept
  <1> HIDE DEF f
  <1>3. /\ pc' \in [Procs -> Stages \cup SweeperStages] /\ \A c \in Conns : pc'[c] \in Stages
        /\ pc'[p] = "detach" /\ \A q \in Procs \ {p} : pc'[q] = pc[q]
        /\ fr' \in [Procs -> Frames \cup {NoFrame}]
        /\ fr'[p] = f /\ \A q \in Procs \ {p} : fr'[q] = fr[q]
    BY <1>1, <1>2, Moved, Kept DEF Stages
  <1>4. Typed'
    BY <1>1, <1>3 DEF Typed, TypeOK, StoreTypeOK, storeVars, connVars
  <1>5. Footprint(p)
    BY <1>1, <1>3 DEF Footprint, storeVars, connVars
  <1>6. Locals(p)'
    BY <1>1, <1>2, <1>3 DEF Local, Locals, InGame, Holding, Detaching, Operating, connVars
  <1>7. p \in Conns => Place(p)' /\ Ready(p)'
    BY <1>1, <1>3 DEF Local, Place, Ready, Connecting, Operating, connVars
  <1> QED
    BY <1>1, <1>4, <1>5, <1>6, <1>7, QuietInv DEF Local, storeVars

\* detachLocked of connections that are attached to g.
LEMMA DetachedConns ==
  ASSUME IInv, NEW g \in Games, NEW cs \in SUBSET Conns, cs \subseteq attached[g], Detached(cs, g)
  PROVE  /\ attached' \in [Games -> SUBSET Conns] /\ conn' \in [Conns -> ConnFields]
         /\ attached'[g] = attached[g] \ cs
         /\ \A h \in Games \ {g} : attached'[h] = attached[h]
         /\ \A c \in cs : conn[c].game = g /\ conn'[c].game = NoGame
         /\ \A c \in Conns \ cs : conn'[c].game = conn[c].game /\ conn'[c].seat = conn[c].seat
         /\ \A c \in Conns : /\ conn'[c].player = conn[c].player
                             /\ conn'[c].closing = conn[c].closing
         /\ RegistriesAgree' \/ playerConn' # playerConn \/ conns' # conns
  <1>1. /\ attached \in [Games -> SUBSET Conns] /\ conn \in [Conns -> ConnFields]
        /\ RegistriesAgree /\ NoGame \notin Games
    BY HubAssumption DEF IInv, Typed, TypeOK
  <1>2. attached' = [attached EXCEPT ![g] = attached[g] \ cs]
    BY <1>1 DEF Detached
  <1>3. \A c \in Conns : conn'[c] = IF c \in cs THEN [conn[c] EXCEPT !.game = NoGame, !.seat = NoSeat]
                                    ELSE conn[c]
    BY DEF Detached
  <1>4. conn' = [c \in Conns |-> conn'[c]]
    BY DEF Detached
  <1>5. \A c \in Conns :
          /\ conn'[c] \in ConnFields
          /\ conn'[c].player = conn[c].player /\ conn'[c].closing = conn[c].closing
          /\ c \in cs => conn'[c].game = NoGame
          /\ c \notin cs => conn'[c].game = conn[c].game /\ conn'[c].seat = conn[c].seat
    BY <1>1, <1>3 DEF ConnFields
  <1>6. \A c \in cs : conn[c].game = g
    BY <1>1 DEF RegistriesAgree
  <1>7. ASSUME playerConn' = playerConn, conns' = conns PROVE RegistriesAgree'
    <2>1. playerConn \in [Players -> Conns \cup {NoConn}]
      BY DEF IInv, Typed, TypeOK
    <2>2. \A c \in Conns, h \in Games : c \in attached'[h] <=> conn'[c].game = h
      BY <1>1, <1>2, <1>5, <1>6 DEF RegistriesAgree
    <2>3. \A c \in Conns : conn'[c].game # NoGame => c \in conns' /\ conn'[c].player # NoPlayer
      BY <1>1, <1>5, <1>7 DEF RegistriesAgree
    <2>4. \A q \in Players : playerConn'[q] # NoConn =>
            playerConn'[q] \in conns' /\ conn'[playerConn'[q]].player = q
      BY <1>1, <1>5, <1>7, <2>1 DEF RegistriesAgree
    <2> QED
      BY <2>2, <2>3, <2>4 DEF RegistriesAgree
  <1> QED
    BY <1>1, <1>2, <1>4, <1>5, <1>6, <1>7

LEMMA DetachInv ==
  ASSUME IInv, NEW p \in Procs, Detach(p)
  PROVE  IInv' /\ Footprint(p)
  <1> DEFINE t == fr[p].target
             g == fr[p].from
  <1>1. /\ pc[p] = "detachLock" /\ Free(g) /\ conn[t].game = g
        /\ Detached({t}, g) /\ Continue(p)
        /\ UNCHANGED <<storeVars, conns, playerConn, lock, faults>>
    BY DEF Detach
  <1>2. Typed /\ t \in Conns /\ g \in Games
    BY <1>1 DEF IInv, Local, Locals, Detaching
  <1>3. {t} \subseteq attached[g]
    BY <1>1, <1>2 DEF IInv, RegistriesAgree
  <1>4. /\ attached' \in [Games -> SUBSET Conns] /\ conn' \in [Conns -> ConnFields]
        /\ attached'[g] = attached[g] \ {t}
        /\ \A h \in Games \ {g} : attached'[h] = attached[h]
        /\ conn'[t].game = NoGame
        /\ \A c \in Conns \ {t} : conn'[c].game = conn[c].game /\ conn'[c].seat = conn[c].seat
        /\ \A c \in Conns : /\ conn'[c].player = conn[c].player
                            /\ conn'[c].closing = conn[c].closing
        /\ RegistriesAgree'
    BY <1>1, <1>2, <1>3, DetachedConns
  <1>5. /\ pc' \in [Procs -> Stages \cup SweeperStages] /\ \A c \in Conns : pc'[c] \in Stages
        /\ fr' \in [Procs -> Frames \cup {NoFrame}]
        /\ \A q \in Procs \ {p} : pc'[q] = pc[q] /\ fr'[q] = fr[q]
        /\ Local(p)'
    BY <1>1, <1>4, ContinueLocal
  <1>6. Typed'
    BY <1>1, <1>2, <1>4, <1>5 DEF Typed, TypeOK, StoreTypeOK, storeVars
  <1>7. Footprint(p)
    <2>1. \A c \in Conns \ {p} :
            \/ conn'[c].game = conn[c].game /\ conn'[c].seat = conn[c].seat
            \/ /\ conn[c].game \in Games /\ lock[conn[c].game] \in {NoProc, p}
               /\ conn'[c].game = NoGame
      BY <1>1, <1>2, <1>4 DEF Free
    <2> QED
      BY <1>1, <1>4, <1>5, <2>1 DEF Footprint, storeVars
  <1>8. NewestRegistered'
    BY <1>1, <1>4, <1>7, NewestKept
  <1>9. \A h \in Games : Backed(h)'
    <2> SUFFICES ASSUME NEW h \in Games PROVE Backed(h)'
      OBVIOUS
    <2>1. /\ attached'[h] \subseteq attached[h]
          /\ \A c \in attached'[h] : conn'[c].seat = conn[c].seat
      <3>1. t \notin attached'[h]
        BY <1>2, <1>3, <1>4, HubAssumption DEF RegistriesAgree
      <3>2. attached'[h] \subseteq Conns
        BY <1>4
      <3> QED
        BY <1>4, <3>1, <3>2
    <2> QED
      BY <1>1, <1>4, <1>7, <2>1, BackedKept DEF storeVars
  <1> QED
    BY <1>5, <1>6, <1>7, <1>4, <1>8, <1>9, StepInv

-----------------------------------------------------------------------------
(* game::connect, and what it shares with the other game actions.           *)

LEMMA Returned ==
  ASSUME IInv, NEW c \in Conns, Return(c), c \in conns'
  PROVE  /\ pc' \in [Procs -> Stages \cup SweeperStages] /\ \A d \in Conns : pc'[d] \in Stages
         /\ fr' \in [Procs -> Frames \cup {NoFrame}]
         /\ \A q \in Procs \ {c} : pc'[q] = pc[q] /\ fr'[q] = fr[q]
         /\ Local(c)'
  <1>1. Goto(c, "reading") /\ Keep(c, NoFrame) /\ c \in Procs /\ Typed
    BY DEF Return, Procs, IInv
  <1>2. /\ pc' \in [Procs -> Stages \cup SweeperStages] /\ \A d \in Conns : pc'[d] \in Stages
        /\ pc'[c] = "reading" /\ \A q \in Procs \ {c} : pc'[q] = pc[q]
        /\ fr' \in [Procs -> Frames \cup {NoFrame}]
        /\ \A q \in Procs \ {c} : fr'[q] = fr[q]
    BY <1>1, Moved, Kept DEF Stages
  <1>3. Local(c)'
    BY <1>2 DEF Local, Locals, Place, Ready, InGame, Holding, Detaching, Operating, Connecting
  <1> QED
    BY <1>2, <1>3

LEMMA ConnectInv ==
  ASSUME IInv, NEW c \in Conns, NEW g \in Games, Connect(c, g)
  PROVE  IInv' /\ Footprint(c)
  <1>1. /\ c \in Procs /\ pc[c] = "reading" /\ conn[c].player # NoPlayer /\ Typed /\ Local(c)
        /\ c \in conns /\ c # Sweeper
        /\ UNCHANGED <<storeVars, connVars, lock, faults>>
    BY HubAssumption DEF Connect, Handles, IInv, Procs, Local, Place
  <1>2. PICK stage \in {"detach", "connectLock"}, f \in Frames :
          /\ Goto(c, stage) /\ Keep(c, f) /\ f.game = g
          /\ stage = "detach" => f.target = c /\ f.then = "connectLock"
          /\ stage = "connectLock" => conn[c].game \in {NoGame, g}
    <2>1. CASE LeavesFirst(c, g)
      <3>1. Goto(c, "detach") /\ Keep(c, DetachFrame(c, "connectLock", g))
        BY <2>1 DEF Connect
      <3> QED
        BY <3>1, DetachFrameType
    <2>2. CASE ~LeavesFirst(c, g)
      <3>1. Goto(c, "connectLock") /\ Keep(c, Frame("connect", Pending, g))
            /\ conn[c].game \in {NoGame, g}
        BY <2>2 DEF Connect, LeavesFirst
      <3> QED
        BY <3>1, ConnectFrameType
    <2> QED
      BY <2>1, <2>2
  <1>3. /\ pc' \in [Procs -> Stages \cup SweeperStages] /\ \A d \in Conns : pc'[d] \in Stages
        /\ pc'[c] = stage /\ \A q \in Procs \ {c} : pc'[q] = pc[q]
        /\ fr' \in [Procs -> Frames \cup {NoFrame}]
        /\ fr'[c] = f /\ \A q \in Procs \ {c} : fr'[q] = fr[q]
    BY <1>1, <1>2, Moved, Kept DEF Stages
  <1>4. Typed'
    BY <1>1, <1>3 DEF Typed, TypeOK, StoreTypeOK, storeVars, connVars
  <1>5. Footprint(c)
    BY <1>1, <1>3 DEF Footprint, storeVars, connVars
  <1>6. Locals(c)'
    BY <1>1, <1>2, <1>3 DEF Locals, InGame, Holding, Detaching, Operating, connVars
  <1>7. Place(c)' /\ Ready(c)'
    BY <1>1, <1>2, <1>3 DEF Local, Place, Ready, Connecting, Operating, connVars
  <1> QED
    BY <1>1, <1>4, <1>5, <1>6, <1>7, QuietInv DEF Local, storeVars

\* Refused under the lock, or a failed save: nothing but c's place changes,
\* and perhaps the lock c held.
LEMMA GivesUpInv ==
  ASSUME IInv, NEW c \in Conns, c \in conns, pc[c] \notin {"replace", "opNotify", "closeNotify"},
         Return(c), UNCHANGED <<storeVars, connVars>>, faults' \in 0 .. MaxFaults,
         NEW g \in Games, lock[g] \in {NoProc, c},
         lock' = lock \/ lock' = [lock EXCEPT ![g] = NoProc]
  PROVE  IInv' /\ Footprint(c)
  <1>1. c \in conns' /\ c \in Procs /\ Typed
    BY DEF connVars, Procs, IInv
  <1>2. /\ pc' \in [Procs -> Stages \cup SweeperStages] /\ \A d \in Conns : pc'[d] \in Stages
        /\ fr' \in [Procs -> Frames \cup {NoFrame}]
        /\ \A q \in Procs \ {c} : pc'[q] = pc[q] /\ fr'[q] = fr[q]
        /\ Local(c)'
    BY <1>1, Returned
  <1>3. lock' \in [Games -> Procs \cup {NoProc}] /\ \A h \in Games \ {g} : lock'[h] = lock[h]
    BY <1>1 DEF Typed, TypeOK
  <1>4. Typed'
    BY <1>1, <1>2, <1>3 DEF Typed, TypeOK, StoreTypeOK, storeVars, connVars
  <1>5. Footprint(c)
    BY <1>2, <1>3 DEF Footprint, storeVars, connVars
  <1> QED
    BY <1>1, <1>2, <1>4, <1>5, QuietInv DEF storeVars

\* Taking the lock with a row to save.
LEMMA HoldsInv ==
  ASSUME IInv, NEW c \in Conns, pc[c] \in {"connectLock", "opLock"},
         NEW stage \in {"connectSave", "opSave"}, NEW row \in Row,
         Hold(fr[c].game, c), Goto(c, stage), Keep(c, [fr[c] EXCEPT !.row = row]),
         UNCHANGED <<storeVars, connVars, faults>>,
         pc[c] = "connectLock" <=> stage = "connectSave",
         stage = "connectSave" => /\ Open(fr[c].game)
                                  /\ \/ Returns(row, fr[c].game, conn[c].player)
                                     \/ Joins(row, fr[c].game, conn[c].player),
         stage = "opSave" =>
           /\ games[fr[c].game] # NoRow /\ Fits(row, fr[c].game)
           /\ conn[c].game = fr[c].game
           /\ Allowed(fr[c].op, fr[c].throw, conn[c].seat, games[fr[c].game].st)
           /\ row.st = Result(fr[c].op, fr[c].throw, conn[c].seat, games[fr[c].game].st)
  PROVE  IInv' /\ Footprint(c)
  <1> DEFINE g == fr[c].game
             f == [fr[c] EXCEPT !.row = row]
  <1>1. /\ c \in Procs /\ Typed /\ Local(c) /\ fr[c] \in Frames /\ g \in Games
        /\ lock \in [Games -> Procs \cup {NoProc}]
    BY DEF IInv, Procs, Local, Locals, InGame, Typed, TypeOK
  <1>2. f \in Frames /\ f.row = row /\ f.game = g /\ f.op = fr[c].op /\ f.throw = fr[c].throw
    BY <1>1, FrameKept
  <1>3. lock[g] = NoProc /\ lock' = [lock EXCEPT ![g] = c]
    BY DEF Hold, Free
  <1>4. Keep(c, f)
    OBVIOUS
  <1> HIDE DEF f
  <1>5. /\ pc' \in [Procs -> Stages \cup SweeperStages] /\ \A d \in Conns : pc'[d] \in Stages
        /\ pc'[c] = stage /\ \A q \in Procs \ {c} : pc'[q] = pc[q]
        /\ fr' \in [Procs -> Frames \cup {NoFrame}]
        /\ fr'[c] = f /\ \A q \in Procs \ {c} : fr'[q] = fr[q]
    BY <1>1, <1>2, <1>4, Moved, Kept DEF Stages
  <1>6. Typed'
    BY <1>1, <1>3, <1>5 DEF Typed, TypeOK, StoreTypeOK, storeVars, connVars
  <1>7. Footprint(c)
    BY <1>1, <1>3, <1>5 DEF Footprint, storeVars, connVars
  <1>8. Locals(c)'
    BY <1>1, <1>2, <1>3, <1>5 DEF Local, Locals, InGame, Holding, Detaching, Operating
  <1>9. Place(c)'
    BY <1>1, <1>2, <1>5 DEF Local, Place, Connecting, Operating, connVars
  <1>10. Ready(c)'
    <2>1. games' = games /\ players' = players /\ conn' = conn
      BY DEF storeVars, connVars
    <2> QED
      BY <1>2, <1>5, <2>1 DEF Ready, Returns, Joins, Fits, Open
  <1> QED
    BY <1>1, <1>6, <1>7, <1>8, <1>9, <1>10, QuietInv DEF Local, storeVars

LEMMA ConnectLockInv ==
  ASSUME IInv, NEW c \in Conns, ConnectLock(c)
  PROVE  IInv' /\ Footprint(c)
  <1> DEFINE g == fr[c].game
             p == conn[c].player
  <1>1. /\ pc[c] = "connectLock" /\ Typed /\ Local(c) /\ g \in Games /\ c \in conns
        /\ p \in Players /\ games[g] \in Row \cup {NoRow} /\ faults \in 0 .. MaxFaults
        /\ UNCHANGED <<storeVars, connVars>>
    BY DEF ConnectLock, IInv, Procs, Local, Locals, Place, InGame, Connecting, Typed, TypeOK,
           StoreTypeOK, ConnFields
  <1>2. CASE Reject(c, g) /\ (UNCHANGED faults \/ Fault)
    <2>1. Return(c) /\ lock[g] = NoProc /\ lock' = lock
      BY <1>2 DEF Reject, Free
    <2>2. faults' \in 0 .. MaxFaults
      BY <1>1, <1>2, HubAssumption DEF Fault
    <2> QED
      BY <1>1, <2>1, <2>2, GivesUpInv
  <1>3. ASSUME NEW row \in Admitted(g, p),
               Hold(g, c), Goto(c, "connectSave"), Keep(c, [fr[c] EXCEPT !.row = Stamped(row)]),
               UNCHANGED faults
        PROVE  IInv' /\ Footprint(c)
    <2>1. Open(g) /\ row \in Seated(games[g], p) /\ games[g] \in Row
      BY <1>1, <1>3 DEF Admitted, Open
    <2>2. row \in Row /\ (Returns(row, g, p) \/ Joins(row, g, p))
      BY <1>1, <2>1, SeatedType DEF Returns, Joins, Fits
    <2>3. /\ Stamped(row) \in Row
          /\ Returns(Stamped(row), g, p) \/ Joins(Stamped(row), g, p)
      BY <1>1, <2>2, StampedType DEF Returns, Joins, Fits, Seats
    <2> QED
      BY <1>1, <1>3, <2>1, <2>3, HoldsInv
  <1> QED
    BY <1>2, <1>3 DEF ConnectLock

-----------------------------------------------------------------------------
(* Hub.save.                                                                *)

LEMMA SeatOfSame ==
  ASSUME NEW r, NEW s, NEW p, \A seat \in Seats : r.who[seat] = s.who[seat]
  PROVE  SeatOf(r, p) = SeatOf(s, p)
  BY DEF SeatOf, Seats

\* A row that can be saved seats whom the stored one seats.
LEMMA FitsExactly ==
  ASSUME IInv, NEW row, NEW g \in Games, Fits(row, g), CanSave(g, row)
  PROVE  \A seat \in Seats : row.who[seat] = games[g].who[seat]
  BY StoreAssumption DEF Fits, CanSave

LEMMA SaveEffect ==
  ASSUME IInv, NEW c \in Conns, pc[c] \in {"connectSave", "opSave"},
         NEW next \in {"connectAttach", "opNotify"}, Save(c, next), UNCHANGED connVars,
         fr[c].row \in Row
  PROVE  LET g   == fr[c].game
             row == fr[c].row
         IN  \/ IInv' /\ Footprint(c) /\ UNCHANGED <<games, used>>
             \/ /\ CanSave(g, row)
                /\ games' = [games EXCEPT ![g] = row]
                /\ active' \in [Players -> Times]
                /\ UNCHANGED <<players, used, now, lock, fr, faults>>
                /\ Goto(c, next)
  <1> DEFINE g   == fr[c].game
             row == fr[c].row
  <1>1. /\ c \in conns /\ Typed /\ g \in Games /\ lock[g] = c /\ faults \in 0 .. MaxFaults
        /\ conn[c].player \in Players \cup {NoPlayer} /\ active \in [Players -> Times]
    BY DEF IInv, Procs, Local, Locals, Place, InGame, Holding, Typed, TypeOK, StoreTypeOK, ConnFields
  <1>2. row.last \in Times
    BY DEF Row
  <1> HIDE DEF g, row
  <1>3. CASE Return(c) /\ Release(g) /\ UNCHANGED storeVars /\ (UNCHANGED faults \/ Fault)
    <2>1. faults' \in 0 .. MaxFaults
      BY <1>1, <1>3, HubAssumption DEF Fault
    <2>2. IInv' /\ Footprint(c)
      BY <1>1, <1>3, <2>1, GivesUpInv DEF Release
    <2> QED
      BY <1>3, <2>2 DEF storeVars
  <1>4. ASSUME CanSave(g, row), SaveGame(g, row, conn[c].player),
               Goto(c, next), UNCHANGED <<lock, fr, faults>>
        PROVE  /\ games' = [games EXCEPT ![g] = row]
               /\ active' \in [Players -> Times]
               /\ UNCHANGED <<players, used, now, lock, fr, faults>>
    BY <1>1, <1>2, <1>4, TouchedType DEF SaveGame
  <1> QED
    BY <1>3, <1>4 DEF Save, g, row

\* The holder of a game's lock stores an open or closing row of it.
LEMMA SavedInv ==
  ASSUME IInv, NEW c \in Conns, NEW g \in Games, NEW row \in Row,
         pc[c] \in {"connectSave", "opSave"}, fr[c].game = g, fr[c].row = row,
         NEW next \in {"connectAttach", "opNotify"},
         pc[c] = "connectSave" <=> next = "connectAttach",
         games' = [games EXCEPT ![g] = row], active' \in [Players -> Times],
         UNCHANGED <<players, used, now, connVars, lock, fr, faults>>, Goto(c, next),
         \A d \in attached[g] :
           conn[d].player \in players /\ conn[d].seat \in Seats
           /\ conn[d].seat = SeatOf(games[g], conn[d].player)
             => SeatOf(row, conn[d].player) = SeatOf(games[g], conn[d].player),
         row.st.status # "CLOSED" \/ (next = "opNotify" /\ fr[c].op = "leave"),
         next = "connectAttach" => row.st.status # "CLOSED" /\ SeatOf(row, conn[c].player) # NoSeat
  PROVE  IInv' /\ Footprint(c)
  <1>1. /\ c \in Procs /\ Typed /\ Local(c) /\ fr[c] \in Frames /\ lock[g] = c
        /\ games \in [Games -> Row \cup {NoRow}] /\ fr \in [Procs -> Frames \cup {NoFrame}]
    BY DEF IInv, Procs, Local, Locals, InGame, Holding, Typed, TypeOK, StoreTypeOK
  <1>2. /\ pc' \in [Procs -> Stages \cup SweeperStages] /\ \A d \in Conns : pc'[d] \in Stages
        /\ pc'[c] = next /\ \A q \in Procs \ {c} : pc'[q] = pc[q]
    BY <1>1, Moved DEF Stages
  <1>3. /\ games' \in [Games -> Row \cup {NoRow}] /\ games'[g] = row /\ row # NoRow
        /\ \A h \in Games \ {g} : games'[h] = games[h]
    BY <1>1, RowAssumption
  <1>4. Typed'
    BY <1>1, <1>2, <1>3 DEF Typed, TypeOK, StoreTypeOK, storeVars, connVars
  <1>5. Footprint(c)
    BY <1>1, <1>2, <1>3 DEF Footprint, connVars
  <1>6. Locals(c)'
    BY <1>1, <1>2 DEF Local, Locals, InGame, Holding, Detaching, Operating
  <1>7. Place(c)'
    BY <1>1, <1>2 DEF Local, Place, Connecting, Operating, connVars
  <1>8. Ready(c)'
    <2>1. conn' = conn
      BY DEF connVars
    <2>2. CASE next = "opNotify"
      BY <1>2, <2>2 DEF Ready
    <2>3. CASE next = "connectAttach"
      <3>1. Open(g)'
        BY <1>3, <2>3 DEF Open
      <3>2. [row EXCEPT !.st = games'[g].st] = row
        BY <1>3 DEF Row
      <3>3. \A seat \in Seats : row.who[seat] = games'[g].who[seat]
        BY <1>3
      <3>4. fr'[c].row = row /\ fr'[c].game = g /\ pc'[c] = "connectAttach"
        BY <1>2, <2>3
      <3>5. Returns([fr[c].row EXCEPT !.st = games[fr[c].game].st], fr[c].game, conn[c].player)'
        <4>1. Returns(row, g, conn[c].player)'
          BY <1>3, <2>1, <2>3, <3>3 DEF Returns, Fits
        <4> QED
          BY <3>2, <3>4, <4>1
      <3> QED
        BY <3>1, <3>4, <3>5 DEF Ready
    <2> QED
      BY <2>2, <2>3
  <1>9. RegistriesAgree' /\ NewestRegistered'
    <2> USE DEF connVars
    <2>1. RegistriesAgree'
      BY RegistriesKept
    <2>2. NewestRegistered'
      BY <1>5, <1>1, NewestKept
    <2> QED
      BY <2>1, <2>2
  <1>10. \A h \in Games : Backed(h)'
    <2>1. ASSUME NEW h \in Games \ {g} PROVE Backed(h)'
      BY <1>1, <1>3, <1>5, <2>1, BackedKept DEF connVars
    <2>2. Backed(g)'
      <3>1. Open(g)' \/ Closer(c, g)'
        BY <1>1, <1>2, <1>3 DEF Open, Closer
      <3>2. Backed(g) /\ attached' = attached /\ conn' = conn /\ players' = players
        BY DEF IInv, connVars
      <3> QED
        BY <1>1, <1>3, <3>1, <3>2 DEF Backed
    <2> QED
      BY <2>1, <2>2
  <1> QED
    BY <1>1, <1>4, <1>5, <1>6, <1>7, <1>8, <1>9, <1>10, StepInv DEF Local

LEMMA ConnectSaveInv ==
  ASSUME IInv, NEW c \in Conns, ConnectSave(c)
  PROVE  IInv' /\ Footprint(c)
  <1>1. PICK g \in Games, p \in Players, row \in Row :
          /\ g = fr[c].game /\ p = conn[c].player /\ row = fr[c].row
          /\ pc[c] = "connectSave" /\ Save(c, "connectAttach") /\ UNCHANGED connVars
          /\ Open(g) /\ (Returns(row, g, p) \/ Joins(row, g, p))
    <2>1. pc[c] = "connectSave" /\ Save(c, "connectAttach") /\ UNCHANGED connVars
      BY DEF ConnectSave
    <2>2. Locals(c) /\ Place(c) /\ Ready(c) /\ conn[c] \in ConnFields
      BY DEF IInv, Procs, Local, Typed, TypeOK
    <2>3. fr[c].game \in Games /\ conn[c].player \in Players
      BY <2>1, <2>2 DEF Locals, Place, InGame, Holding, Connecting, ConnFields
    <2> QED
      BY <2>1, <2>2, <2>3 DEF Ready
  <1>2. \/ IInv' /\ Footprint(c)
        \/ /\ CanSave(g, row)
           /\ games' = [games EXCEPT ![g] = row]
           /\ active' \in [Players -> Times]
           /\ UNCHANGED <<players, used, now, lock, fr, faults>>
           /\ Goto(c, "connectAttach")
    BY <1>1, SaveEffect
  <1>3. ASSUME CanSave(g, row)
        PROVE  /\ row.st.status # "CLOSED" /\ SeatOf(row, p) # NoSeat
               /\ \A q \in players :
                    SeatOf(games[g], q) \in Seats => SeatOf(row, q) = SeatOf(games[g], q)
    <2>1. CASE Returns(row, g, p)
      <3>1. \A seat \in Seats : row.who[seat] = games[g].who[seat]
        BY <1>3, <2>1, FitsExactly DEF Returns
      <3>2. \A q : SeatOf(row, q) = SeatOf(games[g], q)
        BY <3>1, SeatOfSame
      <3> QED
        BY <1>1, <2>1, <3>2 DEF Returns, Open
    <2>2. CASE Joins(row, g, p)
      <3>1. row.st.status = "ACTIVE"
        <4>1. games[g] \in Row
          BY <1>1 DEF Open, IInv, Typed, TypeOK, StoreTypeOK
        <4> QED
          BY <1>3, <2>2, <4>1, RowParts DEF Joins, Join, State
      <3>2. row.who["HOST"] = games[g].who["HOST"]
        BY <1>3, <2>2, StoreAssumption DEF Joins, CanSave, Seats
      <3>3. row.who["GUEST"] = p /\ games[g].who["GUEST"] = NoPlayer /\ SeatOf(games[g], p) = NoSeat
        BY <1>3, <2>2 DEF Joins, Seats
      <3>4. p # NoPlayer /\ SeatOf(row, p) # NoSeat
        BY <1>1, <3>3, StoreAssumption DEF SeatOf, NoSeat
      <3>5. ASSUME NEW q \in players, SeatOf(games[g], q) \in Seats
            PROVE  SeatOf(row, q) = SeatOf(games[g], q)
        <4>1. q # p /\ q # NoPlayer
          BY <3>3, <3>5, SeatDistinct DEF SeatOf
        <4> QED
          BY <3>2, <3>3, <4>1 DEF SeatOf
      <3> QED
        BY <3>1, <3>4, <3>5
    <2> QED
      BY <1>1, <2>1, <2>2
  <1>4. CASE ~(IInv' /\ Footprint(c))
    <2>1. row.st.status # "CLOSED" /\ SeatOf(row, conn[c].player) # NoSeat
      BY <1>1, <1>2, <1>3, <1>4
    <2>2. \A d \in attached[g] :
            conn[d].player \in players /\ conn[d].seat \in Seats
            /\ conn[d].seat = SeatOf(games[g], conn[d].player)
              => SeatOf(row, conn[d].player) = SeatOf(games[g], conn[d].player)
      BY <1>2, <1>3, <1>4
    <2>3. /\ fr[c].game = g /\ fr[c].row = row /\ pc[c] = "connectSave"
          /\ games' = [games EXCEPT ![g] = row] /\ active' \in [Players -> Times]
          /\ UNCHANGED <<players, used, now, connVars, lock, fr, faults>>
          /\ Goto(c, "connectAttach")
      BY <1>1, <1>2, <1>4
    <2>4. /\ "connectAttach" \in {"connectAttach", "opNotify"} /\ pc[c] \in {"connectSave", "opSave"}
          /\ pc[c] = "connectSave" <=> "connectAttach" = "connectAttach"
          /\ row.st.status # "CLOSED" \/ ("connectAttach" = "opNotify" /\ fr[c].op = "leave")
          /\ "connectAttach" = "connectAttach" =>
               row.st.status # "CLOSED" /\ SeatOf(row, conn[c].player) # NoSeat
      BY <2>1, <2>3, Zenon
    <2> QED
      BY <2>2, <2>3, <2>4, SavedInv, Zenon
  <1> QED
    BY <1>4

\* A view may fail, the rest of the block is done all the same.
LEMMA AttachEffect ==
  ASSUME NEW c \in Conns, ConnectAttach(c)
  PROVE  /\ pc[c] = "connectAttach"
         /\ Attached(c, fr[c].game, SeatOf(fr[c].row, conn[c].player))
         /\ Return(c) /\ Release(fr[c].game)
         /\ UNCHANGED <<storeVars, conns, playerConn>>
         /\ UNCHANGED faults \/ Fault
  BY DEF ConnectAttach

LEMMA ConnectAttachInv ==
  ASSUME IInv, NEW c \in Conns, ConnectAttach(c)
  PROVE  IInv' /\ Footprint(c)
  <1> DEFINE row(g) == [fr[c].row EXCEPT !.st = games[g].st]
  <1>1. PICK g \in Games, p \in Players :
          /\ g = fr[c].game /\ p = conn[c].player
          /\ pc[c] = "connectAttach" /\ c \in Procs /\ c \in conns /\ Typed
          /\ lock[g] = c /\ conn[c].game \in {NoGame, g}
          /\ fr[c].row \in Row /\ Open(g) /\ Returns(row(g), g, p)
          /\ conn \in [Conns -> ConnFields] /\ attached \in [Games -> SUBSET Conns]
          /\ faults \in 0 .. MaxFaults /\ lock \in [Games -> Procs \cup {NoProc}]
    <2>1. pc[c] = "connectAttach" /\ c \in Procs
      BY AttachEffect DEF Procs
    <2>2. Typed /\ Locals(c) /\ Place(c) /\ Ready(c)
      BY <2>1 DEF IInv, Local
    <2>3. fr[c].game \in Games /\ lock[fr[c].game] = c
      BY <2>1, <2>2 DEF Locals, InGame, Holding
    <2>4. c \in conns /\ conn[c].game \in {NoGame, fr[c].game} /\ conn[c].player # NoPlayer
      BY <2>1, <2>2 DEF Place, Connecting
    <2>5. /\ conn \in [Conns -> ConnFields] /\ attached \in [Games -> SUBSET Conns]
          /\ faults \in 0 .. MaxFaults /\ lock \in [Games -> Procs \cup {NoProc}]
      BY <2>2 DEF Typed, TypeOK
    <2>6. conn[c].player \in Players
      BY <2>4, <2>5 DEF ConnFields
    <2>7. fr[c].row \in Row /\ Open(fr[c].game)
          /\ Returns(row(fr[c].game), fr[c].game, conn[c].player)
      BY <2>1, <2>2 DEF Ready
    <2> QED
      BY <2>1, <2>2, <2>3, <2>4, <2>5, <2>6, <2>7
  <1>2. PICK seat : /\ seat = SeatOf(fr[c].row, p)
                    /\ Attached(c, g, seat)
                    /\ Return(c) /\ lock' = [lock EXCEPT ![g] = NoProc]
                    /\ UNCHANGED <<storeVars, conns, playerConn>>
                    /\ faults' \in 0 .. MaxFaults
    BY <1>1, AttachEffect, HubAssumption DEF Release, Fault
  <1>3. seat \in Seats /\ (p \in players => seat = SeatOf(games[g], p))
    <2>1. row(g).who = fr[c].row.who
      BY <1>1 DEF Row
    <2>2. Returns(row(g), g, p)
      BY <1>1
    <2> HIDE DEF row
    <2>3. seat = SeatOf(row(g), p) /\ seat # NoSeat
      <3>1. SeatOf(row(g), p) = SeatOf(fr[c].row, p)
        BY <2>1, SeatOfSame
      <3> QED
        BY <1>2, <2>2, <3>1 DEF Returns
    <2>4. ASSUME p \in players PROVE SeatOf(row(g), p) = SeatOf(games[g], p)
      <3>1. p # NoPlayer /\ \A s \in Seats : row(g).who[s] = p <=> games[g].who[s] = p
        BY <1>1, <2>2, <2>4, StoreAssumption DEF Returns, Fits
      <3> QED
        BY <3>1 DEF SeatOf, Seats
    <2> QED
      BY <2>3, <2>4, SeatOfType
  <1> HIDE DEF row
  <1>4. /\ attached' = [attached EXCEPT ![g] = attached[g] \cup {c}]
        /\ conn'[c].game = g /\ conn'[c].seat = seat
        /\ conn' \in [Conns -> ConnFields]
        /\ \A d \in Conns : conn'[d].player = conn[d].player /\ conn'[d].closing = conn[d].closing
        /\ \A d \in Conns \ {c} : conn'[d] = conn[d]
    <2>1. conn' = [conn EXCEPT ![c] = [conn[c] EXCEPT !.game = g, !.seat = seat]]
      BY <1>1, <1>2 DEF Attached, ConnFields
    <2>2. [conn[c] EXCEPT !.game = g, !.seat = seat] \in ConnFields
      BY ZenonT(60), <1>1, <1>3 DEF ConnFields
    <2> QED
      BY <1>1, <1>2, <1>3, <2>1, <2>2 DEF Attached, ConnFields
  <1>5. /\ pc' \in [Procs -> Stages \cup SweeperStages] /\ \A d \in Conns : pc'[d] \in Stages
        /\ fr' \in [Procs -> Frames \cup {NoFrame}]
        /\ \A q \in Procs \ {c} : pc'[q] = pc[q] /\ fr'[q] = fr[q]
        /\ Local(c)'
    BY <1>1, <1>2, Returned
  <1>6. Typed'
    BY <1>1, <1>2, <1>4, <1>5 DEF Typed, TypeOK, StoreTypeOK, storeVars
  <1>7. Footprint(c)
    BY <1>1, <1>2, <1>4, <1>5 DEF Footprint, storeVars
  <1>8. RegistriesAgree'
    <2>1. \A d \in Conns, h \in Games : d \in attached'[h] <=> conn'[d].game = h
      BY <1>1, <1>4, HubAssumption DEF IInv, RegistriesAgree
    <2>2. \A d \in Conns : conn'[d].game # NoGame => d \in conns' /\ conn'[d].player # NoPlayer
      BY <1>1, <1>2, <1>4, StoreAssumption DEF IInv, RegistriesAgree
    <2>3. \A q \in Players : playerConn'[q] # NoConn =>
            playerConn'[q] \in conns' /\ conn'[playerConn'[q]].player = q
      BY <1>1, <1>2, <1>4 DEF IInv, RegistriesAgree, Typed, TypeOK
    <2> QED
      BY <2>1, <2>2, <2>3 DEF RegistriesAgree
  <1>9. NewestRegistered'
    BY <1>1, <1>2, <1>4, <1>7, NewestKept
  <1>10. \A h \in Games : Backed(h)'
    <2>1. ASSUME NEW h \in Games \ {g} PROVE Backed(h)'
      <3>1. attached'[h] = attached[h] /\ c \notin attached[h]
        BY <1>1, <1>4, <2>1, HubAssumption DEF IInv, RegistriesAgree
      <3> QED
        BY <1>1, <1>2, <1>4, <1>7, <3>1, BackedKept DEF storeVars
    <2>2. Backed(g)'
      <3>1. games' = games /\ players' = players /\ Open(g)' /\ games[g] # NoRow
        BY <1>1, <1>2 DEF Open, storeVars
      <3>2. attached'[g] = attached[g] \cup {c} /\ attached[g] \subseteq Conns
        BY <1>1, <1>4
      <3> QED
        BY <1>1, <1>3, <1>4, <3>1, <3>2 DEF IInv, Backed
    <2> QED
      BY <2>1, <2>2
  <1> QED
    BY <1>1, <1>5, <1>6, <1>7, <1>8, <1>9, <1>10, StepInv

-----------------------------------------------------------------------------
(* The game actions that withGame runs.                                     *)

LEMMA RequestInv ==
  ASSUME IInv, NEW c \in Conns, NEW op \in Ops, NEW throw \in Moves, Request(c, op, throw)
  PROVE  IInv' /\ Footprint(c)
  <1>1. PICK g \in Games :
          /\ c \in Procs /\ pc[c] = "reading" /\ conn[c].player # NoPlayer /\ Typed /\ Local(c)
          /\ g = conn[c].game
          /\ Goto(c, "opLock") /\ Keep(c, Frame(op, throw, g))
          /\ UNCHANGED <<storeVars, connVars, lock, faults>>
    BY DEF Request, HandlesGame, Handles, IInv, Typed, TypeOK, ConnFields, Procs
  <1>2. PICK f \in Frames : f = Frame(op, throw, g) /\ f.game = g /\ f.op = op
    BY FrameType
  <1>3. /\ pc' \in [Procs -> Stages \cup SweeperStages] /\ \A d \in Conns : pc'[d] \in Stages
        /\ pc'[c] = "opLock" /\ \A q \in Procs \ {c} : pc'[q] = pc[q]
        /\ fr' \in [Procs -> Frames \cup {NoFrame}]
        /\ fr'[c] = f /\ \A q \in Procs \ {c} : fr'[q] = fr[q]
    BY <1>1, <1>2, Moved, Kept DEF Stages
  <1>4. Typed'
    BY <1>1, <1>3 DEF Typed, TypeOK, StoreTypeOK, storeVars, connVars
  <1>5. Footprint(c)
    BY <1>1, <1>3 DEF Footprint, storeVars, connVars
  <1>6. Locals(c)'
    BY <1>1, <1>2, <1>3 DEF Locals, InGame, Holding, Detaching, Operating
  <1>7. Place(c)' /\ Ready(c)'
    BY <1>1, <1>3 DEF Local, Place, Ready, Connecting, Operating, connVars
  <1> QED
    BY <1>1, <1>4, <1>5, <1>6, <1>7, QuietInv DEF Local, storeVars

LEMMA OpLockInv ==
  ASSUME IInv, NEW c \in Conns, OpLock(c)
  PROVE  IInv' /\ Footprint(c)
  <1>1. PICK g \in Games :
          /\ g = fr[c].game
          /\ pc[c] = "opLock" /\ Typed /\ c \in conns /\ fr[c] \in Frames /\ fr[c].op \in Ops
          /\ games[g] \in Row \cup {NoRow} /\ faults \in 0 .. MaxFaults
          /\ UNCHANGED <<storeVars, connVars>>
    BY DEF OpLock, IInv, Procs, Local, Locals, Place, InGame, Operating, Typed, TypeOK,
           StoreTypeOK
  <1>2. CASE Reject(c, g) /\ (UNCHANGED faults \/ Fault)
    <2>1. Return(c) /\ lock[g] = NoProc /\ lock' = lock
      BY <1>2 DEF Reject, Free
    <2>2. faults' \in 0 .. MaxFaults
      BY <1>1, <1>2, HubAssumption DEF Fault
    <2> QED
      BY <1>1, <2>1, <2>2, GivesUpInv
  <1>3. ASSUME OpAccepted(c), Hold(g, c), Goto(c, "opSave"),
               Keep(c, [fr[c] EXCEPT !.row = Stamped([games[g] EXCEPT !.st =
                          Result(fr[c].op, fr[c].throw, conn[c].seat, games[g].st)])]),
               UNCHANGED faults
        PROVE  IInv' /\ Footprint(c)
    <2>1. PICK s : s = Result(fr[c].op, fr[c].throw, conn[c].seat, games[g].st)
      OBVIOUS
    <2>2. PICK next : next = [games[g] EXCEPT !.st = s]
      OBVIOUS
    <2>3. /\ conn[c].game = g /\ games[g] # NoRow
          /\ Allowed(fr[c].op, fr[c].throw, conn[c].seat, games[g].st)
      BY <1>1, <1>3 DEF OpAccepted
    <2>4. conn[c].seat \in Seats
      BY <1>1, <2>3 DEF IInv, RegistriesAgree, Backed
    <2>5. fr[c].throw \in Moves
      BY <1>1 DEF Frames
    <2>6. games[g] \in Row /\ games[g].st \in State
      BY <1>1, <2>3, RowParts
    <2>7. s \in State
      BY <1>1, <2>1, <2>3, <2>4, <2>5, <2>6, ResultType
    <2>8. PICK row \in Row :
            /\ row = Stamped(next) /\ row.st = s
            /\ \A seat \in Seats : row.who[seat] = games[g].who[seat]
      <3>1. next \in Row /\ next.st = s /\ next.who = games[g].who
        BY <2>2, <2>6, <2>7, RowParts
      <3> QED
        BY <1>1, <3>1, StampedType
    <2>9. Fits(row, g)
      BY <2>8 DEF Fits
    <2>10. Keep(c, [fr[c] EXCEPT !.row = row])
      BY <1>3, <2>1, <2>2, <2>8
    <2>11. /\ "opSave" \in {"connectSave", "opSave"} /\ pc[c] \in {"connectLock", "opLock"}
           /\ pc[c] = "connectLock" <=> "opSave" = "connectSave"
           /\ Hold(fr[c].game, c) /\ Goto(c, "opSave")
           /\ UNCHANGED <<storeVars, connVars, faults>>
           /\ games[fr[c].game] # NoRow /\ Fits(row, fr[c].game) /\ conn[c].game = fr[c].game
           /\ Allowed(fr[c].op, fr[c].throw, conn[c].seat, games[fr[c].game].st)
           /\ row.st = Result(fr[c].op, fr[c].throw, conn[c].seat, games[fr[c].game].st)
      BY <1>1, <1>3, <2>1, <2>3, <2>8, <2>9
    <2> QED
      BY <2>8, <2>10, <2>11, HoldsInv
  <1> QED
    BY <1>1, <1>2, <1>3 DEF OpLock

LEMMA OpSaveInv ==
  ASSUME IInv, NEW c \in Conns, OpSave(c)
  PROVE  IInv' /\ Footprint(c)
  <1>1. PICK g \in Games, row \in Row :
          /\ g = fr[c].game /\ row = fr[c].row
          /\ pc[c] = "opSave" /\ Save(c, "opNotify") /\ UNCHANGED connVars
          /\ games[g] \in Row /\ Fits(row, g) /\ conn[c].game = g
          /\ fr[c].op \in Ops /\ fr[c].throw \in Moves
          /\ Allowed(fr[c].op, fr[c].throw, conn[c].seat, games[g].st)
          /\ row.st = Result(fr[c].op, fr[c].throw, conn[c].seat, games[g].st)
    <2>1. pc[c] = "opSave" /\ Save(c, "opNotify") /\ UNCHANGED connVars
      BY DEF OpSave
    <2>2. Locals(c) /\ Ready(c) /\ games \in [Games -> Row \cup {NoRow}]
      BY DEF IInv, Procs, Local, Typed, TypeOK, StoreTypeOK
    <2>3. fr[c].game \in Games /\ fr[c].op \in Ops /\ fr[c] \in Frames
      BY <2>1, <2>2 DEF Locals, InGame, Holding, Operating
    <2>4. fr[c].throw \in Moves
      BY <2>3 DEF Frames
    <2>5. games[fr[c].game] \in Row
      BY <2>1, <2>2, <2>3 DEF Ready
    <2> QED
      BY <2>1, <2>2, <2>3, <2>4, <2>5 DEF Ready
  <1>2. \/ IInv' /\ Footprint(c)
        \/ /\ CanSave(g, row)
           /\ games' = [games EXCEPT ![g] = row]
           /\ active' \in [Players -> Times]
           /\ UNCHANGED <<players, used, now, lock, fr, faults>>
           /\ Goto(c, "opNotify")
    BY <1>1, SaveEffect
  <1>3. conn[c].seat \in Seats
    BY <1>1 DEF IInv, RegistriesAgree, Backed
  <1>4. row.st.status # "CLOSED" \/ fr[c].op = "leave"
    BY <1>1, <1>3, RowParts, ResultType
  <1>5. CASE ~(IInv' /\ Footprint(c))
    <2>1. \A q : SeatOf(row, q) = SeatOf(games[g], q)
      <3>1. \A seat \in Seats : row.who[seat] = games[g].who[seat]
        BY <1>1, <1>2, <1>5, FitsExactly
      <3> QED
        BY <3>1, SeatOfSame
    <2>2. \A d \in attached[g] :
            conn[d].player \in players /\ conn[d].seat \in Seats
            /\ conn[d].seat = SeatOf(games[g], conn[d].player)
              => SeatOf(row, conn[d].player) = SeatOf(games[g], conn[d].player)
      BY <2>1
    <2>3. /\ fr[c].game = g /\ fr[c].row = row
          /\ games' = [games EXCEPT ![g] = row] /\ active' \in [Players -> Times]
          /\ UNCHANGED <<players, used, now, connVars, lock, fr, faults>>
          /\ Goto(c, "opNotify")
      BY <1>1, <1>2, <1>5
    <2>4. /\ "opNotify" \in {"connectAttach", "opNotify"} /\ pc[c] \in {"connectSave", "opSave"}
          /\ pc[c] = "connectSave" <=> "opNotify" = "connectAttach"
          /\ row.st.status # "CLOSED" \/ ("opNotify" = "opNotify" /\ fr[c].op = "leave")
          /\ "opNotify" = "connectAttach" =>
               row.st.status # "CLOSED" /\ SeatOf(row, conn[c].player) # NoSeat
      BY <1>1, <1>2, <1>4, <1>5
    <2> QED
      BY <2>2, <2>3, <2>4, SavedInv
  <1> QED
    BY <1>5

\* A view may fail, the rest of the block is done all the same.
LEMMA NotifyEffect ==
  ASSUME NEW c \in Conns, OpNotify(c)
  PROVE  /\ pc[c] = "opNotify"
         /\ fr[c].op = "leave" => Detached(attached[fr[c].game], fr[c].game)
         /\ fr[c].op # "leave" => UNCHANGED <<attached, conn>>
         /\ Return(c) /\ Release(fr[c].game)
         /\ UNCHANGED <<storeVars, conns, playerConn>>
         /\ UNCHANGED faults \/ Fault
  BY DEF OpNotify, CloseGameFor, CloseBlind, Broadcast, Emptied

LEMMA OpNotifyInv ==
  ASSUME IInv, NEW c \in Conns, OpNotify(c)
  PROVE  IInv' /\ Footprint(c)
  <1>1. PICK g \in Games :
          /\ g = fr[c].game
          /\ pc[c] = "opNotify" /\ c \in Procs /\ c \in conns /\ Typed /\ lock[g] = c
          /\ fr[c].op = "leave" => Detached(attached[g], g)
          /\ fr[c].op # "leave" => UNCHANGED <<attached, conn>>
          /\ Return(c) /\ lock' = [lock EXCEPT ![g] = NoProc]
          /\ UNCHANGED <<storeVars, conns, playerConn>>
          /\ lock' \in [Games -> Procs \cup {NoProc}] /\ faults' \in 0 .. MaxFaults
    <2>1. Typed /\ Local(c) /\ c \in Procs
      BY DEF IInv, Procs
    <2>2. pc[c] = "opNotify" /\ fr[c].game \in Games /\ lock[fr[c].game] = c /\ c \in conns
      BY <2>1, NotifyEffect DEF Local, Locals, Place, InGame, Holding
    <2>3. lock \in [Games -> Procs \cup {NoProc}] /\ faults \in 0 .. MaxFaults
      BY <2>1 DEF Typed, TypeOK
    <2>4. /\ fr[c].op = "leave" => Detached(attached[fr[c].game], fr[c].game)
          /\ fr[c].op # "leave" => UNCHANGED <<attached, conn>>
          /\ Return(c) /\ lock' = [lock EXCEPT ![fr[c].game] = NoProc]
          /\ UNCHANGED <<storeVars, conns, playerConn>>
          /\ UNCHANGED faults \/ Fault
      BY NotifyEffect DEF Release
    <2>5. faults' \in 0 .. MaxFaults
      BY <2>3, <2>4, HubAssumption DEF Fault
    <2> QED
      BY <2>1, <2>2, <2>3, <2>4, <2>5
  <1>2. /\ attached' \in [Games -> SUBSET Conns] /\ conn' \in [Conns -> ConnFields]
        /\ \A h \in Games \ {g} : attached'[h] = attached[h]
        /\ \A d \in Conns : /\ conn'[d].player = conn[d].player
                            /\ conn'[d].closing = conn[d].closing
                            /\ \/ conn'[d].game = conn[d].game /\ conn'[d].seat = conn[d].seat
                               \/ /\ conn[d].game = g /\ conn'[d].game = NoGame
                                  /\ fr[c].op = "leave"
        /\ fr[c].op = "leave" => attached'[g] = {}
        /\ fr[c].op # "leave" => UNCHANGED <<attached, conn>>
        /\ RegistriesAgree'
    <2>1. CASE fr[c].op = "leave"
      <3>1. Detached(attached[g], g) /\ attached[g] \subseteq Conns
        BY <1>1, <2>1 DEF Typed, TypeOK
      <3>2. \A d \in Conns : d \in attached[g] <=> conn[d].game = g
        BY DEF IInv, RegistriesAgree
      <3> QED
        BY <1>1, <2>1, <3>1, <3>2, DetachedConns
    <2>2. CASE fr[c].op # "leave"
      <3>1. UNCHANGED <<attached, conn, conns, playerConn>>
        BY <1>1, <2>2
      <3> QED
        BY <1>1, <2>2, <3>1, RegistriesKept DEF Typed, TypeOK
    <2> QED
      BY <2>1, <2>2
  <1>3. /\ pc' \in [Procs -> Stages \cup SweeperStages] /\ \A d \in Conns : pc'[d] \in Stages
        /\ fr' \in [Procs -> Frames \cup {NoFrame}]
        /\ \A q \in Procs \ {c} : pc'[q] = pc[q] /\ fr'[q] = fr[q]
        /\ Local(c)'
    BY <1>1, Returned
  <1>4. Typed'
    BY <1>1, <1>2, <1>3 DEF Typed, TypeOK, StoreTypeOK, storeVars
  <1>5. Footprint(c)
    <2>1. \A d \in Conns \ {c} :
            \/ conn'[d].game = conn[d].game /\ conn'[d].seat = conn[d].seat
            \/ /\ conn[d].game \in Games /\ lock[conn[d].game] \in {NoProc, c}
               /\ conn'[d].game = NoGame
      BY <1>1, <1>2
    <2>2. \A h \in Games : lock[h] \notin {NoProc, c} => lock'[h] = lock[h]
      BY <1>1, <1>4 DEF Typed, TypeOK
    <2> QED
      BY <1>1, <1>2, <1>3, <2>1, <2>2 DEF Footprint, storeVars
  <1>6. NewestRegistered'
    BY <1>1, <1>2, <1>5, NewestKept
  <1>7. ASSUME NEW h \in Games PROVE Backed(h)'
    <2>1. Backed(h) /\ games' = games /\ players' = players /\ (Open(h)' <=> Open(h))
      BY <1>1 DEF IInv, storeVars, Open
    <2>2. CASE h = g /\ fr[c].op = "leave"
      BY <1>2, <2>2 DEF Backed
    <2>3. CASE h = g /\ fr[c].op # "leave"
      <3>1. \A q \in Procs : ~Closer(q, g)
        BY <1>1, <2>3 DEF Closer
      <3>2. UNCHANGED <<attached, conn>>
        BY <1>2, <2>3
      <3> QED
        BY <2>1, <2>3, <3>1, <3>2 DEF Backed
    <2>4. CASE h # g
      <3>1. attached'[h] = attached[h] /\ attached[h] \subseteq Conns
        BY <1>1, <1>2, <2>4 DEF Typed, TypeOK
      <3>2. \A d \in attached[h] : conn'[d].seat = conn[d].seat /\ conn'[d].player = conn[d].player
        <4>1. \A d \in attached[h] : conn[d].game # g
          BY <2>4, <3>1 DEF IInv, RegistriesAgree
        <4> QED
          BY <1>2, <3>1, <4>1
      <3>3. ASSUME NEW q \in Procs, Closer(q, h) PROVE Closer(q, h)'
        <4>1. q # c /\ lock[h] = q
          BY <1>1, <2>4, <3>3 DEF Closer
        <4>2. pc'[q] = pc[q] /\ fr'[q] = fr[q] /\ lock'[h] = q
          BY <1>1, <1>3, <2>4, <4>1 DEF Typed, TypeOK
        <4> QED
          BY <3>3, <4>2 DEF Closer
      <3> QED
        BY <2>1, <3>1, <3>2, <3>3 DEF Backed
    <2> QED
      BY <2>2, <2>3, <2>4
  <1> QED
    BY <1>1, <1>3, <1>4, <1>5, <1>2, <1>6, <1>7, StepInv

-----------------------------------------------------------------------------
(* The end of a connection.                                                 *)

LEMMA AbandonInv ==
  ASSUME IInv, NEW c \in Conns, Abandon(c)
  PROVE  IInv' /\ Footprint(c)
  <1>1. /\ c \in Procs /\ Typed /\ Local(c) /\ Live(c) /\ Closed(c)
        /\ UNCHANGED <<storeVars, conns, playerConn, attached, lock, procVars, faults>>
    BY DEF Abandon, IInv, Procs
  <1>2. /\ conn' \in [Conns -> ConnFields] /\ conn'[c].closing
        /\ \A d \in Conns : /\ conn'[d].player = conn[d].player
                            /\ conn'[d].game = conn[d].game
                            /\ conn'[d].seat = conn[d].seat
                            /\ conn[d].closing => conn'[d].closing
    BY <1>1, ClosedConn
  <1>3. Typed'
    BY <1>1, <1>2 DEF Typed, TypeOK, StoreTypeOK, storeVars, procVars
  <1>4. Footprint(c)
    BY <1>1, <1>2 DEF Footprint, storeVars, procVars
  <1>5. ASSUME NEW q \in Procs PROVE Local(q)'
    <2>1. Local(q) /\ pc' = pc /\ fr' = fr /\ lock' = lock /\ games' = games
          /\ players' = players /\ conns' = conns
      BY <1>1 DEF IInv, procVars, storeVars
    <2>2. pc[q] \in Detaching /\ fr[q].then = "connectLock" => q \in Conns
      BY <2>1 DEF Local, Locals
    <2>3. Locals(q)'
      BY <1>2, <2>1, <2>2 DEF Local, Locals
    <2>4. ASSUME q \in Conns PROVE Place(q)' /\ Ready(q)'
      <3>1. Place(q)'
        BY <1>2, <2>1, <2>4 DEF Local, Place
      <3>2. Ready(q)'
        <4>1. conn'[q].player = conn[q].player /\ conn'[q].game = conn[q].game
              /\ conn'[q].seat = conn[q].seat
          BY <1>2, <2>4
        <4> QED
          BY <2>1, <2>4, <4>1, ReadyKept DEF Local
      <3> QED
        BY <3>1, <3>2
    <2> QED
      BY <2>3, <2>4 DEF Local
  <1>6. RegistriesAgree'
    BY <1>1, <1>2, RegistriesKept
  <1>7. NewestRegistered'
    <2> SUFFICES ASSUME NEW d \in Conns, Live(d)', conn'[d].player # NoPlayer, ~BeingReplaced(d)'
                 PROVE  playerConn'[conn'[d].player] = d
      BY DEF NewestRegistered
    <2>1. Live(d) /\ ~BeingReplaced(d) /\ conn'[d].player = conn[d].player
      BY <1>1, <1>2 DEF Live, BeingReplaced, procVars
    <2> QED
      BY <1>1, <2>1 DEF IInv, NewestRegistered
  <1>8. ASSUME NEW g \in Games PROVE Backed(g)'
    <2>1. /\ Backed(g) /\ attached' = attached /\ games' = games /\ players' = players
          /\ attached[g] \subseteq Conns /\ (Open(g)' <=> Open(g))
          /\ \A q \in Procs : Closer(q, g)' <=> Closer(q, g)
      BY <1>1 DEF IInv, procVars, storeVars, Typed, TypeOK, Open, Closer
    <2> QED
      BY <1>2, <2>1 DEF Backed
  <1> QED
    BY <1>3, <1>4, <1>5, <1>6, <1>7, <1>8 DEF IInv

LEMMA DisconnectInv ==
  ASSUME IInv, NEW c \in Conns, Disconnect(c)
  PROVE  IInv' /\ Footprint(c)
  <1>1. PICK f \in Frames :
          /\ f.target = c /\ f.then = "unregister"
          /\ c \in Procs /\ c # Sweeper /\ pc[c] = "reading" /\ Typed /\ Local(c)
          /\ Closed(c) /\ Goto(c, "detach") /\ Keep(c, f)
          /\ UNCHANGED <<storeVars, conns, playerConn, attached, lock, faults>>
    <2>1. PICK f \in Frames : /\ f = DetachFrame(c, "unregister", NoGame)
                              /\ f.target = c /\ f.then = "unregister"
      BY DetachFrameType
    <2> QED
      BY <2>1, HubAssumption DEF Disconnect, IInv, Procs
  <1>2. /\ conn' \in [Conns -> ConnFields] /\ conn'[c].closing
        /\ \A d \in Conns : /\ conn'[d].player = conn[d].player
                            /\ conn'[d].game = conn[d].game
                            /\ conn'[d].seat = conn[d].seat
                            /\ conn[d].closing => conn'[d].closing
    BY <1>1, ClosedConn
  <1>3. /\ pc' \in [Procs -> Stages \cup SweeperStages] /\ \A d \in Conns : pc'[d] \in Stages
        /\ pc'[c] = "detach" /\ \A q \in Procs \ {c} : pc'[q] = pc[q]
        /\ fr' \in [Procs -> Frames \cup {NoFrame}]
        /\ fr'[c] = f /\ \A q \in Procs \ {c} : fr'[q] = fr[q]
    BY <1>1, Moved, Kept DEF Stages
  <1>4. Typed'
    BY <1>1, <1>2, <1>3 DEF Typed, TypeOK, StoreTypeOK, storeVars
  <1>5. Footprint(c)
    BY <1>1, <1>2, <1>3 DEF Footprint, storeVars
  <1>6. Locals(c)'
    BY <1>1, <1>3 DEF Locals, InGame, Holding, Detaching, Operating
  <1>7. Place(c)' /\ Ready(c)'
    BY <1>1, <1>2, <1>3 DEF Local, Place, Ready, Connecting, Operating
  <1>8. RegistriesAgree'
    BY <1>1, <1>2, RegistriesKept
  <1>9. NewestRegistered'
    BY <1>1, <1>2, <1>5, NewestKept
  <1>10. \A g \in Games : Backed(g)'
    BY <1>1, <1>2, <1>5, BackedKept DEF storeVars, IInv, Typed, TypeOK
  <1> QED
    BY <1>1, <1>4, <1>5, <1>6, <1>7, <1>8, <1>9, <1>10, StepInv DEF Local

LEMMA UnregisterInv ==
  ASSUME IInv, NEW c \in Conns, Unregister(c)
  PROVE  IInv' /\ Footprint(c)
  <1>1. /\ c \in Procs /\ pc[c] = "unregister" /\ Typed /\ Local(c) /\ conn[c].game = NoGame
        /\ playerConn' = Without(c) /\ conns' = conns \ {c} /\ Goto(c, "gone")
        /\ UNCHANGED <<storeVars, attached, conn, lock, fr, faults>>
    BY DEF Unregister, IInv, Procs, Local, Place
  <1>2. /\ pc' \in [Procs -> Stages \cup SweeperStages] /\ \A d \in Conns : pc'[d] \in Stages
        /\ pc'[c] = "gone" /\ \A q \in Procs \ {c} : pc'[q] = pc[q]
    BY <1>1, Moved DEF Stages
  <1>3. /\ playerConn' \in [Players -> Conns \cup {NoConn}]
        /\ \A p \in Players : playerConn'[p] = IF playerConn[p] = c THEN NoConn ELSE playerConn[p]
    BY <1>1 DEF Without, Typed, TypeOK
  <1>4. Typed'
    BY <1>1, <1>2, <1>3 DEF Typed, TypeOK, StoreTypeOK, storeVars
  <1>5. Footprint(c)
    BY <1>1, <1>2 DEF Footprint, storeVars
  <1>6. Local(c)'
    BY <1>1, <1>2 DEF Local, Locals, Place, Ready, InGame, Holding, Detaching, Operating, Connecting
  <1>7. RegistriesAgree'
    <2>1. \A d \in Conns, g \in Games : d \in attached'[g] <=> conn'[d].game = g
      BY <1>1 DEF IInv, RegistriesAgree
    <2>2. \A d \in Conns : conn'[d].game # NoGame => d \in conns' /\ conn'[d].player # NoPlayer
      BY <1>1 DEF IInv, RegistriesAgree
    <2>3. \A p \in Players : playerConn'[p] # NoConn =>
            playerConn'[p] \in conns' /\ conn'[playerConn'[p]].player = p
      BY <1>1, <1>3 DEF IInv, RegistriesAgree
    <2> QED
      BY <2>1, <2>2, <2>3 DEF RegistriesAgree
  <1>8. NewestRegistered'
    <2> SUFFICES ASSUME NEW d \in Conns, Live(d)', conn'[d].player # NoPlayer, ~BeingReplaced(d)'
                 PROVE  playerConn'[conn'[d].player] = d
      BY DEF NewestRegistered
    <2>1. Live(d) /\ d # c /\ conn'[d] = conn[d]
      BY <1>1 DEF Live
    <2>2. ~BeingReplaced(d)
      BY <1>1, <1>2 DEF BeingReplaced, Procs
    <2>3. conn[d].player \in Players
      BY <1>1, <2>1 DEF Typed, TypeOK, ConnFields
    <2>4. playerConn[conn[d].player] = d
      BY <2>1, <2>2 DEF IInv, NewestRegistered
    <2> QED
      BY <1>3, <2>1, <2>3, <2>4
  <1>9. \A g \in Games : Backed(g)'
    BY <1>1, <1>5, BackedKept DEF storeVars
  <1> QED
    BY <1>1, <1>4, <1>5, <1>6, <1>7, <1>8, <1>9, StepInv

-----------------------------------------------------------------------------
(* The invariant.                                                           *)

LEMMA CreatedType ==
  ASSUME NEW host \in Players, NEW t \in Times
  PROVE  Created(host, t) \in Row
  BY NewStateType DEF Created, Row

LEMMA InitInv ==
  ASSUME Init
  PROVE  IInv
  <1>1. /\ players = Players /\ active = [p \in Players |-> 0]
        /\ games = [g \in Games |-> Created(HostOf[g], 0)] /\ used = Games /\ now = 0
        /\ conns = {} /\ playerConn = [p \in Players |-> NoConn]
        /\ attached = [g \in Games |-> {}] /\ conn = [c \in Conns |-> NewConn]
        /\ lock = [g \in Games |-> NoProc]
        /\ pc = [p \in Procs |-> IF p = Sweeper THEN "asleep" ELSE "unborn"]
        /\ fr = [p \in Procs |-> NoFrame] /\ faults = 0
    BY DEF Init, HubInit
  <1>2. StoreTypeOK
    <2>1. 0 \in Times
      BY StoreAssumption DEF Times
    <2>2. \A g \in Games : Created(HostOf[g], 0) \in Row
      BY <2>1, CreatedType, HubAssumption
    <2> QED
      BY <1>1, <2>1, <2>2 DEF StoreTypeOK
  <1>3. \A c \in Conns : conn[c] = NewConn /\ pc[c] = "unborn" /\ c \in Procs
    BY <1>1, HubAssumption DEF Procs
  <1>4. NewConn \in ConnFields /\ NewConn.player = NoPlayer /\ NewConn.game = NoGame
    BY DEF NewConn, ConnFields, NoSeat
  <1>5. Typed
    BY <1>1, <1>2, <1>3, <1>4, HubAssumption DEF Typed, TypeOK, Stages, SweeperStages, Procs
  <1>6. RegistriesAgree /\ NewestRegistered
    BY <1>1, <1>3, <1>4, HubAssumption DEF RegistriesAgree, NewestRegistered
  <1>7. \A g \in Games : Backed(g)
    BY <1>1 DEF Backed
  <1>8. ASSUME NEW p \in Procs PROVE Local(p)
    <2>1. pc[p] \in {"asleep", "unborn"}
      BY <1>1
    <2>2. Locals(p)
      BY <2>1 DEF Locals, InGame, Holding, Operating, Detaching
    <2>3. ASSUME p \in Conns PROVE Place(p) /\ Ready(p)
      BY <1>1, <1>3, <1>4, <2>3 DEF Place, Ready, Connecting, Operating
    <2> QED
      BY <2>2, <2>3 DEF Local
  <1> QED
    BY <1>5, <1>6, <1>7, <1>8 DEF IInv

LEMMA ClientInv ==
  ASSUME IInv, NEW c \in Conns, Client(c)
  PROVE  IInv' /\ Footprint(c)
  <1>1. ASSUME NEW g \in Games, Connect(c, g) PROVE IInv' /\ Footprint(c)
    BY <1>1, ConnectInv
  <1>2. ASSUME NEW m \in ClientThrows, Request(c, "move", m) PROVE IInv' /\ Footprint(c)
    <2>1. "move" \in Ops /\ m \in Moves
      BY HubAssumption DEF Ops, Moves
    <2> QED
      BY <1>2, <2>1, RequestInv
  <1>3. ASSUME NEW op \in ClientOps, Request(c, op, Pending) PROVE IInv' /\ Footprint(c)
    <2>1. op \in Ops /\ Pending \in Moves
      BY HubAssumption DEF Ops, Moves
    <2> QED
      BY <1>3, <2>1, RequestInv
  <1> QED
    BY <1>1, <1>2, <1>3, AcceptInv, AuthenticateInv, AbandonInv, DisconnectInv DEF Client

LEMMA DetachStepInv ==
  ASSUME IInv, NEW p \in Procs, DetachStep(p)
  PROVE  IInv' /\ Footprint(p)
  BY DetachLookInv, DetachRetryInv, DetachInv DEF DetachStep

LEMMA HandlerInv ==
  ASSUME IInv, NEW c \in Conns, Handler(c)
  PROVE  IInv' /\ Footprint(c)
  <1>1. c \in Procs
    BY DEF Procs
  <1> QED
    BY <1>1, AuthTouchInv, RegisterInv, ReplaceInv, DetachStepInv, ConnectLockInv, ConnectSaveInv,
       ConnectAttachInv, OpLockInv, OpSaveInv, OpNotifyInv, UnregisterInv DEF Handler

LEMMA SameLocal ==
  ASSUME NEW q, Local(q), UNCHANGED <<players, games, conns, conn, lock, pc, fr>>
  PROVE  Local(q)'
  <1>1. Locals(q)'
    BY DEF Local, Locals
  <1>2. q \in Conns => Place(q)'
    BY DEF Local, Place
  <1>3. q \in Conns => Ready(q)'
    BY ReadyKept DEF Local
  <1> QED
    BY <1>1, <1>2, <1>3 DEF Local

LEMMA StutterInv == IInv /\ UNCHANGED hubVars => IInv'
  <1> SUFFICES ASSUME IInv, UNCHANGED hubVars PROVE IInv'
    OBVIOUS
  <1>1. UNCHANGED <<players, games, active, used, now, conns, conn, playerConn, attached, lock, pc, fr,
                    shown, faults>>
    BY DEF hubVars, storeVars, connVars, procVars
  <1>2. Typed'
    BY <1>1 DEF IInv, Typed, TypeOK, StoreTypeOK
  <1>3. RegistriesAgree'
    BY <1>1 DEF IInv, RegistriesAgree
  <1>4. NewestRegistered'
    BY <1>1 DEF IInv, NewestRegistered, BeingReplaced, Live
  <1>5. \A g \in Games : Backed(g)'
    BY <1>1 DEF IInv, Backed, Closer, Open
  <1>6. \A q \in Procs : Local(q)'
    BY <1>1, SameLocal DEF IInv
  <1> QED
    BY <1>2, <1>3, <1>4, <1>5, <1>6 DEF IInv

(***************************************************************************)
(* Every step of every goroutine, read loop or client, keeps what the      *)
(* others know of rows, locks, registries and connections.                 *)
(***************************************************************************)
THEOREM Invariant == Spec => []IInv
  <1>1. Init => IInv
    BY InitInv
  <1>2. IInv /\ [HubNext]_hubVars => IInv'
    BY ClientInv, HandlerInv, StutterInv DEF HubNext
  <1> QED
    BY <1>1, <1>2, PTL DEF Spec

(***************************************************************************)
(* The fields of connections, registries and locals keep their types.      *)
(***************************************************************************)
THEOREM TypeCorrect == Spec => []TypeOK
  <1>1. IInv => TypeOK
    BY DEF IInv, Typed
  <1> QED
    BY <1>1, Invariant, PTL

(***************************************************************************)
(* h.games, h.players and the fields of the connections tell the same      *)
(* story in every state, whatever authenticates, switches or disconnects.  *)
(***************************************************************************)
THEOREM RegistriesAlwaysAgree == Spec => []RegistriesAgree
  <1>1. IInv => RegistriesAgree
    BY DEF IInv
  <1> QED
    BY <1>1, Invariant, PTL

(***************************************************************************)
(* A live authenticated connection that nobody is about to replace is the  *)
(* one in h.players: a player has one.                                     *)
(***************************************************************************)
THEOREM OneLiveConnection == Spec => []NewestRegistered
  <1>1. IInv => NewestRegistered
    BY DEF IInv
  <1> QED
    BY <1>1, Invariant, PTL

(***************************************************************************)
(* With the game lock free, whoever is attached sits in the seat of an     *)
(* open stored row: no handler leaves somebody attached to a game that     *)
(* closed, or in a seat that the row gives to somebody else.               *)
(***************************************************************************)
THEOREM AttachmentsAreBacked == Spec => []AttachmentBacked
  <1>1. IInv => AttachmentBacked
    <2> SUFFICES ASSUME IInv, NEW g \in Games, Free(g), NEW c \in attached[g]
                 PROVE  /\ Open(g)
                        /\ conn[c].player \in players =>
                             conn[c].seat = SeatOf(games[g], conn[c].player)
      BY DEF AttachmentBacked
    <2>1. \A p \in Procs : ~Closer(p, g)
      BY HubAssumption DEF Closer, Free, Procs
    <2> QED
      BY <2>1 DEF IInv, Backed
  <1> QED
    BY <1>1, Invariant, PTL

-----------------------------------------------------------------------------
(* The rows, as module Game has them.                                       *)

LEMMA OnlySavesChange ==
  ASSUME HubNext
  PROVE  UNCHANGED <<games, used>> \/ \E c \in Conns : ConnectSave(c) \/ OpSave(c)
  <1>1. PICK c \in Conns : Client(c) \/ Handler(c)
    BY DEF HubNext
  <1>2. Client(c) => UNCHANGED <<games, used>>
    BY DEF Client, Accept, Authenticate, Abandon, Disconnect, Connect, Request, storeVars
  <1>3. DetachStep(c) => UNCHANGED <<games, used>>
    BY DEF DetachStep, DetachLook, DetachRetry, Detach, storeVars
  <1>4. AuthTouch(c) \/ Register(c) \/ Replace(c) \/ ConnectLock(c) \/ OpLock(c) \/ Unregister(c)
          => UNCHANGED <<games, used>>
    BY DEF AuthTouch, TouchPlayer, Register, Replace, ConnectLock, OpLock, Unregister, storeVars
  <1>5. ConnectAttach(c) \/ OpNotify(c) => UNCHANGED <<games, used>>
    BY AttachEffect, NotifyEffect DEF storeVars
  <1> QED
    BY <1>1, <1>2, <1>3, <1>4, <1>5 DEF Handler

\* A row is stored in place of another one.
Stored(g, row) ==
  /\ games[g] \in Row /\ row \in Row
  /\ games' = [games EXCEPT ![g] = row] /\ used' = used

SameSeats(g, row) == \A seat \in Seats : row.who[seat] = games[g].who[seat]

\* What connect stores: the row as it is, or with a guest who joins.
Reconnects(g, row) == row.st = games[g].st /\ SameSeats(g, row)

GuestJoins(g, row) ==
  /\ CanJoin(games[g].st) /\ row.st = Join(games[g].st)
  /\ games[g].who["GUEST"] = NoPlayer /\ row.who["HOST"] = games[g].who["HOST"]
  /\ \E c \in Conns : pc[c] = "connectSave" /\ row.who["GUEST"] = conn[c].player

LEMMA ConnectSaveEffect ==
  ASSUME IInv, NEW c \in Conns, ConnectSave(c)
  PROVE  \/ UNCHANGED <<games, used>>
         \/ \E g \in Games, row \in Row :
              Stored(g, row) /\ (Reconnects(g, row) \/ GuestJoins(g, row))
  <1>1. PICK g \in Games, row \in Row, p \in {conn[c].player} :
          /\ g = fr[c].game /\ row = fr[c].row
          /\ pc[c] = "connectSave" /\ Save(c, "connectAttach") /\ UNCHANGED connVars
          /\ games[g] \in Row
          /\ Returns(row, g, p) \/ Joins(row, g, p)
    <2>1. pc[c] = "connectSave" /\ Save(c, "connectAttach") /\ UNCHANGED connVars
      BY DEF ConnectSave
    <2>2. Locals(c) /\ Ready(c) /\ games \in [Games -> Row \cup {NoRow}]
      BY DEF IInv, Procs, Local, Typed, TypeOK, StoreTypeOK
    <2>3. fr[c].game \in Games
      BY <2>1, <2>2 DEF Locals, InGame, Holding
    <2>4. games[fr[c].game] \in Row
      BY <2>1, <2>2, <2>3 DEF Ready, Open
    <2> QED
      BY <2>1, <2>2, <2>3, <2>4 DEF Ready
  <1>2. \/ UNCHANGED <<games, used>>
        \/ /\ CanSave(g, row)
           /\ games' = [games EXCEPT ![g] = row] /\ used' = used
    BY ZenonT(60), <1>1, SaveEffect
  <1>3. CASE ~UNCHANGED <<games, used>>
    <2>1. Stored(g, row) /\ row \in Row
      BY <1>1, <1>2, <1>3 DEF Stored
    <2>2. CASE Returns(row, g, p)
      <3>1. SameSeats(g, row)
        BY <1>2, <1>3, <2>2, FitsExactly DEF SameSeats, Returns
      <3> QED
        BY <2>1, <2>2, <3>1 DEF Returns, Reconnects
    <2>3. CASE Joins(row, g, p)
      <3>1. row.who["HOST"] = games[g].who["HOST"]
        BY <1>2, <1>3, <2>3, StoreAssumption DEF Joins, CanSave, Seats
      <3> QED
        BY SMTT(30), <1>1, <1>2, <1>3, <2>1, <2>3, <3>1 DEF Joins, GuestJoins, Seats
    <2> QED
      BY <1>1, <2>2, <2>3
  <1> QED
    BY <1>3

LEMMA OpSaveEffect ==
  ASSUME IInv, NEW c \in Conns, OpSave(c)
  PROVE  \/ UNCHANGED <<games, used>>
         \/ \E g \in Games, row \in Row, op \in Ops, throw \in Moves, seat \in Seats :
              /\ Stored(g, row) /\ SameSeats(g, row)
              /\ pc[c] = "opSave" /\ fr[c].game = g /\ conn[c].seat = seat
              /\ Allowed(op, throw, seat, games[g].st)
              /\ row.st = Result(op, throw, seat, games[g].st)
  <1>1. PICK g \in Games, row \in Row :
          /\ g = fr[c].game /\ row = fr[c].row
          /\ pc[c] = "opSave" /\ Save(c, "opNotify") /\ UNCHANGED connVars
          /\ games[g] \in Row /\ Fits(row, g) /\ conn[c].game = g
          /\ fr[c].op \in Ops /\ fr[c].throw \in Moves
          /\ Allowed(fr[c].op, fr[c].throw, conn[c].seat, games[g].st)
          /\ row.st = Result(fr[c].op, fr[c].throw, conn[c].seat, games[g].st)
    <2>1. pc[c] = "opSave" /\ Save(c, "opNotify") /\ UNCHANGED connVars
      BY DEF OpSave
    <2>2. Locals(c) /\ Ready(c) /\ games \in [Games -> Row \cup {NoRow}]
      BY DEF IInv, Procs, Local, Typed, TypeOK, StoreTypeOK
    <2>3. fr[c].game \in Games /\ fr[c].op \in Ops /\ fr[c] \in Frames
      BY <2>1, <2>2 DEF Locals, InGame, Holding, Operating
    <2>4. fr[c].throw \in Moves
      BY <2>3 DEF Frames
    <2>5. games[fr[c].game] \in Row
      BY <2>1, <2>2, <2>3 DEF Ready
    <2> QED
      BY <2>1, <2>2, <2>3, <2>4, <2>5 DEF Ready
  <1>2. \/ UNCHANGED <<games, used>>
        \/ /\ CanSave(g, row)
           /\ games' = [games EXCEPT ![g] = row] /\ used' = used
    BY ZenonT(60), <1>1, SaveEffect
  <1>3. PICK seat \in Seats : seat = conn[c].seat
    BY <1>1 DEF IInv, RegistriesAgree, Backed
  <1>4. CASE ~UNCHANGED <<games, used>>
    <2>1. SameSeats(g, row)
      BY <1>1, <1>2, <1>4, FitsExactly DEF SameSeats
    <2>2. /\ Stored(g, row) /\ row \in Row
          /\ pc[c] = "opSave" /\ fr[c].game = g /\ conn[c].seat = seat
          /\ Allowed(fr[c].op, fr[c].throw, seat, games[g].st)
          /\ row.st = Result(fr[c].op, fr[c].throw, seat, games[g].st)
      BY <1>1, <1>2, <1>3, <1>4 DEF Stored
    <2> QED
      BY <1>1, <2>1, <2>2
  <1> QED
    BY <1>4

\* The rules that module Game runs on game g are those of the hub.
LEMMA SameRules ==
  ASSUME NEW g \in Games, NEW s, NEW seat, NEW m
  PROVE  /\ G(g)!CanPlayMove(s, seat, m) <=> CanPlayMove(s, seat, m)
         /\ G(g)!PlayMove(s, seat, m) = PlayMove(s, seat, m)
         /\ G(g)!CanRematch(s, seat) <=> CanRematch(s, seat)
         /\ G(g)!Accepts(s) <=> Accepts(s)
         /\ G(g)!Rematch(s, seat) = Rematch(s, seat)
         /\ G(g)!RoundsPlayed(s) = RoundsPlayed(s)
         /\ G(g)!CanDeclineRematch(s, seat) <=> CanDeclineRematch(s, seat)
         /\ G(g)!DeclineRematch(s) = DeclineRematch(s)
         /\ G(g)!CanClose(s) <=> CanClose(s)
         /\ G(g)!Close(s) = Close(s)
         /\ G(g)!CanJoin(s) <=> CanJoin(s)
         /\ G(g)!Join(s) = Join(s)
  <1>1. /\ G(g)!CanPlayMove(s, seat, m) <=> CanPlayMove(s, seat, m)
        /\ G(g)!RoundsPlayed(s) = RoundsPlayed(s)
    BY DEF G!CanPlayMove, CanPlayMove, G!Throws, Throws, G!Pending, Pending,
           G!RoundsPlayed, RoundsPlayed
  <1>2. G(g)!PlayMove(s, seat, m) = PlayMove(s, seat, m)
    BY DEF G!PlayMove, PlayMove, G!Locked, Locked, G!Thrown, Thrown, G!Seats, Seats,
           G!Pending, Pending, G!Settle, Settle, G!Resolve, Resolve, G!Beats, Beats, G!Won, Won
  <1>3. /\ G(g)!CanRematch(s, seat) <=> CanRematch(s, seat)
        /\ G(g)!CanDeclineRematch(s, seat) <=> CanDeclineRematch(s, seat)
        /\ G(g)!Accepts(s) <=> Accepts(s)
        /\ G(g)!Rematch(s, seat) = Rematch(s, seat)
    BY DEF G!CanRematch, CanRematch, G!CanDeclineRematch, CanDeclineRematch,
           G!RematchIssuer, RematchIssuer, G!IssuedBy, IssuedBy, G!Seats, Seats, G!Other, Other,
           G!Accepts, Accepts, G!Rematch, Rematch, G!Pending, Pending
  <1>4. /\ G(g)!DeclineRematch(s) = DeclineRematch(s)
        /\ G(g)!CanClose(s) <=> CanClose(s)
        /\ G(g)!Close(s) = Close(s)
        /\ G(g)!CanJoin(s) <=> CanJoin(s)
        /\ G(g)!Join(s) = Join(s)
    BY DEF G!DeclineRematch, DeclineRematch, G!CanClose, CanClose, G!Close, Close,
           G!CanJoin, CanJoin, G!Join, Join
  <1> QED
    BY <1>1, <1>2, <1>3, <1>4

LEMMA StoredLife ==
  ASSUME NEW g \in Games, NEW row \in Row, Stored(g, row), games \in [Games -> Row \cup {NoRow}]
  PROVE  /\ Life(g) = games[g].st /\ games[g].st \in State /\ games[g] # NoRow
         /\ Life(g)' = row.st /\ row.st \in State
         /\ games'[g] = row
         /\ \A h \in Games \ {g} : Life(h)' = Life(h) /\ games'[h] = games[h]
  <1>1. games'[g] = row /\ row # NoRow /\ games[g] # NoRow
    BY RowAssumption DEF Stored
  <1>2. row.st \in State /\ games[g].st \in State
    BY RowParts DEF Stored
  <1>3. \A h \in Games \ {g} : games'[h] = games[h]
    BY DEF Stored
  <1> QED
    BY <1>1, <1>2, <1>3 DEF Life, Stored

\* What a handler does to a stored state, module Game does too.
LEMMA ResultIsStep ==
  ASSUME NEW g \in Games, NEW op \in Ops, NEW throw \in Moves, NEW seat \in Seats,
         Life(g) \in State, Allowed(op, throw, seat, Life(g)),
         Life(g)' = Result(op, throw, seat, Life(g))
  PROVE  G(g)!Next
  <1>1. G(g)!Exists
    BY HubAssumption DEF G!Exists
  <1>2. seat \in G(g)!Seats
    BY DEF G!Seats, Seats
  <1>3. CASE op = "move"
    <2>1. CanPlayMove(Life(g), seat, throw) /\ Life(g)' = PlayMove(Life(g), seat, throw)
      BY <1>3 DEF Allowed, Result
    <2>2. throw \in G(g)!Throws
      BY <2>1 DEF CanPlayMove, G!Throws, Throws
    <2>3. G(g)!Move(seat, throw)
      BY <1>1, <2>1, SameRules DEF G!Move
    <2> QED
      BY <1>2, <2>2, <2>3 DEF G!Next, G!SeatNext
  <1>4. CASE op = "rematch"
    <2>1. /\ CanRematch(Life(g), seat) /\ Life(g)' = Rematch(Life(g), seat)
          /\ Accepts(Life(g)) => RoundsPlayed(Life(g)) < MaxRounds
      BY <1>4 DEF Allowed, Result
    <2>2. G(g)!PlayAgain(seat)
      BY <1>1, <2>1, SameRules DEF G!PlayAgain
    <2> QED
      BY <1>2, <2>2 DEF G!Next, G!SeatNext
  <1>5. CASE op = "decline"
    <2>1. CanDeclineRematch(Life(g), seat) /\ Life(g)' = DeclineRematch(Life(g))
      BY <1>5 DEF Allowed, Result
    <2>2. G(g)!Decline(seat)
      BY <1>1, <2>1, SameRules DEF G!Decline
    <2> QED
      BY <1>2, <2>2 DEF G!Next, G!SeatNext
  <1>6. CASE op = "leave"
    <2>1. CanClose(Life(g)) /\ Life(g)' = Close(Life(g))
      BY <1>6 DEF Allowed, Result
    <2>2. G(g)!Leave
      BY <1>1, <2>1, SameRules DEF G!Leave
    <2> QED
      BY <2>2 DEF G!Next
  <1> QED
    BY <1>3, <1>4, <1>5, <1>6 DEF Ops

LEMMA HubStepIsGameStep ==
  ASSUME IInv, HubNext
  PROVE  \A g \in Games : G(g)!Next \/ UNCHANGED Life(g)
  <1>1. games \in [Games -> Row \cup {NoRow}]
    BY DEF IInv, Typed, TypeOK, StoreTypeOK
  <1>2. CASE UNCHANGED <<games, used>>
    BY <1>2 DEF Life
  <1>3. ASSUME NEW g \in Games, NEW row \in Row, Stored(g, row),
               Reconnects(g, row) \/ GuestJoins(g, row),
               NEW h \in Games
        PROVE  G(h)!Next \/ UNCHANGED Life(h)
    <2>1. /\ Life(g) = games[g].st /\ games[g].st \in State /\ Life(g)' = row.st
          /\ h # g => Life(h)' = Life(h)
      BY <1>1, <1>3, StoredLife
    <2>2. CASE GuestJoins(g, row)
      <3>1. G(g)!Exists
        BY <2>1, HubAssumption DEF G!Exists
      <3>2. G(g)!JoinGuest
        BY <2>1, <2>2, <3>1, SameRules DEF G!JoinGuest, GuestJoins
      <3>3. G(g)!Next
        BY <3>2 DEF G!Next
      <3> QED
        BY <2>1, <3>3
    <2> QED
      BY <1>3, <2>1, <2>2 DEF Reconnects
  <1>4. ASSUME NEW g \in Games, NEW row \in Row, NEW op \in Ops, NEW throw \in Moves,
               NEW seat \in Seats, Stored(g, row), Allowed(op, throw, seat, games[g].st),
               row.st = Result(op, throw, seat, games[g].st), NEW h \in Games
        PROVE  G(h)!Next \/ UNCHANGED Life(h)
    <2>1. /\ Life(g) = games[g].st /\ games[g].st \in State /\ Life(g)' = row.st
          /\ h # g => Life(h)' = Life(h)
      BY <1>1, <1>4, StoredLife
    <2>2. G(g)!Next
      BY <1>4, <2>1, ResultIsStep
    <2> QED
      BY <2>1, <2>2
  <1> QED
    BY <1>2, <1>3, <1>4, OnlySavesChange, ConnectSaveEffect, OpSaveEffect

(***************************************************************************)
(* The handlers implement module Game: a load, a rule and a save under the *)
(* game lock are one step of it, for any number of games and connections.  *)
(***************************************************************************)
THEOREM RowsFollowGame == Spec => GameSteps
  <1>1. IInv /\ [HubNext]_hubVars => [\A g \in Games : G(g)!Next \/ UNCHANGED Life(g)]_hubVars
    BY HubStepIsGameStep
  <1> QED
    BY <1>1, Invariant, PTL DEF Spec, GameSteps

\* The throws of a round are cleared by the save of the seat that was asked.
Cleared(g) ==
  /\ games[g] # NoRow /\ games'[g] # NoRow
  /\ Thrown(games[g].st) = Seats /\ Thrown(games'[g].st) = {}

Asked(g) ==
  \E c \in Conns : /\ pc[c] = "opSave" /\ fr[c].game = g
                   /\ RematchIssuer(games[g].st) = {Other(conn[c].seat)}

LEMMA RematchStep ==
  ASSUME IInv, HubNext, NEW h \in Games, Cleared(h)
  PROVE  Asked(h)
  <1>1. games \in [Games -> Row \cup {NoRow}] /\ Seats # {}
    BY DEF IInv, Typed, TypeOK, StoreTypeOK, Seats
  <1>2. ASSUME NEW g \in Games, NEW row \in Row, Stored(g, row)
        PROVE  /\ games[g].st \in State /\ games'[g].st = row.st
               /\ h # g => games'[h] = games[h]
    BY <1>1, <1>2, StoredLife
  <1>3. games'[h] # games[h]
    BY <1>1 DEF Cleared
  <1>4. ASSUME NEW g \in Games, NEW row \in Row, Stored(g, row),
               Reconnects(g, row) \/ GuestJoins(g, row)
        PROVE  FALSE
    <2>1. g = h /\ games[g].st \in State /\ games'[g].st = row.st
      BY <1>2, <1>3, <1>4
    <2>2. row.st.move = games[g].st.move
      BY <1>4, <2>1 DEF Reconnects, GuestJoins, Join, State
    <2> QED
      BY <1>1, <2>1, <2>2 DEF Cleared, Thrown
  <1>5. ASSUME NEW c \in Conns, NEW g \in Games, NEW row \in Row, NEW op \in Ops,
               NEW throw \in Moves, NEW seat \in Seats, Stored(g, row),
               pc[c] = "opSave", fr[c].game = g, conn[c].seat = seat,
               Allowed(op, throw, seat, games[g].st),
               row.st = Result(op, throw, seat, games[g].st)
        PROVE  Asked(h)
    <2> DEFINE s == games[g].st
    <2>1. g = h /\ s \in State /\ games'[g].st = row.st
      BY <1>2, <1>3, <1>5
    <2>2. Thrown(s) = Seats /\ Thrown(row.st) # Seats
      BY <1>1, <2>1 DEF Cleared
    <2>3. op # "move"
      BY <1>5, <2>2 DEF Allowed, CanPlayMove, Thrown
    <2>4. row.st.move # s.move
      BY <2>2 DEF Thrown
    <2>5. op = "rematch" /\ s.status # "COMPLETE"
      BY <1>5, <2>1, <2>3, <2>4 DEF Ops, Result, DeclineRematch, Close, Rematch, Accepts, State
    <2>6. RematchIssuer(s) = {Other(seat)}
      BY <1>5, <2>5 DEF Allowed, CanRematch
    <2> QED
      BY <1>5, <2>1, <2>6 DEF Asked
  <1> QED
    BY <1>3, <1>4, <1>5, OnlySavesChange, ConnectSaveEffect, OpSaveEffect

(***************************************************************************)
(* Only the save of the seat opposite to the one that asked clears the     *)
(* throws of a complete round.                                             *)
(***************************************************************************)
THEOREM RematchTakesTwo == Spec => RematchNeedsBoth
  <1>1. IInv /\ [HubNext]_hubVars =>
          [\A g \in Games :
             games[g] # NoRow /\ games'[g] # NoRow
             /\ Thrown(games[g].st) = Seats /\ Thrown(games'[g].st) = {} =>
               \E c \in Conns :
                 /\ pc[c] = "opSave" /\ fr[c].game = g
                 /\ RematchIssuer(games[g].st) = {Other(conn[c].seat)}]_hubVars
    BY RematchStep DEF Cleared, Asked
  <1> QED
    BY <1>1, Invariant, PTL DEF Spec, RematchNeedsBoth

-----------------------------------------------------------------------------
(* Who a connection is.                                                     *)

\* Closing a connection changes nothing else of it.
LEMMA ClosedFields ==
  ASSUME Typed, NEW c \in Conns, Closed(c)
  PROVE  \A d \in Conns :
           /\ conn'[d].game = conn[d].game /\ conn'[d].seat = conn[d].seat
           /\ conn'[d].player = conn[d].player
           /\ conn[d].closing => conn'[d].closing
           /\ d = c => conn'[d].closing
  BY DEF Typed, TypeOK, Closed, ConnFields

\* A connection gets its player when it registers and keeps it, and one
\* that is closing stays so.
LEMMA ConnSteps ==
  ASSUME IInv, NEW c \in Conns, Client(c) \/ Handler(c)
  PROVE  \A d \in Conns :
           /\ \/ conn'[d].player = conn[d].player
              \/ Register(c) /\ d = c /\ conn'[d].player = Login[c]
           /\ conn[d].closing => conn'[d].closing
  <1> DEFINE Same == \A d \in Conns : /\ conn'[d].player = conn[d].player
                                      /\ (conn[d].closing => conn'[d].closing)
  <1>1. Typed /\ \A d \in Conns : conn[d] \in ConnFields
    BY DEF IInv, Typed, TypeOK
  <1>2. UNCHANGED conn => Same
    OBVIOUS
  <1>3. ASSUME NEW t \in Conns, Closed(t) PROVE Same
    BY <1>1, <1>3, ClosedFields
  <1>4. ASSUME NEW cs, NEW g, Detached(cs, g) PROVE Same
    <2>1. \A d \in Conns : \/ conn'[d] = conn[d]
                           \/ conn'[d] = [conn[d] EXCEPT !.game = NoGame, !.seat = NoSeat]
      BY <1>4 DEF Detached
    <2> QED
      BY ZenonT(60), <1>1, <2>1 DEF ConnFields
  <1>5. ASSUME NEW g, NEW seat, Attached(c, g, seat) PROVE Same
    <2>1. conn' = [conn EXCEPT ![c] = [conn[c] EXCEPT !.game = g, !.seat = seat]]
      BY <1>1, <1>5 DEF Attached, ConnFields, Typed, TypeOK
    <2> QED
      BY <1>1, <2>1 DEF ConnFields, Typed, TypeOK
  <1>6. CASE Register(c)
    BY <1>1, <1>6 DEF Register, Typed, TypeOK, ConnFields
  <1>7. Client(c) \/ Replace(c) => UNCHANGED conn \/ \E t \in Conns : Closed(t)
    BY DEF Client, Accept, Authenticate, Abandon, Disconnect, Connect, Request, Replace, connVars,
           IInv, Local, Locals, Detaching, Procs
  <1>8. Detach(c) \/ OpNotify(c) => UNCHANGED conn \/ \E cs, g : Detached(cs, g)
    BY NotifyEffect DEF Detach
  <1>9. ConnectAttach(c) => \E g, seat : Attached(c, g, seat)
    BY AttachEffect
  <1>10. ASSUME AuthTouch(c) \/ DetachLook(c) \/ DetachRetry(c) \/ ConnectLock(c)
                \/ ConnectSave(c) \/ OpLock(c) \/ OpSave(c) \/ Unregister(c)
         PROVE  UNCHANGED conn
    BY <1>10 DEF AuthTouch, DetachLook, DetachRetry, ConnectLock, ConnectSave, OpLock, OpSave,
           Unregister, connVars
  <1>11. CASE Client(c) \/ Replace(c)
    <2>1. UNCHANGED conn \/ \E t \in Conns : Closed(t)
      BY <1>7, <1>11
    <2>2. Same
      BY <1>2, <1>3, <2>1
    <2> QED
      BY <2>2
  <1>12. CASE Detach(c) \/ OpNotify(c)
    <2>1. UNCHANGED conn \/ \E cs, g : Detached(cs, g)
      BY <1>8, <1>12
    <2>2. Same
      BY <1>2, <1>4, <2>1
    <2> QED
      BY <2>2
  <1>13. CASE ConnectAttach(c)
    <2>1. Same
      BY <1>5, <1>9, <1>13
    <2> QED
      BY <2>1
  <1>14. CASE \/ AuthTouch(c) \/ DetachLook(c) \/ DetachRetry(c) \/ ConnectLock(c)
              \/ ConnectSave(c) \/ OpLock(c) \/ OpSave(c) \/ Unregister(c)
    <2>1. UNCHANGED conn
      BY <1>10, <1>14
    <2> QED
      BY <2>1
  <1> QED
    BY <1>6, <1>11, <1>12, <1>13, <1>14 DEF Handler, DetachStep

\* It is authenticated as the player whose credentials its client has.
Named == \A c \in Conns : conn[c].player \in {NoPlayer, Login[c]}

LEMMA NamedStep ==
  ASSUME IInv, Named, NEW c \in Conns, Client(c) \/ Handler(c)
  PROVE  Named'
  BY ConnSteps DEF Named

-----------------------------------------------------------------------------
(* The locks.                                                               *)

\* The holder of a game's lock is in a handler for that game, past its load.
Held == \A p \in Procs, g \in Games : lock[g] = p => pc[p] \in Holding /\ fr[p].game = g

Locks == INSTANCE Mutex WITH
           Ids <- Games, holders <- [g \in Games |-> IF Free(g) THEN {} ELSE {lock[g]}]

\* A step of c inside the lock of its game, or outside every lock.
StaysPut(c) ==
  /\ lock' = lock
  /\ pc[c] \in Holding <=> pc'[c] \in Holding
  /\ pc[c] \in Holding => fr'[c].game = fr[c].game

Enters(c, g) == Hold(g, c) /\ pc[c] \notin Holding /\ pc'[c] \in Holding /\ fr'[c].game = g
Exits(c, g)  == Release(g) /\ lock[g] = c /\ pc'[c] \notin Holding

LEMMA LockSteps ==
  ASSUME IInv, NEW c \in Conns, Client(c) \/ Handler(c)
  PROVE  StaysPut(c) \/ \E g \in Games : Enters(c, g) \/ Exits(c, g)
  <1>1. Typed /\ c \in Procs /\ Locals(c)
    BY DEF IInv, Procs, Local
  <1>2. ASSUME NEW stage, Goto(c, stage) PROVE pc'[c] = stage
    BY <1>1, <1>2 DEF Goto, Typed
  <1>3. ASSUME NEW f, Keep(c, f) PROVE fr'[c] = f
    BY <1>1, <1>3 DEF Keep, Typed, TypeOK
  <1>4. CASE Client(c)
    <2>1. lock' = lock
      BY <1>4 DEF Client, Accept, Authenticate, Abandon, Disconnect, Connect, Request
    <2>2. UNCHANGED procVars \/ (pc[c] \notin Holding /\ pc'[c] \notin Holding)
      BY <1>2, <1>4 DEF Client, Accept, Authenticate, Abandon, Disconnect, Connect, Request,
                        HandlesGame, Handles, Holding
    <2> QED
      BY <2>1, <2>2 DEF StaysPut, procVars
  <1>5. CASE AuthTouch(c) \/ Register(c) \/ Replace(c) \/ DetachStep(c) \/ Unregister(c)
    <2>1. lock' = lock
      BY <1>5 DEF AuthTouch, Register, Replace, DetachStep, DetachLook, DetachRetry, Detach,
                  Unregister
    <2>2. pc[c] \notin Holding
      BY <1>5 DEF AuthTouch, Register, Replace, DetachStep, DetachLook, DetachRetry, Detach,
                  Unregister, Holding
    <2>3. pc'[c] \notin Holding
      BY <1>1, <1>2, <1>5
         DEF AuthTouch, Register, Replace, DetachStep, DetachLook, DetachRetry, Detach,
             Unregister, Return, Continue, Holding, Locals, Detaching
    <2> QED
      BY <2>1, <2>2, <2>3 DEF StaysPut
  <1>6. CASE ConnectLock(c) \/ OpLock(c)
    <2>1. PICK g \in Games : g = fr[c].game
      BY <1>1, <1>6 DEF Locals, InGame, ConnectLock, OpLock
    <2>2. pc[c] \notin Holding /\ fr[c] \in Frames
      BY <1>1, <1>6 DEF ConnectLock, OpLock, Holding, InGame, Locals
    <2>3. \/ Reject(c, g)
          \/ /\ Hold(g, c) /\ \E stage \in Holding : Goto(c, stage)
             /\ \E row : Keep(c, [fr[c] EXCEPT !.row = row])
      BY <1>6, <2>1 DEF ConnectLock, OpLock, Holding
    <2>4. CASE Reject(c, g)
      BY <1>2, <2>2, <2>4 DEF Reject, Return, StaysPut, Holding
    <2>5. CASE /\ Hold(g, c) /\ \E stage \in Holding : Goto(c, stage)
               /\ \E row : Keep(c, [fr[c] EXCEPT !.row = row])
      <3>1. pc'[c] \in Holding
        BY <1>2, <2>5
      <3>2. PICK row : Keep(c, [fr[c] EXCEPT !.row = row])
        BY <2>5
      <3>3. PICK f : f = [fr[c] EXCEPT !.row = row]
        OBVIOUS
      <3>4. f.game = g
        BY <2>1, <2>2, <3>3, FrameKept
      <3> QED
        BY <1>3, <2>2, <2>5, <3>1, <3>2, <3>3, <3>4 DEF Enters
    <2> QED
      BY <2>3, <2>4, <2>5
  <1>7. CASE ConnectSave(c) \/ OpSave(c)
    <2>1. PICK g \in Games : g = fr[c].game
      BY <1>1, <1>7 DEF Locals, InGame, Holding, ConnectSave, OpSave
    <2>2. pc[c] \in Holding /\ fr[c] \in Frames /\ lock[g] = c
      BY <1>1, <1>7, <2>1 DEF ConnectSave, OpSave, Holding, InGame, Locals
    <2>3. \/ Return(c) /\ Release(g)
          \/ UNCHANGED <<lock, fr>> /\ \E stage \in Holding : Goto(c, stage)
      BY <1>7, <2>1 DEF ConnectSave, OpSave, Save, Holding
    <2>4. CASE Return(c) /\ Release(g)
      BY <1>2, <2>2, <2>4 DEF Return, Exits, Holding
    <2>5. CASE UNCHANGED <<lock, fr>> /\ \E stage \in Holding : Goto(c, stage)
      <3>1. pc'[c] \in Holding
        BY <1>2, <2>5
      <3> QED
        BY <2>2, <2>5, <3>1 DEF StaysPut
    <2> QED
      BY <2>3, <2>4, <2>5
  <1>8. CASE ConnectAttach(c) \/ OpNotify(c)
    <2>1. PICK g \in Games : g = fr[c].game /\ lock[g] = c
      BY <1>1, <1>8 DEF Locals, InGame, Holding, ConnectAttach, OpNotify
    <2>2. Return(c) /\ Release(g)
      BY <1>8, <2>1 DEF ConnectAttach, OpNotify
    <2> QED
      BY <1>2, <2>1, <2>2 DEF Return, Exits, Holding
  <1> QED
    BY <1>4, <1>5, <1>6, <1>7, <1>8 DEF Handler

LEMMA HeldKept ==
  ASSUME Typed, Held, NEW p \in Procs, \A q \in Procs \ {p} : pc'[q] = pc[q] /\ fr'[q] = fr[q],
         StaysPut(p) \/ \E g \in Games : Enters(p, g) \/ Exits(p, g)
  PROVE  Held' /\ (Locks!Next \/ UNCHANGED lock)
  <1>1. lock \in [Games -> Procs \cup {NoProc}] /\ NoProc \notin Procs
    BY HubAssumption DEF Typed, TypeOK, Procs
  <1>2. CASE StaysPut(p)
    BY <1>1, <1>2 DEF StaysPut, Held
  <1> DEFINE holders == [g \in Games |-> IF Free(g) THEN {} ELSE {lock[g]}]
  <1>3. ASSUME NEW g \in Games, Enters(p, g) PROVE Held' /\ Locks!Next
    <2>1. \A h \in Games : lock[h] # p
      BY <1>1, <1>3 DEF Held, Enters
    <2>2. lock[g] = NoProc /\ lock' = [lock EXCEPT ![g] = p]
      BY <1>3 DEF Enters, Hold, Free
    <2>3. Held'
      BY <1>1, <1>3, <2>1, <2>2 DEF Held, Enters
    <2>4. /\ \A h \in Games : p \notin holders[h]
          /\ holders[g] = {} /\ holders' = [holders EXCEPT ![g] = {p}]
      BY <1>1, <2>1, <2>2 DEF Free
    <2>5. Locks!Take(p, g)
      BY <2>4 DEF Locks!Take
    <2> QED
      BY <1>1, <2>3, <2>5 DEF Locks!Next
  <1>4. ASSUME NEW g \in Games, Exits(p, g) PROVE Held' /\ Locks!Next
    <2>1. lock[g] = p /\ lock' = [lock EXCEPT ![g] = NoProc]
      BY <1>4 DEF Exits, Release
    <2>2. Held'
      BY <1>1, <2>1 DEF Held
    <2>3. holders[g] = {p} /\ holders' = [holders EXCEPT ![g] = {}]
      BY <1>1, <2>1 DEF Free
    <2>4. Locks!Give(p, g)
      BY <2>3 DEF Locks!Give
    <2> QED
      BY <1>1, <2>2, <2>4 DEF Locks!Next
  <1> QED
    BY <1>2, <1>3, <1>4 DEF StaysPut

LEMMA HeldStep ==
  ASSUME IInv, Held, NEW c \in Conns, Client(c) \/ Handler(c)
  PROVE  Held' /\ (Locks!Next \/ UNCHANGED lock)
  <1>1. c \in Procs /\ Typed /\ \A q \in Procs \ {c} : pc'[q] = pc[q] /\ fr'[q] = fr[q]
    BY ClientInv, HandlerInv DEF Footprint, IInv, Procs
  <1> QED
    BY <1>1, HeldKept, LockSteps

(***************************************************************************)
(* The handlers use the locks as module Mutex promises them (and module    *)
(* GameLock provides them): a goroutine takes a free lock, while it holds  *)
(* no other, and releases only the one it holds.  So nobody waits for one  *)
(* game's lock inside another's.                                           *)
(***************************************************************************)
THEOREM HandlersUseMutex == Spec => Locks!Spec
  <1>1. Init => Held /\ Locks!Init
    BY HubAssumption DEF Init, HubInit, Held, Locks!Init, Free, Procs
  <1>2. IInv /\ Held /\ [HubNext]_hubVars =>
          Held' /\ [Locks!Next]_([g \in Games |-> IF Free(g) THEN {} ELSE {lock[g]}])
    <2>1. CASE UNCHANGED hubVars
      BY <2>1 DEF hubVars, procVars, Held, Free
    <2>2. UNCHANGED lock => UNCHANGED [g \in Games |-> IF Free(g) THEN {} ELSE {lock[g]}]
      BY DEF Free
    <2> QED
      BY <2>1, <2>2, HeldStep DEF HubNext
  <1> QED
    BY <1>1, <1>2, Invariant, PTL DEF Spec, Locks!Spec
=============================================================================

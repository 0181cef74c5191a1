---------------------------- MODULE ServerProofs ----------------------------
(***************************************************************************)
(* Proofs about the whole server: the hub with games created at any time,  *)
(* the clock, the sweeper and crashes.  IInv of HubProofs covers every     *)
(* goroutine, the sweeper too; SInv adds what the sweep knows. EInv is     *)
(* about a player while it is expired and deleted, WInv about the seats    *)
(* that deletions vacate and about who tells of a row: with it the         *)
(* theorems of ViewProofs on seats, throws and presence hold of the server *)
(* too (PInv), and views are current (GInv).                               *)
(***************************************************************************)
EXTENDS Server, ViewProofs

-----------------------------------------------------------------------------
(* What the sweeper knows.                                                  *)

\* ExpirePlayer is running for sweep.player.
Expiring == {"listOpen", "closeGames", "closeSave", "closeNotify", "detach", "detachLock",
             "deletePlayer"}

SweepLocal ==
  LET g == fr[Sweeper].game
  IN  /\ sweep \in Sweeps /\ pc[Sweeper] \in SweepStages
      /\ sweep.start <= now
      /\ pc[Sweeper] \in Expiring => sweep.player \in Players
      /\ sweep.conns # {} => At("deleteGame")
      /\ At("closeSave") => /\ Open(g) /\ games[g] \in Row
                            /\ fr[Sweeper].row = [games[g] EXCEPT !.st = Close(games[g].st)]
      /\ At("deleteGame") => /\ attached[g] = {}
                             /\ games[g] \in Row /\ games[g].last < GameCutoff

UsedRows == \A g \in Games : games[g] # NoRow => g \in used

SInv == IInv /\ UsedRows /\ SweepLocal

-----------------------------------------------------------------------------

(* The hub's steps.                                                         *)

LEMMA SweeperFacts ==
  ASSUME SInv
  PROVE  /\ Sweeper \in Procs /\ Typed /\ Local(Sweeper) /\ Locals(Sweeper) /\ SweepLocal /\ UsedRows
         /\ pc[Sweeper] \in InGame => /\ fr[Sweeper] \in Frames /\ fr[Sweeper].game \in Games
         /\ pc[Sweeper] \in Holding => lock[fr[Sweeper].game] = Sweeper
         /\ games \in [Games -> Row \cup {NoRow}] /\ now \in Times /\ faults \in 0 .. MaxFaults
         /\ lock \in [Games -> Procs \cup {NoProc}]
  BY DEF SInv, IInv, Procs, Local, Locals, Typed, TypeOK, StoreTypeOK

\* What the sweeper knows, no connection's goroutine invalidates.
LEMMA SweepKept ==
  ASSUME SInv, NEW c \in Conns, Footprint(c), sweep' = sweep
  PROVE  SweepLocal'
  <1> DEFINE g == fr[Sweeper].game
  <1>1. Sweeper \in Procs \ {c} /\ SweepLocal
    BY SweeperFacts, HubAssumption
  <1>2. pc'[Sweeper] = pc[Sweeper] /\ fr'[Sweeper] = fr[Sweeper] /\ now' = now
    BY <1>1 DEF Footprint
  <1>3. At("closeSave") \/ At("deleteGame") => games'[g] = games[g] /\ attached'[g] \subseteq attached[g]
    <2>1. At("closeSave") \/ At("deleteGame") =>
            g \in Games /\ lock[g] = Sweeper /\ lock[g] \notin {NoProc, c}
      BY SweeperFacts, HubAssumption DEF At, InGame, Holding, Procs
    <2> QED
      BY <2>1 DEF Footprint
  <1> QED
    BY <1>1, <1>2, <1>3 DEF SweepLocal, Open, At, GameCutoff

LEMMA HubStepInv ==
  ASSUME SInv, NEW c \in Conns, Client(c) \/ Handler(c), sweep' = sweep
  PROVE  SInv'
  <1>1. IInv' /\ Footprint(c)
    BY ClientInv, HandlerInv DEF SInv
  <1>2. UsedRows'
    <2>1. ASSUME NEW g \in Games, NEW row \in Row, Stored(g, row) PROVE UsedRows'
      BY <2>1, RowAssumption DEF SInv, UsedRows, Stored
    <2>2. HubNext
      BY DEF HubNext
    <2> QED
      BY <2>1, <2>2, OnlySavesChange, ConnectSaveEffect, OpSaveEffect DEF SInv, UsedRows
  <1> QED
    BY <1>1, <1>2, SweepKept DEF SInv

-----------------------------------------------------------------------------
(* The sweeper between two locks.                                           *)

Between == {"asleep", "players", "listOpen", "closeGames", "deletePlayer", "games"}

SweepOf(s, stage) ==
  /\ s \in Sweeps /\ s.start <= now /\ s.conns = {}
  /\ stage \in Expiring => s.player \in Players

LEMMA MovesOn ==
  ASSUME SInv, pc[Sweeper] # "closeNotify", NEW stage \in Between, Goto(Sweeper, stage),
         fr' = fr \/ Keep(Sweeper, NoFrame), faults' \in 0 .. MaxFaults,
         UNCHANGED <<storeVars, connVars, lock>>, SweepOf(sweep', stage)
  PROVE  SInv'
  <1>1. Sweeper \in Procs /\ Typed /\ Sweeper \notin Conns
    BY SweeperFacts, HubAssumption
  <1>2. /\ pc' \in [Procs -> Stages \cup SweeperStages] /\ \A c \in Conns : pc'[c] \in Stages
        /\ pc'[Sweeper] = stage /\ \A q \in Procs \ {Sweeper} : pc'[q] = pc[q]
    BY <1>1, Moved DEF SweeperStages, Between
  <1>3. /\ fr' \in [Procs -> Frames \cup {NoFrame}]
        /\ \A q \in Procs \ {Sweeper} : fr'[q] = fr[q]
    BY <1>1, Kept DEF Typed, TypeOK
  <1>4. Typed'
    BY <1>1, <1>2, <1>3 DEF Typed, TypeOK, StoreTypeOK, storeVars, connVars
  <1>5. Footprint(Sweeper)
    BY <1>2, <1>3 DEF Footprint, storeVars, connVars
  <1>6. Local(Sweeper)'
    BY <1>1, <1>2 DEF Local, Locals, Between, InGame, Holding, Operating, Detaching
  <1>7. IInv'
    <2>1. pc[Sweeper] \notin {"replace", "opNotify", "closeNotify"}
      BY SweeperFacts DEF SweepLocal, SweepStages
    <2> QED
      BY <1>1, <1>4, <1>5, <1>6, <2>1, QuietInv DEF SInv, storeVars
  <1>8. UsedRows' /\ SweepLocal'
    BY <1>2, SweeperFacts DEF SInv, UsedRows, SweepLocal, SweepOf, Between, SweepStages, At, storeVars
  <1> QED
    BY <1>7, <1>8 DEF SInv

LEMMA SweepType ==
  ASSUME NEW s \in Sweeps
  PROVE  /\ s.players \in SUBSET Players /\ s.player \in Players \cup {NoPlayer}
         /\ s.open \in SUBSET Games /\ s.games \in SUBSET Games /\ s.start \in Times
         /\ s.conns \in SUBSET Conns
         /\ \A ps \in SUBSET Players : /\ [s EXCEPT !.players = ps] \in Sweeps
                                       /\ [s EXCEPT !.players = ps].start = s.start
                                       /\ [s EXCEPT !.players = ps].player = s.player
                                       /\ [s EXCEPT !.players = ps].conns = s.conns
         /\ \A p \in Players \cup {NoPlayer} : /\ [s EXCEPT !.player = p] \in Sweeps
                                               /\ [s EXCEPT !.player = p].start = s.start
                                               /\ [s EXCEPT !.player = p].player = p
                                               /\ [s EXCEPT !.player = p].conns = s.conns
         /\ \A gs \in SUBSET Games : /\ [s EXCEPT !.open = gs] \in Sweeps
                                     /\ [s EXCEPT !.open = gs].start = s.start
                                     /\ [s EXCEPT !.open = gs].player = s.player
                                     /\ [s EXCEPT !.open = gs].conns = s.conns
                                     /\ [s EXCEPT !.games = gs] \in Sweeps
                                     /\ [s EXCEPT !.games = gs].start = s.start
                                     /\ [s EXCEPT !.games = gs].player = s.player
                                     /\ [s EXCEPT !.games = gs].conns = s.conns
         /\ \A cs \in SUBSET Conns : /\ [s EXCEPT !.conns = cs] \in Sweeps
                                     /\ [s EXCEPT !.conns = cs].start = s.start
                                     /\ [s EXCEPT !.conns = cs].player = s.player
                                     /\ [s EXCEPT !.conns = cs].conns = cs
  BY DEF Sweeps

LEMMA AsleepType == Asleep \in Sweeps /\ Asleep.start = 0 /\ Asleep.conns = {}
  BY StoreAssumption DEF Asleep, Sweeps, Times

LEMMA AbortInv ==
  ASSUME SInv, pc[Sweeper] # "closeNotify", Abort, faults' \in 0 .. MaxFaults,
         UNCHANGED <<storeVars, connVars, lock>>
  PROVE  SInv'
  <1>1. Goto(Sweeper, "asleep") /\ Keep(Sweeper, NoFrame) /\ sweep' = Asleep
    BY DEF Abort
  <1>2. SweepOf(sweep', "asleep")
    BY <1>1, AsleepType, SweeperFacts DEF SweepOf, Expiring, Times
  <1> QED
    BY <1>1, <1>2, MovesOn DEF Between

LEMMA FaultType == ASSUME SInv, Fault PROVE faults' \in 0 .. MaxFaults
  BY SweeperFacts, HubAssumption DEF Fault

LEMMA ReadFailsInv ==
  ASSUME SInv, ReadFails
  PROVE  SInv'
  <1>1. pc[Sweeper] # "closeNotify"
    BY DEF ReadFails, At
  <1> QED
    BY <1>1, AbortInv, FaultType DEF ReadFails

LEMMA SweepBeginInv ==
  ASSUME SInv, SweepBegin
  PROVE  SInv'
  <1>1. /\ pc[Sweeper] = "asleep" /\ Goto(Sweeper, "players")
        /\ sweep' = [Asleep EXCEPT !.players = ExpiredPlayers(now - PlayerTTL), !.start = now]
        /\ UNCHANGED <<storeVars, connVars, lock, fr, faults>>
    BY DEF SweepBegin, At
  <1>2. ExpiredPlayers(now - PlayerTTL) \subseteq Players /\ now \in Times
    BY SweeperFacts DEF ExpiredPlayers, Typed, TypeOK, StoreTypeOK
  <1>3. SweepOf(sweep', "players")
    <2>1. now \in Nat
      BY <1>2, StoreAssumption DEF Times
    <2>2. sweep' \in Sweeps /\ sweep'.start = now /\ sweep'.conns = {}
      BY <1>1, <1>2, AsleepType DEF Sweeps
    <2> QED
      BY <2>1, <2>2 DEF SweepOf, Expiring
  <1>4. faults' \in 0 .. MaxFaults
    BY <1>1, SweeperFacts
  <1> QED
    BY <1>1, <1>3, <1>4, MovesOn DEF Between

LEMMA ExpirePlayerInv ==
  ASSUME SInv, NEW p \in Players, ExpirePlayer(p)
  PROVE  SInv'
  <1>1. /\ pc[Sweeper] = "players" /\ p \in sweep.players
        /\ UNCHANGED <<storeVars, connVars, lock, fr, faults>>
        /\ sweep \in Sweeps /\ sweep.start <= now /\ sweep.conns = {} /\ faults' \in 0 .. MaxFaults
    BY SweeperFacts DEF ExpirePlayer, At, SweepLocal
  <1>2. CASE Idle(p)
    <2>1. /\ Goto(Sweeper, "listOpen")
          /\ sweep' = [[sweep EXCEPT !.players = sweep.players \ {p}] EXCEPT !.player = p]
      BY <1>1, <1>2 DEF ExpirePlayer, Sweeps
    <2>2. [sweep EXCEPT !.players = sweep.players \ {p}] \in Sweeps
          /\ [sweep EXCEPT !.players = sweep.players \ {p}].start = sweep.start
          /\ [sweep EXCEPT !.players = sweep.players \ {p}].conns = {}
      BY <1>1, SweepType
    <2>3. /\ sweep' \in Sweeps /\ sweep'.start = sweep.start /\ sweep'.player = p
          /\ sweep'.conns = {}
      <3> DEFINE s == [sweep EXCEPT !.players = sweep.players \ {p}]
      <3>1. s \in Sweeps /\ s.start = sweep.start /\ s.conns = {} /\ sweep' = [s EXCEPT !.player = p]
        BY <2>1, <2>2
      <3> HIDE DEF s
      <3> QED
        BY <3>1, SweepType
    <2>4. SweepOf(sweep', "listOpen")
      BY <1>1, <2>3 DEF SweepOf
    <2> QED
      BY <1>1, <2>1, <2>4, MovesOn DEF Between
  <1>3. CASE ~Idle(p)
    <2>1. Goto(Sweeper, "players")
      BY <1>1, <1>3, SweeperFacts DEF ExpirePlayer, Goto, Typed
    <2>2. SweepOf(sweep', "players")
      <3>1. PICK ps \in SUBSET Players : sweep' = [sweep EXCEPT !.players = ps]
        BY <1>1, <1>3, SweepType DEF ExpirePlayer
      <3> QED
        BY <1>1, <3>1, SweepType DEF SweepOf, Expiring
    <2> QED
      BY <1>1, <2>1, <2>2, MovesOn DEF Between
  <1> QED
    BY <1>2, <1>3

LEMMA ListOpenGamesInv ==
  ASSUME SInv, ListOpenGames
  PROVE  SInv'
  <1>1. /\ pc[Sweeper] = "listOpen" /\ Goto(Sweeper, "closeGames")
        /\ sweep' = [sweep EXCEPT !.open = OpenGames(sweep.player)]
        /\ UNCHANGED <<storeVars, connVars, lock, fr, faults>>
        /\ sweep \in Sweeps /\ sweep.start <= now /\ sweep.conns = {} /\ faults' \in 0 .. MaxFaults
        /\ sweep.player \in Players
    BY SweeperFacts DEF ListOpenGames, At, SweepLocal, Expiring
  <1>2. SweepOf(sweep', "closeGames")
    BY <1>1, SweepType, ZenonT(30) DEF SweepOf, OpenGames
  <1> QED
    BY <1>1, <1>2, MovesOn DEF Between

LEMMA ListGamesInv ==
  ASSUME SInv, ListGames
  PROVE  SInv'
  <1>1. /\ pc[Sweeper] = "players" /\ Goto(Sweeper, "games")
        /\ sweep' = [sweep EXCEPT !.games = ExpiredGames(GameCutoff)]
        /\ UNCHANGED <<storeVars, connVars, lock, fr, faults>>
        /\ sweep \in Sweeps /\ sweep.start <= now /\ sweep.conns = {} /\ faults' \in 0 .. MaxFaults
    BY SweeperFacts DEF ListGames, At, SweepLocal
  <1>2. SweepOf(sweep', "games")
    BY <1>1, SweepType DEF SweepOf, ExpiredGames, Expiring
  <1> QED
    BY <1>1, <1>2, MovesOn DEF Between

LEMMA SweepEndInv ==
  ASSUME SInv, SweepEnd
  PROVE  SInv'
  <1>1. pc[Sweeper] = "games" /\ Abort /\ UNCHANGED <<storeVars, connVars, lock, faults>>
        /\ faults' \in 0 .. MaxFaults
    BY SweeperFacts DEF SweepEnd, At
  <1> QED
    BY <1>1, AbortInv

-----------------------------------------------------------------------------
(* The sweeper closes a game of an expired player.                          *)

\* Under the lock of g with frame f.
LEMMA TakesLock ==
  ASSUME SInv, pc[Sweeper] \in {"closeGames", "games"}, NEW g \in Games, Hold(g, Sweeper),
         NEW stage \in {"closeSave", "deleteGame"}, Goto(Sweeper, stage),
         NEW f \in Frames, f.game = g, Keep(Sweeper, f)
  PROVE  /\ pc' \in [Procs -> Stages \cup SweeperStages] /\ \A c \in Conns : pc'[c] \in Stages
         /\ pc'[Sweeper] = stage /\ \A q \in Procs \ {Sweeper} : pc'[q] = pc[q]
         /\ fr' \in [Procs -> Frames \cup {NoFrame}]
         /\ fr'[Sweeper] = f /\ \A q \in Procs \ {Sweeper} : fr'[q] = fr[q]
         /\ lock' \in [Games -> Procs \cup {NoProc}] /\ lock[g] = NoProc /\ lock'[g] = Sweeper
         /\ \A h \in Games \ {g} : lock'[h] = lock[h]
         /\ Local(Sweeper)'
  <1>1. /\ Sweeper \in Procs /\ Typed /\ lock \in [Games -> Procs \cup {NoProc}]
        /\ Sweeper \notin Conns
    BY SweeperFacts, HubAssumption
  <1>2. lock[g] = NoProc /\ lock' = [lock EXCEPT ![g] = Sweeper]
    BY DEF Hold, Free
  <1>3. /\ pc' \in [Procs -> Stages \cup SweeperStages] /\ \A c \in Conns : pc'[c] \in Stages
        /\ pc'[Sweeper] = stage /\ \A q \in Procs \ {Sweeper} : pc'[q] = pc[q]
    BY <1>1, Moved DEF SweeperStages
  <1>4. /\ fr' \in [Procs -> Frames \cup {NoFrame}]
        /\ fr'[Sweeper] = f /\ \A q \in Procs \ {Sweeper} : fr'[q] = fr[q]
    BY <1>1, Kept
  <1>5. Local(Sweeper)'
    BY <1>1, <1>2, <1>3, <1>4 DEF Local, Locals, InGame, Holding, Operating, Detaching
  <1> QED
    BY <1>1, <1>2, <1>3, <1>4, <1>5

\* Somebody else has the lock, or nothing is left to do.
LEMMA StaysInv ==
  ASSUME SInv, pc[Sweeper] \in {"closeGames", "games"},
         UNCHANGED <<storeVars, connVars, lock, procVars, faults>>,
         NEW gs \in SUBSET Games,
         sweep' = [sweep EXCEPT !.open = gs] \/ sweep' = [sweep EXCEPT !.games = gs]
  PROVE  SInv'
  <1>1. Goto(Sweeper, pc[Sweeper]) /\ fr' = fr
    BY SweeperFacts DEF Goto, procVars, Typed
  <1>2. SweepOf(sweep', pc[Sweeper])
    <2>1. /\ sweep \in Sweeps /\ sweep.start <= now /\ sweep.conns = {}
          /\ pc[Sweeper] \in Expiring => sweep.player \in Players
      BY SweeperFacts DEF SweepLocal, At
    <2>2. /\ sweep' \in Sweeps /\ sweep'.start = sweep.start /\ sweep'.player = sweep.player
          /\ sweep'.conns = {}
      <3>1. CASE sweep' = [sweep EXCEPT !.open = gs]
        BY <2>1, <3>1, SweepType
      <3>2. CASE sweep' = [sweep EXCEPT !.games = gs]
        BY <2>1, <3>2, SweepType
      <3> QED
        BY <3>1, <3>2
    <2> QED
      BY <2>1, <2>2 DEF SweepOf
  <1>3. faults' \in 0 .. MaxFaults
    BY SweeperFacts
  <1> QED
    BY <1>1, <1>2, <1>3, MovesOn DEF Between

\* A write of the sweep fails: the lock is released and the sweep ends.
LEMMA FailsInv ==
  ASSUME SInv, NEW g \in Games, lock[g] = Sweeper, pc[Sweeper] # "closeNotify",
         Fault, Release(g), Abort, UNCHANGED <<storeVars, connVars>>
  PROVE  SInv'
  <1>1. /\ Sweeper \in Procs /\ Typed /\ lock \in [Games -> Procs \cup {NoProc}]
        /\ Goto(Sweeper, "asleep") /\ Keep(Sweeper, NoFrame) /\ sweep' = Asleep
        /\ lock' = [lock EXCEPT ![g] = NoProc] /\ faults' \in 0 .. MaxFaults
        /\ Sweeper \notin Conns
    BY SweeperFacts, FaultType, HubAssumption DEF Abort, Release
  <1>2. /\ pc' \in [Procs -> Stages \cup SweeperStages] /\ \A c \in Conns : pc'[c] \in Stages
        /\ pc'[Sweeper] = "asleep" /\ \A q \in Procs \ {Sweeper} : pc'[q] = pc[q]
        /\ fr' \in [Procs -> Frames \cup {NoFrame}]
        /\ \A q \in Procs \ {Sweeper} : fr'[q] = fr[q]
    BY <1>1, Moved, Kept DEF SweeperStages
  <1>3. Typed'
    BY <1>1, <1>2 DEF Typed, TypeOK, StoreTypeOK, storeVars, connVars
  <1>4. Footprint(Sweeper)
    BY <1>1, <1>2 DEF Footprint, storeVars, connVars
  <1>5. Local(Sweeper)'
    BY <1>1, <1>2 DEF Local, Locals, InGame, Holding, Operating, Detaching
  <1>6. IInv'
    <2>1. pc[Sweeper] \notin {"replace", "opNotify", "closeNotify"}
      BY SweeperFacts DEF SweepLocal, SweepStages
    <2> QED
      BY <1>1, <1>3, <1>4, <1>5, <2>1, QuietInv DEF SInv, storeVars
  <1>7. UsedRows' /\ SweepLocal'
    BY <1>1, <1>2, AsleepType, SweeperFacts
       DEF UsedRows, SweepLocal, SweepStages, Expiring, At, storeVars, Times
  <1> QED
    BY <1>6, <1>7 DEF SInv

LEMMA CloseLockInv ==
  ASSUME SInv, NEW g \in Games, CloseLock(g)
  PROVE  SInv'
  <1>1. PICK gs \in SUBSET Games : sweep' = [sweep EXCEPT !.open = gs]
    BY SweeperFacts, SweepType DEF CloseLock, SweepLocal
  <1>2. /\ pc[Sweeper] = "closeGames" /\ UNCHANGED <<storeVars, connVars, faults>>
        /\ sweep' \in Sweeps /\ sweep'.start = sweep.start /\ sweep'.player = sweep.player
        /\ sweep.player \in Players /\ sweep'.conns = {}
    <2>1. pc[Sweeper] = "closeGames" /\ UNCHANGED <<storeVars, connVars, faults>>
      BY DEF CloseLock, At
    <2>2. sweep \in Sweeps /\ sweep.player \in Players /\ sweep.conns = {}
      BY <2>1, SweeperFacts DEF SweepLocal, Expiring, At
    <2> QED
      BY <1>1, <2>1, <2>2, SweepType
  <1>3. CASE UNCHANGED <<lock, procVars>>
    BY <1>1, <1>2, <1>3, StaysInv
  <1>4. ASSUME Open(g), Hold(g, Sweeper), Goto(Sweeper, "closeSave"),
               Keep(Sweeper, [Frame("expire", Pending, g) EXCEPT
                                !.row = [games[g] EXCEPT !.st = Close(games[g].st)]])
        PROVE  SInv'
    <2>1. games[g] \in Row
      BY <1>4, SweeperFacts DEF Open
    <2>2. PICK row \in Row : row = [games[g] EXCEPT !.st = Close(games[g].st)]
      BY <2>1, RowParts, CloseType
    <2>3. PICK f \in Frames : /\ f = [Frame("expire", Pending, g) EXCEPT !.row = row]
                              /\ f.game = g /\ f.row = row
      <3>1. "expire" \in Ops \cup {"connect", "expire"} /\ Pending \in Moves
        BY DEF Moves
      <3>2. PICK e \in Frames : e = Frame("expire", Pending, g) /\ e.game = g
        BY <3>1, FrameType
      <3>3. /\ [e EXCEPT !.row = row] \in Frames
            /\ [e EXCEPT !.row = row].game = g /\ [e EXCEPT !.row = row].row = row
        BY <3>2, FrameKept
      <3> QED
        BY <3>2, <3>3
    <2>4. Keep(Sweeper, f)
      BY <1>4, <2>2, <2>3
    <2>5. /\ pc' \in [Procs -> Stages \cup SweeperStages] /\ \A c \in Conns : pc'[c] \in Stages
          /\ pc'[Sweeper] = "closeSave" /\ \A q \in Procs \ {Sweeper} : pc'[q] = pc[q]
          /\ fr' \in [Procs -> Frames \cup {NoFrame}]
          /\ fr'[Sweeper] = f /\ \A q \in Procs \ {Sweeper} : fr'[q] = fr[q]
          /\ lock' \in [Games -> Procs \cup {NoProc}] /\ lock[g] = NoProc /\ lock'[g] = Sweeper
          /\ \A h \in Games \ {g} : lock'[h] = lock[h]
          /\ Local(Sweeper)'
      BY <1>2, <1>4, <2>3, <2>4, TakesLock
    <2>6. Typed'
      BY <1>2, <2>5, SweeperFacts DEF Typed, TypeOK, StoreTypeOK, storeVars, connVars
    <2>7. Footprint(Sweeper)
      BY <1>2, <2>5 DEF Footprint, storeVars, connVars
    <2>8. IInv'
      BY <1>2, <2>5, <2>6, <2>7, QuietInv, SweeperFacts DEF SInv, storeVars
    <2>9. UsedRows' /\ SweepLocal'
      BY <1>2, <1>4, <2>1, <2>2, <2>3, <2>5, SweeperFacts
         DEF UsedRows, SweepLocal, Open, SweepStages, Expiring, At, storeVars
    <2> QED
      BY <2>8, <2>9 DEF SInv
  <1> QED
    BY <1>3, <1>4 DEF CloseLock

LEMMA CloseSaveInv ==
  ASSUME SInv, CloseSave
  PROVE  SInv'
  <1>1. PICK g \in Games, row \in Row :
          /\ g = fr[Sweeper].game /\ row = fr[Sweeper].row /\ pc[Sweeper] = "closeSave"
          /\ lock[g] = Sweeper /\ fr[Sweeper] \in Frames
          /\ games[g] \in Row /\ row = [games[g] EXCEPT !.st = Close(games[g].st)]
          /\ UNCHANGED connVars
    <2>1. pc[Sweeper] = "closeSave" /\ UNCHANGED connVars
      BY DEF CloseSave, At
    <2>2. /\ fr[Sweeper].game \in Games /\ lock[fr[Sweeper].game] = Sweeper
          /\ fr[Sweeper] \in Frames /\ games[fr[Sweeper].game] \in Row
          /\ fr[Sweeper].row = [games[fr[Sweeper].game] EXCEPT
                                  !.st = Close(games[fr[Sweeper].game].st)]
      BY <2>1, SweeperFacts DEF InGame, Holding, SweepLocal, At
    <2>3. fr[Sweeper].row \in Row
      BY <2>2, RowParts, CloseType
    <2> QED
      BY <2>1, <2>2, <2>3
  <1>2. row.who = games[g].who /\ row # NoRow
    BY <1>1, RowParts, CloseType, RowAssumption
  <1>3. CASE Fault /\ Release(g) /\ Abort /\ UNCHANGED storeVars
    BY <1>1, <1>3, FailsInv
  <1>4. CASE CanSave(g, row) /\ SaveGame(g, row, NoPlayer) /\ Goto(Sweeper, "closeNotify")
             /\ UNCHANGED <<lock, fr, sweep, faults>>
    <2>1. /\ games' = [games EXCEPT ![g] = row]
          /\ UNCHANGED <<players, active, used, now, lock, fr, sweep, faults, connVars>>
      BY <1>1, <1>4 DEF SaveGame
    <2>2. /\ games' \in [Games -> Row \cup {NoRow}] /\ games'[g] = row
          /\ \A h \in Games \ {g} : games'[h] = games[h]
      BY <2>1, SweeperFacts
    <2>3. /\ pc' \in [Procs -> Stages \cup SweeperStages] /\ \A c \in Conns : pc'[c] \in Stages
          /\ pc'[Sweeper] = "closeNotify" /\ \A q \in Procs \ {Sweeper} : pc'[q] = pc[q]
      BY <1>4, SweeperFacts, Moved DEF SweeperStages
    <2>4. Typed'
      BY <2>1, <2>2, <2>3, SweeperFacts DEF Typed, TypeOK, StoreTypeOK, connVars
    <2>5. Footprint(Sweeper)
      BY <1>1, <2>1, <2>2, <2>3 DEF Footprint, connVars
    <2>6. Local(Sweeper)'
      BY <1>1, <2>1, <2>3, HubAssumption DEF Local, Locals, InGame, Holding, Operating, Detaching
    <2>7. RegistriesAgree' /\ NewestRegistered'
      BY <1>1, <2>1, <2>5, SweeperFacts, RegistriesKept, NewestKept DEF SInv, connVars
    <2>8. ASSUME NEW h \in Games PROVE Backed(h)'
      <3>1. CASE h # g
        BY <1>1, <2>1, <2>2, <2>5, <3>1, SweeperFacts, BackedKept DEF SInv, connVars
      <3>2. CASE h = g
        <4>1. Closer(Sweeper, g)'
          BY <1>1, <2>1, <2>3 DEF Closer
        <4>2. Backed(g) /\ attached' = attached /\ conn' = conn /\ players' = players
          BY <2>1 DEF SInv, IInv, connVars
        <4>3. \A p : SeatOf(games'[g], p) = SeatOf(games[g], p)
          BY <1>2, <2>2, SeatOfSame
        <4> QED
          BY <1>2, <2>2, <3>2, <4>1, <4>2, <4>3, SweeperFacts DEF Backed
      <3> QED
        BY <3>1, <3>2
    <2>9. IInv'
      BY <2>4, <2>5, <2>6, <2>7, <2>8, SweeperFacts, StepInv DEF SInv
    <2>10. UsedRows'
      BY <1>1, <2>1, <2>2, RowAssumption DEF SInv, UsedRows
    <2>11. SweepLocal'
      BY <1>1, <2>1, <2>3, SweeperFacts DEF SweepLocal, SweepStages, Expiring, At
    <2> QED
      BY <2>9, <2>10, <2>11 DEF SInv
  <1> QED
    BY <1>1, <1>3, <1>4 DEF CloseSave

\* With or without the view, everybody is detached.
LEMMA CloseNotifyEffect ==
  ASSUME CloseNotify
  PROVE  /\ pc[Sweeper] = "closeNotify"
         /\ Detached(attached[fr[Sweeper].game], fr[Sweeper].game)
         /\ Release(fr[Sweeper].game)
         /\ Goto(Sweeper, "closeGames") /\ Keep(Sweeper, NoFrame)
         /\ UNCHANGED <<storeVars, conns, playerConn, sweep>>
         /\ UNCHANGED faults \/ Fault
  BY DEF CloseNotify, CloseGameFor, CloseBlind, Emptied, At

LEMMA CloseNotifyInv ==
  ASSUME SInv, CloseNotify
  PROVE  SInv'
  <1>1. PICK g \in Games :
          /\ g = fr[Sweeper].game /\ pc[Sweeper] = "closeNotify" /\ lock[g] = Sweeper
          /\ Detached(attached[g], g) /\ lock' = [lock EXCEPT ![g] = NoProc]
          /\ Goto(Sweeper, "closeGames") /\ Keep(Sweeper, NoFrame)
          /\ UNCHANGED <<storeVars, conns, playerConn, sweep>>
          /\ lock' \in [Games -> Procs \cup {NoProc}] /\ faults' \in 0 .. MaxFaults
    <2>1. /\ pc[Sweeper] = "closeNotify"
          /\ Detached(attached[fr[Sweeper].game], fr[Sweeper].game)
          /\ lock' = [lock EXCEPT ![fr[Sweeper].game] = NoProc]
          /\ Goto(Sweeper, "closeGames") /\ Keep(Sweeper, NoFrame)
          /\ UNCHANGED <<storeVars, conns, playerConn, sweep>>
          /\ faults' \in 0 .. MaxFaults
      BY CloseNotifyEffect, SweeperFacts, FaultType DEF Release
    <2>2. fr[Sweeper].game \in Games /\ lock[fr[Sweeper].game] = Sweeper
          /\ lock' \in [Games -> Procs \cup {NoProc}]
      BY <2>1, SweeperFacts DEF InGame, Holding
    <2> QED
      BY <2>1, <2>2
  <1>2. /\ attached' \in [Games -> SUBSET Conns] /\ conn' \in [Conns -> ConnFields]
        /\ \A h \in Games \ {g} : attached'[h] = attached[h]
        /\ attached'[g] = {}
        /\ \A d \in Conns : /\ conn'[d].player = conn[d].player
                            /\ conn'[d].closing = conn[d].closing
                            /\ \/ conn'[d].game = conn[d].game /\ conn'[d].seat = conn[d].seat
                               \/ conn[d].game = g /\ conn'[d].game = NoGame
        /\ RegistriesAgree'
    <2>1. IInv /\ attached[g] \subseteq Conns
      BY DEF SInv, IInv, Typed, TypeOK
    <2> QED
      BY <1>1, <2>1, DetachedConns
  <1>3. /\ pc' \in [Procs -> Stages \cup SweeperStages] /\ \A c \in Conns : pc'[c] \in Stages
        /\ pc'[Sweeper] = "closeGames" /\ \A q \in Procs \ {Sweeper} : pc'[q] = pc[q]
        /\ fr' \in [Procs -> Frames \cup {NoFrame}]
        /\ \A q \in Procs \ {Sweeper} : fr'[q] = fr[q]
    BY <1>1, SweeperFacts, Moved, Kept DEF SweeperStages
  <1>4. Typed'
    BY <1>1, <1>2, <1>3, SweeperFacts DEF Typed, TypeOK, StoreTypeOK, storeVars
  <1>5. Footprint(Sweeper)
    <2>1. \A h \in Games : lock[h] \notin {NoProc, Sweeper} => lock'[h] = lock[h]
      BY <1>1, SweeperFacts
    <2> QED
      BY <1>1, <1>2, <1>3, <2>1 DEF Footprint, storeVars
  <1>6. Local(Sweeper)'
    BY <1>3, HubAssumption DEF Local, Locals, InGame, Holding, Operating, Detaching
  <1>7. NewestRegistered'
    BY <1>1, <1>2, <1>5, SweeperFacts, NewestKept DEF SInv
  <1>8. ASSUME NEW h \in Games PROVE Backed(h)'
    <2>1. /\ Backed(h) /\ attached[h] \subseteq Conns
          /\ games' = games /\ players' = players /\ (Open(h)' <=> Open(h))
      BY <1>1 DEF SInv, IInv, Typed, TypeOK, storeVars, Open
    <2>2. CASE h = g
      BY <1>2, <2>2 DEF Backed
    <2>3. CASE h # g
      <3>1. \A d \in attached[h] : conn'[d].seat = conn[d].seat /\ conn'[d].player = conn[d].player
        <4>1. \A d \in attached[h] : conn[d].game # g
          BY <2>1, <2>3 DEF SInv, IInv, RegistriesAgree
        <4> QED
          BY <1>2, <2>1, <4>1
      <3>2. ASSUME NEW q \in Procs, Closer(q, h) PROVE Closer(q, h)'
        <4>1. q # Sweeper /\ lock[h] = q
          BY <1>1, <2>3, <3>2 DEF Closer
        <4>2. pc'[q] = pc[q] /\ fr'[q] = fr[q] /\ lock'[h] = q
          BY <1>1, <1>3, <2>3, <4>1, SweeperFacts
        <4> QED
          BY <3>2, <4>2 DEF Closer
      <3> QED
        BY <1>2, <2>1, <2>3, <3>1, <3>2 DEF Backed
    <2> QED
      BY <2>2, <2>3
  <1>9. IInv'
    BY <1>2, <1>4, <1>5, <1>6, <1>7, <1>8, SweeperFacts, StepInv DEF SInv
  <1>10. UsedRows' /\ SweepLocal'
    BY <1>1, <1>3, SweeperFacts
       DEF UsedRows, SweepLocal, SweepStages, Expiring, At, storeVars
  <1> QED
    BY <1>9, <1>10 DEF SInv

-----------------------------------------------------------------------------
(* The sweeper ends an expired player.                                      *)

LEMMA CloseConnInv ==
  ASSUME SInv, CloseConn
  PROVE  SInv'
  <1>1. /\ pc[Sweeper] = "closeGames" /\ sweep.player \in Players
        /\ UNCHANGED <<storeVars, conns, playerConn, attached, lock, faults, sweep>>
        /\ playerConn[sweep.player] \in Conns \cup {NoConn}
        /\ sweep \in Sweeps /\ sweep.start <= now /\ sweep.conns = {}
    BY SweeperFacts DEF CloseConn, At, SweepLocal, Expiring, Typed, TypeOK
  <1>2. CASE playerConn[sweep.player] = NoConn
    <2>1. Goto(Sweeper, "deletePlayer") /\ UNCHANGED <<fr, conn>>
      BY <1>2 DEF CloseConn
    <2>2. SweepOf(sweep', "deletePlayer") /\ faults' \in 0 .. MaxFaults
      BY <1>1, SweeperFacts DEF SweepOf
    <2> QED
      BY <1>1, <2>1, <2>2, MovesOn DEF Between, connVars
  <1>3. CASE playerConn[sweep.player] # NoConn
    <2>1. PICK c \in Conns, f \in Frames :
            /\ f.target = c /\ f.then = "deletePlayer"
            /\ Closed(c) /\ Goto(Sweeper, "detach") /\ Keep(Sweeper, f)
      <3>1. PICK c \in Conns : c = playerConn[sweep.player]
        BY <1>1, <1>3
      <3>2. PICK f \in Frames : /\ f = DetachFrame(c, "deletePlayer", NoGame)
                                /\ f.target = c /\ f.then = "deletePlayer"
        BY DetachFrameType
      <3> QED
        BY <1>3, <3>1, <3>2 DEF CloseConn
    <2>2. /\ conn' \in [Conns -> ConnFields] /\ conn'[c].closing
          /\ \A d \in Conns : /\ conn'[d].player = conn[d].player
                              /\ conn'[d].game = conn[d].game
                              /\ conn'[d].seat = conn[d].seat
                              /\ conn[d].closing => conn'[d].closing
      BY <2>1, SweeperFacts, ClosedConn
    <2>3. /\ pc' \in [Procs -> Stages \cup SweeperStages] /\ \A d \in Conns : pc'[d] \in Stages
          /\ pc'[Sweeper] = "detach" /\ \A q \in Procs \ {Sweeper} : pc'[q] = pc[q]
          /\ fr' \in [Procs -> Frames \cup {NoFrame}]
          /\ fr'[Sweeper] = f /\ \A q \in Procs \ {Sweeper} : fr'[q] = fr[q]
      BY <2>1, SweeperFacts, Moved, Kept DEF SweeperStages
    <2>4. Typed'
      BY <1>1, <2>2, <2>3, SweeperFacts DEF Typed, TypeOK, StoreTypeOK, storeVars
    <2>5. Footprint(Sweeper)
      BY <1>1, <2>2, <2>3 DEF Footprint, storeVars
    <2>6. Local(Sweeper)'
      BY <2>1, <2>3, HubAssumption DEF Local, Locals, InGame, Holding, Operating, Detaching
    <2>7. RegistriesAgree' /\ NewestRegistered'
      BY <1>1, <2>2, <2>5, SweeperFacts, RegistriesKept, NewestKept DEF SInv
    <2>8. \A g \in Games : Backed(g)'
      <3>1. \A g \in Games : attached[g] \subseteq Conns
        BY SweeperFacts DEF Typed, TypeOK
      <3> QED
        BY <1>1, <2>2, <2>5, <3>1, SweeperFacts, BackedKept DEF storeVars, SInv
    <2>9. IInv'
      BY <2>4, <2>5, <2>6, <2>7, <2>8, SweeperFacts, StepInv DEF SInv
    <2>10. UsedRows' /\ SweepLocal'
      BY <1>1, <2>3, SweeperFacts DEF UsedRows, SweepLocal, SweepStages, Expiring, At, storeVars
    <2> QED
      BY <2>9, <2>10 DEF SInv
  <1> QED
    BY <1>2, <1>3

LEMMA VacatedRow ==
  ASSUME NEW row \in Row, NEW p \in Players
  PROVE  /\ Vacated(row, p) \in Row /\ Vacated(row, p).st = row.st /\ Vacated(row, p).last = row.last
         /\ \A seat \in Seats :
              Vacated(row, p).who[seat] = IF row.who[seat] = p THEN NoPlayer ELSE row.who[seat]
  BY DEF Vacated, Row

LEMMA VacatedSeat ==
  ASSUME NEW row \in Row, NEW p \in Players, NEW q
  PROVE  /\ SeatOf(row, q) = NoSeat => SeatOf(Vacated(row, p), q) = NoSeat
         /\ q # p => SeatOf(Vacated(row, p), q) = SeatOf(row, q)
  <1>1. \A seat \in Seats :
          Vacated(row, p).who[seat] = IF row.who[seat] = p THEN NoPlayer ELSE row.who[seat]
    BY VacatedRow
  <1>2. "HOST" \in Seats /\ "GUEST" \in Seats /\ "HOST" # NoSeat /\ "GUEST" # NoSeat
    BY DEF Seats, NoSeat
  <1> QED
    BY <1>1, <1>2 DEF SeatOf

\* What DeletePlayer does to the rows.
LEMMA Deletion ==
  ASSUME SInv, NEW p \in Players, DeletePlayer(p)
  PROVE  /\ players' = players \ {p} /\ UNCHANGED <<active, used, now>>
         /\ games' \in [Games -> Row \cup {NoRow}]
         /\ \A g \in Games : games[g] = NoRow => games'[g] = NoRow
         /\ \A g \in Games : games[g] # NoRow =>
              /\ games[g] \in Row /\ games'[g] = Vacated(games[g], p) /\ games'[g] # NoRow
              /\ games'[g].st = games[g].st /\ games'[g].last = games[g].last
         /\ \A g \in Games : Open(g)' <=> Open(g)
  <1>1. games \in [Games -> Row \cup {NoRow}]
    BY SweeperFacts
  <1>2. \A g \in Games : games[g] # NoRow =>
              /\ games[g] \in Row /\ Vacated(games[g], p) \in Row
              /\ Vacated(games[g], p).st = games[g].st /\ Vacated(games[g], p).last = games[g].last
    BY <1>1, VacatedRow
  <1>3. /\ players' = players \ {p} /\ UNCHANGED <<active, used, now>>
        /\ games' = [g \in Games |-> IF games[g] = NoRow THEN NoRow ELSE Vacated(games[g], p)]
    BY DEF DeletePlayer
  <1> QED
    BY <1>2, <1>3, RowAssumption DEF Open

\* A handler's row still fits: the dead player may be in it.
LEMMA DeletionFits ==
  ASSUME SInv, NEW p \in Players, DeletePlayer(p), NEW row \in Row, NEW g \in Games,
         games[g] # NoRow, Fits(row, g)
  PROVE  Fits(row, g)'
  <1>1. /\ \A seat \in Seats :
             games'[g].who[seat] = IF games[g].who[seat] = p THEN NoPlayer ELSE games[g].who[seat]
        /\ players' = players \ {p}
    BY Deletion, VacatedRow
  <1> QED
    BY <1>1 DEF Fits

LEMMA DeletionReady ==
  ASSUME SInv, NEW p \in Players, DeletePlayer(p), NEW c \in Conns, UNCHANGED connVars,
         pc'[c] = pc[c], fr'[c] = fr[c]
  PROVE  Ready(c)'
  <1>1. Ready(c) /\ Locals(c) /\ conn' = conn
    BY DEF SInv, IInv, Local, Procs, connVars
  <1>2. CASE pc[c] \in {"connectSave", "connectAttach", "opSave"}
    <2>1. PICK g \in Games, row \in Row : g = fr[c].game /\ row = fr[c].row /\ games[g] # NoRow
      BY <1>1, <1>2 DEF Ready, Locals, InGame, Holding, Open
    <2>2. /\ games[g] \in Row /\ games'[g] # NoRow /\ games'[g].st = games[g].st
          /\ Open(g)' <=> Open(g)
          /\ games'[g] = Vacated(games[g], p) /\ players' = players \ {p}
          /\ \A seat \in Seats : games'[g].who[seat] =
               IF games[g].who[seat] = p THEN NoPlayer ELSE games[g].who[seat]
      BY <2>1, Deletion, VacatedRow
    <2>3. CASE pc[c] = "connectSave"
      <3>1. ASSUME Returns(row, g, conn[c].player) PROVE Returns(row, g, conn[c].player)'
        <4>1. Fits(row, g)'
          BY <2>1, <3>1, DeletionFits DEF Returns
        <4> QED
          BY <1>1, <2>2, <3>1, <4>1 DEF Returns
      <3>2. ASSUME Joins(row, g, conn[c].player) PROVE Joins(row, g, conn[c].player)'
        <4>1. SeatOf(games'[g], conn[c].player) = NoSeat
          BY <2>2, <3>2, VacatedSeat DEF Joins
        <4> QED
          BY <1>1, <2>2, <3>2, <4>1 DEF Joins, Seats
      <3> QED
        BY <1>1, <2>1, <2>2, <2>3, <3>1, <3>2 DEF Ready
    <2>4. CASE pc[c] = "connectAttach"
      <3>1. PICK r \in Row : r = [row EXCEPT !.st = games[g].st]
        BY <2>2, RowParts
      <3>2. Returns(r, g, conn[c].player) /\ Open(g)
        BY <1>1, <2>1, <2>4, <3>1 DEF Ready
      <3>3. Fits(r, g)'
        BY <2>1, <3>2, DeletionFits DEF Returns
      <3>4. Returns(r, g, conn[c].player)'
        BY <1>1, <2>2, <3>2, <3>3 DEF Returns
      <3>5. Returns([row EXCEPT !.st = games[g].st], g, conn[c].player)'
        BY <2>2, <3>1, <3>4
      <3> QED
        BY <1>1, <2>1, <2>2, <2>4, <3>2, <3>5 DEF Ready
    <2>5. CASE pc[c] = "opSave"
      <3>1. Fits(row, g)'
        BY <1>1, <2>1, <2>5, DeletionFits DEF Ready
      <3> QED
        BY <1>1, <2>1, <2>2, <2>5, <3>1 DEF Ready
    <2> QED
      BY <1>2, <2>3, <2>4, <2>5
  <1>3. CASE pc[c] \notin {"connectSave", "connectAttach", "opSave"}
    BY <1>3 DEF Ready
  <1> QED
    BY <1>2, <1>3

LEMMA ForgetPlayerInv ==
  ASSUME SInv, ForgetPlayer
  PROVE  SInv'
  <1>1. /\ pc[Sweeper] = "deletePlayer" /\ UNCHANGED connVars /\ lock' = lock
        /\ sweep.player \in Players /\ sweep \in Sweeps /\ sweep.start <= now /\ sweep.conns = {}
    BY SweeperFacts DEF ForgetPlayer, At, SweepLocal, Expiring
  <1>2. CASE Fault /\ Abort /\ UNCHANGED storeVars
    BY <1>1, <1>2, AbortInv, FaultType
  <1>3. CASE /\ DeletePlayer(sweep.player)
             /\ sweep' = [sweep EXCEPT !.player = NoPlayer]
             /\ Goto(Sweeper, "players")
             /\ UNCHANGED <<fr, faults>>
    <2>1. PICK p \in Players : p = sweep.player /\ DeletePlayer(p)
      BY <1>1, <1>3
    <2>2. /\ pc' \in [Procs -> Stages \cup SweeperStages] /\ \A c \in Conns : pc'[c] \in Stages
          /\ pc'[Sweeper] = "players" /\ \A q \in Procs \ {Sweeper} : pc'[q] = pc[q]
          /\ fr' = fr /\ faults' = faults
      BY <1>3, SweeperFacts, Moved DEF SweeperStages
    <2>3. /\ players' = players \ {p} /\ UNCHANGED <<active, used, now>>
          /\ games' \in [Games -> Row \cup {NoRow}]
      BY <2>1, Deletion
    <2>4. Typed'
      BY <1>1, <2>2, <2>3, SweeperFacts DEF Typed, TypeOK, StoreTypeOK, connVars
    <2>5. RegistriesAgree' /\ NewestRegistered'
      <3>1. RegistriesAgree'
        BY <1>1, RegistriesKept DEF SInv, connVars
      <3>2. NewestRegistered'
        BY <1>1, <2>2, HubAssumption
           DEF SInv, IInv, NewestRegistered, BeingReplaced, Live, connVars, Procs
      <3> QED
        BY <3>1, <3>2
    <2>6. ASSUME NEW g \in Games PROVE Backed(g)'
      <3>1. Backed(g) /\ attached' = attached /\ conn' = conn
        BY <1>1 DEF SInv, IInv, connVars
      <3>2. /\ games[g] # NoRow => games'[g] # NoRow /\ games[g] \in Row
                                   /\ games'[g] = Vacated(games[g], p)
            /\ Open(g) => Open(g)'
        BY <2>1, Deletion
      <3>3. ASSUME NEW q \in Procs, Closer(q, g) PROVE Closer(q, g)'
        BY <1>1, <2>2, <3>3 DEF Closer
      <3>4. ASSUME NEW c \in attached[g], conn[c].player \in players'
            PROVE  conn[c].seat = SeatOf(games'[g], conn[c].player)
        BY <2>3, <3>1, <3>2, <3>4, VacatedSeat DEF Backed
      <3> QED
        BY <3>1, <3>2, <3>3, <3>4 DEF Backed
    <2>7. ASSUME NEW q \in Procs PROVE Local(q)'
      <3>1. CASE q = Sweeper
        BY <2>2, <3>1, HubAssumption DEF Local, Locals, InGame, Holding, Operating, Detaching
      <3>2. CASE q # Sweeper
        <4>1. q \in Conns /\ pc'[q] = pc[q] /\ fr'[q] = fr[q] /\ Local(q) /\ conn' = conn
              /\ conns' = conns /\ lock' = lock
          BY <1>1, <2>2, <3>2 DEF Procs, SInv, IInv, connVars
        <4>2. Locals(q)' /\ Place(q)'
          BY <4>1 DEF Local, Locals, Place
        <4>3. Ready(q)'
          BY <1>1, <2>1, <4>1, DeletionReady
        <4> QED
          BY <4>2, <4>3 DEF Local
      <3> QED
        BY <3>1, <3>2
    <2>8. UsedRows'
      BY <2>1, Deletion, SweeperFacts DEF UsedRows
    <2>9. SweepLocal'
      BY <1>1, <1>3, <2>2, <2>3, SweepType DEF SweepLocal, SweepStages, Expiring, At
    <2> QED
      BY <2>4, <2>5, <2>6, <2>7, <2>8, <2>9 DEF SInv, IInv
  <1> QED
    BY <1>2, <1>3 DEF ForgetPlayer

-----------------------------------------------------------------------------
(* The sweeper deletes an expired game.                                     *)

LEMMA ExpireGameInv ==
  ASSUME SInv, NEW g \in Games, ExpireGame(g)
  PROVE  SInv'
  <1>1. /\ pc[Sweeper] = "games" /\ UNCHANGED <<storeVars, conns, playerConn, faults>>
        /\ sweep \in Sweeps /\ sweep.start <= now
        /\ sweep.games \ {g} \in SUBSET Games /\ attached[g] \in SUBSET Conns
    <2>1. pc[Sweeper] = "games" /\ UNCHANGED <<storeVars, conns, playerConn, faults>>
      BY DEF ExpireGame, At
    <2>2. sweep \in Sweeps /\ sweep.start <= now /\ attached[g] \in SUBSET Conns
      BY SweeperFacts DEF SweepLocal, Typed, TypeOK
    <2> QED
      BY <2>1, <2>2, SweepType
  <1>2. ASSUME UNCHANGED <<lock, procVars, attached, conn>>,
               sweep' = [sweep EXCEPT !.games = sweep.games \ {g}]
        PROVE  SInv'
    BY <1>1, <1>2, StaysInv DEF connVars
  <1>3. ASSUME StillExpired(g), Hold(g, Sweeper), Goto(Sweeper, "deleteGame"),
               Keep(Sweeper, Frame("expire", Pending, g)), Detached(attached[g], g),
               sweep' = [sweep EXCEPT !.games = sweep.games \ {g}, !.conns = attached[g]]
        PROVE  SInv'
    <2>1. games[g] \in Row /\ games[g].last < GameCutoff
      BY <1>3, SweeperFacts DEF StillExpired, ExpiredGames
    <2>2. PICK f \in Frames : f = Frame("expire", Pending, g) /\ f.game = g
      <3>1. "expire" \in Ops \cup {"connect", "expire"} /\ Pending \in Moves
        BY DEF Moves
      <3> QED
        BY <3>1, FrameType, ZenonT(30)
    <2>3. Keep(Sweeper, f)
      BY <1>3, <2>2
    <2>4. /\ pc' \in [Procs -> Stages \cup SweeperStages] /\ \A c \in Conns : pc'[c] \in Stages
          /\ pc'[Sweeper] = "deleteGame" /\ \A q \in Procs \ {Sweeper} : pc'[q] = pc[q]
          /\ fr' \in [Procs -> Frames \cup {NoFrame}]
          /\ fr'[Sweeper] = f /\ \A q \in Procs \ {Sweeper} : fr'[q] = fr[q]
          /\ lock' \in [Games -> Procs \cup {NoProc}] /\ lock[g] = NoProc /\ lock'[g] = Sweeper
          /\ \A h \in Games \ {g} : lock'[h] = lock[h]
          /\ Local(Sweeper)'
      BY <1>1, <1>3, <2>2, <2>3, TakesLock
    <2>5. /\ attached' \in [Games -> SUBSET Conns] /\ conn' \in [Conns -> ConnFields]
          /\ attached'[g] = {}
          /\ \A h \in Games \ {g} : attached'[h] = attached[h]
          /\ \A c \in Conns : /\ conn'[c].player = conn[c].player
                              /\ conn[c].closing => conn'[c].closing
                              /\ \/ conn'[c].game = conn[c].game /\ conn'[c].seat = conn[c].seat
                                 \/ conn[c].game = g /\ conn'[c].game = NoGame
          /\ RegistriesAgree'
      BY <1>1, <1>3, DetachedConns DEF SInv
    <2>6. sweep' \in Sweeps /\ sweep'.start = sweep.start
      BY <1>1, <1>3 DEF Sweeps
    <2>7. Typed'
      BY <1>1, <2>4, <2>5, SweeperFacts DEF Typed, TypeOK, StoreTypeOK, storeVars
    <2>8. Footprint(Sweeper)
      <3>1. \A h \in Games : attached'[h] \subseteq attached[h]
        BY <2>5
      <3> QED
        BY <1>1, <2>4, <2>5, <3>1 DEF Footprint, storeVars
    <2>9. NewestRegistered'
      BY <1>1, <2>5, <2>8, SweeperFacts, NewestKept DEF SInv
    <2>10. ASSUME NEW h \in Games PROVE Backed(h)'
      <3>1. CASE h = g
        BY <2>5, <3>1 DEF Backed
      <3>2. CASE h # g
        <4>1. \A c \in attached'[h] : conn'[c].seat = conn[c].seat
          BY <2>5, <3>2, SweeperFacts DEF SInv, IInv, RegistriesAgree, Typed, TypeOK
        <4> QED
          BY <1>1, <2>5, <2>8, <3>2, <4>1, SweeperFacts, BackedKept DEF SInv, storeVars
      <3> QED
        BY <3>1, <3>2
    <2>11. IInv'
      BY <2>4, <2>5, <2>7, <2>8, <2>9, <2>10, SweeperFacts, StepInv DEF SInv
    <2>12. UsedRows' /\ SweepLocal'
      BY <1>1, <2>1, <2>2, <2>4, <2>5, <2>6, SweeperFacts
         DEF UsedRows, SweepLocal, SweepStages, Expiring, At, storeVars, GameCutoff
    <2> QED
      BY <2>11, <2>12 DEF SInv
  <1> QED
    BY <1>2, <1>3 DEF ExpireGame, Evict

LEMMA CloseEvictedInv ==
  ASSUME SInv, NEW c \in Conns, CloseEvicted(c)
  PROVE  SInv'
  <1>1. /\ pc[Sweeper] = "deleteGame" /\ Closed(c)
        /\ UNCHANGED <<storeVars, conns, playerConn, attached, lock, procVars, faults>>
        /\ sweep' = [sweep EXCEPT !.conns = sweep.conns \ {c}]
        /\ sweep \in Sweeps /\ sweep.start <= now
        /\ Sweeper \in Procs /\ Typed
    BY SweeperFacts DEF CloseEvicted, At, SweepLocal
  <1>2. /\ conn' \in [Conns -> ConnFields] /\ conn'[c].closing
        /\ \A d \in Conns : /\ conn'[d].player = conn[d].player
                            /\ conn'[d].game = conn[d].game
                            /\ conn'[d].seat = conn[d].seat
                            /\ conn[d].closing => conn'[d].closing
    BY <1>1, ClosedConn
  <1>3. sweep' \in Sweeps /\ sweep'.start = sweep.start
    BY <1>1, SweepType
  <1>4. Typed'
    BY <1>1, <1>2, SweeperFacts DEF Typed, TypeOK, StoreTypeOK, storeVars, procVars
  <1>5. Footprint(Sweeper)
    BY <1>1, <1>2 DEF Footprint, storeVars, procVars
  <1>6. Local(Sweeper)'
    BY <1>1, SweeperFacts, HubAssumption
       DEF Local, Locals, InGame, Holding, Operating, Detaching, procVars
  <1>7. RegistriesAgree' /\ NewestRegistered'
    BY <1>1, <1>2, <1>5, SweeperFacts, RegistriesKept, NewestKept DEF SInv
  <1>8. \A g \in Games : Backed(g)'
    <2>1. \A g \in Games : attached[g] \subseteq Conns
      BY SweeperFacts DEF Typed, TypeOK
    <2> QED
      BY <1>1, <1>2, <1>5, <2>1, SweeperFacts, BackedKept DEF storeVars, SInv
  <1>9. IInv'
    BY <1>4, <1>5, <1>6, <1>7, <1>8, SweeperFacts, StepInv DEF SInv
  <1>10. UsedRows' /\ SweepLocal'
    BY <1>1, <1>3, SweeperFacts
       DEF UsedRows, SweepLocal, SweepStages, Expiring, At, storeVars, procVars, GameCutoff
  <1> QED
    BY <1>9, <1>10 DEF SInv

LEMMA ForgetGameInv ==
  ASSUME SInv, ForgetGame
  PROVE  SInv'
  <1>1. PICK g \in Games :
          /\ g = fr[Sweeper].game /\ pc[Sweeper] = "deleteGame" /\ lock[g] = Sweeper
          /\ attached[g] = {} /\ Release(g) /\ UNCHANGED connVars
          /\ sweep \in Sweeps /\ sweep.start <= now /\ sweep.conns = {}
    <2>1. /\ pc[Sweeper] = "deleteGame" /\ Release(fr[Sweeper].game) /\ UNCHANGED connVars
          /\ sweep.conns = {}
      BY DEF ForgetGame, At
    <2> QED
      BY <2>1, SweeperFacts DEF InGame, Holding, SweepLocal, At
  <1>2. CASE Fault /\ Abort /\ UNCHANGED storeVars
    BY <1>1, <1>2, FailsInv
  <1>3. CASE DeleteGame(g) /\ Goto(Sweeper, "games") /\ Keep(Sweeper, NoFrame)
             /\ UNCHANGED <<faults, sweep>>
    <2>1. /\ pc' \in [Procs -> Stages \cup SweeperStages] /\ \A c \in Conns : pc'[c] \in Stages
          /\ pc'[Sweeper] = "games" /\ \A q \in Procs \ {Sweeper} : pc'[q] = pc[q]
          /\ fr' \in [Procs -> Frames \cup {NoFrame}]
          /\ \A q \in Procs \ {Sweeper} : fr'[q] = fr[q]
      BY <1>3, SweeperFacts, Moved, Kept DEF SweeperStages
    <2>2. /\ games' = [games EXCEPT ![g] = NoRow]
          /\ UNCHANGED <<players, active, used, now, faults, sweep>>
      BY <1>3 DEF DeleteGame
    <2>3. /\ games' \in [Games -> Row \cup {NoRow}] /\ games'[g] = NoRow
          /\ \A h \in Games \ {g} : games'[h] = games[h]
      BY <2>2, SweeperFacts
    <2>4. /\ lock' \in [Games -> Procs \cup {NoProc}]
          /\ \A h \in Games \ {g} : lock'[h] = lock[h]
      BY <1>1, SweeperFacts DEF Release
    <2>5. Typed'
      BY <1>1, <2>1, <2>2, <2>3, <2>4, SweeperFacts DEF Typed, TypeOK, StoreTypeOK, connVars
    <2>6. Footprint(Sweeper)
      BY <1>1, <2>1, <2>2, <2>3, <2>4 DEF Footprint, connVars
    <2>7. Local(Sweeper)'
      BY <2>1, HubAssumption DEF Local, Locals, InGame, Holding, Operating, Detaching
    <2>8. RegistriesAgree' /\ NewestRegistered'
      BY <1>1, <2>6, SweeperFacts, RegistriesKept, NewestKept DEF SInv, connVars
    <2>9. ASSUME NEW h \in Games PROVE Backed(h)'
      <3>1. CASE h = g
        BY <1>1, <3>1 DEF Backed, connVars
      <3>2. CASE h # g
        BY <1>1, <2>3, <2>6, <3>2, SweeperFacts, BackedKept DEF SInv, connVars
      <3> QED
        BY <3>1, <3>2
    <2>10. IInv'
      BY <2>5, <2>6, <2>7, <2>8, <2>9, SweeperFacts, StepInv DEF SInv
    <2>11. UsedRows' /\ SweepLocal'
      BY <1>1, <2>1, <2>2, <2>3, SweeperFacts DEF UsedRows, SweepLocal, SweepStages, Expiring, At
    <2> QED
      BY <2>10, <2>11 DEF SInv
  <1> QED
    BY <1>1, <1>2, <1>3 DEF ForgetGame

LEMMA SweeperDetachInv ==
  ASSUME SInv, DetachStep(Sweeper), sweep' = sweep
  PROVE  SInv'
  <1>1. IInv'
    BY SweeperFacts, DetachStepInv DEF SInv
  <1>2. pc[Sweeper] \in {"detach", "detachLock"} /\ UNCHANGED storeVars
    BY DEF DetachStep, DetachLook, DetachRetry, Detach
  <1>3. fr[Sweeper].then = "deletePlayer"
    BY <1>2, SweeperFacts DEF Locals, Detaching
  <1>4. pc'[Sweeper] \in {"detach", "detachLock", "deletePlayer"}
    <2>1. Continue(Sweeper) => pc'[Sweeper] = "deletePlayer"
      BY <1>3, SweeperFacts DEF Continue, Goto, Typed
    <2>2. \A stage : Goto(Sweeper, stage) => pc'[Sweeper] = stage
      BY SweeperFacts DEF Goto, Typed
    <2> QED
      BY <2>1, <2>2 DEF DetachStep, DetachLook, DetachRetry, Detach
  <1>5. UsedRows' /\ SweepLocal'
    BY <1>2, <1>4, SweeperFacts
       DEF UsedRows, SweepLocal, SweepStages, Expiring, At, storeVars
  <1> QED
    BY <1>1, <1>5 DEF SInv

LEMMA SweepStepInv ==
  ASSUME SInv, SweepStep
  PROVE  SInv'
  BY SweepBeginInv, ListOpenGamesInv, CloseSaveInv, CloseNotifyInv, CloseConnInv, ForgetPlayerInv,
     ListGamesInv, ForgetGameInv, SweepEndInv, ReadFailsInv, ExpirePlayerInv, CloseLockInv,
     ExpireGameInv, CloseEvictedInv, SweeperDetachInv DEF SweepStep

-----------------------------------------------------------------------------
(* Games created, time, crashes.                                            *)

\* Nothing happens, but that a statement may fail.
Idles ==
  /\ UNCHANGED <<storeVars, connVars, lock, procVars, shown, sweep>>
  /\ UNCHANGED faults \/ Fault

\* A game is made whose request read the clock at time t.
Posted(g, t) ==
  /\ CreateGame(g, HostOf[g], t)
  /\ UNCHANGED <<connVars, lock, procVars, shown, faults, sweep>>

Posts(g) == \E t \in Times : Posted(g, t)

\* A step as it affects everything but the requests under way.
ServerStep ==
  \/ Idles
  \/ \E g \in Games : Posts(g)
  \/ Tick \/ Restart
  \/ \E c \in Conns : (Client(c) \/ Handler(c)) /\ UNCHANGED sweep
  \/ SweepStep

LEMMA ServerCases ==
  ASSUME ServerNext \/ UNCHANGED vars
  PROVE  ServerStep
  <1>1. ASSUME UNCHANGED vars PROVE Idles
    BY <1>1 DEF Idles, vars, hubVars
  <1>2. ASSUME NEW g \in Games, PostBegin(g) PROVE Idles
    BY <1>2 DEF PostBegin, Idles, hubVars
  <1>3. ASSUME NEW g \in Games, NEW t \in Times, PostGame(g, t) PROVE Posts(g) \/ Idles
    BY <1>3 DEF PostGame, Posts, Posted, Idles
  <1> QED
    BY <1>1, <1>2, <1>3 DEF ServerStep, ServerNext, Post, Goroutine

LEMMA PostGameInv ==
  ASSUME SInv, NEW g \in Games, NEW t \in Times, Posted(g, t)
  PROVE  SInv'
  <1>1. /\ CreateGame(g, HostOf[g], t)
        /\ UNCHANGED <<connVars, lock, procVars, faults, sweep>>
        /\ HostOf[g] \in Players
    BY HubAssumption DEF Posted
  <1>2. /\ g \notin used /\ used' = used \cup {g} /\ UNCHANGED <<players, now>>
        /\ games' = [games EXCEPT ![g] = Created(HostOf[g], t)]
        /\ active' = Touched(HostOf[g], t)
    BY <1>1 DEF CreateGame
  <1>3. games[g] = NoRow /\ attached[g] = {}
    BY <1>2 DEF SInv, UsedRows, IInv, Backed
  <1>4. /\ games' \in [Games -> Row \cup {NoRow}]
        /\ \A h \in Games \ {g} : games'[h] = games[h]
    <2>1. Created(HostOf[g], t) \in Row
      BY <1>1, CreatedType, SweeperFacts
    <2> QED
      BY <1>2, <2>1, SweeperFacts
  <1>5. Typed'
    <2>1. active' \in [Players -> Times]
      BY <1>1, <1>2, TouchedType, SweeperFacts
    <2> QED
      BY <1>1, <1>2, <1>4, <2>1, SweeperFacts DEF Typed, TypeOK, StoreTypeOK, connVars, procVars
  <1>6. RegistriesAgree' /\ NewestRegistered'
    BY <1>1 DEF SInv, IInv, RegistriesAgree, NewestRegistered, BeingReplaced, Live,
                connVars, procVars
  <1>7. ASSUME NEW h \in Games PROVE Backed(h)'
    <2>1. Backed(h) /\ attached' = attached /\ conn' = conn /\ players' = players
          /\ lock' = lock /\ pc' = pc /\ fr' = fr
      BY <1>1, <1>2 DEF SInv, IInv, connVars, procVars
    <2>2. h # g => games'[h] = games[h]
      BY <1>4
    <2> QED
      BY <1>3, <2>1, <2>2 DEF Backed, Open, Closer
  <1>8. ASSUME NEW q \in Procs PROVE Local(q)'
    <2>1. Local(q) /\ conns' = conns /\ conn' = conn /\ players' = players
          /\ lock' = lock /\ pc' = pc /\ fr' = fr
      BY <1>1, <1>2 DEF SInv, IInv, connVars, procVars
    <2>2. Locals(q)' /\ (q \in Conns => Place(q)')
      BY <2>1 DEF Local, Locals, Place
    <2>3. ASSUME q \in Conns PROVE Ready(q)'
      <3>1. pc[q] \in {"connectSave", "connectAttach", "opSave"} =>
              fr[q].game \in Games /\ games[fr[q].game] # NoRow
        BY <2>1, <2>3 DEF Local, Locals, Ready, InGame, Holding, Open
      <3>2. pc[q] \in {"connectSave", "connectAttach", "opSave"} =>
              games'[fr[q].game] = games[fr[q].game]
        BY <1>3, <1>4, <3>1
      <3> QED
        BY <2>1, <2>3, <3>2, ReadyKept DEF Local
    <2> QED
      BY <2>2, <2>3 DEF Local
  <1>9. UsedRows'
    BY <1>2, <1>4 DEF SInv, UsedRows
  <1>10. SweepLocal'
    <2>1. At("closeSave") \/ At("deleteGame") =>
            fr[Sweeper].game \in Games /\ games[fr[Sweeper].game] \in Row
      BY SweeperFacts DEF SweepLocal, At, InGame, Holding
    <2>2. At("closeSave") \/ At("deleteGame") => games'[fr[Sweeper].game] = games[fr[Sweeper].game]
      BY <1>3, <1>4, <2>1, RowAssumption
    <2> QED
      BY <1>1, <1>2, <2>2, SweeperFacts
         DEF SweepLocal, Open, At, GameCutoff, connVars, procVars
  <1> QED
    BY <1>5, <1>6, <1>7, <1>8, <1>9, <1>10 DEF SInv, IInv

LEMMA TickInv ==
  ASSUME SInv, Tick
  PROVE  SInv'
  <1>1. /\ now < MaxNow /\ now' = now + 1
        /\ UNCHANGED <<players, active, games, used, connVars, lock, procVars, faults, sweep>>
    BY DEF Tick
  <1>2. now \in Times /\ now' \in Times
    BY <1>1, SweeperFacts, StoreAssumption DEF Times
  <1>3. Typed'
    BY <1>1, <1>2, SweeperFacts DEF Typed, TypeOK, StoreTypeOK, connVars, procVars
  <1>4. RegistriesAgree' /\ NewestRegistered' /\ \A g \in Games : Backed(g)'
    BY <1>1 DEF SInv, IInv, RegistriesAgree, NewestRegistered, BeingReplaced, Live,
                Backed, Closer, Open, connVars, procVars
  <1>5. \A q \in Procs : Local(q)'
    BY <1>1, SameLocal DEF SInv, IInv, connVars, procVars
  <1>6. UsedRows'
    BY <1>1 DEF SInv, UsedRows
  <1>7. SweepLocal'
    <2>1. sweep.start <= now'
      BY <1>1, <1>2, SweeperFacts, StoreAssumption DEF SweepLocal, Sweeps, Times
    <2> QED
      BY <1>1, <2>1, SweeperFacts
         DEF SweepLocal, Open, At, GameCutoff, connVars, procVars
  <1> QED
    BY <1>3, <1>4, <1>5, <1>6, <1>7 DEF SInv, IInv

\* A process that has just started.
Restarted ==
  /\ StoreTypeOK /\ UsedRows
  /\ conns = {} /\ playerConn = [p \in Players |-> NoConn]
  /\ attached = [g \in Games |-> {}]
  /\ conn \in [Conns -> ConnFields]
  /\ \A c \in Conns : conn[c].player = NoPlayer /\ conn[c].game = NoGame
  /\ lock = [g \in Games |-> NoProc]
  /\ pc \in [Procs -> {"asleep", "unborn", "gone"}]
  /\ pc[Sweeper] = "asleep" /\ \A c \in Conns : pc[c] \in {"unborn", "gone"}
  /\ fr = [p \in Procs |-> NoFrame]
  /\ faults \in 0 .. MaxFaults
  /\ sweep = Asleep

LEMMA RestartedInv == Restarted => SInv
  <1> SUFFICES ASSUME Restarted PROVE SInv
    OBVIOUS
  <1> USE DEF Restarted
  <1>1. Typed
    BY HubAssumption DEF Typed, TypeOK, Stages, SweeperStages, Procs
  <1>2. RegistriesAgree /\ NewestRegistered
    BY HubAssumption DEF RegistriesAgree, NewestRegistered, Live
  <1>3. \A g \in Games : Backed(g)
    BY DEF Backed
  <1>4. ASSUME NEW p \in Procs PROVE Local(p)
    <2>1. pc[p] \in {"asleep", "unborn", "gone"}
      OBVIOUS
    <2>2. Locals(p)
      BY <2>1 DEF Locals, InGame, Holding, Operating, Detaching
    <2>3. ASSUME p \in Conns PROVE Place(p) /\ Ready(p)
      <3>1. pc[p] \in {"unborn", "gone"}
        BY <2>3
      <3> QED
        BY <2>3, <3>1 DEF Place, Ready, Connecting, Operating
    <2> QED
      BY <2>2, <2>3 DEF Local
  <1>5. SweepLocal
    BY AsleepType, StoreAssumption
       DEF SweepLocal, SweepStages, Expiring, At, StoreTypeOK, Times
  <1> QED
    BY <1>1, <1>2, <1>3, <1>4, <1>5 DEF SInv, IInv

LEMMA NewConnType ==
  /\ NewConn \in ConnFields /\ NewConn.player = NoPlayer /\ NewConn.game = NoGame
  /\ [NewConn EXCEPT !.closing = TRUE] \in ConnFields
  /\ [NewConn EXCEPT !.closing = TRUE].player = NoPlayer
  /\ [NewConn EXCEPT !.closing = TRUE].game = NoGame
  BY DEF NewConn, ConnFields, NoSeat

LEMMA RestartInv ==
  ASSUME SInv, Restart
  PROVE  SInv'
  <1>1. /\ conns' = {} /\ playerConn' = [p \in Players |-> NoConn]
        /\ attached' = [g \in Games |-> {}] /\ lock' = [g \in Games |-> NoProc]
        /\ pc' = [p \in Procs |-> IF p = Sweeper THEN "asleep"
                                  ELSE IF pc[p] = "unborn" THEN "unborn" ELSE "gone"]
        /\ fr' = [p \in Procs |-> NoFrame]
        /\ sweep' = Asleep
        /\ UNCHANGED <<storeVars, faults>>
    BY DEF Restart
  <1>2. /\ conn' \in [Conns -> ConnFields]
        /\ \A c \in Conns : conn'[c].player = NoPlayer /\ conn'[c].game = NoGame
    <2>1. conn' = [c \in Conns |-> IF pc[c] = "unborn" THEN NewConn
                                   ELSE [NewConn EXCEPT !.closing = TRUE]]
      BY DEF Restart
    <2> QED
      BY <2>1, NewConnType
  <1>3. /\ pc' \in [Procs -> {"asleep", "unborn", "gone"}]
        /\ pc'[Sweeper] = "asleep" /\ \A c \in Conns : pc'[c] \in {"unborn", "gone"}
    BY <1>1, HubAssumption DEF Procs
  <1>4. (StoreTypeOK /\ UsedRows)' /\ faults' \in 0 .. MaxFaults
    BY <1>1, SweeperFacts DEF StoreTypeOK, UsedRows, storeVars, Typed, TypeOK
  <1>5. Restarted'
    BY <1>1, <1>2, <1>3, <1>4 DEF Restarted
  <1> QED
    BY <1>5, RestartedInv, PTL

LEMMA ServerInitInv ==
  ASSUME ServerInit
  PROVE  SInv
  <1>1. /\ players = Players /\ active = [p \in Players |-> 0]
        /\ games = [g \in Games |-> NoRow] /\ used = {} /\ now = 0
        /\ conns = {} /\ playerConn = [p \in Players |-> NoConn]
        /\ attached = [g \in Games |-> {}] /\ conn = [c \in Conns |-> NewConn]
        /\ lock = [g \in Games |-> NoProc]
        /\ pc = [p \in Procs |-> IF p = Sweeper THEN "asleep" ELSE "unborn"]
        /\ fr = [p \in Procs |-> NoFrame] /\ faults = 0 /\ sweep = Asleep
    BY DEF ServerInit, HubInit
  <1>2. StoreTypeOK /\ UsedRows
    <2>1. 0 \in Times
      BY StoreAssumption DEF Times
    <2> QED
      BY <1>1, <2>1 DEF StoreTypeOK, UsedRows
  <1>3. /\ conn \in [Conns -> ConnFields]
        /\ \A c \in Conns : conn[c].player = NoPlayer /\ conn[c].game = NoGame
    BY <1>1, NewConnType
  <1>4. /\ pc \in [Procs -> {"asleep", "unborn", "gone"}]
        /\ pc[Sweeper] = "asleep" /\ \A c \in Conns : pc[c] \in {"unborn", "gone"}
    BY <1>1, HubAssumption DEF Procs
  <1>5. faults \in 0 .. MaxFaults
    BY <1>1, HubAssumption
  <1> QED
    BY <1>1, <1>2, <1>3, <1>4, <1>5, RestartedInv DEF Restarted

LEMMA IdlesInv ==
  ASSUME SInv, Idles
  PROVE  SInv'
  <1>1. /\ UNCHANGED <<players, active, games, used, now, connVars, lock, procVars, sweep>>
        /\ faults' \in 0 .. MaxFaults
    BY SweeperFacts, FaultType DEF Idles, storeVars
  <1>2. Typed'
    BY <1>1, SweeperFacts DEF Typed, TypeOK, StoreTypeOK, connVars, procVars
  <1>3. RegistriesAgree' /\ NewestRegistered' /\ \A g \in Games : Backed(g)'
    BY <1>1 DEF SInv, IInv, RegistriesAgree, NewestRegistered, BeingReplaced, Live,
                Backed, Closer, Open, connVars, procVars
  <1>4. \A q \in Procs : Local(q)'
    BY <1>1, SameLocal DEF SInv, IInv, connVars, procVars
  <1>5. UsedRows' /\ SweepLocal'
    BY <1>1 DEF SInv, UsedRows, SweepLocal, Open, At, GameCutoff, connVars, procVars
  <1> QED
    BY <1>2, <1>3, <1>4, <1>5 DEF SInv, IInv

LEMMA ServerNextInv == SInv /\ [ServerNext]_vars => SInv'
  <1>1. ASSUME SInv, NEW c \in Conns, (Client(c) \/ Handler(c)) /\ UNCHANGED sweep PROVE SInv'
    BY <1>1, HubStepInv
  <1> QED
    BY <1>1, ServerCases, PostGameInv, TickInv, RestartInv, SweepStepInv, IdlesInv DEF ServerStep, Posts

(***************************************************************************)
(* The hub's invariant survives games created, expired and deleted,        *)
(* players deleted under running handlers, failing statements and crashes. *)
(***************************************************************************)
THEOREM ServerInvariant == ServerSpec => []SInv
  <1>1. ServerInit => SInv
    BY ServerInitInv
  <1> QED
    BY <1>1, ServerNextInv, PTL DEF ServerSpec

(***************************************************************************)
(* The sweep and everything it works on keep their types.                  *)
(***************************************************************************)
THEOREM ServerTypeCorrect == ServerSpec => []ServerTypeOK
  <1> DEFINE PostsTyped == posts \subseteq Games \X Times
  <1>1. SInv /\ PostsTyped => ServerTypeOK
    BY DEF SInv, IInv, Typed, SweepLocal, ServerTypeOK
  <1>2. ServerInit => PostsTyped
    BY DEF ServerInit
  <1>3. SInv /\ PostsTyped /\ [ServerNext]_vars => PostsTyped'
    <2>1. ASSUME SInv, PostsTyped, NEW g \in Games, PostBegin(g) PROVE PostsTyped'
      BY <2>1, SweeperFacts DEF PostBegin
    <2>2. ASSUME PostsTyped, NEW g \in Games, NEW t \in Times, PostGame(g, t) PROVE PostsTyped'
      BY <2>2 DEF PostGame
    <2>3. ASSUME PostsTyped, Tick \/ Restart \/ Goroutine \/ UNCHANGED vars PROVE PostsTyped'
      BY <2>3 DEF Tick, Restart, Goroutine, vars
    <2> QED
      BY <2>1, <2>2, <2>3 DEF ServerNext, Post
  <1> QED
    BY <1>1, <1>2, <1>3, ServerInvariant, PTL DEF ServerSpec

(***************************************************************************)
(* With the sweeper too, nobody stays attached to a game that is gone or   *)
(* closed, or to a seat that is somebody else's.                           *)
(***************************************************************************)
THEOREM AttachmentsBackedOnServer == ServerSpec => []AttachmentBacked
  <1>1. SInv => AttachmentBacked
    <2> SUFFICES ASSUME SInv, NEW g \in Games, Free(g), NEW c \in attached[g]
                 PROVE  /\ Open(g)
                        /\ conn[c].player \in players =>
                             conn[c].seat = SeatOf(games[g], conn[c].player)
      BY DEF AttachmentBacked
    <2>1. \A p \in Procs : ~Closer(p, g)
      BY HubAssumption DEF Closer, Free, Procs
    <2> QED
      BY <2>1 DEF SInv, IInv, Backed
  <1> QED
    BY <1>1, ServerInvariant, PTL

-----------------------------------------------------------------------------
(* What happens to the rows.                                                *)

\* Every change of a row: a save, a creation, a deletion.
LEMMA RowChanges ==
  ASSUME SInv, ServerStep
  PROVE  \/ games' = games
         \/ \E g \in Games, row \in Row :
              Stored(g, row) /\ (SameSeats(g, row) \/ GuestJoins(g, row))
         \/ \E g \in Games, row \in Row : games[g] = NoRow /\ games' = [games EXCEPT ![g] = row]
         \/ \E p \in Players : DeletePlayer(p)
         \/ \E g \in Games : /\ games' = [games EXCEPT ![g] = NoRow]
                             /\ games[g].last < now - GameTTL /\ now' = now
  <1> DEFINE Saves   == \E g \in Games, row \in Row :
                          Stored(g, row) /\ (SameSeats(g, row) \/ GuestJoins(g, row))
             Creates == \E g \in Games, row \in Row :
                          games[g] = NoRow /\ games' = [games EXCEPT ![g] = row]
             Forgets == \E p \in Players : DeletePlayer(p)
             Deletes == \E g \in Games : /\ games' = [games EXCEPT ![g] = NoRow]
                                         /\ games[g].last < now - GameTTL /\ now' = now
             Changes == games' = games \/ Saves \/ Creates \/ Forgets \/ Deletes
  <1>1. ASSUME NEW g \in Games, NEW t \in Times, Posted(g, t) PROVE Creates
    <2>1. /\ g \notin used /\ games' = [games EXCEPT ![g] = Created(HostOf[g], t)]
      BY <1>1 DEF Posted, CreateGame
    <2>2. Created(HostOf[g], t) \in Row
      BY CreatedType, SweeperFacts, HubAssumption
    <2>3. games[g] = NoRow
      BY <2>1 DEF SInv, UsedRows
    <2> QED
      BY <2>1, <2>2, <2>3
  <1>2. Idles \/ Tick \/ Restart => games' = games
    BY DEF Idles, Tick, Restart, storeVars
  <1>3. ASSUME NEW c \in Conns, Client(c) \/ Handler(c) PROVE games' = games \/ Saves
    <2>1. HubNext
      BY <1>3 DEF HubNext
    <2> QED
      BY <2>1, OnlySavesChange, ConnectSaveEffect, OpSaveEffect DEF SInv, Reconnects
  <1>4. ASSUME CloseSave PROVE games' = games \/ Saves
    <2>1. PICK g \in Games, row \in Row :
            /\ g = fr[Sweeper].game /\ row = fr[Sweeper].row
            /\ games[g] \in Row /\ row = [games[g] EXCEPT !.st = Close(games[g].st)]
      <3>1. pc[Sweeper] = "closeSave"
        BY <1>4 DEF CloseSave, At
      <3>2. /\ fr[Sweeper].game \in Games /\ games[fr[Sweeper].game] \in Row
            /\ fr[Sweeper].row = [games[fr[Sweeper].game] EXCEPT
                                    !.st = Close(games[fr[Sweeper].game].st)]
        BY <3>1, SweeperFacts DEF InGame, Holding, SweepLocal, At
      <3>3. fr[Sweeper].row \in Row
        BY <3>2, RowParts, CloseType
      <3> QED
        BY <3>2, <3>3
    <2>2. SameSeats(g, row)
      BY <2>1, RowParts, CloseType DEF SameSeats
    <2>3. games' = games \/ (games' = [games EXCEPT ![g] = row] /\ used' = used)
      BY <1>4, <2>1 DEF CloseSave, SaveGame, storeVars
    <2> QED
      BY <2>1, <2>2, <2>3 DEF Stored
  <1>5. ASSUME ForgetPlayer PROVE games' = games \/ Forgets
    BY <1>5, SweeperFacts DEF ForgetPlayer, At, SweepLocal, Expiring, storeVars
  <1>6. ASSUME ForgetGame PROVE games' = games \/ Deletes
    <2>1. PICK g \in Games : /\ g = fr[Sweeper].game
                             /\ games[g] \in Row /\ games[g].last < GameCutoff
                             /\ sweep \in Sweeps /\ sweep.start <= now
      <3>1. At("deleteGame") /\ pc[Sweeper] = "deleteGame"
        BY <1>6 DEF ForgetGame, At
      <3> QED
        BY <3>1, SweeperFacts DEF InGame, Holding, SweepLocal
    <2>2. games[g].last < now - GameTTL
      <3>1. games[g].last \in Nat /\ sweep.start \in Nat /\ now \in Nat /\ GameTTL \in Nat
        BY <2>1, SweeperFacts, StoreAssumption, ServerAssumption DEF Row, Sweeps, Times
      <3> QED
        BY <2>1, <3>1 DEF GameCutoff
    <2>3. games' = games \/ (games' = [games EXCEPT ![g] = NoRow] /\ now' = now)
      BY <1>6, <2>1 DEF ForgetGame, DeleteGame, storeVars
    <2> QED
      BY <2>2, <2>3
  <1>7. SweepBegin \/ ListOpenGames \/ CloseConn \/ ListGames \/ SweepEnd \/ ReadFails
          \/ (\E c \in Conns : CloseEvicted(c)) => games' = games
    BY DEF SweepBegin, ListOpenGames, CloseConn, ListGames, SweepEnd, ReadFails, CloseEvicted,
           storeVars
  <1>8. CloseNotify => games' = games
    BY CloseNotifyEffect DEF storeVars
  <1>9. DetachStep(Sweeper) => games' = games
    BY DEF DetachStep, DetachLook, DetachRetry, Detach, storeVars
  <1>10. /\ \A p \in Players : ExpirePlayer(p) => games' = games
         /\ \A g \in Games : CloseLock(g) \/ ExpireGame(g) => games' = games
    BY DEF ExpirePlayer, CloseLock, ExpireGame, storeVars
  <1>11. SweepStep => Changes
    BY <1>4, <1>5, <1>6, <1>7, <1>8, <1>9, <1>10 DEF SweepStep
  <1> QED
    BY <1>1, <1>2, <1>3, <1>11 DEF ServerStep, Posts

(***************************************************************************)
(* A row is only ever deleted after its TTL: the sweeper's second look     *)
(* under the lock holds until it deletes.                                  *)
(***************************************************************************)
THEOREM NoLiveGameDeleted == ServerSpec => OnlyIdleGamesDeleted
  <1>1. SInv /\ [ServerNext]_vars =>
          [\A g \in Games :
             games[g] # NoRow /\ games'[g] = NoRow => games[g].last < now - GameTTL]_vars
    <2> SUFFICES ASSUME SInv, ServerStep, NEW g \in Games, games[g] # NoRow, games'[g] = NoRow
                 PROVE  games[g].last < now - GameTTL
      BY ServerCases
    <2>1. games \in [Games -> Row \cup {NoRow}]
      BY SweeperFacts
    <2>2. games' # games
      OBVIOUS
    <2>3. ~\E h \in Games, row \in Row : games' = [games EXCEPT ![h] = row]
      BY <2>1, RowAssumption
    <2>4. ~\E p \in Players : DeletePlayer(p)
      BY Deletion
    <2>5. PICK h \in Games : /\ games' = [games EXCEPT ![h] = NoRow]
                             /\ games[h].last < now - GameTTL
      BY <2>2, <2>3, <2>4, RowChanges DEF Stored
    <2>6. h = g
      BY <2>1, <2>5
    <2> QED
      BY <2>5, <2>6
  <1> QED
    BY <1>1, ServerInvariant, PTL DEF ServerSpec, OnlyIdleGamesDeleted

\* A seat that changes is vacated by a deletion or taken by a guest.
LEMMA SeatsStep ==
  ASSUME SInv, ServerStep, NEW g \in Games, games[g] # NoRow, games'[g] # NoRow,
         NEW seat \in Seats, games'[g].who[seat] # games[g].who[seat]
  PROVE  \/ games'[g].who[seat] = NoPlayer /\ games[g].who[seat] \notin players'
         \/ /\ seat = "GUEST" /\ games[g].who[seat] = NoPlayer
            /\ games[g].st.status = "WAITING_FOR_GUEST_TO_JOIN"
            /\ games'[g].st.status = "ACTIVE"
  <1>1. games \in [Games -> Row \cup {NoRow}] /\ games' # games
    BY SweeperFacts
  <1>2. ASSUME NEW h \in Games, NEW row \in Row \cup {NoRow}, games' = [games EXCEPT ![h] = row]
        PROVE  h = g /\ games'[g] = row
    BY <1>1, <1>2
  <1>3. ASSUME NEW h \in Games, NEW row \in Row, Stored(h, row), SameSeats(h, row)
        PROVE  FALSE
    BY <1>2, <1>3 DEF Stored, SameSeats
  <1>4. ASSUME NEW h \in Games, NEW row \in Row, Stored(h, row), GuestJoins(h, row)
        PROVE  /\ seat = "GUEST" /\ games[g].who[seat] = NoPlayer
               /\ games[g].st.status = "WAITING_FOR_GUEST_TO_JOIN"
               /\ games'[g].st.status = "ACTIVE"
    <2>1. h = g /\ games'[g] = row /\ games[g].st \in State
      BY <1>2, <1>4, RowParts DEF Stored
    <2> QED
      BY <1>4, <2>1 DEF GuestJoins, CanJoin, Join, Seats, State
  <1>5. ASSUME NEW p \in Players, DeletePlayer(p)
        PROVE  games'[g].who[seat] = NoPlayer /\ games[g].who[seat] \notin players'
    <2>1. /\ games[g] \in Row /\ games'[g] = Vacated(games[g], p)
          /\ players' = players \ {p}
      BY <1>5, Deletion
    <2>2. games'[g].who[seat] = IF games[g].who[seat] = p THEN NoPlayer ELSE games[g].who[seat]
      BY <2>1, VacatedRow
    <2> QED
      BY <2>1, <2>2
  <1> QED
    BY <1>1, <1>2, <1>3, <1>4, <1>5, RowChanges

(***************************************************************************)
(* No save takes a seat from its player or puts a deleted player back,     *)
(* whenever the row was loaded.                                            *)
(***************************************************************************)
THEOREM SeatsNeverChangeHands == ServerSpec => SeatsKept
  <1>1. SInv /\ [ServerNext]_vars =>
          [\A g \in Games : games[g] # NoRow /\ games'[g] # NoRow =>
             \A seat \in Seats :
               games'[g].who[seat] # games[g].who[seat] =>
                 \/ games'[g].who[seat] = NoPlayer /\ games[g].who[seat] \notin players'
                 \/ /\ seat = "GUEST" /\ games[g].who[seat] = NoPlayer
                    /\ games[g].st.status = "WAITING_FOR_GUEST_TO_JOIN"
                    /\ games'[g].st.status = "ACTIVE"]_vars
    BY SeatsStep, ServerCases
  <1> QED
    BY <1>1, ServerInvariant, PTL DEF ServerSpec, SeatsKept

-----------------------------------------------------------------------------
(* The rows, as module Game has them.                                       *)

\* A game's state changes with its row alone.
LEMMA SameLife ==
  ASSUME NEW g \in Games, used' = used, games'[g] = NoRow <=> games[g] = NoRow,
         games[g] # NoRow => games'[g].st = games[g].st
  PROVE  UNCHANGED Life(g)
  BY DEF Life

LEMMA PostGameIsGameStep ==
  ASSUME SInv, NEW g \in Games, NEW t \in Times, Posted(g, t), NEW h \in Games
  PROVE  G(h)!Next \/ UNCHANGED Life(h)
  <1>1. /\ g \notin used /\ used' = used \cup {g}
        /\ games' = [games EXCEPT ![g] = Created(HostOf[g], t)]
        /\ games \in [Games -> Row \cup {NoRow}] /\ games[g] = NoRow
    BY SweeperFacts DEF Posted, CreateGame, UsedRows
  <1>2. CASE h = g
    <2>1. Created(HostOf[g], t) \in Row
      BY CreatedType, SweeperFacts, HubAssumption
    <2>2. games'[g] = Created(HostOf[g], t) /\ games'[g] # NoRow
      BY <1>1, <2>1, RowAssumption
    <2>3. Life(g) = NoRow /\ Life(g)' = NewState
      BY <1>1, <2>2 DEF Life, Created
    <2>4. G(g)!NewState = NewState
      BY DEF G!NewState, NewState, G!Seats, Seats, G!Pending, Pending
    <2>5. G(g)!Create
      BY <2>3, <2>4 DEF G!Create
    <2> QED
      BY <1>2, <2>5 DEF G!Next
  <1>3. CASE h # g
    <2>1. games'[h] = games[h] /\ (h \in used' <=> h \in used)
      BY <1>1, <1>3
    <2> QED
      BY <2>1 DEF Life
  <1> QED
    BY <1>2, <1>3

LEMMA CloseSaveIsGameStep ==
  ASSUME SInv, CloseSave, NEW h \in Games
  PROVE  G(h)!Next \/ UNCHANGED Life(h)
  <1>1. PICK g \in Games, row \in Row :
          /\ g = fr[Sweeper].game /\ row = fr[Sweeper].row /\ games[g] \in Row
          /\ CanClose(games[g].st) /\ row.st = Close(games[g].st)
    <2>1. At("closeSave") /\ pc[Sweeper] = "closeSave"
      BY DEF CloseSave, At
    <2>2. PICK g \in Games : /\ g = fr[Sweeper].game /\ games[g] \in Row /\ Open(g)
                             /\ fr[Sweeper].row = [games[g] EXCEPT !.st = Close(games[g].st)]
      BY <2>1, SweeperFacts DEF InGame, Holding, SweepLocal
    <2>3. fr[Sweeper].row \in Row /\ fr[Sweeper].row.st = Close(games[g].st)
      BY <2>2, RowParts, CloseType
    <2> QED
      BY <2>2, <2>3 DEF Open, CanClose
  <1>2. CASE UNCHANGED storeVars
    BY <1>2 DEF Life, storeVars
  <1>3. CASE games' = [games EXCEPT ![g] = row] /\ used' = used
    <2>1. /\ Life(g) = games[g].st /\ Life(g)' = row.st /\ games[g].st \in State
          /\ h # g => Life(h)' = Life(h)
      BY <1>1, <1>3, SweeperFacts, StoredLife DEF Stored
    <2>2. G(g)!Exists
      BY <2>1, HubAssumption DEF G!Exists
    <2>3. G(g)!Leave
      BY <1>1, <2>1, <2>2, SameRules DEF G!Leave
    <2>4. G(g)!Next
      BY <2>3 DEF G!Next
    <2> QED
      BY <2>1, <2>4
  <1> QED
    BY <1>1, <1>2, <1>3 DEF CloseSave, SaveGame

LEMMA ForgetGameIsGameStep ==
  ASSUME SInv, ForgetGame, NEW h \in Games
  PROVE  G(h)!Next \/ UNCHANGED Life(h)
  <1>1. PICK g \in Games : g = fr[Sweeper].game /\ games[g] \in Row
    <2>1. At("deleteGame") /\ pc[Sweeper] = "deleteGame"
      BY DEF ForgetGame, At
    <2> QED
      BY <2>1, SweeperFacts DEF InGame, Holding, SweepLocal
  <1>2. CASE UNCHANGED storeVars
    BY <1>2 DEF Life, storeVars
  <1>3. CASE DeleteGame(g)
    <2>1. /\ games' = [games EXCEPT ![g] = NoRow] /\ used' = used
          /\ games \in [Games -> Row \cup {NoRow}] /\ games[g] # NoRow /\ g \in used
      BY <1>1, <1>3, SweeperFacts, RowAssumption DEF DeleteGame, UsedRows
    <2>2. CASE h = g
      <3>1. Life(g) = games[g].st /\ games[g].st \in State /\ Life(g)' = Deleted
        BY <1>1, <2>1, RowParts DEF Life
      <3>2. G(g)!Exists
        BY <3>1, HubAssumption DEF G!Exists
      <3>3. G(g)!Expire
        BY <3>1, <3>2 DEF G!Expire
      <3> QED
        BY <2>2, <3>3 DEF G!Next
    <2>3. CASE h # g
      BY <2>1, <2>3 DEF Life
    <2> QED
      BY <2>2, <2>3
  <1> QED
    BY <1>1, <1>2, <1>3 DEF ForgetGame

(***************************************************************************)
(* Of every game the whole server makes what module Game says: creation,   *)
(* expiry and deletion are its steps too, a deleted player and a crash     *)
(* leave it as it was, and a deleted game never comes back.                *)
(***************************************************************************)
THEOREM ServerFollowsGame == ServerSpec => GameSteps
  <1>1. SInv /\ [ServerNext]_vars => [\A g \in Games : G(g)!Next \/ UNCHANGED Life(g)]_hubVars
    <2> SUFFICES ASSUME SInv, ServerStep, NEW h \in Games PROVE G(h)!Next \/ UNCHANGED Life(h)
      BY ServerCases DEF vars
    <2>1. ASSUME NEW g \in Games, Posts(g) PROVE G(h)!Next \/ UNCHANGED Life(h)
      BY <2>1, PostGameIsGameStep DEF Posts
    <2>2. ASSUME NEW c \in Conns, Client(c) \/ Handler(c) PROVE G(h)!Next \/ UNCHANGED Life(h)
      BY <2>2, HubStepIsGameStep DEF HubNext, SInv
    <2>3. ASSUME ForgetPlayer PROVE UNCHANGED Life(h)
      <3>1. CASE UNCHANGED storeVars
        BY <3>1 DEF Life, storeVars
      <3>2. ASSUME NEW p \in Players, DeletePlayer(p) PROVE UNCHANGED Life(h)
        BY <3>2, Deletion, SameLife
      <3> QED
        BY <2>3, <3>1, <3>2, SweeperFacts DEF ForgetPlayer, At, SweepLocal, Expiring
    <2>4. Idles \/ Tick \/ Restart => UNCHANGED <<games, used>>
      BY DEF Idles, Tick, Restart, storeVars
    <2>5. SweepBegin \/ ListOpenGames \/ CloseConn \/ ListGames \/ SweepEnd \/ ReadFails
            \/ (\E c \in Conns : CloseEvicted(c)) => UNCHANGED <<games, used>>
      BY DEF SweepBegin, ListOpenGames, CloseConn, ListGames, SweepEnd, ReadFails, CloseEvicted,
             storeVars
    <2>6. CloseNotify => UNCHANGED <<games, used>>
      BY CloseNotifyEffect DEF storeVars
    <2>7. DetachStep(Sweeper) => UNCHANGED <<games, used>>
      BY DEF DetachStep, DetachLook, DetachRetry, Detach, storeVars
    <2>8. /\ \A p \in Players : ExpirePlayer(p) => UNCHANGED <<games, used>>
          /\ \A g \in Games : CloseLock(g) \/ ExpireGame(g) => UNCHANGED <<games, used>>
      BY DEF ExpirePlayer, CloseLock, ExpireGame, storeVars
    <2>9. UNCHANGED <<games, used>> => UNCHANGED Life(h)
      BY DEF Life
    <2>10. SweepStep => G(h)!Next \/ UNCHANGED Life(h)
      BY <2>3, <2>5, <2>6, <2>7, <2>8, <2>9, CloseSaveIsGameStep, ForgetGameIsGameStep
         DEF SweepStep
    <2> QED
      BY <2>1, <2>2, <2>4, <2>9, <2>10 DEF ServerStep
  <1> QED
    BY <1>1, ServerInvariant, PTL DEF ServerSpec, GameSteps

-----------------------------------------------------------------------------
(* The registries and a further round.                                      *)

(***************************************************************************)
(* The registries and the fields of the connections still tell the same    *)
(* story when the sweeper detaches and evicts and when a crash empties     *)
(* them all.                                                               *)
(***************************************************************************)
THEOREM RegistriesAgreeOnServer == ServerSpec => []RegistriesAgree
  <1>1. SInv => RegistriesAgree
    BY DEF SInv, IInv
  <1> QED
    BY <1>1, ServerInvariant, PTL

(***************************************************************************)
(* A player has one live connection through expiries and restarts too.     *)
(***************************************************************************)
THEOREM OneLiveConnectionOnServer == ServerSpec => []NewestRegistered
  <1>1. SInv => NewestRegistered
    BY DEF SInv, IInv
  <1> QED
    BY <1>1, ServerInvariant, PTL

\* Only the hub's handlers clear the throws of a row.
LEMMA ClearedByHub ==
  ASSUME SInv, ServerStep, NEW h \in Games, Cleared(h)
  PROVE  HubNext
  <1>1. games \in [Games -> Row \cup {NoRow}] /\ games[h] # NoRow /\ games'[h] # NoRow
    BY SweeperFacts DEF Cleared
  <1>2. games'[h].st.move # games[h].st.move
    BY DEF Cleared, Thrown, Seats
  <1>3. games'[h] # games[h] /\ ~UNCHANGED games
    BY <1>2
  <1>4. ASSUME NEW g \in Games, Posts(g) PROVE FALSE
    BY <1>1, <1>3, <1>4 DEF Posts, Posted, CreateGame, SInv, UsedRows
  <1>5. ~ForgetPlayer
    <2>1. ASSUME NEW p \in Players, DeletePlayer(p) PROVE FALSE
      BY <1>1, <1>2, <2>1, Deletion
    <2> QED
      BY <1>3, <2>1, SweeperFacts DEF ForgetPlayer, At, SweepLocal, Expiring, storeVars
  <1>6. ~ForgetGame
    BY <1>1, <1>3 DEF ForgetGame, DeleteGame, storeVars
  <1>7. ~CloseSave
    <2>1. ASSUME CloseSave PROVE FALSE
      <3>1. At("closeSave") /\ pc[Sweeper] = "closeSave"
        BY <2>1 DEF CloseSave, At
      <3>2. PICK g \in Games : /\ g = fr[Sweeper].game /\ games[g] \in Row
                               /\ fr[Sweeper].row = [games[g] EXCEPT !.st = Close(games[g].st)]
        BY <3>1, SweeperFacts DEF InGame, Holding, SweepLocal
      <3>3. /\ fr[Sweeper].row.st = Close(games[g].st)
            /\ Close(games[g].st).move = games[g].st.move
        BY <3>2, RowParts, CloseType DEF Close, State
      <3>4. games' = [games EXCEPT ![g] = fr[Sweeper].row]
        BY <1>3, <2>1, <3>2 DEF CloseSave, SaveGame, storeVars
      <3> QED
        BY <1>1, <1>2, <3>3, <3>4
    <2> QED
      BY <2>1
  <1>8. /\ ~Idles /\ ~Tick /\ ~Restart /\ ~SweepBegin /\ ~ListOpenGames /\ ~CloseConn
        /\ ~ListGames /\ ~SweepEnd /\ ~ReadFails /\ ~(\E c \in Conns : CloseEvicted(c))
    BY <1>3 DEF Idles, Tick, Restart, SweepBegin, ListOpenGames, CloseConn, ListGames, SweepEnd,
                ReadFails, CloseEvicted, storeVars
  <1>9. ~CloseNotify
    BY <1>3, CloseNotifyEffect DEF storeVars
  <1>10. ~DetachStep(Sweeper)
    BY <1>3 DEF DetachStep, DetachLook, DetachRetry, Detach, storeVars
  <1>11. /\ \A p \in Players : ~ExpirePlayer(p)
         /\ \A g \in Games : ~CloseLock(g) /\ ~ExpireGame(g)
    BY <1>3 DEF ExpirePlayer, CloseLock, ExpireGame, storeVars
  <1>12. ~SweepStep
    BY <1>5, <1>6, <1>7, <1>8, <1>9, <1>10, <1>11 DEF SweepStep
  <1> QED
    BY <1>4, <1>8, <1>12 DEF ServerStep, HubNext

(***************************************************************************)
(* Neither the sweeper nor a crash, a creation or a deletion clears the    *)
(* throws of a round: on the whole server too a further round needs the    *)
(* save of the seat opposite to the one that asked.                        *)
(***************************************************************************)
THEOREM RematchTakesTwoOnServer == ServerSpec => RematchNeedsBoth
  <1>1. SInv /\ [ServerNext]_vars =>
          [\A g \in Games :
             games[g] # NoRow /\ games'[g] # NoRow
             /\ Thrown(games[g].st) = Seats /\ Thrown(games'[g].st) = {} =>
               \E c \in Conns :
                 /\ pc[c] = "opSave" /\ fr[c].game = g
                 /\ RematchIssuer(games[g].st) = {Other(conn[c].seat)}]_hubVars
    <2>1. ASSUME SInv, ServerStep, NEW g \in Games, Cleared(g) PROVE Asked(g)
      BY <2>1, ClearedByHub, RematchStep DEF SInv
    <2> QED
      BY <2>1, ServerCases DEF vars, Cleared, Asked
  <1> QED
    BY <1>1, ServerInvariant, PTL DEF ServerSpec, RematchNeedsBoth

-----------------------------------------------------------------------------
(* The locks.                                                               *)

LEMMA SweepLocks ==
  ASSUME SInv, SweepStep
  PROVE  StaysPut(Sweeper) \/ \E g \in Games : Enters(Sweeper, g) \/ Exits(Sweeper, g)
  <1>1. Typed /\ Sweeper \in Procs /\ Locals(Sweeper)
    BY SweeperFacts
  <1>2. ASSUME NEW stage, Goto(Sweeper, stage) PROVE pc'[Sweeper] = stage
    BY <1>1, <1>2 DEF Goto, Typed
  <1>3. ASSUME NEW f, Keep(Sweeper, f) PROVE fr'[Sweeper] = f
    BY <1>1, <1>3 DEF Keep, Typed, TypeOK
  <1>4. CASE \/ SweepBegin \/ ListOpenGames \/ CloseConn \/ ForgetPlayer \/ ListGames \/ SweepEnd
             \/ ReadFails \/ \E p \in Players : ExpirePlayer(p)
    <2>1. lock' = lock
      BY <1>4 DEF SweepBegin, ListOpenGames, CloseConn, ForgetPlayer, ListGames, SweepEnd,
                  ReadFails, ExpirePlayer
    <2>2. pc[Sweeper] \notin Holding
      BY <1>4 DEF SweepBegin, ListOpenGames, CloseConn, ForgetPlayer, ListGames, SweepEnd,
                  ReadFails, ExpirePlayer, At, Holding
    <2>3. \/ pc' = pc
          \/ \E stage \in {"asleep", "players", "listOpen", "closeGames", "games", "detach",
                           "deletePlayer"} : Goto(Sweeper, stage)
      BY <1>4 DEF SweepBegin, ListOpenGames, CloseConn, ForgetPlayer, ListGames, SweepEnd,
                  ReadFails, ExpirePlayer, Abort
    <2> QED
      BY <1>2, <2>1, <2>2, <2>3 DEF StaysPut, Holding
  <1>5. CASE DetachStep(Sweeper)
    <2>1. lock' = lock /\ pc[Sweeper] \in Detaching
      BY <1>5 DEF DetachStep, DetachLook, DetachRetry, Detach, Detaching
    <2>2. pc'[Sweeper] \notin Holding
      BY <1>1, <1>2, <1>5, <2>1
         DEF DetachStep, DetachLook, DetachRetry, Detach, Continue, Holding, Locals
    <2> QED
      BY <2>1, <2>2 DEF StaysPut, Holding, Detaching
  <1>6. ASSUME NEW g \in Games, CloseLock(g) \/ ExpireGame(g)
        PROVE  StaysPut(Sweeper) \/ Enters(Sweeper, g)
    <2>1. pc[Sweeper] \notin Holding
      BY <1>6 DEF CloseLock, ExpireGame, At, Holding
    <2>2. \/ UNCHANGED <<lock, procVars>>
          \/ /\ Hold(g, Sweeper) /\ \E stage \in {"closeSave", "deleteGame"} : Goto(Sweeper, stage)
             /\ \E f : f.game = g /\ Keep(Sweeper, f)
      <3>1. Frame("expire", Pending, g).game = g
        BY DEF Frame
      <3>2. \A row : [Frame("expire", Pending, g) EXCEPT !.row = row].game = g
        BY DEF Frame
      <3> QED
        BY <1>6, <3>1, <3>2 DEF CloseLock, ExpireGame
    <2>3. CASE UNCHANGED <<lock, procVars>>
      BY <2>1, <2>3 DEF StaysPut, procVars
    <2>4. CASE /\ Hold(g, Sweeper) /\ \E stage \in {"closeSave", "deleteGame"} : Goto(Sweeper, stage)
               /\ \E f : f.game = g /\ Keep(Sweeper, f)
      <3>1. pc'[Sweeper] \in Holding
        BY <1>2, <2>4 DEF Holding
      <3>2. PICK f : f.game = g /\ Keep(Sweeper, f)
        BY <2>4
      <3>3. fr'[Sweeper].game = g
        BY <1>3, <3>2
      <3> QED
        BY <2>1, <2>4, <3>1, <3>3 DEF Enters
    <2> QED
      BY <2>2, <2>3, <2>4
  <1>7. CASE CloseSave \/ CloseNotify \/ ForgetGame
    <2>1. pc[Sweeper] \in Holding
      BY <1>7 DEF CloseSave, CloseNotify, ForgetGame, At, Holding
    <2>2. PICK g \in Games : g = fr[Sweeper].game /\ lock[g] = Sweeper
      BY <1>1, <2>1 DEF Locals, InGame
    <2>3. \/ lock' = lock /\ fr' = fr /\ Goto(Sweeper, "closeNotify")
          \/ Release(g) /\ \E stage \in {"asleep", "closeGames", "games"} : Goto(Sweeper, stage)
      BY <1>7, <2>2 DEF CloseSave, CloseNotify, ForgetGame, Abort
    <2> QED
      BY <1>2, <2>1, <2>2, <2>3 DEF StaysPut, Exits, Holding
  <1>8. ASSUME NEW c \in Conns, CloseEvicted(c) PROVE StaysPut(Sweeper)
    BY <1>8 DEF CloseEvicted, StaysPut, procVars
  <1> QED
    BY <1>4, <1>5, <1>6, <1>7, <1>8 DEF SweepStep

LEMMA SweepFrame ==
  ASSUME SInv, SweepStep
  PROVE  \A c \in Conns : pc'[c] = pc[c] /\ fr'[c] = fr[c]
  <1>1. Typed /\ Sweeper \in Procs /\ Sweeper \notin Conns /\ \A c \in Conns : c \in Procs
    BY SweeperFacts, HubAssumption DEF Procs
  <1>2. \/ UNCHANGED pc
        \/ \E stage : Goto(Sweeper, stage)
    BY DEF SweepStep, SweepBegin, ListOpenGames, CloseSave, CloseNotify, CloseConn, ForgetPlayer,
           ListGames, ForgetGame, SweepEnd, ReadFails, ExpirePlayer, CloseLock, ExpireGame, CloseEvicted,
           DetachStep, DetachLook, DetachRetry, Detach, Continue, Abort, procVars
  <1>3. \/ UNCHANGED fr
        \/ \E f : Keep(Sweeper, f)
    BY DEF SweepStep, SweepBegin, ListOpenGames, CloseSave, CloseNotify, CloseConn, ForgetPlayer,
           ListGames, ForgetGame, SweepEnd, ReadFails, ExpirePlayer, CloseLock, ExpireGame, CloseEvicted,
           DetachStep, DetachLook, DetachRetry, Detach, Continue, Abort, procVars
  <1> QED
    BY <1>1, <1>2, <1>3 DEF Goto, Keep, Typed, TypeOK

LEMMA ServerLocks ==
  ASSUME SInv, Held, ServerStep
  PROVE  Held' /\ (Locks!Next \/ UNCHANGED lock \/ Restart)
  <1>1. Typed /\ IInv
    BY SweeperFacts DEF SInv
  <1>2. ASSUME NEW c \in Conns, Client(c) \/ Handler(c) PROVE Held' /\ (Locks!Next \/ UNCHANGED lock)
    BY <1>1, <1>2, HeldStep
  <1>3. ASSUME SweepStep PROVE Held' /\ (Locks!Next \/ UNCHANGED lock)
    BY <1>1, <1>3, SweepLocks, SweepFrame, SweeperFacts, HeldKept DEF Procs
  <1>4. ASSUME UNCHANGED <<lock, procVars>> PROVE Held'
    BY <1>4 DEF Held, procVars
  <1>5. ASSUME Restart PROVE Held'
    BY <1>5, HubAssumption DEF Restart, Held, Procs
  <1>6. Tick \/ Idles \/ (\E g \in Games : Posts(g)) => UNCHANGED <<lock, procVars>>
    BY DEF Tick, Idles, Posts, Posted
  <1> QED
    BY <1>2, <1>3, <1>4, <1>5, <1>6 DEF ServerStep

(***************************************************************************)
(* The sweeper uses the game locks as the handlers do, one at a time: all  *)
(* of the server's steps take a free lock or release one's own, except a   *)
(* crash, which drops every lock.  So no goroutine waits for a lock inside *)
(* another one, and the locks cannot deadlock.                             *)
(***************************************************************************)
THEOREM ServerUsesMutex ==
  ServerSpec => /\ []Held
                /\ [][Locks!Next \/ Restart]_([g \in Games |-> IF Free(g) THEN {} ELSE {lock[g]}])
  <1>1. ServerInit => Held
    BY HubAssumption DEF ServerInit, HubInit, Held, Procs
  <1>2. SInv /\ Held /\ [ServerNext]_vars =>
          /\ Held'
          /\ [Locks!Next \/ Restart]_([g \in Games |-> IF Free(g) THEN {} ELSE {lock[g]}])
    <2>1. CASE UNCHANGED vars
      BY <2>1 DEF vars, hubVars, procVars, Held, Free
    <2>2. UNCHANGED lock => UNCHANGED [g \in Games |-> IF Free(g) THEN {} ELSE {lock[g]}]
      BY DEF Free
    <2> QED
      BY <2>1, <2>2, ServerLocks, ServerCases
  <1> QED
    BY <1>1, <1>2, ServerInvariant, PTL DEF ServerSpec

-----------------------------------------------------------------------------
(* When expiry is complete.                                                 *)

(***************************************************************************)
(* ExpirePlayer(p) looks at p, at p's games and at p's connection one      *)
(* after the other, and the two runs server_remains and server_revived     *)
(* show what p can do in between.  These two hypotheses say that p does    *)
(* nothing of the kind: while p is being expired, no connection of p's     *)
(* client is in the middle of authenticating, of replacing another one or  *)
(* of a save, and p does not create a game.                                *)
(***************************************************************************)
Acting == {"touch", "register", "replace", "connectSave", "opSave"}

Undisturbed ==
  pc[Sweeper] \in Expiring =>
    \A c \in Conns : Login[c] = sweep.player => pc[c] \notin Acting

NothingNew ==
  pc[Sweeper] \in Expiring =>
    \A g \in Games : games[g] = NoRow /\ games'[g] # NoRow => HostOf[g] # sweep.player

\* The open games of the player that is being expired.
OpenOf == {g \in Games : Open(g) /\ SeatOf(games[g], sweep.player) # NoSeat}

\* A connection that is replaced is one of the same player.
Replacing == \A c \in Conns : pc[c] = "replace" => conn[fr[c].target].player = Login[c]

\* The clients of a deleted player are not authenticated, nor on the way there.
Dropped ==
  \A c \in Conns : Login[c] \notin players =>
    /\ pc[c] \notin {"touch", "register"}
    /\ Live(c) => conn[c].player = NoPlayer

\* What ExpirePlayer has achieved.
Progress ==
  /\ pc[Sweeper] \in Expiring => active[sweep.player] < PlayerCutoff
  /\ At("closeGames") \/ At("closeNotify") => OpenOf \subseteq sweep.open
  /\ At("closeSave") => OpenOf \subseteq sweep.open \cup {fr[Sweeper].game}
  /\ At("detach") \/ At("detachLock") \/ At("deletePlayer") =>
       /\ OpenOf = {}
       /\ \A c \in Conns : Live(c) => conn[c].player # sweep.player

EInv == Named /\ Replacing /\ Dropped /\ ExpiryClosesGames /\ Progress

-----------------------------------------------------------------------------
(* The rows, as far as expiry is concerned.                                 *)

\* An operation on an open game that leaves it open is one of a game with
\* a guest, and no operation lets a guest go.
LEMMA OpenResult ==
  ASSUME NEW op \in Ops, NEW throw, NEW seat \in Seats, NEW s \in State,
         Allowed(op, throw, seat, s), Result(op, throw, seat, s).status # "CLOSED"
  PROVE  /\ s.status \notin {"CLOSED", "WAITING_FOR_GUEST_TO_JOIN"}
         /\ Result(op, throw, seat, s).status # "WAITING_FOR_GUEST_TO_JOIN"
  <1>1. CASE op = "move"
    <2>1. s.status = "ACTIVE"
      BY <1>1 DEF Allowed, CanPlayMove
    <2>2. PICK locked : locked = Locked(s, seat, throw)
      OBVIOUS
    <2>3. locked.status = s.status /\ DOMAIN locked = DOMAIN s
      BY <2>2 DEF Locked, State
    <2>4. \A outcome : Settle(locked, outcome).status = "COMPLETE"
      BY <2>3 DEF Settle, State
    <2>5. PlayMove(s, seat, throw).status \in {"ACTIVE", "COMPLETE"}
      BY <2>1, <2>2, <2>3, <2>4 DEF PlayMove
    <2> QED
      BY <1>1, <2>1, <2>5 DEF Result
  <1>2. CASE op = "rematch" \/ op = "decline"
    <2>1. s.status = "COMPLETE" \/ RematchIssuer(s) # {}
      BY <1>2 DEF Allowed, CanRematch, CanDeclineRematch
    <2>2. s.status \notin {"CLOSED", "WAITING_FOR_GUEST_TO_JOIN"}
      BY <2>1 DEF RematchIssuer, IssuedBy
    <2>3. Result(op, throw, seat, s).status # "WAITING_FOR_GUEST_TO_JOIN"
      BY <1>2 DEF Result, Rematch, DeclineRematch, IssuedBy, State
    <2> QED
      BY <2>2, <2>3
  <1>3. CASE op = "leave"
    BY <1>3 DEF Result, Close, State
  <1> QED
    BY <1>1, <1>2, <1>3 DEF Ops

\* An open row that was open before, with the same seats.
Carried(g) ==
  /\ Open(g)
  /\ \A seat \in Seats : games'[g].who[seat] = games[g].who[seat]
  /\ games[g].st.status = "WAITING_FOR_GUEST_TO_JOIN" <=>
       games'[g].st.status = "WAITING_FOR_GUEST_TO_JOIN"

\* An open row that a guest has joined.
Joined(g) ==
  /\ Open(g) /\ games'[g].who["HOST"] = games[g].who["HOST"]
  /\ games'[g].st.status # "WAITING_FOR_GUEST_TO_JOIN"
  /\ \E c \in Conns : pc[c] = "connectSave" /\ games'[g].who["GUEST"] = conn[c].player

LEMMA HubRows ==
  ASSUME SInv, HubNext, NEW g \in Games, Open(g)'
  PROVE  Carried(g) \/ Joined(g)
  <1>1. games \in [Games -> Row \cup {NoRow}]
    BY SweeperFacts
  <1>2. CASE games'[g] = games[g]
    BY <1>2 DEF Carried, Open
  <1>3. ASSUME NEW h \in Games, NEW row \in Row, Stored(h, row), h = g
        PROVE  /\ games'[g] = row /\ games[g] \in Row /\ games[g] # NoRow
               /\ games[g].st \in State /\ row.st.status # "CLOSED"
    BY <1>1, <1>3, RowParts, RowAssumption DEF Stored, Open
  <1>4. ASSUME NEW h \in Games, NEW row \in Row, Stored(h, row), games'[g] # games[g]
        PROVE  h = g
    BY <1>1, <1>4 DEF Stored
  <1>5. ASSUME NEW h \in Games, NEW row \in Row, Stored(h, row), h = g, Reconnects(h, row)
        PROVE  Carried(g)
    BY <1>3, <1>5 DEF Reconnects, SameSeats, Carried, Open
  <1>6. ASSUME NEW h \in Games, NEW row \in Row, Stored(h, row), h = g, GuestJoins(h, row)
        PROVE  Joined(g)
    BY <1>3, <1>6 DEF GuestJoins, CanJoin, Join, State, Joined, Open
  <1>7. ASSUME NEW h \in Games, NEW row \in Row, Stored(h, row), h = g, SameSeats(h, row),
               NEW op \in Ops, NEW throw \in Moves, NEW seat \in Seats,
               Allowed(op, throw, seat, games[h].st),
               row.st = Result(op, throw, seat, games[h].st)
        PROVE  Carried(g)
    BY <1>3, <1>7, OpenResult DEF SameSeats, Carried, Open
  <1> QED
    BY <1>2, <1>4, <1>5, <1>6, <1>7, OnlySavesChange, ConnectSaveEffect, OpSaveEffect DEF SInv

\* Of the sweeper's steps only the last one of ExpirePlayer deletes a player.
LEMMA SweepPlayers ==
  ASSUME SInv, SweepStep
  PROVE  \/ ForgetPlayer
         \/ UNCHANGED <<players, active, now>>
  BY CloseNotifyEffect
     DEF SweepStep, SweepBegin, ListOpenGames, CloseSave, CloseConn, ListGames, ForgetGame, SweepEnd,
         ReadFails, ExpirePlayer, CloseLock, ExpireGame, CloseEvicted, DetachStep, DetachLook,
         DetachRetry, Detach, SaveGame, DeleteGame, storeVars

LEMMA SweepRows ==
  ASSUME SInv, SweepStep, ~ForgetPlayer, NEW g \in Games, Open(g)'
  PROVE  Carried(g)
  <1>1. games \in [Games -> Row \cup {NoRow}]
    BY SweeperFacts
  <1>2. CASE games' = games
    BY <1>2 DEF Carried, Open
  <1>3. ASSUME CloseSave, games' # games PROVE Carried(g)
    <2>1. At("closeSave") /\ pc[Sweeper] = "closeSave"
      BY <1>3 DEF CloseSave, At
    <2>2. PICK h \in Games : /\ h = fr[Sweeper].game /\ games[h] \in Row
                             /\ fr[Sweeper].row = [games[h] EXCEPT !.st = Close(games[h].st)]
      BY <2>1, SweeperFacts DEF InGame, Holding, SweepLocal
    <2>3. games' = [games EXCEPT ![h] = fr[Sweeper].row]
      BY <1>3, <2>2 DEF CloseSave, SaveGame, storeVars
    <2>4. fr[Sweeper].row.st.status = "CLOSED"
      BY <2>2, RowParts, CloseType DEF Close, State
    <2> QED
      BY <1>1, <2>3, <2>4 DEF Carried, Open
  <1>4. ASSUME ForgetGame, games' # games PROVE Carried(g)
    <2>1. games' = [games EXCEPT ![fr[Sweeper].game] = NoRow]
      BY <1>4 DEF ForgetGame, DeleteGame, storeVars
    <2> QED
      BY <1>1, <2>1 DEF Carried, Open
  <1>5. CASE ~CloseSave /\ ~ForgetGame
    <2>1. games' = games
      BY <1>5, CloseNotifyEffect
         DEF SweepStep, SweepBegin, ListOpenGames, CloseConn, ListGames, SweepEnd, ReadFails,
             ExpirePlayer, CloseLock, ExpireGame, CloseEvicted, DetachStep, DetachLook, DetachRetry,
             Detach, storeVars
    <2> QED
      BY <1>2, <2>1
  <1> QED
    BY <1>2, <1>3, <1>4, <1>5

LEMMA OpenRows ==
  ASSUME SInv, ServerStep, ~(SweepStep /\ ForgetPlayer), NEW g \in Games, Open(g)'
  PROVE  Carried(g) \/ Joined(g) \/ Posts(g)
  <1>1. games \in [Games -> Row \cup {NoRow}]
    BY SweeperFacts
  <1>2. CASE games'[g] = games[g]
    BY <1>2 DEF Carried, Open
  <1>3. ASSUME NEW h \in Games, Posts(h), h # g PROVE games'[g] = games[g]
    BY <1>1, <1>3 DEF Posts, Posted, CreateGame
  <1>4. CASE Idles \/ Tick \/ Restart
    BY <1>2, <1>4 DEF Idles, Tick, Restart, storeVars
  <1>5. CASE HubNext
    BY <1>5, HubRows
  <1>6. CASE SweepStep
    BY <1>6, SweepRows
  <1> QED
    BY <1>2, <1>3, <1>4, <1>5, <1>6 DEF ServerStep, HubNext

LEMMA SeatOfWho ==
  ASSUME NEW row, NEW p
  PROVE  SeatOf(row, p) # NoSeat <=> p # NoPlayer /\ (row.who["HOST"] = p \/ row.who["GUEST"] = p)
  BY DEF SeatOf, NoSeat

\* No game is opened, and none is joined, by a player that is being expired.
LEMMA OpenOfShrinks ==
  ASSUME SInv, Named, Undisturbed, NothingNew, ServerStep, ~(SweepStep /\ ForgetPlayer),
         pc[Sweeper] \in Expiring, sweep'.player = sweep.player
  PROVE  OpenOf' \subseteq OpenOf
  <1> DEFINE p == sweep.player
  <1>1. p \in Players /\ p # NoPlayer
    BY SweeperFacts, StoreAssumption DEF SweepLocal
  <1> SUFFICES ASSUME NEW g \in Games, Open(g)', SeatOf(games'[g], p) # NoSeat
               PROVE  g \in OpenOf
    BY DEF OpenOf
  <1>2. games'[g].who["HOST"] = p \/ games'[g].who["GUEST"] = p
    BY SeatOfWho
  <1>3. CASE Carried(g)
    <2>1. games[g].who["HOST"] = p \/ games[g].who["GUEST"] = p
      BY <1>2, <1>3 DEF Carried, Seats
    <2> QED
      BY <1>1, <1>3, <2>1, SeatOfWho DEF Carried, OpenOf
  <1>4. CASE Joined(g)
    <2>1. PICK c \in Conns : pc[c] = "connectSave" /\ games'[g].who["GUEST"] = conn[c].player
      BY <1>4 DEF Joined
    <2>2. Login[c] # p
      BY <2>1 DEF Undisturbed, Acting
    <2>3. conn[c].player # p
      BY <1>1, <2>2 DEF Named
    <2>4. games[g].who["HOST"] = p
      BY <1>2, <1>4, <2>1, <2>3 DEF Joined
    <2> QED
      BY <1>1, <1>4, <2>4, SeatOfWho DEF Joined, OpenOf
  <1>5. CASE Posts(g)
    <2>1. games[g] = NoRow /\ \E t : games'[g] = Created(HostOf[g], t)
      BY <1>5, SweeperFacts DEF Posts, Posted, CreateGame, UsedRows
    <2>2. games'[g] # NoRow
      BY DEF Open
    <2>3. HostOf[g] # p
      BY <2>1, <2>2 DEF NothingNew
    <2>4. games'[g].who["HOST"] = HostOf[g] /\ games'[g].who["GUEST"] = NoPlayer
      BY <2>1 DEF Created, Seats
    <2> QED
      BY <1>1, <1>2, <2>3, <2>4
  <1> QED
    BY <1>3, <1>4, <1>5, OpenRows

-----------------------------------------------------------------------------
(* Its last activity.                                                       *)

\* The players whose activity a step of the hub records.
LEMMA HubTouches ==
  ASSUME SInv, NEW c \in Conns, Client(c) \/ Handler(c)
  PROVE  \/ active' = active
         \/ pc[c] = "touch" /\ active' = Touched(Login[c], fr[c].stamp)
         \/ pc[c] \in {"connectSave", "opSave"} /\ active' = Touched(conn[c].player, fr[c].row.last)
  <1>1. Client(c) => active' = active
    BY DEF Client, Accept, Authenticate, Abandon, Disconnect, Connect, Request, storeVars
  <1>2. Register(c) \/ Replace(c) \/ DetachStep(c) \/ ConnectLock(c) \/ OpLock(c) \/ Unregister(c)
          => active' = active
    BY DEF Register, Replace, DetachStep, DetachLook, DetachRetry, Detach, ConnectLock, OpLock,
           Unregister, storeVars
  <1>3. ConnectAttach(c) \/ OpNotify(c) => active' = active
    BY AttachEffect, NotifyEffect DEF storeVars
  <1>4. AuthTouch(c) => active' = active \/ (pc[c] = "touch" /\ active' = Touched(Login[c], fr[c].stamp))
    BY DEF AuthTouch, TouchPlayer, storeVars
  <1>5. ConnectSave(c) \/ OpSave(c) =>
          \/ active' = active
          \/ pc[c] \in {"connectSave", "opSave"} /\ active' = Touched(conn[c].player, fr[c].row.last)
    BY DEF ConnectSave, OpSave, Save, SaveGame, storeVars
  <1> QED
    BY <1>1, <1>2, <1>3, <1>4, <1>5 DEF Handler

\* Touching a player changes nothing of the others.
LEMMA TouchedOthers ==
  ASSUME Typed, NEW p \in Players, NEW q, NEW t, q # p
  PROVE  Touched(q, t)[p] = active[p]
  BY DEF Touched, Typed, TypeOK, StoreTypeOK

\* A player that is being expired stays inactive.
LEMMA StaysIdle ==
  ASSUME SInv, Named, Undisturbed, NothingNew, ServerStep, pc[Sweeper] \in Expiring
  PROVE  active'[sweep.player] = active[sweep.player]
  <1> DEFINE p == sweep.player
  <1>1. p \in Players /\ p # NoPlayer /\ Typed
    BY SweeperFacts, StoreAssumption DEF SweepLocal
  <1>2. ASSUME NEW g \in Games, NEW t \in Times, Posted(g, t) PROVE active'[p] = active[p]
    <2>1. /\ games[g] = NoRow /\ active' = Touched(HostOf[g], t)
          /\ games' = [games EXCEPT ![g] = Created(HostOf[g], t)]
      BY <1>2, SweeperFacts DEF Posted, CreateGame, UsedRows
    <2>2. games'[g] # NoRow
      <3>1. Created(HostOf[g], t) \in Row /\ games \in [Games -> Row \cup {NoRow}]
        BY CreatedType, SweeperFacts, HubAssumption
      <3> QED
        BY <2>1, <3>1, RowAssumption
    <2>3. HostOf[g] # p
      BY <2>1, <2>2 DEF NothingNew
    <2> QED
      BY <1>1, <2>1, <2>3, TouchedOthers
  <1>3. Idles \/ Tick \/ Restart => active' = active
    BY DEF Idles, Tick, Restart, storeVars
  <1>4. ASSUME NEW c \in Conns, Client(c) \/ Handler(c) PROVE active'[p] = active[p]
    <2>1. pc[c] \in {"touch", "connectSave", "opSave"} => Login[c] # p /\ conn[c].player # p
      BY <1>1 DEF Undisturbed, Acting, Named
    <2> QED
      BY <1>1, <1>4, <2>1, HubTouches, TouchedOthers
  <1>5. SweepStep => active' = active
    BY SweepPlayers DEF ForgetPlayer, DeletePlayer, storeVars
  <1> QED
    BY <1>2, <1>3, <1>4, <1>5 DEF ServerStep, Posts

-----------------------------------------------------------------------------
(* Its connections.                                                         *)

\* The sweeper gives no connection a player and opens none.
LEMMA SweepConns ==
  ASSUME SInv, SweepStep
  PROVE  /\ conns' = conns /\ playerConn' = playerConn
         /\ \A d \in Conns : conn'[d].player = conn[d].player /\ (conn[d].closing => conn'[d].closing)
  <1> DEFINE Same == \A d \in Conns : /\ conn'[d].player = conn[d].player
                                      /\ (conn[d].closing => conn'[d].closing)
  <1>1. Typed /\ \A d \in Conns : conn[d] \in ConnFields
    BY SweeperFacts DEF Typed, TypeOK
  <1>2. UNCHANGED conn => Same
    OBVIOUS
  <1>3. ASSUME NEW t \in Conns, Closed(t) PROVE Same
    BY <1>1, <1>3, ClosedFields
  <1>4. ASSUME NEW cs, NEW g, Detached(cs, g) PROVE Same
    <2>1. \A d \in Conns : \/ conn'[d] = conn[d]
                           \/ conn'[d] = [conn[d] EXCEPT !.game = NoGame, !.seat = NoSeat]
      BY <1>4 DEF Detached
    <2>2. ASSUME NEW f \in ConnFields, NEW e, e = [f EXCEPT !.game = NoGame, !.seat = NoSeat]
          PROVE  e.player = f.player /\ e.closing = f.closing
      <3>1. PICK f1 \in ConnFields : f1 = [f EXCEPT !.game = NoGame]
        BY DEF ConnFields
      <3>2. e = [f1 EXCEPT !.seat = NoSeat]
        BY <2>2, <3>1, Zenon
      <3> QED
        BY <3>1, <3>2 DEF ConnFields
    <2> QED
      BY <1>1, <2>1, <2>2
  <1>5. CASE CloseNotify
    BY <1>4, <1>5, CloseNotifyEffect
  <1>6. CASE CloseConn
    <2>1. playerConn[sweep.player] \in Conns \cup {NoConn}
      BY <1>1, <1>6, SweeperFacts DEF CloseConn, At, SweepLocal, Expiring, Typed, TypeOK
    <2>2. \/ UNCHANGED conn
          \/ Closed(playerConn[sweep.player]) /\ playerConn[sweep.player] # NoConn
      BY <1>6 DEF CloseConn
    <2>3. Same
      BY <1>2, <1>3, <2>1, <2>2
    <2> QED
      BY <1>6, <2>3 DEF CloseConn
  <1>7. CASE DetachStep(Sweeper)
    <2>1. UNCHANGED conn \/ \E cs, g : Detached(cs, g)
      BY <1>7 DEF DetachStep, DetachLook, DetachRetry, Detach, connVars
    <2>2. Same
      BY <1>2, <1>4, <2>1
    <2> QED
      BY <1>7, <2>2 DEF DetachStep, DetachLook, DetachRetry, Detach, connVars
  <1>8. ASSUME NEW g \in Games, ExpireGame(g) PROVE Same /\ UNCHANGED <<conns, playerConn>>
    <2>1. UNCHANGED conn \/ Detached(attached[g], g)
      BY <1>8 DEF ExpireGame, Evict
    <2>2. Same
      BY <1>2, <1>4, <2>1
    <2> QED
      BY <1>8, <2>2 DEF ExpireGame
  <1>9. CASE \/ SweepBegin \/ ListOpenGames \/ CloseSave \/ ForgetPlayer \/ ListGames \/ ForgetGame
             \/ SweepEnd \/ ReadFails \/ (\E p \in Players : ExpirePlayer(p))
             \/ \E g \in Games : CloseLock(g)
    BY <1>2, <1>9
       DEF SweepBegin, ListOpenGames, CloseSave, ForgetPlayer, ListGames, ForgetGame, SweepEnd,
           ReadFails, ExpirePlayer, CloseLock, connVars
  <1>10. ASSUME NEW c \in Conns, CloseEvicted(c) PROVE Same /\ UNCHANGED <<conns, playerConn>>
    BY <1>3, <1>10 DEF CloseEvicted
  <1> QED
    BY <1>5, <1>6, <1>7, <1>8, <1>9, <1>10 DEF SweepStep

\* A live connection is a new one, or was live as the same player, or has
\* just registered.
LEMMA LiveBefore ==
  ASSUME SInv, ServerStep, NEW d \in Conns, Live(d)'
  PROVE  \/ conn'[d].player = NoPlayer
         \/ Live(d) /\ conn'[d].player = conn[d].player
         \/ Register(d) /\ conn'[d].player = Login[d]
  <1>1. CASE SweepStep
    BY <1>1, SweepConns DEF Live
  <1>2. ASSUME NEW g \in Games, Posts(g) PROVE Live(d) /\ conn'[d].player = conn[d].player
    BY <1>2 DEF Posts, Posted, Live, connVars
  <1>3. CASE Idles \/ Tick
    BY <1>3 DEF Idles, Tick, Live, connVars
  <1>4. ~Restart
    BY DEF Restart, Live
  <1>5. ASSUME NEW c \in Conns, Client(c) \/ Handler(c)
        PROVE  \/ conn'[d].player = NoPlayer
               \/ Live(d) /\ conn'[d].player = conn[d].player
               \/ Register(d) /\ conn'[d].player = Login[d]
    <2>1. IInv /\ Footprint(c) /\ Place(c)
      BY <1>5, ClientInv, HandlerInv DEF SInv, IInv, Procs, Local
    <2>2. /\ conn'[d].player = conn[d].player \/ (Register(d) /\ conn'[d].player = Login[d])
          /\ ~conn[d].closing
      BY <1>5, <2>1, ConnSteps DEF Live
    <2>3. CASE d \in conns
      BY <2>2, <2>3 DEF Live
    <2>4. CASE d \notin conns
      <3>1. d = c
        BY <2>1, <2>4 DEF Footprint, Live
      <3>2. pc[c] \in {"unborn", "gone"}
        BY <2>1, <2>4, <3>1 DEF Place
      <3>3. pc[c] # "gone"
        BY <1>5, <2>4, <3>1
           DEF Client, Accept, Authenticate, Abandon, Disconnect, Connect, Request, HandlesGame,
               Handles, Handler, AuthTouch, Register, Replace, DetachStep, DetachLook, DetachRetry,
               Detach, ConnectLock, ConnectSave, ConnectAttach, OpLock, OpSave, OpNotify, Unregister,
               Live
      <3>4. conn[d].player = NoPlayer
        BY <2>1, <3>1, <3>2, <3>3 DEF Place
      <3> QED
        BY <2>2, <3>4
    <2> QED
      BY <2>3, <2>4
  <1> QED
    BY <1>1, <1>2, <1>3, <1>4, <1>5 DEF ServerStep

\* How a connection comes to authenticate and to replace another one.
LEMMA Reaches ==
  ASSUME SInv, NEW c \in Conns, Client(c) \/ Handler(c),
         pc'[c] \in {"touch", "register", "replace"}
  PROVE  \/ UNCHANGED procVars
         \/ Authenticate(c) /\ pc'[c] = "touch"
         \/ pc[c] = "touch" /\ pc'[c] = "register"
         \/ Register(c) /\ pc'[c] = "replace"
  <1>1. Typed /\ c \in Procs /\ Locals(c)
    BY DEF SInv, IInv, Procs, Local
  <1>2. \A stage : Goto(c, stage) => pc'[c] = stage
    BY <1>1 DEF Goto, Typed
  <1>3. Accept(c) \/ Abandon(c) \/ Disconnect(c) => UNCHANGED procVars
    BY <1>2 DEF Accept, Abandon, Disconnect
  <1>4. Authenticate(c) => pc'[c] = "touch"
    BY <1>2 DEF Authenticate
  <1>5. /\ \A g \in Games : ~Connect(c, g)
        /\ \A op, throw : ~Request(c, op, throw)
    BY <1>2 DEF Connect, Request
  <1>6. AuthTouch(c) => pc[c] = "touch" /\ pc'[c] = "register"
    BY <1>2 DEF AuthTouch
  <1>7. Register(c) => pc'[c] = "replace"
    BY <1>2 DEF Register, Return
  <1>8. ~DetachStep(c)
    <2>1. pc[c] \in Detaching => fr[c].then \notin {"touch", "register", "replace"}
      BY <1>1 DEF Locals
    <2> QED
      BY <1>2, <2>1 DEF DetachStep, DetachLook, DetachRetry, Detach, Continue, Detaching
  <1>9. /\ ~Replace(c) /\ ~ConnectLock(c) /\ ~ConnectSave(c) /\ ~OpLock(c) /\ ~OpSave(c)
        /\ ~Unregister(c)
    BY <1>2 DEF Replace, ConnectLock, ConnectSave, OpLock, OpSave, Unregister, Save, Reject, Return
  <1>10. ~ConnectAttach(c) /\ ~OpNotify(c)
    BY <1>2, AttachEffect, NotifyEffect DEF Return
  <1> QED
    BY <1>3, <1>4, <1>5, <1>6, <1>7, <1>8, <1>9, <1>10 DEF Client, Handler

-----------------------------------------------------------------------------
(* EInv is inductive.                                                       *)

LEMMA SweepPlace ==
  ASSUME SInv
  PROVE  /\ \A stage : Goto(Sweeper, stage) => pc'[Sweeper] = stage
         /\ \A f : Keep(Sweeper, f) => fr'[Sweeper] = f
  BY SweeperFacts DEF Goto, Keep, Typed, TypeOK

LEMMA NamedKept ==
  ASSUME SInv, Named, ServerStep
  PROVE  Named'
  <1>1. ASSUME NEW c \in Conns, Client(c) \/ Handler(c) PROVE Named'
    BY <1>1, NamedStep DEF SInv
  <1>2. CASE SweepStep
    BY <1>2, SweepConns DEF Named
  <1>3. CASE Restart
    BY <1>3 DEF Restart, Named, NewConn
  <1>4. Tick \/ Idles \/ (\E g \in Games : Posts(g)) => UNCHANGED conn
    BY DEF Tick, Idles, Posts, Posted, connVars
  <1> QED
    BY <1>1, <1>2, <1>3, <1>4 DEF ServerStep, Named

LEMMA ReplacingKept ==
  ASSUME SInv, Replacing, ServerStep
  PROVE  Replacing'
  <1>1. \A c \in Conns : pc[c] = "replace" => fr[c].target \in Conns
    BY DEF SInv, IInv, Procs, Local, Locals, Detaching
  <1>2. CASE SweepStep
    BY <1>1, <1>2, SweepFrame, SweepConns DEF Replacing
  <1>3. CASE Restart
    BY <1>3, HubAssumption DEF Restart, Replacing, Procs
  <1>4. CASE UNCHANGED <<procVars, conn>>
    BY <1>4 DEF Replacing, procVars
  <1>5. ASSUME NEW c \in Conns, Client(c) \/ Handler(c) PROVE Replacing'
    <2>1. IInv /\ Footprint(c) /\ Typed
      BY <1>5, ClientInv, HandlerInv DEF SInv, IInv
    <2>2. ASSUME NEW t \in Conns, conn[t].player # NoPlayer PROVE conn'[t].player = conn[t].player
      <3>1. ~(Register(c) /\ t = c)
        BY <2>1, <2>2 DEF Register, IInv, Procs, Local, Place
      <3> QED
        BY <1>5, <2>1, <3>1, ConnSteps
    <2>3. ASSUME NEW d \in Conns, pc[d] = "replace", UNCHANGED <<pc[d], fr[d]>>
          PROVE  conn'[fr'[d].target].player = Login[d]
      <3>1. Login[d] # NoPlayer
        BY HubAssumption, StoreAssumption
      <3> QED
        BY <1>1, <2>2, <2>3, <3>1 DEF Replacing
    <2>4. ASSUME Register(c), pc'[c] = "replace"
          PROVE  conn'[fr'[c].target].player = Login[c]
      <3>1. PICK t \in Conns : t = playerConn[Login[c]] /\ fr'[c] = DetachFrame(t, "reading", NoGame)
        <4>1. \A stage : Goto(c, stage) => pc'[c] = stage
          BY <2>1 DEF Goto, Typed, Procs
        <4>2. playerConn[Login[c]] # NoConn /\ playerConn[Login[c]] \in Conns \cup {NoConn}
          BY <2>1, <2>4, <4>1, HubAssumption DEF Register, Return, Typed, TypeOK
        <4> QED
          BY <2>1, <2>4, <4>2 DEF Register, Keep, Typed, TypeOK, Procs
      <3>2. fr'[c].target = t
        BY <3>1, DetachFrameType
      <3>3. conn[t].player = Login[c] /\ Login[c] # NoPlayer
        BY <2>1, <3>1, HubAssumption, StoreAssumption DEF IInv, RegistriesAgree
      <3> QED
        BY <2>2, <3>2, <3>3
    <2> SUFFICES ASSUME NEW d \in Conns, pc'[d] = "replace"
                 PROVE  conn'[fr'[d].target].player = Login[d]
      BY DEF Replacing
    <2>5. CASE d # c
      BY <2>1, <2>3, <2>5 DEF Footprint, Procs
    <2>6. CASE d = c
      BY <1>5, <2>3, <2>4, <2>6, Reaches DEF procVars
    <2> QED
      BY <2>5, <2>6
  <1>6. Tick \/ Idles \/ (\E g \in Games : Posts(g)) => UNCHANGED <<procVars, conn>>
    BY DEF Tick, Idles, Posts, Posted, connVars
  <1> QED
    BY <1>2, <1>3, <1>4, <1>5, <1>6 DEF ServerStep

\* The last step of ExpirePlayer.
LEMMA Forgotten ==
  ASSUME SInv, EInv, ForgetPlayer
  PROVE  \/ UNCHANGED storeVars
         \/ /\ DeletePlayer(sweep.player) /\ sweep.player \in Players
            /\ active[sweep.player] < PlayerCutoff
            /\ OpenOf = {} /\ \A c \in Conns : Live(c) => conn[c].player # sweep.player
  <1>1. At("deletePlayer") /\ pc[Sweeper] = "deletePlayer"
    BY DEF ForgetPlayer, At
  <1> QED
    BY <1>1, SweeperFacts DEF ForgetPlayer, SweepLocal, Expiring, EInv, Progress

LEMMA SamePlayers ==
  ASSUME SInv, ServerStep, ~(SweepStep /\ ForgetPlayer)
  PROVE  players' = players
  <1>1. ASSUME NEW c \in Conns, Client(c) \/ Handler(c) PROVE players' = players
    BY <1>1, ClientInv, HandlerInv DEF SInv, Footprint
  <1>2. Idles \/ Tick \/ Restart \/ (\E g \in Games : Posts(g)) => players' = players
    BY DEF Idles, Tick, Restart, Posts, Posted, CreateGame, storeVars
  <1> QED
    BY <1>1, <1>2, SweepPlayers DEF ServerStep

LEMMA DroppedKept ==
  ASSUME SInv, EInv, Undisturbed, ServerStep
  PROVE  Dropped'
  <1> SUFFICES ASSUME NEW d \in Conns, Login[d] \notin players'
               PROVE  /\ pc'[d] \notin {"touch", "register"}
                      /\ Live(d)' => conn'[d].player = NoPlayer
    BY DEF Dropped
  <1>1. CASE SweepStep /\ ForgetPlayer
    <2>1. /\ pc'[d] = pc[d] /\ (Live(d)' => Live(d))
          /\ conn'[d].player = conn[d].player
      BY <1>1, SweepFrame, SweepConns DEF Live
    <2>2. CASE Login[d] \notin players
      BY <2>1, <2>2 DEF EInv, Dropped
    <2>3. CASE Login[d] \in players
      <3>1. DeletePlayer(sweep.player) /\ \A c \in Conns : Live(c) => conn[c].player # sweep.player
        BY <1>1, <2>3, Forgotten DEF storeVars
      <3>2. Login[d] = sweep.player
        BY <2>3, <3>1 DEF DeletePlayer
      <3>3. pc[d] \notin Acting
        BY <1>1, <3>2 DEF ForgetPlayer, At, Undisturbed, Expiring
      <3> QED
        BY <2>1, <3>1, <3>2, <3>3 DEF Acting, EInv, Named
    <2> QED
      BY <2>2, <2>3
  <1>2. CASE ~(SweepStep /\ ForgetPlayer)
    <2>1. Login[d] \notin players /\ players' = players
      BY <1>2, SamePlayers
    <2>2. /\ pc[d] \notin {"touch", "register"}
          /\ Live(d) => conn[d].player = NoPlayer
      BY <2>1 DEF EInv, Dropped
    <2>3. Live(d)' => conn'[d].player = NoPlayer
      BY <2>2, LiveBefore DEF Register
    <2>4. ASSUME NEW c \in Conns, Client(c) \/ Handler(c) PROVE pc'[d] \notin {"touch", "register"}
      <3>1. Footprint(c)
        BY <2>4, ClientInv, HandlerInv DEF SInv
      <3>2. CASE d # c
        BY <2>2, <3>1, <3>2 DEF Footprint, Procs
      <3>3. CASE d = c
        BY <2>1, <2>2, <2>4, <3>3, Reaches DEF Authenticate, procVars
      <3> QED
        BY <3>2, <3>3
    <2>5. CASE SweepStep
      BY <2>2, <2>3, <2>5, SweepFrame
    <2>6. Restart => pc'[d] \in {"unborn", "gone"}
      BY HubAssumption DEF Restart, Procs
    <2>7. Tick \/ Idles \/ (\E g \in Games : Posts(g)) => pc' = pc
      BY DEF Tick, Idles, Posts, Posted, procVars
    <2> QED
      BY <2>2, <2>3, <2>4, <2>5, <2>6, <2>7 DEF ServerStep
  <1> QED
    BY <1>1, <1>2

LEMMA ClosesGamesKept ==
  ASSUME SInv, EInv, ServerStep
  PROVE  ExpiryClosesGames'
  <1> SUFFICES ASSUME NEW g \in Games, Open(g)'
               PROVE  /\ games'[g].who["HOST"] # NoPlayer
                      /\ games'[g].st.status # "WAITING_FOR_GUEST_TO_JOIN" =>
                           games'[g].who["GUEST"] # NoPlayer
    BY DEF ExpiryClosesGames
  <1>1. Open(g) => /\ games[g].who["HOST"] # NoPlayer
                   /\ games[g].st.status # "WAITING_FOR_GUEST_TO_JOIN" =>
                        games[g].who["GUEST"] # NoPlayer
    BY DEF EInv, ExpiryClosesGames
  <1>2. CASE games'[g] = games[g]
    BY <1>1, <1>2 DEF Open
  <1>3. CASE Carried(g)
    BY <1>1, <1>3 DEF Carried, Seats
  <1>4. CASE Joined(g)
    <2>1. PICK c \in Conns : pc[c] = "connectSave" /\ games'[g].who["GUEST"] = conn[c].player
      BY <1>4 DEF Joined
    <2>2. conn[c].player # NoPlayer
      BY <2>1 DEF SInv, IInv, Procs, Local, Place, Connecting
    <2> QED
      BY <1>1, <1>4, <2>1, <2>2 DEF Joined
  <1>5. CASE Posts(g)
    <2>1. \E t : games'[g] = Created(HostOf[g], t)
      BY <1>5, SweeperFacts DEF Posts, Posted, CreateGame
    <2>2. /\ games'[g].who["HOST"] = HostOf[g]
          /\ games'[g].st.status = "WAITING_FOR_GUEST_TO_JOIN"
      BY <2>1 DEF Created, NewState, Seats
    <2> QED
      BY <2>2, HubAssumption, StoreAssumption
  <1>6. CASE SweepStep /\ ForgetPlayer
    <2>1. CASE UNCHANGED storeVars
      BY <1>2, <2>1 DEF storeVars
    <2>2. CASE /\ DeletePlayer(sweep.player) /\ sweep.player \in Players /\ OpenOf = {}
      <3>1. /\ Open(g) /\ games[g] \in Row /\ games'[g] = Vacated(games[g], sweep.player)
            /\ games'[g].st = games[g].st
        BY <2>2, Deletion DEF Open
      <3>2. SeatOf(games[g], sweep.player) = NoSeat
        BY <2>2, <3>1 DEF OpenOf
      <3>3. games[g].who["HOST"] # sweep.player /\ games[g].who["GUEST"] # sweep.player
        BY <2>2, <3>2, SeatOfWho, StoreAssumption
      <3>4. \A seat \in Seats : games'[g].who[seat] = games[g].who[seat]
        BY <2>2, <3>1, <3>3, VacatedRow DEF Seats
      <3> QED
        BY <1>1, <3>1, <3>4 DEF Seats
    <2> QED
      BY <1>6, <2>1, <2>2, Forgotten
  <1> QED
    BY <1>3, <1>4, <1>5, <1>6, OpenRows

\* What ExpirePlayer has achieved, nobody undoes.
LEMMA NothingUndone ==
  ASSUME SInv, EInv, Undisturbed, NothingNew, ServerStep, ~(SweepStep /\ ForgetPlayer),
         pc[Sweeper] \in Expiring, sweep'.player = sweep.player, sweep'.start = sweep.start
  PROVE  /\ active'[sweep'.player] < PlayerCutoff'
         /\ OpenOf' \subseteq OpenOf
         /\ \A c \in Conns : Live(c)' /\ conn'[c].player = sweep.player =>
              Live(c) /\ conn[c].player = sweep.player
  <1>1. active'[sweep'.player] < PlayerCutoff'
    BY StaysIdle DEF EInv, Progress, PlayerCutoff
  <1>2. OpenOf' \subseteq OpenOf
    BY OpenOfShrinks DEF EInv
  <1>3. ASSUME NEW c \in Conns, Live(c)', conn'[c].player = sweep.player
        PROVE  Live(c) /\ conn[c].player = sweep.player
    <2>1. sweep.player # NoPlayer
      BY SweeperFacts, StoreAssumption DEF SweepLocal
    <2>2. ~(Register(c) /\ Login[c] = sweep.player)
      BY DEF Register, Undisturbed, Acting
    <2> QED
      BY <1>3, <2>1, <2>2, LiveBefore
  <1> QED
    BY <1>1, <1>2, <1>3

\* The player's connection is the last one to be closed.
LEMMA ConnClosed ==
  ASSUME SInv, EInv, Undisturbed, SweepStep, CloseConn, NEW c \in Conns, Live(c)'
  PROVE  conn'[c].player # sweep.player
  <1> SUFFICES ASSUME conn'[c].player = sweep.player PROVE FALSE
    OBVIOUS
  <1>1. pc[Sweeper] \in Expiring /\ sweep.player \in Players /\ sweep.player # NoPlayer /\ Typed
    BY SweeperFacts, StoreAssumption DEF CloseConn, At, Expiring, SweepLocal
  <1>2. Live(c) /\ conn[c].player = sweep.player
    BY SweepConns DEF Live
  <1>3. ~BeingReplaced(c)
    <2>1. ASSUME NEW d \in Conns, pc[d] = "replace", fr[d].target = c PROVE FALSE
      <3>1. Login[d] = sweep.player
        BY <1>2, <2>1 DEF EInv, Replacing
      <3> QED
        BY <1>1, <2>1, <3>1 DEF Undisturbed, Acting
    <2> QED
      BY <2>1 DEF BeingReplaced
  <1>4. playerConn[sweep.player] = c /\ c # NoConn
    BY <1>1, <1>2, <1>3, HubAssumption DEF SInv, IInv, NewestRegistered
  <1>5. Closed(c)
    BY <1>4 DEF CloseConn
  <1>6. conn'[c].closing
    BY <1>1, <1>5, ClosedFields
  <1> QED
    BY <1>6 DEF Live

LEMMA ProgressSwept ==
  ASSUME SInv, EInv, Undisturbed, NothingNew, ServerStep, SweepStep
  PROVE  Progress'
  <1> DEFINE Idled == /\ active'[sweep'.player] < PlayerCutoff'
                      /\ OpenOf' \subseteq OpenOf
                      /\ \A c \in Conns : Live(c)' /\ conn'[c].player = sweep.player =>
                           Live(c) /\ conn[c].player = sweep.player
  <1>1. /\ sweep \in Sweeps
        /\ \A gs \in SUBSET Games : /\ [sweep EXCEPT !.open = gs].start = sweep.start
                                    /\ [sweep EXCEPT !.open = gs].player = sweep.player
                                    /\ [sweep EXCEPT !.open = gs].open = gs
    BY SweeperFacts DEF SweepLocal, Sweeps
  <1>2. ASSUME pc[Sweeper] \in Expiring, ~ForgetPlayer, sweep'.player = sweep.player,
               sweep'.start = sweep.start
        PROVE  Idled
    BY <1>2, NothingUndone
  <1>3. CASE pc'[Sweeper] \notin Expiring
    BY <1>3 DEF Progress, Expiring, At
  <1>4. CASE SweepBegin \/ ListGames \/ SweepEnd \/ ReadFails \/ ForgetPlayer \/ ForgetGame
    <2>1. \E stage \in {"players", "games", "asleep"} : Goto(Sweeper, stage)
      BY <1>4 DEF SweepBegin, ListGames, SweepEnd, ReadFails, ForgetPlayer, ForgetGame, Abort
    <2> QED
      BY <1>3, <2>1, SweepPlace DEF Expiring
  <1>13. ASSUME NEW c \in Conns, CloseEvicted(c) PROVE Progress'
    BY <1>3, <1>13 DEF CloseEvicted, At, Expiring, procVars
  <1>5. ASSUME NEW g \in Games, ExpireGame(g) PROVE Progress'
    <2>1. pc[Sweeper] = "games" /\ (pc' = pc \/ Goto(Sweeper, "deleteGame"))
      BY <1>5 DEF ExpireGame, At, procVars
    <2> QED
      BY <1>3, <2>1, SweepPlace DEF Expiring
  <1>6. ASSUME NEW p \in Players, ExpirePlayer(p) PROVE Progress'
    <2>1. CASE Idle(p)
      <3>1. Goto(Sweeper, "listOpen") /\ active' = active
        BY <1>6, <2>1 DEF ExpirePlayer, storeVars
      <3>2. sweep'.player = p /\ sweep'.start = sweep.start
        BY <1>1, <1>6, <2>1 DEF ExpirePlayer, Sweeps
      <3>3. active[p] < PlayerCutoff
        BY <2>1 DEF Idle
      <3> QED
        BY <3>1, <3>2, <3>3, SweepPlace DEF Progress, At, PlayerCutoff
    <2>2. CASE ~Idle(p)
      BY <1>3, <1>6, <2>2 DEF ExpirePlayer, At, Expiring
    <2> QED
      BY <2>1, <2>2
  <1>7. CASE ListOpenGames
    <2>1. /\ pc[Sweeper] = "listOpen" /\ pc'[Sweeper] = "closeGames" /\ ~ForgetPlayer
          /\ sweep' = [sweep EXCEPT !.open = OpenGames(sweep.player)]
      BY <1>7, SweepPlace DEF ListOpenGames, At, ForgetPlayer
    <2>2. sweep'.player = sweep.player /\ sweep'.start = sweep.start /\ sweep'.open = OpenOf
      BY <1>1, <2>1 DEF OpenGames, OpenOf, Open
    <2>3. Idled
      BY <1>2, <2>1, <2>2 DEF Expiring
    <2> QED
      BY <2>1, <2>2, <2>3 DEF Progress, At
  <1>8. ASSUME NEW g \in Games, CloseLock(g) PROVE Progress'
    <2>1. /\ pc[Sweeper] = "closeGames" /\ ~ForgetPlayer
          /\ sweep' = [sweep EXCEPT !.open = sweep.open \ {g}]
      BY <1>1, <1>8 DEF CloseLock, At, ForgetPlayer, Sweeps
    <2>2. /\ sweep'.player = sweep.player /\ sweep'.start = sweep.start
          /\ sweep'.open = sweep.open \ {g}
      BY <1>1, <2>1 DEF Sweeps
    <2>3. Idled /\ OpenOf \subseteq sweep.open
      BY <1>2, <2>1, <2>2 DEF Expiring, EInv, Progress, At
    <2>4. CASE g \in OpenOf
      <3>1. pc'[Sweeper] = "closeSave"
        BY <1>8, <2>4, SweepPlace DEF CloseLock, OpenOf
      <3>2. fr'[Sweeper].game = g
        <4>1. \A row : [Frame("expire", Pending, g) EXCEPT !.row = row].game = g
          BY DEF Frame
        <4> QED
          BY <1>8, <2>4, <4>1, SweepPlace DEF CloseLock, OpenOf
      <3> QED
        BY <2>2, <2>3, <3>1, <3>2 DEF Progress, At
    <2>5. CASE g \notin OpenOf
      <3>1. pc' = pc
        BY <1>8, <2>5 DEF CloseLock, OpenOf, procVars
      <3> QED
        BY <2>1, <2>2, <2>3, <2>5, <3>1 DEF Progress, At
    <2> QED
      BY <2>4, <2>5
  <1>9. CASE CloseSave
    <2>1. At("closeSave") /\ pc[Sweeper] = "closeSave" /\ ~ForgetPlayer
      BY <1>9 DEF CloseSave, At, ForgetPlayer
    <2>2. CASE Abort
      BY <1>3, <2>2, SweepPlace DEF Abort, Expiring
    <2>3. CASE ~Abort
      <3>1. pc'[Sweeper] = "closeNotify" /\ sweep' = sweep
        BY <1>9, <2>3, SweepPlace DEF CloseSave
      <3>2. PICK g \in Games : g = fr[Sweeper].game /\ games'[g].st.status = "CLOSED"
        <4>1. PICK g \in Games : /\ g = fr[Sweeper].game /\ games[g] \in Row
                                 /\ fr[Sweeper].row = [games[g] EXCEPT !.st = Close(games[g].st)]
          BY <2>1, SweeperFacts DEF InGame, Holding, SweepLocal
        <4>2. fr[Sweeper].row.st.status = "CLOSED"
          BY <4>1, RowParts, CloseType DEF Close, State
        <4>3. games' = [games EXCEPT ![g] = fr[Sweeper].row]
          BY <1>9, <2>3, <4>1 DEF CloseSave, SaveGame
        <4> QED
          BY <4>1, <4>2, <4>3, SweeperFacts
      <3>3. Idled /\ OpenOf \subseteq sweep.open \cup {g}
        BY <1>2, <2>1, <3>1, <3>2 DEF Expiring, EInv, Progress
      <3>4. g \notin OpenOf'
        BY <3>2 DEF OpenOf, Open
      <3> QED
        BY <3>1, <3>3, <3>4 DEF Progress, At
    <2> QED
      BY <2>2, <2>3
  <1>10. CASE CloseNotify
    <2>1. /\ At("closeNotify") /\ pc[Sweeper] = "closeNotify" /\ ~ForgetPlayer
          /\ pc'[Sweeper] = "closeGames" /\ sweep' = sweep
      BY <1>10, CloseNotifyEffect, SweepPlace DEF At, ForgetPlayer
    <2>2. Idled /\ OpenOf \subseteq sweep.open
      BY <1>2, <2>1 DEF Expiring, EInv, Progress
    <2> QED
      BY <2>1, <2>2 DEF Progress, At
  <1>11. CASE CloseConn
    <2>1. /\ At("closeGames") /\ pc[Sweeper] = "closeGames" /\ sweep.open = {} /\ ~ForgetPlayer
          /\ pc'[Sweeper] \in {"detach", "deletePlayer"} /\ sweep' = sweep
      BY <1>11, SweepPlace DEF CloseConn, At, ForgetPlayer
    <2>2. Idled /\ OpenOf \subseteq sweep.open
      BY <1>2, <2>1 DEF Expiring, EInv, Progress
    <2>3. \A c \in Conns : Live(c)' => conn'[c].player # sweep'.player
      BY <1>11, <2>1, ConnClosed
    <2> QED
      BY <2>1, <2>2, <2>3 DEF Progress, At
  <1>12. CASE DetachStep(Sweeper) /\ UNCHANGED sweep
    <2>1. /\ pc[Sweeper] \in {"detach", "detachLock"} /\ ~ForgetPlayer
          /\ pc'[Sweeper] \in {"detach", "detachLock", "deletePlayer"}
      <3>1. pc[Sweeper] \in {"detach", "detachLock"} /\ ~ForgetPlayer
        BY <1>12 DEF DetachStep, DetachLook, DetachRetry, Detach, ForgetPlayer, At
      <3>2. fr[Sweeper].then = "deletePlayer"
        BY <3>1, SweeperFacts DEF Locals, Detaching
      <3> QED
        BY <1>12, <3>1, <3>2, SweepPlace DEF DetachStep, DetachLook, DetachRetry, Detach, Continue
    <2>2. /\ Idled /\ OpenOf = {}
          /\ \A c \in Conns : Live(c) => conn[c].player # sweep.player
      BY <1>2, <1>12, <2>1 DEF Expiring, EInv, Progress, At
    <2>3. \A c \in Conns : Live(c)' => conn'[c].player # sweep'.player
      BY <1>12, <2>2
    <2> QED
      BY <2>1, <2>2, <2>3 DEF Progress, At
  <1> QED
    BY <1>4, <1>5, <1>6, <1>7, <1>8, <1>9, <1>10, <1>11, <1>12, <1>13 DEF SweepStep

LEMMA ProgressKept ==
  ASSUME SInv, EInv, Undisturbed, NothingNew, ServerStep
  PROVE  Progress'
  <1>1. CASE SweepStep
    BY <1>1, ProgressSwept
  <1>2. CASE Restart
    BY <1>2, HubAssumption DEF Restart, Progress, Expiring, At, Procs
  <1>3. CASE ~SweepStep /\ ~Restart
    <2>1. pc'[Sweeper] = pc[Sweeper] /\ fr'[Sweeper] = fr[Sweeper] /\ sweep' = sweep
      <3>1. ASSUME NEW c \in Conns, Client(c) \/ Handler(c)
            PROVE  pc'[Sweeper] = pc[Sweeper] /\ fr'[Sweeper] = fr[Sweeper]
        BY <3>1, ClientInv, HandlerInv, HubAssumption DEF SInv, Footprint, Procs
      <3> QED
        BY <1>3, <3>1 DEF ServerStep, Idles, Tick, Posts, Posted, procVars
    <2>2. CASE pc[Sweeper] \in Expiring
      <3>1. /\ active'[sweep'.player] < PlayerCutoff'
            /\ OpenOf' \subseteq OpenOf
            /\ \A c \in Conns : Live(c)' /\ conn'[c].player = sweep.player =>
                 Live(c) /\ conn[c].player = sweep.player
        BY <1>3, <2>1, <2>2, NothingUndone
      <3> QED
        BY <2>1, <3>1 DEF EInv, Progress, At
    <2>3. CASE pc[Sweeper] \notin Expiring
      BY <2>1, <2>3 DEF Progress, Expiring, At
    <2> QED
      BY <2>2, <2>3
  <1> QED
    BY <1>1, <1>2, <1>3

LEMMA EInvStep == SInv /\ EInv /\ Undisturbed /\ [ServerNext]_vars /\ [NothingNew]_vars => EInv'
  <1>1. ASSUME SInv, EInv, Undisturbed, ServerStep, NothingNew PROVE EInv'
    BY <1>1, NamedKept, ReplacingKept, DroppedKept, ClosesGamesKept, ProgressKept DEF EInv
  <1>2. ASSUME EInv, UNCHANGED vars PROVE EInv'
    <2>1. UNCHANGED <<players, active, games, conns, conn, pc, fr, sweep>>
      BY <1>2 DEF vars, hubVars, storeVars, connVars, procVars
    <2> QED
      BY <1>2, <2>1
         DEF EInv, Named, Replacing, Dropped, Live, ExpiryClosesGames, Open, Progress, At, OpenOf,
             PlayerCutoff
  <1>3. UNCHANGED vars \/ NothingNew \/ ~[NothingNew]_vars
    OBVIOUS
  <1> QED
    BY <1>1, <1>2, <1>3, ServerCases

LEMMA ExpiryHolds ==
  ServerSpec /\ []Undisturbed /\ [][NothingNew]_vars => []EInv
  <1>1. ServerInit => EInv
    BY HubAssumption
       DEF ServerInit, HubInit, EInv, Named, Replacing, Dropped, ExpiryClosesGames, Open, Progress,
           At, Expiring, Live, NewConn, Procs
  <1> QED
    BY <1>1, EInvStep, ServerInvariant, PTL DEF ServerSpec

(***************************************************************************)
(* Expiry is complete as long as the player it is about keeps still: then  *)
(* no open game is left without its host or its guest, and no live         *)
(* connection is authenticated as a player that has been deleted.          *)
(***************************************************************************)
THEOREM ExpiryIsComplete ==
  ServerSpec /\ []Undisturbed /\ [][NothingNew]_vars => []ExpiryComplete
  <1>1. EInv => ExpiryComplete
    BY DEF EInv, ExpiryComplete, ExpiryTerminates, Dropped, Named
  <1> QED
    BY <1>1, ExpiryHolds, PTL

(***************************************************************************)
(* And only a player that is inactive beyond the TTL at that very moment   *)
(* is deleted.                                                             *)
(***************************************************************************)
THEOREM OnlyTheIdleExpire ==
  ServerSpec /\ []Undisturbed /\ [][NothingNew]_vars => OnlyIdlePlayersDeleted
  <1>1. SInv /\ EInv /\ [ServerNext]_vars =>
          [\A p \in players \ players' : active[p] < now - PlayerTTL]_vars
    <2> SUFFICES ASSUME SInv, EInv, ServerStep, NEW p \in players \ players'
                 PROVE  active[p] < now - PlayerTTL
      BY ServerCases
    <2>1. SweepStep /\ ForgetPlayer
      BY SamePlayers
    <2>2. p = sweep.player /\ p \in Players /\ active[p] < PlayerCutoff
      BY <2>1, Forgotten DEF DeletePlayer, storeVars
    <2>3. /\ sweep.start \in Nat /\ now \in Nat /\ PlayerTTL \in Nat /\ active[p] \in Nat
          /\ sweep.start <= now
      BY <2>2, SweeperFacts, StoreAssumption, ServerAssumption
         DEF SweepLocal, Sweeps, Times, Typed, TypeOK, StoreTypeOK
    <2> QED
      BY <2>2, <2>3 DEF PlayerCutoff
  <1> QED
    BY <1>1, ServerInvariant, ExpiryHolds, PTL DEF ServerSpec, OnlyIdlePlayersDeleted

-----------------------------------------------------------------------------
(* Who sits where, when players are deleted.                                *)

GuestsIn(row) == row.who["GUEST"] # NoPlayer => ~CanJoin(row.st)

\* A game with a guest waits for none, even when the guest is deleted.
RowsJoined == \A g \in Games : games[g] # NoRow => GuestsIn(games[g])

(***************************************************************************)
(* Whoever sits in the guest's seat has joined, and a seat is shared by    *)
(* connections of one player only: nobody takes a seat that a deletion has *)
(* vacated.                                                                *)
(***************************************************************************)
SeatsTaken ==
  \A g \in Games : \A c \in attached[g] :
    /\ conn[c].seat = "GUEST" => ~CanJoin(games[g].st)
    /\ \A d \in attached[g] : conn[d].seat = conn[c].seat => conn[d].player = conn[c].player

\* The row c tells of is that of everybody attached, and one that c attaches
\* by has its guest.
Attaching(c) == RowOfAll(c) /\ (pc[c] = "connectAttach" => GuestsIn(fr[c].row))

WInv ==
  /\ ViewsTyped /\ RowsJoined /\ SeatsBacked /\ SeatsTaken
  /\ \A p \in Procs : TellsRow(p)
  /\ \A c \in Conns : Attaching(c)

\* No game goes back to waiting for a guest.
LEMMA StaysJoined ==
  ASSUME SInv, ServerStep, NEW g \in Games, games[g] # NoRow, games'[g] # NoRow,
         CanJoin(games'[g].st)
  PROVE  CanJoin(games[g].st)
  <1>1. CASE SweepStep /\ ForgetPlayer
    <2>1. games' = games \/ \E p \in Players : DeletePlayer(p)
      BY <1>1, SweeperFacts DEF ForgetPlayer, At, SweepLocal, Expiring, storeVars
    <2> QED
      BY <2>1, Deletion
  <1>2. CASE ~(SweepStep /\ ForgetPlayer)
    <2>1. Open(g)'
      BY DEF Open, CanJoin
    <2>2. ~Posts(g)
      BY DEF Posts, Posted, CreateGame, SInv, UsedRows
    <2>3. Carried(g) \/ Joined(g)
      BY <1>2, <2>1, <2>2, OpenRows
    <2> QED
      BY <2>3 DEF Carried, Joined, CanJoin
  <1> QED
    BY <1>1, <1>2

LEMMA RowsJoinedKept ==
  ASSUME SInv, RowsJoined, ServerStep
  PROVE  RowsJoined'
  <1> SUFFICES ASSUME NEW g \in Games, games'[g] # NoRow, games'[g].who["GUEST"] # NoPlayer,
                      CanJoin(games'[g].st)
               PROVE  FALSE
    BY DEF RowsJoined, GuestsIn, CanJoin
  <1>1. CASE games[g] = NoRow
    <2>1. ~CanJoin(games'[g].st) \/ Posts(g)
      <3>1. ~(SweepStep /\ ForgetPlayer)
        <4>1. SweepStep /\ ForgetPlayer => games' = games \/ \E p \in Players : DeletePlayer(p)
          BY SweeperFacts DEF ForgetPlayer, At, SweepLocal, Expiring, storeVars
        <4> QED
          BY <1>1, <4>1, Deletion
      <3>2. Open(g)'
        BY DEF Open, CanJoin
      <3> QED
        BY <1>1, <3>1, <3>2, OpenRows DEF Carried, Joined, Open
    <2>2. Posts(g) => \E t \in Times : games'[g] = Created(HostOf[g], t)
      BY SweeperFacts DEF Posts, Posted, CreateGame
    <2>3. \A t \in Times : Created(HostOf[g], t).who["GUEST"] = NoPlayer
      BY DEF Created, Seats
    <2> QED
      BY <2>1, <2>2, <2>3
  <1>2. CASE games[g] # NoRow
    <2>1. CanJoin(games[g].st)
      BY <1>2, StaysJoined
    <2>2. games[g].who["GUEST"] = NoPlayer
      BY <1>2, <2>1 DEF RowsJoined, GuestsIn
    <2>3. games'[g].st.status = "ACTIVE"
      BY <1>2, <2>2, SeatsStep DEF Seats
    <2> QED
      BY <2>3 DEF CanJoin
  <1> QED
    BY <1>1, <1>2

\* Nobody attaches, and whoever stays attached keeps its seat.
NobodyAttaches ==
  \A g \in Games : \A d \in attached'[g] :
    d \in attached[g] /\ conn'[d].seat = conn[d].seat /\ conn'[d].player = conn[d].player

LEMMA CrowdKept ==
  ASSUME SInv, SInv', SeatsBacked, SeatsTaken, ServerStep, NobodyAttaches
  PROVE  SeatsBacked' /\ SeatsTaken'
  <1>1. ASSUME NEW g \in Games, NEW d \in attached'[g]
        PROVE  /\ d \in attached[g] /\ conn'[d].seat = conn[d].seat
               /\ conn'[d].player = conn[d].player /\ conn[d].seat \in Seats
               /\ games[g] # NoRow /\ games'[g] # NoRow
    BY <1>1 DEF NobodyAttaches, SInv, IInv, Backed
  <1>2. ASSUME NEW g \in Games, NEW d \in attached'[g]
        PROVE  conn[d].seat = "GUEST" => ~CanJoin(games'[g].st)
    BY <1>1, <1>2, StaysJoined DEF SeatsTaken
  <1>3. ASSUME NEW g \in Games, NEW d \in attached'[g]
        PROVE  games'[g].who[conn[d].seat] \in {conn[d].player, NoPlayer}
    <2>1. games[g].who[conn[d].seat] \in {conn[d].player, NoPlayer}
      BY <1>1, <1>3 DEF SeatsBacked
    <2>2. conn[d].seat = "GUEST" => ~CanJoin(games[g].st)
      BY <1>1, <1>3 DEF SeatsTaken
    <2> QED
      BY <1>1, <1>3, <2>1, <2>2, SeatsStep DEF CanJoin
  <1>4. SeatsBacked'
    BY <1>1, <1>3 DEF SeatsBacked
  <1>5. SeatsTaken'
    BY <1>1, <1>2 DEF SeatsTaken, CanJoin
  <1> QED
    BY <1>4, <1>5

\* What p tells of stays while p holds the lock, but for deletions.
RowKept(g) ==
  /\ games'[g] \in Row /\ games'[g].st = games[g].st
  /\ \A row \in Row : Fits(row, g) => Fits(row, g)'

LEMMA HeldTells ==
  ASSUME SInv, NEW p \in Procs, TellsRow(p), pc'[p] = pc[p], fr'[p] = fr[p],
         pc[p] \in Tellers => RowKept(fr[p].game),
         p \in Conns =>
           /\ conn'[p].player = conn[p].player
           /\ \/ conn'[p].game = conn[p].game /\ conn'[p].seat = conn[p].seat
              \/ conn[p].game # fr[p].game /\ conn'[p].game = NoGame
  PROVE  TellsRow(p)'
  <1> SUFFICES ASSUME pc[p] \in Tellers PROVE TellsRow(p)'
    BY DEF TellsRow
  <1>1. p \notin Conns => p = Sweeper /\ pc[p] \notin {"opNotify", "connectAttach"}
    BY SweeperFacts DEF SweepLocal, SweepStages, Procs
  <1>2. fr[p].game # NoGame
    BY SweeperFacts, HubAssumption DEF SInv, IInv, Local, Locals, InGame, Holding, Tellers, Notifying
  <1>3. PICK g, row : g = fr[p].game /\ row = fr[p].row /\ fr'[p].game = g /\ fr'[p].row = row
    OBVIOUS
  <1>4. /\ row \in Row /\ row.st = games[g].st /\ Fits(row, g)
        /\ pc[p] = "opNotify" => conn[p].game = g
        /\ pc[p] = "closeNotify" \/ (pc[p] = "opNotify" /\ fr[p].op = "leave") =>
             row.st.status = "CLOSED"
        /\ pc[p] = "connectAttach" =>
             /\ SeatOf(row, conn[p].player) # NoSeat
             /\ conn[p].game = g => conn[p].seat = SeatOf(row, conn[p].player)
    BY <1>3 DEF TellsRow
  <1>5. games'[g] \in Row /\ row.st = games'[g].st /\ Fits(row, g)'
    BY <1>3, <1>4 DEF RowKept
  <1>6. /\ pc[p] = "opNotify" => conn'[p].game = g
        /\ pc[p] = "connectAttach" =>
             /\ SeatOf(row, conn'[p].player) # NoSeat
             /\ conn'[p].game = g => conn'[p].seat = SeatOf(row, conn'[p].player)
    BY <1>1, <1>2, <1>3, <1>4
  <1> QED
    BY <1>3, <1>4, <1>5, <1>6 DEF TellsRow

-----------------------------------------------------------------------------
(* The hub keeps it.                                                        *)

\* c attaches by telling; nobody else's attachment changes but to end.
AttachesOnly(c, g) ==
  /\ Tells(c, g)
  /\ \A h \in Games : \A d \in attached'[h] :
       /\ conn'[d].player = conn[d].player
       /\ \/ d \in attached[h] /\ conn'[d].seat = conn[d].seat
          \/ /\ h = g /\ d = c /\ pc[c] = "connectAttach"
             /\ conn'[c].seat = SeatOf(fr[c].row, conn[c].player)

LEMMA HubCrowd ==
  ASSUME SInv, SInv', NEW c \in Conns, Kinds(c)
  PROVE  NobodyAttaches \/ \E g \in Games : AttachesOnly(c, g)
  <1>1. \A h \in Games : attached[h] \subseteq Conns /\ attached'[h] \subseteq Conns
    BY DEF SInv, IInv, Typed, TypeOK
  <1>2. \A h \in Games, d \in Conns : /\ d \in attached[h] <=> conn[d].game = h
                                      /\ d \in attached'[h] <=> conn'[d].game = h
    BY DEF SInv, IInv, RegistriesAgree
  <1>3. CASE Quiet
    <2>1. \A h \in Games : \A d \in attached[h] : conn[d].player # NoPlayer
      BY SeatHeld DEF SInv
    <2> QED
      BY <1>1, <1>3, <2>1 DEF Quiet, NobodyAttaches
  <1>4. CASE Unregister(c)
    BY <1>4 DEF Unregister, NobodyAttaches
  <1>5. ASSUME NEW g \in Games, Saved(c, g) PROVE NobodyAttaches
    BY <1>5 DEF Saved, NobodyAttaches
  <1>6. ASSUME NEW g \in Games, Closes(c, g) PROVE NobodyAttaches
    <2>1. \A h \in Games : \A d \in attached'[h] : d \in attached[h] /\ d \notin attached[g]
      BY <1>1, <1>2, <1>6 DEF Closes
    <2> QED
      BY <1>1, <1>6, <2>1 DEF Closes, NobodyAttaches
  <1>7. ASSUME NEW t \in Conns, NEW g \in Games, Leaves(c, t, g) PROVE NobodyAttaches
    <2>1. \A h \in Games : \A d \in attached'[h] : d \in attached[h] /\ d # t
      BY <1>1, <1>2, <1>7 DEF Leaves
    <2> QED
      BY <1>1, <1>7, <2>1 DEF Leaves, NobodyAttaches
  <1>8. ASSUME NEW g \in Games, Tells(c, g) PROVE AttachesOnly(c, g)
    <2> SUFFICES ASSUME NEW h \in Games, NEW d \in attached'[h]
                 PROVE  /\ conn'[d].player = conn[d].player
                        /\ \/ d \in attached[h] /\ conn'[d].seat = conn[d].seat
                           \/ /\ h = g /\ d = c /\ pc[c] = "connectAttach"
                              /\ conn'[c].seat = SeatOf(fr[c].row, conn[c].player)
      BY <1>8 DEF AttachesOnly
    <2>1. /\ conn'[d].player = conn[d].player
          /\ \/ conn'[d].game = conn[d].game /\ conn'[d].seat = conn[d].seat
             \/ /\ d = c /\ pc[c] = "connectAttach" /\ conn'[c].game = g
                /\ conn'[c].seat = SeatOf(fr[c].row, conn[c].player)
      BY <1>1, <1>8 DEF Tells
    <2> QED
      BY <1>1, <1>2, <2>1
  <1> QED
    BY <1>3, <1>4, <1>5, <1>6, <1>7, <1>8 DEF Kinds

\* A new member shares its seat with its own player only.
LEMMA AttachesCrowd ==
  ASSUME SInv, SInv', SeatsBacked, SeatsTaken, NEW c \in Conns, TellsRow(c), Attaching(c),
         NEW g \in Games, AttachesOnly(c, g)
  PROVE  SeatsBacked' /\ SeatsTaken'
  <1>1. /\ games' = games /\ fr[c].game = g
        /\ \A d \in attached'[g] : games[g].who[conn'[d].seat] \in {conn[d].player, NoPlayer}
    BY DEF AttachesOnly, Tells
  <1>2. \A h \in Games : \A d \in attached'[h] :
          /\ conn'[d].player = conn[d].player
          /\ \/ d \in attached[h] /\ conn'[d].seat = conn[d].seat
             \/ /\ h = g /\ d = c /\ pc[c] = "connectAttach"
                /\ conn'[c].seat = SeatOf(fr[c].row, conn[c].player)
    BY DEF AttachesOnly
  <1>3. SeatsBacked'
    <2> SUFFICES ASSUME NEW h \in Games, NEW d \in attached'[h]
                 PROVE  games[h].who[conn'[d].seat] \in {conn[d].player, NoPlayer}
      BY <1>1, <1>2 DEF SeatsBacked
    <2>1. CASE h = g
      BY <1>1, <2>1
    <2>2. CASE h # g
      BY <1>2, <2>2 DEF SeatsBacked
    <2> QED
      BY <2>1, <2>2
  <1>4. ASSUME pc[c] = "connectAttach", c \in attached'[g],
               conn'[c].seat = SeatOf(fr[c].row, conn[c].player)
        PROVE  /\ conn'[c].seat = "GUEST" => ~CanJoin(games[g].st)
               /\ \A e \in attached[g] : conn[e].seat = conn'[c].seat => conn[e].player = conn[c].player
    <2>1. /\ fr[c].row.st = games[g].st /\ conn'[c].seat # NoSeat
          /\ GuestsIn(fr[c].row)
          /\ \A e \in attached[g] : fr[c].row.who[conn[e].seat] \in {conn[e].player, NoPlayer}
      BY <1>1, <1>4 DEF TellsRow, Tellers, Notifying, Attaching, RowOfAll, SeatedAs
    <2>2. conn[c].player # NoPlayer
      BY <1>4 DEF SInv, IInv, Local, Place, Connecting, Procs
    <2>3. fr[c].row.who[conn'[c].seat] = conn[c].player
      BY <1>4, <2>1 DEF SeatOf
    <2> QED
      BY <2>1, <2>2, <2>3 DEF GuestsIn
  <1>5. SeatsTaken'
    <2> SUFFICES ASSUME NEW h \in Games, NEW d \in attached'[h]
                 PROVE  /\ conn'[d].seat = "GUEST" => ~CanJoin(games[h].st)
                        /\ \A e \in attached'[h] :
                             conn'[e].seat = conn'[d].seat => conn'[e].player = conn'[d].player
      BY <1>1 DEF SeatsTaken, CanJoin
    <2>1. conn'[d].seat = "GUEST" => ~CanJoin(games[h].st)
      BY <1>2, <1>4 DEF SeatsTaken
    <2>2. ASSUME NEW e \in attached'[h], conn'[e].seat = conn'[d].seat
          PROVE  conn'[e].player = conn'[d].player
      BY <1>2, <1>4, <2>2 DEF SeatsTaken
    <2> QED
      BY <2>1, <2>2
  <1> QED
    BY <1>3, <1>5

\* What the others tell stays.
LEMMA OthersTell ==
  ASSUME SInv, SInv', NEW c \in Procs, Footprint(c), NEW p \in Procs \ {c}, TellsRow(p)
  PROVE  TellsRow(p)'
  <1>1. pc'[p] = pc[p] /\ fr'[p] = fr[p] /\ players' = players
    BY DEF Footprint
  <1> SUFFICES ASSUME pc[p] \in Tellers PROVE TellsRow(p)'
    BY <1>1 DEF TellsRow
  <1>2. fr[p].game \in Games /\ lock[fr[p].game] = p /\ p \notin {NoProc, c}
    BY HubAssumption
       DEF SInv, IInv, Local, Locals, InGame, Holding, Tellers, Notifying, Procs
  <1>3. games'[fr[p].game] = games[fr[p].game]
    BY <1>2 DEF Footprint
  <1>4. RowKept(fr[p].game)
    BY <1>1, <1>3 DEF RowKept, TellsRow, Fits
  <1>5. p \in Conns =>
          /\ conn'[p].player = conn[p].player
          /\ \/ conn'[p].game = conn[p].game /\ conn'[p].seat = conn[p].seat
             \/ conn[p].game # fr[p].game /\ conn'[p].game = NoGame
    BY <1>2 DEF Footprint
  <1> QED
    BY <1>1, <1>4, <1>5, HeldTells

LEMMA OthersAttach ==
  ASSUME SInv, SInv', NEW c \in Conns, Footprint(c), NobodyAttaches \/ \E g \in Games : AttachesOnly(c, g),
         NEW p \in Conns \ {c}, Attaching(p)
  PROVE  Attaching(p)'
  <1>1. pc'[p] = pc[p] /\ fr'[p] = fr[p]
    BY DEF Footprint, Procs
  <1> SUFFICES ASSUME pc[p] \in Notifying PROVE Attaching(p)'
    BY <1>1 DEF Attaching, RowOfAll, Notifying
  <1>2. PICK g \in Games : g = fr[p].game
    BY DEF SInv, IInv, Local, Locals, InGame, Holding, Notifying, Procs
  <1>3. \A d \in attached'[g] :
          d \in attached[g] /\ conn'[d].seat = conn[d].seat /\ conn'[d].player = conn[d].player
    <2>1. ~AttachesOnly(c, g)
      <3>1. AttachesOnly(c, g) => pc[c] \in Holding /\ fr[c].game = g
        BY DEF AttachesOnly, Tells, Notifying, Holding
      <3>2. pc[p] \in Holding /\ c \in Procs /\ p \in Procs
        BY DEF Holding, Notifying, Procs
      <3> QED
        BY <1>2, <3>1, <3>2, OneTeller DEF SInv
    <2>2. CASE NobodyAttaches
      BY <2>2 DEF NobodyAttaches
    <2>3. ASSUME NEW h \in Games, AttachesOnly(c, h)
          PROVE  \A d \in attached'[g] :
                   d \in attached[g] /\ conn'[d].seat = conn[d].seat /\ conn'[d].player = conn[d].player
      BY <2>1, <2>3 DEF AttachesOnly
    <2> QED
      BY <2>2, <2>3
  <1> QED
    BY <1>1, <1>2, <1>3 DEF Attaching, RowOfAll, SeatedAs, SeatOf, GuestsIn, CanJoin

\* What c itself is about to tell.
LEMMA OwnTells ==
  ASSUME SInv, SInv', WInv, SeatsBacked', RowsJoined', NEW c \in Conns, Kinds(c)
  PROVE  TellsRow(c)' /\ Attaching(c)'
  <1>1. pc[c] # "closeNotify" /\ pc'[c] # "closeNotify" /\ c \in Procs
    BY DEF SInv, IInv, Typed, TypeOK, Stages, Procs
  <1>2. CASE pc'[c] \notin Notifying
    BY <1>1, <1>2 DEF TellsRow, Attaching, RowOfAll, Tellers, Notifying
  <1>3. ASSUME Quiet, pc'[c] \in Notifying PROVE TellsRow(c)' /\ Attaching(c)'
    <2>1. /\ UNCHANGED <<games, players, attached>> /\ pc'[c] = pc[c] /\ fr'[c] = fr[c]
          /\ conn'[c].game = conn[c].game /\ conn'[c].seat = conn[c].seat
          /\ conn[c].player # NoPlayer => conn'[c].player = conn[c].player
      BY <1>3 DEF Quiet
    <2>2. TellsRow(c) /\ Attaching(c)
      BY <1>1 DEF WInv
    <2>3. conn'[c].player = conn[c].player
      BY <1>1, <1>3, <2>1
         DEF SInv, IInv, Local, Place, Notifying, Connecting, Operating
    <2>4. RowKept(fr[c].game)
      BY <1>3, <2>1, <2>2 DEF RowKept, TellsRow, Tellers, Fits
    <2>5. NobodyAttaches
      BY <1>3, HubCrowd, Zenon DEF AttachesOnly, Tells
    <2>6. TellsRow(c)'
      BY <1>1, <2>1, <2>2, <2>3, <2>4, HeldTells
    <2>7. Attaching(c)'
      <3>1. fr[c].game \in Games
        BY <1>1, <1>3, <2>1 DEF SInv, IInv, Local, Locals, InGame, Holding, Notifying
      <3> QED
        BY <1>3, <2>1, <2>2, <2>5, <3>1
           DEF Attaching, RowOfAll, SeatedAs, SeatOf, NobodyAttaches, GuestsIn, CanJoin
    <2> QED
      BY <2>6, <2>7
  <1>4. ASSUME NEW g \in Games, Saved(c, g) PROVE TellsRow(c)' /\ Attaching(c)'
    <2>1. PICK row \in Row :
            /\ row = games'[g] /\ fr'[c].game = g /\ fr'[c].row = row
            /\ UNCHANGED <<players, conn, attached>>
            /\ \A seat \in Seats : row.who[seat] \in players \cup {NoPlayer}
            /\ pc'[c] = "opNotify" => conn[c].game = g
            /\ pc'[c] = "opNotify" /\ fr'[c].op = "leave" => row.st.status = "CLOSED"
            /\ pc'[c] = "connectAttach" =>
                 conn[c].player \in players /\ SeatOf(row, conn[c].player) # NoSeat
      BY <1>4 DEF Saved
    <2>2. Fits(row, g)'
      BY <2>1 DEF Fits
    <2>3. conn'[c].game = g /\ conn'[c].player \in players'
            => conn'[c].seat = SeatOf(row, conn'[c].player)
      BY <2>1 DEF SInv, IInv, RegistriesAgree, Backed
    <2>4. TellsRow(c)'
      BY <1>1, <2>1, <2>2, <2>3 DEF TellsRow
    <2>5. games'[g] # NoRow
      BY <2>1, RowAssumption
    <2>6. ASSUME NEW d \in attached'[g] PROVE SeatedAs(row, conn'[d].player, conn'[d].seat)
      <3>1. row.who[conn'[d].seat] \in {conn'[d].player, NoPlayer}
        BY <2>1, <2>6 DEF SeatsBacked
      <3>2. /\ conn'[d].player # NoPlayer
            /\ conn'[d].player \in players => conn'[d].seat = SeatOf(row, conn'[d].player)
        BY <2>1, <2>6, HubAssumption DEF SInv, IInv, Typed, TypeOK, RegistriesAgree, Backed
      <3>3. conn'[d].player \notin players => SeatOf(row, conn'[d].player) = NoSeat
        BY <2>1, <3>2 DEF SeatOf, Seats
      <3> QED
        BY <3>1, <3>2, <3>3 DEF SeatedAs
    <2>7. GuestsIn(row)
      BY <2>1, <2>5 DEF RowsJoined, GuestsIn, CanJoin
    <2>8. Attaching(c)'
      BY <2>1, <2>6, <2>7 DEF Attaching, RowOfAll
    <2> QED
      BY <2>4, <2>8
  <1>5. pc'[c] \in Notifying => Quiet \/ \E g \in Games : Saved(c, g)
    <2>1. Unregister(c) => pc'[c] = "gone"
      BY <1>1 DEF Unregister, Goto, SInv, IInv, Typed
    <2> QED
      BY <2>1 DEF Kinds, Tells, Closes, Leaves, Tellers, Notifying
  <1> QED
    BY <1>2, <1>3, <1>4, <1>5

\* Whatever is shown is a view, or nothing.
LEMMA ClosesTyped ==
  ASSUME ViewsTyped, NEW p \in Procs, NEW g \in Games, Closes(p, g)
  PROVE  ViewsTyped'
  <1>1. \A o \in Conns : shown'[o] \in Views \cup {NoView}
    BY DEF Closes, ViewsTyped
  <1>2. shown' = [o \in Conns |-> shown'[o]]
    BY DEF Closes
  <1> QED
    BY <1>1, <1>2 DEF ViewsTyped

LEMMA LeavesTyped ==
  ASSUME ViewsTyped, NEW p \in Procs, NEW t \in Conns, NEW g \in Games, Leaves(p, t, g)
  PROVE  ViewsTyped'
  <1>1. ASSUME NEW v \in Views \cup {NoView}, NEW seat PROVE WithDown(v, seat) \in Views \cup {NoView}
    BY DownView DEF WithDown
  <1>2. \A o \in Conns : shown'[o] \in Views \cup {NoView}
    BY <1>1 DEF Leaves, ViewsTyped
  <1>3. shown' = [o \in Conns |-> shown'[o]]
    BY DEF Leaves
  <1> QED
    BY <1>2, <1>3 DEF ViewsTyped

LEMMA KindsTyped ==
  ASSUME SInv, ViewsTyped, NEW c \in Conns, Kinds(c)
  PROVE  ViewsTyped'
  <1>1. shown \in [Conns -> Views \cup {NoView}] /\ StoreTypeOK /\ c \in Procs
    BY DEF ViewsTyped, SInv, IInv, Typed, TypeOK, Procs
  <1>2. CASE Quiet
    BY <1>1, <1>2 DEF Quiet, ViewsTyped
  <1>3. CASE Unregister(c)
    BY <1>1, <1>3 DEF Unregister, ViewsTyped
  <1>4. ASSUME NEW g \in Games, Saved(c, g) PROVE ViewsTyped'
    BY <1>1, <1>4 DEF Saved, ViewsTyped
  <1>5. ASSUME NEW g \in Games, Tells(c, g) PROVE ViewsTyped'
    <2>1. ASSUME NEW o \in Conns, Fresh(o, g) PROVE shown'[o] \in Views
      <3>1. PICK you \in Seats, row \in Row :
              \E found \in Finds(row) : shown'[o] = Snapshot(g, row, you, attached'[g], found)
        BY <2>1 DEF Fresh
      <3> QED
        BY <1>1, <3>1, FindsPlayers, SnapshotView
    <2>2. \A o \in Conns : shown'[o] \in Views \cup {NoView}
      BY <1>1, <1>5, <2>1 DEF Tells
    <2>3. shown' = [o \in Conns |-> shown'[o]]
      BY <1>5 DEF Tells
    <2> QED
      BY <2>2, <2>3 DEF ViewsTyped
  <1>6. ASSUME NEW g \in Games, Closes(c, g) PROVE ViewsTyped'
    BY <1>1, <1>6, ClosesTyped
  <1>7. ASSUME NEW t \in Conns, NEW g \in Games, Leaves(c, t, g) PROVE ViewsTyped'
    BY <1>1, <1>7, LeavesTyped
  <1> QED
    BY <1>2, <1>3, <1>4, <1>5, <1>6, <1>7 DEF Kinds

LEMMA HubWatch ==
  ASSUME SInv, WInv, NEW c \in Conns, Client(c) \/ Handler(c), UNCHANGED sweep
  PROVE  WInv'
  <1>1. SInv' /\ ServerStep
    BY HubStepInv DEF ServerStep
  <1>2. Footprint(c) /\ c \in Procs
    BY ClientInv, HandlerInv DEF SInv, Procs
  <1>3. /\ ViewsTyped /\ RowsJoined /\ SeatsBacked /\ SeatsTaken
        /\ \A p \in Procs : TellsRow(p)
        /\ \A p \in Conns : Attaching(p)
    BY DEF WInv
  <1>4. Kinds(c)
    BY <1>2, <1>3, StepKinds DEF SInv, Attaching
  <1>5. NobodyAttaches \/ \E g \in Games : AttachesOnly(c, g)
    BY <1>1, <1>4, HubCrowd
  <1>6. RowsJoined'
    BY <1>1, <1>3, RowsJoinedKept
  <1>7. SeatsBacked' /\ SeatsTaken'
    BY <1>1, <1>2, <1>3, <1>5, CrowdKept, AttachesCrowd
  <1>8. TellsRow(c)' /\ Attaching(c)'
    BY <1>1, <1>4, <1>6, <1>7, OwnTells
  <1>9. /\ \A p \in Procs \ {c} : TellsRow(p)'
        /\ \A p \in Conns \ {c} : Attaching(p)'
    BY <1>1, <1>2, <1>3, <1>5, OthersTell, OthersAttach
  <1>10. ViewsTyped'
    BY <1>3, <1>4, KindsTyped
  <1> QED
    BY <1>6, <1>7, <1>8, <1>9, <1>10 DEF WInv

-----------------------------------------------------------------------------
(* So does the sweeper.                                                     *)

\* It detaches from games that are free or that it has locked.
LEMMA SweepSheds ==
  ASSUME SInv, SweepStep
  PROVE  /\ \A h \in Games : attached'[h] \subseteq attached[h]
         /\ \A d \in Conns :
              \/ conn'[d].game = conn[d].game /\ conn'[d].seat = conn[d].seat
              \/ /\ conn[d].game \in Games /\ lock[conn[d].game] \in {NoProc, Sweeper}
                 /\ conn'[d].game = NoGame
  <1> DEFINE Sheds == /\ \A h \in Games : attached'[h] \subseteq attached[h]
                      /\ \A d \in Conns :
                           \/ conn'[d].game = conn[d].game /\ conn'[d].seat = conn[d].seat
                           \/ /\ conn[d].game \in Games /\ lock[conn[d].game] \in {NoProc, Sweeper}
                              /\ conn'[d].game = NoGame
  <1>1. Typed /\ IInv
    BY SweeperFacts DEF SInv
  <1>2. ASSUME UNCHANGED <<attached, conn>> PROVE Sheds
    BY <1>2
  <1>3. ASSUME NEW g \in Games, NEW cs \in SUBSET Conns, cs \subseteq attached[g], Detached(cs, g),
               lock[g] \in {NoProc, Sweeper}
        PROVE  Sheds
    <2>1. /\ attached'[g] = attached[g] \ cs
          /\ \A h \in Games \ {g} : attached'[h] = attached[h]
          /\ \A c \in cs : conn[c].game = g /\ conn'[c].game = NoGame
          /\ \A c \in Conns \ cs : conn'[c].game = conn[c].game /\ conn'[c].seat = conn[c].seat
      BY <1>1, <1>3, DetachedConns
    <2> QED
      BY <1>3, <2>1
  <1>4. CASE \/ SweepBegin \/ ListOpenGames \/ CloseSave \/ ForgetPlayer \/ ListGames \/ ForgetGame
             \/ SweepEnd \/ ReadFails \/ (\E p \in Players : ExpirePlayer(p))
             \/ (\E g \in Games : CloseLock(g)) \/ DetachLook(Sweeper) \/ DetachRetry(Sweeper)
    <2>1. UNCHANGED connVars
      BY <1>4
         DEF SweepBegin, ListOpenGames, CloseSave, ForgetPlayer, ListGames, ForgetGame, SweepEnd,
             ReadFails, ExpirePlayer, CloseLock, DetachLook, DetachRetry
    <2> QED
      BY <1>2, <2>1 DEF connVars
  <1>5. CASE CloseConn
    <2>1. playerConn[sweep.player] \in Conns \cup {NoConn}
      BY <1>1, <1>5, SweeperFacts DEF CloseConn, At, SweepLocal, Expiring, Typed, TypeOK
    <2>2. \/ UNCHANGED <<attached, conn>>
          \/ \E t \in Conns : Closed(t) /\ UNCHANGED attached
      BY <1>5, <2>1 DEF CloseConn
    <2> QED
      BY <1>1, <1>2, <2>2, ClosedFields
  <1>6. CASE CloseNotify
    <2>1. PICK g \in Games : g = fr[Sweeper].game /\ Detached(attached[g], g) /\ lock[g] = Sweeper
      BY <1>6, SweeperFacts, CloseNotifyEffect DEF InGame, Holding
    <2>2. attached[g] \in SUBSET Conns
      BY <1>1 DEF Typed, TypeOK
    <2> QED
      BY <1>3, <2>1, <2>2
  <1>7. CASE Detach(Sweeper)
    <2>1. /\ fr[Sweeper].target \in Conns /\ fr[Sweeper].from \in Games
      BY <1>7, SweeperFacts DEF Detach, Locals, Detaching
    <2>2. PICK t \in Conns, g \in Games :
            conn[t].game = g /\ lock[g] = NoProc /\ Detached({t}, g)
      BY <1>7, <2>1 DEF Detach, Free
    <2>3. {t} \subseteq attached[g]
      BY <1>1, <2>2 DEF IInv, RegistriesAgree
    <2> QED
      BY <1>3, <2>2, <2>3
  <1>8. ASSUME NEW g \in Games, ExpireGame(g) PROVE Sheds
    <2>1. \/ UNCHANGED <<attached, conn>>
          \/ Detached(attached[g], g) /\ lock[g] = NoProc
      BY <1>8 DEF ExpireGame, Evict, Hold, Free
    <2>2. attached[g] \in SUBSET Conns
      BY <1>1 DEF Typed, TypeOK
    <2> QED
      BY <1>2, <1>3, <2>1, <2>2
  <1>9. ASSUME NEW c \in Conns, CloseEvicted(c) PROVE Sheds
    BY <1>1, <1>9, ClosedFields DEF CloseEvicted
  <1> QED
    BY <1>4, <1>5, <1>6, <1>7, <1>8, <1>9 DEF SweepStep, DetachStep

LEMMA SweepNobody ==
  ASSUME SInv, SInv', SweepStep
  PROVE  NobodyAttaches
  <1> SUFFICES ASSUME NEW h \in Games, NEW d \in attached'[h]
               PROVE  d \in attached[h] /\ conn'[d].seat = conn[d].seat /\ conn'[d].player = conn[d].player
    BY DEF NobodyAttaches
  <1>1. d \in Conns /\ conn'[d].game = h /\ h # NoGame
    BY HubAssumption DEF SInv, IInv, Typed, TypeOK, RegistriesAgree
  <1> QED
    BY <1>1, SweepSheds, SweepConns

\* It leaves the rows alone that others have locked, but for deleted players.
LEMMA SweepKeepsRow ==
  ASSUME SInv, SweepStep, NEW g \in Games, games[g] \in Row,
         CloseSave \/ ForgetGame => lock[g] # Sweeper
  PROVE  RowKept(g)
  <1>1. games \in [Games -> Row \cup {NoRow}] /\ games[g] # NoRow
    BY SweeperFacts, RowAssumption
  <1>2. ASSUME games'[g] = games[g], players' = players PROVE RowKept(g)
    BY <1>2 DEF RowKept, Fits
  <1>3. CASE ForgetPlayer
    <2>1. \/ games' = games /\ players' = players
          \/ \E p \in Players : DeletePlayer(p)
      BY <1>3, SweeperFacts DEF ForgetPlayer, At, SweepLocal, Expiring, storeVars
    <2>2. ASSUME NEW p \in Players, DeletePlayer(p) PROVE RowKept(g)
      <3>1. games'[g] \in Row /\ games'[g].st = games[g].st
        BY <1>1, <2>2, Deletion
      <3> QED
        BY <1>1, <2>2, <3>1, DeletionFits DEF RowKept
    <2> QED
      BY <1>2, <2>1, <2>2
  <1>4. CASE CloseSave \/ ForgetGame
    <2>1. PICK h \in Games : h = fr[Sweeper].game /\ lock[h] = Sweeper
      BY <1>4, SweeperFacts DEF CloseSave, ForgetGame, At, InGame, Holding
    <2>2. games' = games \/ \E row : games' = [games EXCEPT ![h] = row]
      BY <1>4, <2>1 DEF CloseSave, SaveGame, ForgetGame, DeleteGame, storeVars
    <2>3. players' = players
      BY <1>4 DEF CloseSave, SaveGame, ForgetGame, DeleteGame, storeVars
    <2> QED
      BY <1>1, <1>2, <1>4, <2>1, <2>2, <2>3
  <1>5. CASE ~ForgetPlayer /\ ~CloseSave /\ ~ForgetGame
    <2>1. UNCHANGED storeVars
      BY <1>5, CloseNotifyEffect
         DEF SweepStep, SweepBegin, ListOpenGames, CloseConn, ListGames, SweepEnd, ReadFails,
             ExpirePlayer, CloseLock, ExpireGame, CloseEvicted, DetachStep, DetachLook, DetachRetry, Detach
    <2> QED
      BY <1>2, <2>1 DEF storeVars
  <1> QED
    BY <1>3, <1>4, <1>5

\* What the handlers are about to tell stays.
LEMMA HandlersTell ==
  ASSUME SInv, SInv', SweepStep, NEW p \in Conns, TellsRow(p), Attaching(p)
  PROVE  TellsRow(p)' /\ Attaching(p)'
  <1>1. pc'[p] = pc[p] /\ fr'[p] = fr[p] /\ p \in Procs
    BY SweepFrame DEF Procs
  <1>2. TellsRow(p)'
    <2> SUFFICES ASSUME pc[p] \in Tellers PROVE TellsRow(p)'
      BY <1>1 DEF TellsRow
    <2>1. fr[p].game \in Games /\ lock[fr[p].game] = p /\ p \notin {NoProc, Sweeper}
      BY <1>1, HubAssumption DEF SInv, IInv, Local, Locals, InGame, Holding, Tellers, Notifying
    <2>2. RowKept(fr[p].game)
      BY <2>1, SweepKeepsRow DEF TellsRow
    <2>3. /\ conn'[p].player = conn[p].player
          /\ \/ conn'[p].game = conn[p].game /\ conn'[p].seat = conn[p].seat
             \/ conn[p].game # fr[p].game /\ conn'[p].game = NoGame
      BY <2>1, SweepSheds, SweepConns
    <2> QED
      BY <1>1, <2>2, <2>3, HeldTells
  <1>3. Attaching(p)'
    <2>1. pc[p] \in Notifying => fr[p].game \in Games
      BY <1>1 DEF SInv, IInv, Local, Locals, InGame, Holding, Notifying
    <2> QED
      BY <1>1, <2>1, SweepNobody
         DEF NobodyAttaches, Attaching, RowOfAll, SeatedAs, SeatOf, GuestsIn, CanJoin, Notifying
  <1> QED
    BY <1>2, <1>3

\* It tells of a game that it has just closed.
LEMMA SweeperTells ==
  ASSUME SInv, SInv', SweepStep
  PROVE  TellsRow(Sweeper)'
  <1>1. pc'[Sweeper] \in Tellers => pc'[Sweeper] = "closeNotify"
    BY DEF SInv, SweepLocal, SweepStages, Tellers, Notifying
  <1>2. ASSUME CloseSave, pc'[Sweeper] = "closeNotify" PROVE TellsRow(Sweeper)'
    <2>1. PICK g \in Games, row \in Row :
            /\ g = fr[Sweeper].game /\ row = fr[Sweeper].row
            /\ games[g] \in Row /\ row.st.status = "CLOSED"
      <3>1. At("closeSave") /\ pc[Sweeper] = "closeSave"
        BY <1>2 DEF CloseSave, At
      <3>2. /\ fr[Sweeper].game \in Games /\ games[fr[Sweeper].game] \in Row
            /\ fr[Sweeper].row = [games[fr[Sweeper].game] EXCEPT
                                    !.st = Close(games[fr[Sweeper].game].st)]
        BY <3>1, SweeperFacts DEF InGame, Holding, SweepLocal
      <3>3. fr[Sweeper].row \in Row /\ fr[Sweeper].row.st.status = "CLOSED"
        BY <3>2, RowParts, CloseType DEF Close, State
      <3> QED
        BY <3>2, <3>3
    <2>2. ~Abort
      BY <1>2, SweepPlace DEF Abort
    <2>3. games'[g] = row /\ fr' = fr
      BY <1>2, <2>1, <2>2, SweeperFacts DEF CloseSave, SaveGame
    <2>4. Fits(row, g)'
      BY <2>3 DEF Fits
    <2> QED
      BY <1>2, <2>1, <2>3, <2>4 DEF TellsRow
  <1>3. CASE ~CloseSave
    <2>1. ASSUME DetachStep(Sweeper) PROVE pc'[Sweeper] # "closeNotify"
      <3>1. fr[Sweeper].then = "deletePlayer"
        BY <2>1, SweeperFacts DEF DetachStep, DetachLook, DetachRetry, Detach, Locals, Detaching
      <3>2. Continue(Sweeper) => pc'[Sweeper] = "deletePlayer"
        BY <3>1, SweepPlace DEF Continue
      <3> QED
        BY <2>1, <3>2, SweepPlace DEF DetachStep, DetachLook, DetachRetry, Detach
    <2>2. ASSUME CloseNotify PROVE pc'[Sweeper] # "closeNotify"
      BY <2>2, CloseNotifyEffect, SweepPlace
    <2>3. ASSUME \/ SweepBegin \/ ListOpenGames \/ CloseConn \/ ForgetPlayer \/ ListGames \/ ForgetGame
                 \/ SweepEnd \/ ReadFails \/ (\E p \in Players : ExpirePlayer(p))
                 \/ (\E g \in Games : CloseLock(g) \/ ExpireGame(g))
                 \/ \E c \in Conns : CloseEvicted(c)
          PROVE  pc'[Sweeper] # "closeNotify"
      <3>1. \/ \E stage \in {"asleep", "players", "listOpen", "closeGames", "closeSave", "detach",
                             "deletePlayer", "games", "deleteGame"} : Goto(Sweeper, stage)
            \/ pc' = pc /\ pc[Sweeper] # "closeNotify"
        BY <2>3
           DEF SweepBegin, ListOpenGames, CloseConn, ForgetPlayer, ListGames, ForgetGame, SweepEnd,
               ReadFails, ExpirePlayer, CloseLock, ExpireGame, CloseEvicted, Abort, At, procVars
      <3> QED
        BY <3>1, SweepPlace
    <2>4. pc'[Sweeper] # "closeNotify"
      BY <1>3, <2>1, <2>2, <2>3 DEF SweepStep
    <2> QED
      BY <1>1, <2>4 DEF TellsRow
  <1>4. CASE CloseSave /\ pc'[Sweeper] # "closeNotify"
    BY <1>1, <1>4 DEF TellsRow
  <1> QED
    BY <1>2, <1>3, <1>4

\* The sweeper expires p, or has deleted it.
Leaving(p) == p \notin players \/ (pc[Sweeper] \in Expiring /\ sweep.player = p)

\* Whoever is put out of g is told that it closed, or is leaving itself.
LastWord(g) ==
  \A o \in attached[g] :
    Live(o) => \/ shown'[o] = NoView \/ shown'[o].status = "CLOSED"
               \/ Leaving(conn[o].player)'

\* What it shows: it closes a game, or detaches a connection.
LEMMA SweepShows ==
  ASSUME SInv, ViewsTyped, TellsRow(Sweeper), SweepStep
  PROVE  \/ UNCHANGED shown /\ ~CloseNotify /\ ~Detach(Sweeper)
         \/ \E g \in Games : Closes(Sweeper, g) /\ LastWord(g)
         \/ \E t \in Conns, g \in Games :
              Leaves(Sweeper, t, g) /\ (DetachesClosed(Sweeper) => LeftAlone(t))
  <1>1. Sweeper \in Procs /\ IInv
    BY SweeperFacts DEF SInv
  <1>2. ASSUME CloseNotify PROVE \E g \in Games : Closes(Sweeper, g) /\ LastWord(g)
    <2> DEFINE own == {c \in attached[fr[Sweeper].game] : conn[c].player = sweep.player}
    <2>1. PICK g \in Games, row \in Row :
            /\ g = fr[Sweeper].game /\ row = fr[Sweeper].row
            /\ row.st.status = "CLOSED" /\ pc[Sweeper] = "closeNotify"
      BY <1>2, CloseNotifyEffect, SweeperFacts DEF TellsRow, Tellers, InGame, Holding
    <2>2. /\ CloseGameFor(g, row, own, {}) /\ Detached(attached[g], g)
          /\ Goto(Sweeper, "closeGames") /\ Keep(Sweeper, NoFrame)
          /\ UNCHANGED <<storeVars, conns>> /\ (UNCHANGED faults \/ Fault)
      BY <1>2, <2>1, CloseNotifyEffect DEF CloseNotify
    <2>3. own \in SUBSET Conns
      BY <1>1, <2>1 DEF IInv, Typed, TypeOK
    <2>4. pc[Sweeper] \in Tellers /\ "closeGames" \notin Tellers
      BY <2>1 DEF Tellers, Notifying
    <2> HIDE DEF own
    <2>5. PICK asked \in SUBSET own : asked \subseteq attached[g] /\ CloseGameFor(g, row, own, asked)
      BY <2>2
    <2>6. PICK stage : stage \notin Tellers /\ Goto(Sweeper, stage)
      BY <2>2, <2>4
    <2>7. /\ Closes(Sweeper, g)
          /\ \A o \in attached[g] \ own : Live(o) => shown'[o] = NoView \/ shown'[o].status = "CLOSED"
      <3> DEFINE p == Sweeper
      <3>1. p \in Procs /\ g = fr[p].game /\ pc[p] \in Tellers
        BY <1>1, <2>1, <2>4
      <3>2. Goto(p, stage) /\ Keep(p, NoFrame)
        BY <2>2, <2>6
      <3>3. UNCHANGED <<storeVars, conns>> /\ (UNCHANGED faults \/ Fault)
        BY <2>2
      <3>4. IInv /\ row.st.status = "CLOSED" /\ Detached(attached[g], g)
        BY <1>1, <2>1, <2>2
      <3> HIDE DEF p
      <3>5. /\ Closes(p, g)
            /\ \A o \in attached[g] \ own :
                 Live(o) => shown'[o] = NoView \/ shown'[o].status = "CLOSED"
        BY <2>3, <2>5, <2>6, <3>1, <3>2, <3>3, <3>4, CloseGameCloses, ZenonT(60)
      <3> QED
        BY <3>5 DEF p
    <2>8. \A o \in own : Leaving(conn[o].player)'
      <3>1. pc'[Sweeper] = "closeGames" /\ sweep' = sweep
        BY <1>2, <2>2, SweepPlace DEF CloseNotify
      <3>2. \A o \in own : o \in Conns /\ conn[o].player = sweep.player
        BY <2>3 DEF own
      <3>3. \A o \in Conns : conn'[o].player = conn[o].player
        BY <2>7 DEF Closes
      <3> QED
        BY <3>1, <3>2, <3>3 DEF Leaving, Expiring
    <2>9. LastWord(g)
      BY <2>7, <2>8 DEF LastWord
    <2> QED
      BY <2>7, <2>9
  <1>3. ASSUME Detach(Sweeper)
        PROVE  \E t \in Conns, g \in Games :
                 Leaves(Sweeper, t, g) /\ (DetachesClosed(Sweeper) => LeftAlone(t))
    BY <1>1, <1>3, DetachLeaves
  <1>4. CASE ~CloseNotify /\ ~Detach(Sweeper)
    BY <1>4
       DEF SweepStep, SweepBegin, ListOpenGames, CloseSave, CloseConn, ForgetPlayer, ListGames,
           ForgetGame, SweepEnd, ReadFails, ExpirePlayer, CloseLock, ExpireGame, CloseEvicted,
           DetachStep, DetachLook, DetachRetry
  <1> QED
    BY <1>2, <1>3, <1>4

LEMMA SweepWatch ==
  ASSUME SInv, WInv, SweepStep
  PROVE  WInv'
  <1>1. SInv' /\ ServerStep
    BY SweepStepInv DEF ServerStep
  <1>2. /\ ViewsTyped /\ RowsJoined /\ SeatsBacked /\ SeatsTaken
        /\ \A p \in Procs : TellsRow(p)
        /\ \A p \in Conns : Attaching(p)
    BY DEF WInv
  <1>3. RowsJoined'
    BY <1>1, <1>2, RowsJoinedKept
  <1>4. SeatsBacked' /\ SeatsTaken'
    BY <1>1, <1>2, SweepNobody, CrowdKept
  <1>5. /\ \A p \in Conns : TellsRow(p)' /\ Attaching(p)'
        /\ TellsRow(Sweeper)'
    BY <1>1, <1>2, HandlersTell, SweeperTells DEF Procs
  <1>6. ViewsTyped'
    <2>1. \/ UNCHANGED shown
          \/ \E g \in Games : Closes(Sweeper, g)
          \/ \E t \in Conns, g \in Games : Leaves(Sweeper, t, g)
      BY <1>2, SweepShows, SweeperFacts
    <2> QED
      BY <1>2, <2>1, ClosesTyped, LeavesTyped, SweeperFacts DEF ViewsTyped
  <1> QED
    BY <1>3, <1>4, <1>5, <1>6 DEF WInv, Procs

-----------------------------------------------------------------------------
(* So do new games, the clock and crashes.                                  *)

\* A new game is nobody's yet.
LEMMA PostGameWatch ==
  ASSUME SInv, WInv, NEW g \in Games, Posts(g)
  PROVE  WInv'
  <1>1. SInv' /\ ServerStep
    BY PostGameInv DEF ServerStep, Posts
  <1>2. /\ UNCHANGED <<players, attached, conn, pc, fr, shown>>
        /\ games[g] = NoRow /\ \A h \in Games \ {g} : games'[h] = games[h]
    <2>1. PICK t \in Times : CreateGame(g, HostOf[g], t) /\ UNCHANGED <<connVars, procVars, shown>>
      BY DEF Posts, Posted
    <2> QED
      BY <2>1, SweeperFacts DEF CreateGame, UsedRows, connVars, procVars
  <1>3. /\ ViewsTyped /\ RowsJoined /\ SeatsBacked /\ SeatsTaken
        /\ \A p \in Procs : TellsRow(p)
        /\ \A p \in Conns : Attaching(p)
    BY DEF WInv
  <1>4. RowsJoined'
    BY <1>1, <1>3, RowsJoinedKept
  <1>5. SeatsBacked' /\ SeatsTaken'
    BY <1>1, <1>2, <1>3, CrowdKept DEF NobodyAttaches
  <1>6. ASSUME NEW p \in Procs PROVE TellsRow(p)'
    <2>1. pc[p] \in Tellers => fr[p].game \in Games /\ games[fr[p].game] \in Row
      BY <1>3 DEF TellsRow, SInv, IInv, Local, Locals, InGame, Holding, Tellers, Notifying
    <2>2. pc[p] \in Tellers => RowKept(fr[p].game)
      BY <1>2, <2>1, RowAssumption DEF RowKept, Fits
    <2> QED
      BY <1>2, <1>3, <2>2, HeldTells
  <1>7. \A p \in Conns : Attaching(p)'
    BY <1>2, <1>3 DEF Attaching, RowOfAll, SeatedAs, SeatOf, GuestsIn, CanJoin
  <1>8. ViewsTyped'
    BY <1>2, <1>3 DEF ViewsTyped
  <1> QED
    BY <1>4, <1>5, <1>6, <1>7, <1>8 DEF WInv

\* Nothing of it is about the time.
LEMMA SameWatch ==
  ASSUME WInv, UNCHANGED <<players, games, attached, conn, pc, fr, shown>>
  PROVE  WInv'
  <1>1. ViewsTyped' /\ RowsJoined'
    BY DEF WInv, ViewsTyped, RowsJoined, GuestsIn, CanJoin
  <1>2. SeatsBacked'
    BY DEF WInv, SeatsBacked
  <1>3. SeatsTaken'
    BY DEF WInv, SeatsTaken, CanJoin
  <1>4. ASSUME NEW p \in Procs PROVE TellsRow(p)'
    <2>1. TellsRow(p)
      BY DEF WInv
    <2> QED
      BY <2>1 DEF TellsRow, Fits
  <1>5. ASSUME NEW c \in Conns PROVE Attaching(c)'
    <2>1. Attaching(c)
      BY DEF WInv
    <2> QED
      BY <2>1 DEF Attaching, RowOfAll, SeatedAs, SeatOf, GuestsIn, CanJoin
  <1> QED
    BY <1>1, <1>2, <1>3, <1>4, <1>5 DEF WInv

\* A process that has just started tells nobody anything.
Blank ==
  /\ RowsJoined
  /\ attached = [g \in Games |-> {}] /\ shown = [c \in Conns |-> NoView]
  /\ \A p \in Procs : pc[p] \in {"asleep", "unborn", "gone"}

LEMMA BlankWatch == Blank => WInv
  <1> SUFFICES ASSUME Blank PROVE WInv
    OBVIOUS
  <1> USE DEF Blank
  <1>1. ViewsTyped /\ SeatsBacked /\ SeatsTaken
    BY DEF ViewsTyped, SeatsBacked, SeatsTaken
  <1>2. \A p \in Procs : TellsRow(p) /\ Attaching(p)
    BY DEF TellsRow, Attaching, RowOfAll, Tellers, Notifying
  <1> QED
    BY <1>1, <1>2 DEF WInv, Procs

LEMMA RestartWatch ==
  ASSUME SInv, WInv, Restart
  PROVE  WInv'
  <1>1. RowsJoined'
    BY RowsJoinedKept DEF WInv, ServerStep
  <1>2. /\ attached' = [g \in Games |-> {}] /\ shown' = [c \in Conns |-> NoView]
        /\ pc' = [p \in Procs |-> IF p = Sweeper THEN "asleep"
                                  ELSE IF pc[p] = "unborn" THEN "unborn" ELSE "gone"]
    BY DEF Restart
  <1>3. \A p \in Procs : pc'[p] \in {"asleep", "unborn", "gone"}
    BY <1>2
  <1>4. Blank'
    BY <1>1, <1>2, <1>3 DEF Blank
  <1> QED
    BY <1>4, BlankWatch, PTL

LEMMA InitWatch ==
  ASSUME ServerInit
  PROVE  WInv
  <1>1. /\ games = [g \in Games |-> NoRow] /\ attached = [g \in Games |-> {}]
        /\ shown = [c \in Conns |-> NoView]
        /\ pc = [p \in Procs |-> IF p = Sweeper THEN "asleep" ELSE "unborn"]
    BY DEF ServerInit, HubInit
  <1>2. RowsJoined
    BY <1>1 DEF RowsJoined
  <1> QED
    BY <1>1, <1>2, BlankWatch DEF Blank

LEMMA WatchStep == SInv /\ WInv /\ [ServerNext]_vars => WInv'
  <1>1. ASSUME SInv, WInv, Tick \/ Idles PROVE WInv'
    BY <1>1, SameWatch DEF Tick, Idles, storeVars, connVars, procVars
  <1>2. ASSUME SInv, WInv, NEW c \in Conns, (Client(c) \/ Handler(c)) /\ UNCHANGED sweep PROVE WInv'
    BY <1>2, HubWatch
  <1> QED
    BY <1>1, <1>2, ServerCases, PostGameWatch, RestartWatch, SweepWatch DEF ServerStep

(***************************************************************************)
(* Whatever expires, is deleted or crashes: who is attached sits in a seat *)
(* of the stored row that is its player's or was until the player was      *)
(* deleted, nobody else takes that seat, and whoever is about to tell of   *)
(* a row (a handler after its save, the sweeper after closing a game)      *)
(* tells of the stored one.                                                *)
(***************************************************************************)
THEOREM TellersTellTheRow == ServerSpec => []WInv
  <1>1. ServerInit => WInv
    BY InitWatch
  <1> QED
    BY <1>1, WatchStep, ServerInvariant, PTL DEF ServerSpec

-----------------------------------------------------------------------------
(* What the clients have been shown of seats.                               *)

\* The sweeper empties games, or leaves those attached where they are.
LEMMA SweepCrowd ==
  ASSUME SInv, SweepStep, ~CloseNotify, ~Detach(Sweeper), NEW g \in Games
  PROVE  \/ attached'[g] = {}
         \/ /\ attached'[g] = attached[g]
            /\ \A o \in attached[g] : conn'[o].seat = conn[o].seat
  <1>1. attached'[g] = {} \/ attached'[g] = attached[g]
    <2>1. ASSUME NEW h \in Games, ExpireGame(h) PROVE attached'[g] = {} \/ attached'[g] = attached[g]
      <3>1. UNCHANGED attached \/ Detached(attached[h], h)
        BY <2>1 DEF ExpireGame, Evict
      <3>2. ASSUME Detached(attached[h], h) PROVE attached'[g] = {} \/ attached'[g] = attached[g]
        BY <3>2, SweeperFacts DEF Detached, Typed, TypeOK
      <3> QED
        BY <3>1, <3>2
    <2>2. CASE ~\E h \in Games : ExpireGame(h)
      BY <2>2
         DEF SweepStep, SweepBegin, ListOpenGames, CloseSave, CloseConn, ForgetPlayer, ListGames,
             ForgetGame, SweepEnd, ReadFails, ExpirePlayer, CloseLock, CloseEvicted,
             DetachStep, DetachLook, DetachRetry, connVars
    <2> QED
      BY <2>1, <2>2
  <1>2. NobodyAttaches
    BY SweepStepInv, SweepNobody
  <1> QED
    BY <1>1, <1>2 DEF NobodyAttaches

\* It changes the state of a game only to close it, and tells then.
LEMMA SweepBoards ==
  ASSUME SInv, SweepStep, NEW g \in Games
  PROVE  \/ attached'[g] = {}
         \/ games'[g].st = games[g].st
         \/ pc'[Sweeper] = "closeNotify" /\ fr'[Sweeper].game = g
  <1>1. CASE attached[g] = {}
    BY <1>1, SweepSheds
  <1>2. CASE attached[g] # {}
    <2>1. games[g] \in Row
      BY <1>2, SeatHeld DEF SInv
    <2>2. CASE ~CloseSave /\ ~ForgetGame
      BY <2>1, <2>2, SweepKeepsRow DEF RowKept
    <2>3. CASE CloseSave
      <3>1. \/ games' = games
            \/ /\ games' = [games EXCEPT ![fr[Sweeper].game] = fr[Sweeper].row]
               /\ Goto(Sweeper, "closeNotify") /\ fr' = fr
        BY <2>3 DEF CloseSave, SaveGame, storeVars
      <3> QED
        BY <3>1, SweepPlace, SweeperFacts
    <2>4. CASE ForgetGame
      <3>1. attached[fr[Sweeper].game] = {}
        BY <2>4, SweeperFacts DEF ForgetGame, SweepLocal
      <3>2. games' = games \/ games' = [games EXCEPT ![fr[Sweeper].game] = NoRow]
        BY <2>4 DEF ForgetGame, DeleteGame, storeVars
      <3> QED
        BY <1>2, <3>1, <3>2, SweeperFacts
    <2> QED
      BY <2>2, <2>3, <2>4
  <1> QED
    BY <1>1, <1>2

\* Whoever is about to tell still is, but for the sweeper when it has told.
LEMMA SweepTellers ==
  ASSUME SInv, SweepStep, ~CloseNotify, NEW g \in Games, SomeoneTells(g)
  PROVE  SomeoneTells(g)'
  <1>1. pc[Sweeper] # "closeNotify"
    BY DEF SweepStep, SweepBegin, ListOpenGames, CloseSave, CloseConn, ForgetPlayer, ListGames,
           ForgetGame, SweepEnd, ReadFails, ExpirePlayer, CloseLock, ExpireGame, CloseEvicted,
           DetachStep, DetachLook, DetachRetry, Detach, At
  <1>2. \A p \in Conns : pc'[p] = pc[p] /\ fr'[p] = fr[p]
    BY SweepFrame
  <1>3. \A p \in Conns : conn'[p].game \in {conn[p].game, NoGame}
    BY SweepSheds
  <1> QED
    BY <1>1, <1>2, <1>3, HubAssumption DEF SomeoneTells, Telling

LEMMA SweepFaults ==
  ASSUME SInv, SweepStep, faults' = 0
  PROVE  faults = 0
  <1>1. UNCHANGED faults \/ Fault
    BY CloseNotifyEffect
       DEF SweepStep, SweepBegin, ListOpenGames, CloseSave, CloseConn, ForgetPlayer, ListGames,
           ForgetGame, SweepEnd, ReadFails, ExpirePlayer, CloseLock, ExpireGame, CloseEvicted,
           DetachStep, DetachLook, DetachRetry, Detach
  <1> QED
    BY <1>1, SweeperFacts, FaultsGrow

\* Whoever is evicted is about to be closed.
LEMMA SweepKeepsGames ==
  ASSUME SInv, SweepStep, ~CloseNotify, ~Detach(Sweeper), NEW o \in Conns
  PROVE  conn'[o].game = conn[o].game \/ o \in sweep'.conns
  <1>1. Typed /\ sweep \in Sweeps
    BY SweeperFacts DEF SweepLocal
  <1>2. CASE UNCHANGED conn
    BY <1>2
  <1>3. ASSUME NEW c \in Conns, Closed(c) PROVE conn'[o].game = conn[o].game
    BY <1>1, <1>3, ClosedFields
  <1>4. ASSUME NEW g \in Games, Detached(attached[g], g),
               sweep' = [sweep EXCEPT !.games = sweep.games \ {g}, !.conns = attached[g]]
        PROVE  conn'[o].game = conn[o].game \/ o \in sweep'.conns
    BY <1>1, <1>4 DEF Detached, Sweeps
  <1>5. CASE CloseConn
    <2>1. playerConn[sweep.player] \in Conns \cup {NoConn}
      BY <1>1, <1>5, SweeperFacts DEF CloseConn, At, SweepLocal, Expiring, Typed, TypeOK
    <2> QED
      BY <1>2, <1>3, <1>5, <2>1 DEF CloseConn
  <1>6. \/ UNCHANGED conn
        \/ CloseConn
        \/ \E c \in Conns : Closed(c)
        \/ \E g \in Games :
             /\ Detached(attached[g], g)
             /\ sweep' = [sweep EXCEPT !.games = sweep.games \ {g}, !.conns = attached[g]]
    BY DEF SweepStep, SweepBegin, ListOpenGames, CloseSave, ForgetPlayer, ListGames,
           ForgetGame, SweepEnd, ReadFails, ExpirePlayer, CloseLock, ExpireGame, Evict,
           CloseEvicted, DetachStep, DetachLook, DetachRetry, connVars
  <1> QED
    BY <1>2, <1>3, <1>4, <1>5, <1>6

LEMMA SweepStill ==
  ASSUME SInv, ViewsTyped, MembersOnly, SweepStep, ~CloseNotify, ~Detach(Sweeper), UNCHANGED shown
  PROVE  Still(sweep'.conns)
  <1>1. \A o \in Conns :
          \/ shown'[o] = NoView
          \/ /\ shown'[o] = shown[o] /\ o \in conns'
             /\ conn'[o].player = conn[o].player
             /\ conn[o].closing => conn'[o].closing
    BY SweepConns DEF MembersOnly
  <1>2. shown' = [o \in Conns |-> shown'[o]]
    BY DEF ViewsTyped
  <1>3. ASSUME NEW g \in Games, attached'[g] # {} PROVE SameCrowd(g)
    <2>1. /\ attached'[g] = attached[g]
          /\ \A o \in attached[g] : conn'[o].seat = conn[o].seat
      BY <1>3, SweepCrowd
    <2>2. \A o \in attached[g] : o \in Conns /\ (Live(o)' => Live(o))
      BY SweepConns DEF SInv, IInv, Typed, TypeOK, Live
    <2>3. SomeoneTells(g) => SomeoneTells(g)'
      BY SweepTellers
    <2>4. SomeoneTells(g)' \/ games'[g].st = games[g].st
      BY <1>3, SweepBoards DEF SomeoneTells
    <2> QED
      BY <2>1, <2>2, <2>3, <2>4 DEF SameCrowd
  <1>4. \A o \in Conns : conn'[o].game = conn[o].game \/ o \in sweep'.conns
    BY SweepKeepsGames
  <1> QED
    BY <1>1, <1>2, <1>3, <1>4, SweepFaults DEF Still

\* New games, the clock and failed statements concern nobody who is attached,
LEMMA OutsideStill ==
  ASSUME SInv, ViewsTyped, MembersOnly, Tick \/ Idles \/ \E g \in Games : Posts(g)
  PROVE  Still({})
  <1>1. UNCHANGED <<conns, attached, conn, pc, fr, shown>> /\ (UNCHANGED faults \/ Fault)
    BY DEF Tick, Idles, Posts, Posted, connVars, procVars
  <1>2. faults' = 0 => faults = 0
    BY <1>1, SweeperFacts, FaultsGrow
  <1>3. ASSUME NEW g \in Games, attached[g] # {} PROVE games'[g] = games[g]
    <2>1. games[g] # NoRow
      BY <1>3, SeatHeld, RowAssumption DEF SInv
    <2>2. ASSUME NEW h \in Games, NEW t \in Times, Posted(h, t) PROVE games'[g] = games[g]
      <3>1. h # g /\ games' = [games EXCEPT ![h] = Created(HostOf[h], t)]
        BY <2>1, <2>2, SweeperFacts DEF Posted, CreateGame, UsedRows
      <3> QED
        BY <3>1, SweeperFacts
    <2> QED
      BY <2>2 DEF Tick, Idles, Posts, storeVars
  <1>4. ASSUME NEW g \in Games, attached[g] # {} PROVE SameCrowd(g)
    BY <1>1, <1>3, <1>4 DEF SameCrowd, SomeoneTells, Telling, Live
  <1> QED
    BY <1>1, <1>2, <1>4 DEF Still, MembersOnly, ViewsTyped

\* and a crash takes everybody away.
LEMMA RestartStill ==
  ASSUME Restart
  PROVE  Still({})
  <1>1. /\ conns' = {} /\ attached' = [g \in Games |-> {}] /\ UNCHANGED faults
        /\ shown' = [o \in Conns |-> NoView]
    BY DEF Restart
  <1> QED
    BY <1>1 DEF Still, Live

\* Whoever is detached, but for switching games, is closing.
DetachedFirst == \A p \in Procs : DetachesClosed(p)

\* A step of the server tells everybody of a row, closes a game, detaches a
\* connection, or shows nothing.
LEMMA ServerKinds ==
  ASSUME SInv, WInv, MembersOnly, ServerStep
  PROVE  \/ Still(sweep'.conns)
         \/ \E c \in Conns, g \in Games : Tells(c, g)
         \/ \E p \in Procs, g \in Games : Closes(p, g) /\ LastWord(g)
         \/ \E p \in Procs, t \in Conns, g \in Games :
              Leaves(p, t, g) /\ (DetachedFirst => LeftAlone(t))
  <1> DEFINE KindOfStep == \/ Still(sweep'.conns)
                           \/ \E c \in Conns, g \in Games : Tells(c, g)
                           \/ \E p \in Procs, g \in Games : Closes(p, g) /\ LastWord(g)
                           \/ \E p \in Procs, t \in Conns, g \in Games :
                                Leaves(p, t, g) /\ (DetachedFirst => LeftAlone(t))
  <1>1. IInv /\ ViewsTyped
    BY DEF SInv, WInv
  <1>2. ASSUME NEW c \in Conns, Client(c) \/ Handler(c) PROVE KindOfStep
    <2>1. Kinds(c) /\ c \in Procs
      BY <1>2, StepKinds DEF SInv, WInv, Attaching, Procs
    <2>2. SweeperStays
      <3>1. Footprint(c)
        BY <1>2, ClientInv, HandlerInv DEF SInv
      <3> QED
        BY <3>1, HubAssumption DEF Footprint, Procs, SweeperStays
    <2>8. Still({}) => Still(sweep'.conns)
      BY DEF Still
    <2>3. CASE Quiet
      BY <1>1, <2>2, <2>3, <2>8, QuietStill
    <2>4. CASE Unregister(c)
      BY <1>1, <2>4, <2>8, UnregisterStill
    <2>5. ASSUME NEW g \in Games, Saved(c, g) PROVE Still({})
      BY <1>1, <2>2, <2>5, SavedStill
    <2>6. ASSUME NEW g \in Games, Closes(c, g), AllTold(g) PROVE LastWord(g)
      BY <2>6 DEF AllTold, LastWord
    <2>7. DetachedFirst => ClosedFirst
      BY DEF DetachedFirst, ClosedFirst, Procs
    <2> QED
      BY <2>1, <2>3, <2>4, <2>5, <2>6, <2>7, <2>8 DEF Kinds
  <1>3. CASE SweepStep
    <2>1. \/ UNCHANGED shown /\ ~CloseNotify /\ ~Detach(Sweeper)
          \/ \E g \in Games : Closes(Sweeper, g) /\ LastWord(g)
          \/ \E t \in Conns, g \in Games :
               Leaves(Sweeper, t, g) /\ (DetachesClosed(Sweeper) => LeftAlone(t))
      BY <1>3, SweepShows, SweeperFacts DEF WInv
    <2>2. CASE UNCHANGED shown /\ ~CloseNotify /\ ~Detach(Sweeper)
      BY <1>1, <1>3, <2>2, SweepStill
    <2> QED
      BY <2>1, <2>2, SweeperFacts DEF DetachedFirst
  <1>4. CASE Tick \/ Idles \/ (\E g \in Games : Posts(g)) \/ Restart
    BY <1>1, <1>4, OutsideStill, RestartStill DEF Still
  <1> QED
    BY <1>2, <1>3, <1>4 DEF ServerStep

LEMMA PictureStep ==
  SInv /\ WInv /\ PInv /\ SeatsUnshared /\ SeatsUnshared' /\ [ServerNext]_vars => PInv'
  <1> SUFFICES ASSUME SInv, WInv, PInv, SeatsUnshared, SeatsUnshared', [ServerNext]_vars
               PROVE  PInv'
    OBVIOUS
  <1>1. IInv /\ MembersOnly
    BY DEF SInv, PInv
  <1>2. CASE Still(sweep'.conns)
    BY <1>2, StillPersonal
  <1>3. ASSUME NEW c \in Conns, NEW g \in Games, Tells(c, g) PROVE PInv'
    BY <1>1, <1>3, TellsPersonal
  <1>4. ASSUME NEW p \in Procs, NEW g \in Games, Closes(p, g) PROVE PInv'
    BY <1>1, <1>4, ClosesPersonal
  <1>5. ASSUME NEW p \in Procs, NEW t \in Conns, NEW g \in Games, Leaves(p, t, g) PROVE PInv'
    BY <1>1, <1>5, LeavesPersonal
  <1> QED
    BY <1>1, <1>2, <1>3, <1>4, <1>5, ServerCases, ServerKinds

(***************************************************************************)
(* While no live connection shares its seat, every client of the whole     *)
(* server has been shown its own seat, the throws that this seat may see   *)
(* and who is there: games and players that expire and crashes change      *)
(* nothing about it.                                                       *)
(***************************************************************************)
THEOREM SeatPicturesOnServer == ServerSpec /\ []SeatsUnshared => []PInv
  <1>1. ServerInit => PInv
    <2> SUFFICES ASSUME ServerInit PROVE PInv
      OBVIOUS
    <2>1. conns = {} /\ attached = [g \in Games |-> {}] /\ shown = [c \in Conns |-> NoView]
      BY DEF ServerInit, HubInit
    <2> QED
      BY <2>1 DEF PInv, ViewsTyped, MembersOnly, ThrowsHidden, Live, Personal, Presence
  <1> QED
    BY <1>1, PictureStep, ServerInvariant, TellersTellTheRow, PTL DEF ServerSpec

(***************************************************************************)
(* No client is shown its opponent's throw of a running round, whatever    *)
(* the sweeper does, as long as no live connection shares its seat.        *)
(***************************************************************************)
THEOREM ThrowsStayHiddenOnServer == ServerSpec /\ []SeatsUnshared => []ThrowsHidden
  <1>1. PInv => ThrowsHidden
    BY DEF PInv
  <1> QED
    BY <1>1, SeatPicturesOnServer, PTL

(***************************************************************************)
(* The views of connect, of the broadcasts and of closing a game, by its   *)
(* player or by the sweeper, go to the right seats.                        *)
(***************************************************************************)
THEOREM ViewsArePersonalOnServer == ServerSpec /\ []SeatsUnshared => []OwnView
  <1>1. SInv /\ PInv => OwnView
    BY FreeIsQuiet DEF SInv, PInv, Personal, OwnSeat, OwnView
  <1> QED
    BY <1>1, ServerInvariant, SeatPicturesOnServer, PTL

(***************************************************************************)
(* The connected flags add up, also when the sweeper detaches the          *)
(* connection of an expired player or evicts a game.                       *)
(***************************************************************************)
THEOREM PresenceIsAccurateOnServer == ServerSpec /\ []SeatsUnshared => []PresenceAccurate
  BY PicturesOfPresence, SeatPicturesOnServer, PTL

(***************************************************************************)
(* With one connection of a player at a time seats are never shared, even  *)
(* when players are deleted while they sit in them: then the three         *)
(* properties hold of the whole server.                                    *)
(***************************************************************************)
THEOREM SequentialSocketsOnServer ==
  ServerSpec /\ []OneSocketAtATime => [](ThrowsHidden /\ OwnView /\ PresenceAccurate)
  <1>1. SInv /\ WInv /\ OneSocketAtATime => SeatsUnshared
    <2> SUFFICES ASSUME SInv, WInv, OneSocketAtATime,
                        NEW g \in Games, NEW c \in attached[g], NEW d \in attached[g],
                        conn[c].seat = conn[d].seat
                 PROVE  c = d
      BY DEF SeatsUnshared
    <2>1. conn[c].player = conn[d].player
      BY DEF WInv, SeatsTaken
    <2>2. c \in conns /\ d \in conns /\ conn[c].player # NoPlayer
      BY SeatHeld DEF SInv
    <2> QED
      BY <2>1, <2>2 DEF OneSocketAtATime
  <1>2. ServerSpec /\ []OneSocketAtATime => []SeatsUnshared
    BY <1>1, ServerInvariant, TellersTellTheRow, PTL
  <1> QED
    BY <1>2, ThrowsStayHiddenOnServer, ViewsArePersonalOnServer, PresenceIsAccurateOnServer, PTL

(***************************************************************************)
(* Nor are they when every client keeps its first socket: then the three   *)
(* hold of every behaviour of the server.                                  *)
(***************************************************************************)
THEOREM SingleSocketsOnServer ==
  ASSUME OneSocketEach
  PROVE  ServerSpec => [](ThrowsHidden /\ OwnView /\ PresenceAccurate)
  <1>1. ServerInit => Named
    BY DEF ServerInit, HubInit, Named, NewConn
  <1>2. SInv /\ Named /\ [ServerNext]_vars => Named'
    BY ServerCases, NamedKept
  <1>3. SInv /\ Named => OneSocketAtATime
    BY DEF OneSocketEach, OneSocketAtATime, Named, SInv, IInv, Typed, TypeOK
  <1> QED
    BY <1>1, <1>2, <1>3, ServerInvariant, SequentialSocketsOnServer, PTL DEF ServerSpec

-----------------------------------------------------------------------------
(* What the clients have been shown of the round, whoever shares a seat.    *)

(***************************************************************************)
(* v shows the row of g: its round, its score, which throws are locked in, *)
(* and, of the players there are, exactly those who sit, in their seats.   *)
(***************************************************************************)
ShowsGame(v, g, row) ==
  /\ v.game = g /\ v.status = row.st.status /\ v.gameState = row.st.gameState
  /\ v.draws = row.st.draws
  /\ \A x \in DOMAIN v.player : /\ v.player[x].locked = (row.st.move[x] # Pending)
                                /\ v.player[x].wins = row.st.wins[x]
  /\ \A x \in Seats, p \in players :
       row.who[x] = p <=> x \in DOMAIN v.player /\ v.player[x].id = p

\* BoardCurrent, when players may be deleted without anybody being told.
GameCurrent ==
  \A g \in Games : NoFault /\ Free(g) =>
    \A c \in attached[g] : Live(c) => shown[c] # NoView /\ ShowsGame(shown[c], g, games[g])

\* Everybody has been shown the stored row, or somebody is about to tell.
GameShown(g) ==
  NoFault /\ ~SomeoneTells(g) =>
    \A c \in attached[g] : Live(c) => shown[c] # NoView /\ ShowsGame(shown[c], g, games[g])

GInv == ViewsTyped /\ MembersOnly /\ \A g \in Games : GameShown(g)

\* What a view shows of the game is its board,
LEMMA SameBoard ==
  ASSUME NEW v, NEW w, Board(w) = Board(v), NEW g, NEW row, ShowsGame(v, g, row)
  PROVE  ShowsGame(w, g, row)
  <1> DEFINE hand(u) == [x \in DOMAIN u.player |->
                           <<u.player[x].id, u.player[x].locked, u.player[x].wins>>]
  <1>1. /\ w.game = v.game /\ w.status = v.status /\ w.gameState = v.gameState
        /\ w.draws = v.draws /\ hand(w) = hand(v)
    BY DEF Board
  <1>2. DOMAIN w.player = DOMAIN v.player
    BY <1>1
  <1>3. ASSUME NEW x \in DOMAIN v.player
        PROVE  /\ w.player[x].id = v.player[x].id /\ w.player[x].locked = v.player[x].locked
               /\ w.player[x].wins = v.player[x].wins
    <2>1. hand(w)[x] = hand(v)[x]
      BY <1>1
    <2> QED
      BY <1>2, <2>1
  <1> HIDE DEF hand
  <1> QED
    BY <1>1, <1>2, <1>3 DEF ShowsGame

\* and a view of a row that fits the stored one shows the stored one.
LEMMA FreshGame ==
  ASSUME SInv, NEW c \in Conns, NEW g \in Games, Tells(c, g), NEW o \in attached'[g], Fresh(o, g)
  PROVE  shown'[o] # NoView /\ ShowsGame(shown'[o], g, games[g])
  <1>1. StoreTypeOK
    BY DEF SInv, IInv, Typed, TypeOK
  <1>2. PICK you \in Seats, row \in Row :
          /\ row.st = games[g].st /\ Fits(row, g)
          /\ \E found \in Finds(row) : shown'[o] = Snapshot(g, row, you, attached'[g], found)
    BY DEF Fresh
  <1>3. PICK found \in Finds(row) : shown'[o] = Snapshot(g, row, you, attached'[g], found)
    BY <1>2
  <1>4. players \subseteq found /\ found \in SUBSET Players
    BY <1>1, FindsPlayers
  <1>5. PICK v : v = shown'[o]
    OBVIOUS
  <1>6. /\ v # NoView
        /\ v.game = g /\ v.status = row.st.status /\ v.gameState = row.st.gameState
        /\ v.draws = row.st.draws
        /\ DOMAIN v.player = {s \in Seats : row.who[s] \in found}
        /\ \A x \in DOMAIN v.player :
             /\ v.player[x].id = row.who[x]
             /\ v.player[x].locked = (row.st.move[x] # Pending)
             /\ v.player[x].wins = row.st.wins[x]
    BY <1>1, <1>3, <1>4, <1>5, SnapshotView
  <1>7. \A x \in Seats, p \in players : row.who[x] = p <=> games[g].who[x] = p
    BY <1>1, <1>2, StoreAssumption DEF Fits, StoreTypeOK
  <1> QED
    BY <1>2, <1>4, <1>5, <1>6, <1>7 DEF ShowsGame

\* No step but a deletion or a new state changes who sits where.
LEMMA SameSitters ==
  ASSUME SInv, SInv', ServerStep, NEW g \in Games, games[g] # NoRow, games'[g] # NoRow,
         games'[g].st = games[g].st, NEW x \in Seats, NEW p \in players'
  PROVE  p \in players /\ (games'[g].who[x] = p <=> games[g].who[x] = p)
  <1>1. p \in players
    <2>1. CASE SweepStep /\ ForgetPlayer
      BY <2>1 DEF ForgetPlayer, DeletePlayer, storeVars
    <2> QED
      BY <2>1, SamePlayers
  <1>2. p # NoPlayer
    BY <1>1, StoreAssumption DEF SInv, IInv, Typed, TypeOK, StoreTypeOK
  <1> QED
    BY <1>1, <1>2, SeatsStep

\* A game that somebody is attached to has a row.
SeatRows == \A g \in Games : \A d \in attached[g] : games[g] \in Row

LEMMA SeatsHaveRows == SInv => SeatRows
  BY SeatHeld DEF SInv, SeatRows

LEMMA StillGame ==
  ASSUME SInv, SInv', GInv, ServerStep, NEW cs, Still(cs)
  PROVE  GInv'
  <1>1. ViewsTyped' /\ MembersOnly'
    BY StillMembers DEF GInv
  <1>2. ASSUME NEW g \in Games PROVE GameShown(g)'
    <2> SUFFICES ASSUME faults' = 0, ~SomeoneTells(g)', NEW o \in attached'[g], Live(o)'
                 PROVE  shown'[o] # NoView /\ ShowsGame(shown[o], g, games[g])'
      BY DEF GameShown, NoFault
    <2>1. SameCrowd(g) /\ faults = 0
      BY DEF Still
    <2>2. /\ o \in attached[g] /\ Live(o) /\ ~SomeoneTells(g) /\ shown'[o] = shown[o]
          /\ games'[g].st = games[g].st
      BY <2>1 DEF SameCrowd
    <2>3. shown[o] # NoView /\ ShowsGame(shown[o], g, games[g])
      BY <2>1, <2>2 DEF GInv, GameShown, NoFault
    <2>4. games[g] \in Row /\ NoRow \notin Row
      BY <2>2, SeatHeld, RowAssumption DEF SInv
    <2>5. (games[g] \in Row)'
      <3>1. SeatRows'
        BY SeatsHaveRows, PTL
      <3> QED
        BY <3>1 DEF SeatRows
    <2>6. \A x \in Seats, p \in players' :
            p \in players /\ (games'[g].who[x] = p <=> games[g].who[x] = p)
      BY <2>2, <2>4, <2>5, SameSitters
    <2> QED
      BY <2>2, <2>3, <2>6 DEF ShowsGame
  <1> QED
    BY <1>1, <1>2 DEF GInv

LEMMA TellsGame ==
  ASSUME SInv, GInv, NEW c \in Conns, NEW g \in Games, Tells(c, g)
  PROVE  GInv'
  <1>1. ViewsTyped' /\ MembersOnly'
    BY TellsMembers DEF GInv, SInv
  <1>2. /\ UNCHANGED <<games, players>> /\ (faults' = 0 => faults = 0)
        /\ \A o \in Conns : Live(o)' <=> Live(o)
        /\ attached'[g] \subseteq Conns
    BY DEF Tells, Live
  <1>3. ASSUME NEW h \in Games PROVE GameShown(h)'
    <2> SUFFICES ASSUME faults' = 0, ~SomeoneTells(h)', NEW o \in attached'[h], Live(o)'
                 PROVE  shown'[o] # NoView /\ ShowsGame(shown[o], h, games[h])'
      BY DEF GameShown, NoFault
    <2>1. ShowsGame(shown'[o], h, games[h]) => ShowsGame(shown[o], h, games[h])'
      BY <1>2 DEF ShowsGame
    <2>2. CASE h = g /\ Fresh(o, g)
      BY <2>1, <2>2, FreshGame
    <2>3. CASE h # g \/ ~Fresh(o, g)
      <3>1. /\ o \in attached[h] /\ Live(o) /\ shown'[o] = shown[o] /\ ~SomeoneTells(h)
        BY <1>2, <2>3, TellsCrowd DEF SInv
      <3> QED
        BY <1>2, <2>1, <3>1 DEF GInv, GameShown, NoFault
    <2> QED
      BY <2>2, <2>3
  <1> QED
    BY <1>1, <1>3 DEF GInv

LEMMA ClosesGame ==
  ASSUME SInv, GInv, NEW p \in Procs, NEW g \in Games, Closes(p, g)
  PROVE  GInv'
  <1>1. ViewsTyped' /\ MembersOnly'
    BY ClosesMembers DEF GInv, SInv
  <1>2. UNCHANGED <<games, players>> /\ (faults' = 0 => faults = 0) /\ attached'[g] = {}
    BY DEF Closes
  <1>3. ASSUME NEW h \in Games PROVE GameShown(h)'
    <2> SUFFICES ASSUME faults' = 0, ~SomeoneTells(h)', NEW o \in attached'[h], Live(o)'
                 PROVE  shown'[o] # NoView /\ ShowsGame(shown[o], h, games[h])'
      BY DEF GameShown, NoFault
    <2>1. h # g
      BY <1>2
    <2>2. o \in attached[h] /\ Live(o) /\ shown'[o] = shown[o] /\ ~SomeoneTells(h)
      BY <2>1, ClosesCrowd DEF SInv
    <2>3. shown[o] # NoView /\ ShowsGame(shown[o], h, games[h])
      BY <1>2, <2>2 DEF GInv, GameShown, NoFault
    <2> QED
      BY <1>2, <2>2, <2>3 DEF ShowsGame
  <1> QED
    BY <1>1, <1>3 DEF GInv

LEMMA LeavesGame ==
  ASSUME SInv, GInv, NEW p \in Procs, NEW t \in Conns, NEW g \in Games, Leaves(p, t, g)
  PROVE  GInv'
  <1>1. ViewsTyped' /\ MembersOnly'
    BY LeavesMembers DEF GInv
  <1>2. UNCHANGED <<games, players, faults>>
    BY DEF Leaves
  <1>3. ASSUME NEW h \in Games PROVE GameShown(h)'
    <2> SUFFICES ASSUME faults' = 0, ~SomeoneTells(h)', NEW o \in attached'[h], Live(o)'
                 PROVE  shown'[o] # NoView /\ ShowsGame(shown[o], h, games[h])'
      BY DEF GameShown, NoFault
    <2>1. o \in Conns \ {t} /\ o \in attached[h] /\ Live(o) /\ ~SomeoneTells(h)
      BY LeavesCrowd DEF SInv
    <2>2. shown[o] # NoView /\ ShowsGame(shown[o], h, games[h])
      BY <1>2, <2>1 DEF GInv, GameShown, NoFault
    <2>3. shown[o] \in Views
      BY <2>1, <2>2 DEF GInv, ViewsTyped
    <2>4. \/ shown'[o] = shown[o]
          \/ shown'[o] = WithDown(shown[o], conn[t].seat)
      BY <2>1 DEF Leaves
    <2>5. shown'[o] # NoView /\ Board(shown'[o]) = Board(shown[o])
      BY <2>2, <2>3, <2>4, DownView
    <2>6. ShowsGame(shown'[o], h, games[h])
      BY <2>2, <2>5, SameBoard
    <2> QED
      BY <1>2, <2>5, <2>6 DEF ShowsGame
  <1> QED
    BY <1>1, <1>3 DEF GInv

LEMMA GameViewStep == SInv /\ SInv' /\ WInv /\ GInv /\ [ServerNext]_vars => GInv'
  <1> SUFFICES ASSUME SInv, SInv', WInv, GInv, ServerStep PROVE GInv'
    BY ServerCases
  <1>1. \/ Still(sweep'.conns)
        \/ \E c \in Conns, g \in Games : Tells(c, g)
        \/ \E p \in Procs, g \in Games : Closes(p, g)
        \/ \E p \in Procs, t \in Conns, g \in Games : Leaves(p, t, g)
    BY ServerKinds DEF GInv
  <1> QED
    BY <1>1, StillGame, TellsGame, ClosesGame, LeavesGame

(***************************************************************************)
(* With the game lock free, every live client attached to a game of the    *)
(* server has been shown the round, the score, the locked-in throws and    *)
(* the players as they are stored, seats shared or not: expiries,          *)
(* deletions and crashes leave nobody on a stale picture, except that a    *)
(* player who was deleted may still be shown.                              *)
(***************************************************************************)
THEOREM GamesAreCurrentOnServer == ServerSpec => []GameCurrent
  <1>1. ServerInit => GInv
    <2> SUFFICES ASSUME ServerInit PROVE GInv
      OBVIOUS
    <2>1. attached = [g \in Games |-> {}] /\ shown = [c \in Conns |-> NoView]
      BY DEF ServerInit, HubInit
    <2> QED
      BY <2>1 DEF GInv, ViewsTyped, MembersOnly, GameShown
  <1>2. SInv /\ GInv => GameCurrent
    BY FreeIsQuiet DEF SInv, GInv, GameShown, GameCurrent
  <1> QED
    BY <1>1, <1>2, GameViewStep, ServerInvariant, TellersTellTheRow, PTL DEF ServerSpec

-----------------------------------------------------------------------------
(* Who is dropped.                                                          *)

(***************************************************************************)
(* NotDroppedSilently, when players and games expire: a live client that   *)
(* was last shown an open game is attached to it, unless its player is the *)
(* one that is being expired or is deleted, or the sweeper is about to     *)
(* close it, having detached it from a game that expires.                  *)
(***************************************************************************)
OnlyTheLeavingDropped ==
  NoFault => \A c \in Conns :
    Live(c) /\ shown[c] # NoView /\ shown[c].status # "CLOSED" =>
      conn[c].game = shown[c].game \/ Leaving(conn[c].player) \/ c \in sweep.conns

\* Whoever leaves has not come back when a step is over, but for a crash.
LEMMA LeavingStays ==
  ASSUME SInv, ServerStep, ~Restart, faults' = 0, NEW p, Leaving(p)
  PROVE  Leaving(p)'
  <1>1. players' \subseteq players
    <2>1. SweepStep /\ ForgetPlayer => players' \subseteq players
      BY DEF ForgetPlayer, DeletePlayer, storeVars
    <2> QED
      BY <2>1, SamePlayers
  <1>2. CASE p \notin players
    BY <1>1, <1>2 DEF Leaving
  <1>3. CASE pc[Sweeper] \in Expiring /\ sweep.player = p
    <2>1. CASE pc'[Sweeper] = pc[Sweeper] /\ sweep'.player = sweep.player
      BY <1>3, <2>1 DEF Leaving
    <2>2. ASSUME NEW c \in Conns, (Client(c) \/ Handler(c)) /\ UNCHANGED sweep PROVE Leaving(p)'
      <3>1. Footprint(c)
        BY <2>2, ClientInv, HandlerInv DEF SInv
      <3> QED
        BY <2>1, <2>2, <3>1, HubAssumption DEF Footprint, Procs
    <2>3. CASE Tick \/ Idles \/ \E g \in Games : Posts(g)
      BY <2>1, <2>3 DEF Tick, Idles, Posts, Posted, procVars
    <2>4. CASE SweepStep
      <3>1. ~Fault
        BY SweeperFacts, FaultsGrow
      <3>2. /\ ~SweepBegin /\ ~ReadFails /\ ~ListGames /\ ~ForgetGame /\ ~SweepEnd
            /\ ~(\E q \in Players : ExpirePlayer(q)) /\ ~(\E g \in Games : ExpireGame(g))
            /\ ~(\E c \in Conns : CloseEvicted(c))
        BY <1>3, <3>1 DEF SweepBegin, ReadFails, ListGames, ForgetGame, SweepEnd, ExpirePlayer,
                          ExpireGame, CloseEvicted, At, Expiring
      <3>3. CASE ForgetPlayer
        <4>1. players' = players \ {sweep.player}
          BY <3>1, <3>3 DEF ForgetPlayer, DeletePlayer
        <4> QED
          BY <1>3, <4>1 DEF Leaving
      <3>4. CASE ListOpenGames \/ CloseSave \/ CloseNotify \/ CloseConn
        <4>1. sweep'.player = sweep.player
          BY <3>1, <3>4, SweeperFacts DEF ListOpenGames, CloseSave, CloseNotify, CloseConn, SweepLocal,
                                          Sweeps
        <4>2. pc'[Sweeper] \in Expiring
          BY <3>1, <3>4, SweepPlace DEF ListOpenGames, CloseSave, CloseNotify, CloseConn, Expiring
        <4> QED
          BY <1>3, <4>1, <4>2 DEF Leaving
      <3>5. ASSUME NEW g \in Games, CloseLock(g) PROVE Leaving(p)'
        <4>1. sweep'.player = sweep.player
          BY <3>5, SweeperFacts DEF CloseLock, SweepLocal, Sweeps
        <4>2. pc'[Sweeper] \in Expiring
          BY <1>3, <3>5, SweepPlace DEF CloseLock, Expiring, procVars
        <4> QED
          BY <1>3, <4>1, <4>2 DEF Leaving
      <3>6. CASE DetachStep(Sweeper) /\ UNCHANGED sweep
        <4>1. pc[Sweeper] \in {"detach", "detachLock"} => fr[Sweeper].then = "deletePlayer"
          BY SweeperFacts DEF Locals, Detaching
        <4>2. pc'[Sweeper] \in Expiring
          BY <3>6, <4>1, SweepPlace
             DEF DetachStep, DetachLook, DetachRetry, Detach, Continue, Expiring
        <4> QED
          BY <1>3, <3>6, <4>2 DEF Leaving
      <3> QED
        BY <2>4, <3>2, <3>3, <3>4, <3>5, <3>6 DEF SweepStep
    <2> QED
      BY <2>2, <2>3, <2>4 DEF ServerStep
  <1> QED
    BY <1>2, <1>3 DEF Leaving

\* Whoever is evicted from a game is closed before the sweeper goes on.
LEMMA EvictedStays ==
  ASSUME SInv, ServerStep, ~Restart, NEW c \in sweep.conns, ~conn'[c].closing
  PROVE  c \in sweep'.conns
  <1>1. /\ sweep \in Sweeps /\ Typed /\ c \in Conns /\ pc[Sweeper] = "deleteGame"
    BY SweeperFacts DEF SweepLocal, Sweeps, At
  <1>2. CASE UNCHANGED sweep
    BY <1>2
  <1>3. ASSUME NEW d \in Conns, CloseEvicted(d) PROVE c \in sweep'.conns
    <2>1. sweep' = [sweep EXCEPT !.conns = sweep.conns \ {d}] /\ Closed(d)
      BY <1>3 DEF CloseEvicted
    <2>2. c # d
      BY <1>1, <2>1, ClosedFields
    <2> QED
      BY <1>1, <2>1, <2>2 DEF Sweeps
  <1>4. CASE SweepStep
    <2>1. (\E d \in Conns : CloseEvicted(d)) \/ UNCHANGED sweep
      BY <1>1, <1>4 DEF SweepStep, SweepBegin, ListOpenGames, CloseSave, CloseNotify, CloseConn,
             ForgetPlayer, ListGames, ForgetGame, SweepEnd, ReadFails, ExpirePlayer, CloseLock,
             ExpireGame, At
    <2> QED
      BY <1>2, <1>3, <2>1
  <1> QED
    BY <1>2, <1>4 DEF ServerStep, Idles, Posts, Posted, Tick

\* Whoever is detached has switched games or is closing,
LEMMA DetachedFirstStep ==
  ASSUME SInv, DetachedFirst, ServerStep
  PROVE  DetachedFirst'
  <1>1. /\ \A d \in Conns : pc[d] \in {"detach", "detachLock"} => fr[d].target \in Conns
        /\ pc[Sweeper] \in {"detach", "detachLock"} => fr[Sweeper].target \in Conns
    BY SweeperFacts DEF SInv, IInv, Local, Locals, Detaching, Procs
  <1>2. ASSUME NEW c \in Conns, Client(c) \/ Handler(c) PROVE DetachedFirst'
    <2>1. ClosedFirst'
      BY <1>2, ClosedFirstStep DEF SInv, DetachedFirst, ClosedFirst, Procs
    <2>2. Footprint(c) /\ Advances(c)
      BY <1>2, ClientInv, HandlerInv, OneMoves DEF SInv
    <2>3. DetachesClosed(Sweeper)'
      BY <1>1, <2>2, HubAssumption DEF Footprint, Advances, DetachedFirst, DetachesClosed, Procs
    <2> QED
      BY <2>1, <2>3 DEF ClosedFirst, DetachedFirst, Procs
  <1>3. CASE SweepStep
    <2>1. \A d \in Conns : conn[d].closing => conn'[d].closing
      BY <1>3, SweepConns
    <2>2. \A d \in Conns : DetachesClosed(d)'
      BY <1>1, <1>3, <2>1, SweepFrame DEF DetachedFirst, DetachesClosed, Procs
    <2>3. DetachesClosed(Sweeper)'
      <3>1. CASE CloseConn
        <4>1. ASSUME playerConn[sweep.player] # NoConn
              PROVE  fr'[Sweeper].target = playerConn[sweep.player]
                     /\ conn'[playerConn[sweep.player]].closing
          <5>1. sweep.player \in Players /\ playerConn[sweep.player] \in Conns
            BY <3>1, <4>1, SweeperFacts DEF CloseConn, At, SweepLocal, Expiring, Typed, TypeOK
          <5> QED
            BY <3>1, <4>1, <5>1, SweepPlace, SweeperFacts, ClosedFields DEF CloseConn, DetachFrame
        <4> QED
          BY <3>1, <4>1, SweepPlace DEF CloseConn, DetachesClosed
      <3>2. CASE DetachLook(Sweeper) \/ DetachRetry(Sweeper)
        <4>1. PICK f \in Frames : f = fr[Sweeper] /\ pc[Sweeper] \in {"detach", "detachLock"}
                                  /\ f.then = "deletePlayer" /\ conn[f.target].closing
          BY <3>2, SweeperFacts
             DEF DetachLook, DetachRetry, Locals, Detaching, DetachedFirst, DetachesClosed
        <4>2. \/ pc'[Sweeper] = "deletePlayer"
              \/ \E g : fr'[Sweeper] = [f EXCEPT !.from = g]
          BY <3>2, <4>1, SweepPlace DEF DetachLook, DetachRetry, Continue
        <4>3. ASSUME NEW g, fr'[Sweeper] = [f EXCEPT !.from = g]
              PROVE  conn'[fr'[Sweeper].target].closing
          BY <1>1, <2>1, <4>1, <4>3, FrameKept
        <4> QED
          BY <4>2, <4>3 DEF DetachesClosed
      <3>3. CASE Detach(Sweeper)
        BY <3>3, SweepPlace, SweeperFacts
           DEF Detach, Continue, Locals, Detaching, DetachesClosed
      <3>4. CASE ~CloseConn /\ ~DetachStep(Sweeper)
        <4>1. pc'[Sweeper] \notin {"detach", "detachLock"}
          BY <1>3, <3>4, SweepPlace
             DEF SweepStep, SweepBegin, ListOpenGames, CloseSave, CloseNotify, ForgetPlayer, ListGames,
                 ForgetGame, SweepEnd, ReadFails, ExpirePlayer, CloseLock, ExpireGame, CloseEvicted, Abort, At,
                 procVars
        <4> QED
          BY <4>1 DEF DetachesClosed
      <3> QED
        BY <3>1, <3>2, <3>3, <3>4 DEF DetachStep
    <2> QED
      BY <2>2, <2>3 DEF DetachedFirst, Procs
  <1>4. CASE Tick \/ Idles \/ \E g \in Games : Posts(g)
    <2>1. UNCHANGED <<conn, pc, fr>>
      BY <1>4 DEF Tick, Idles, Posts, Posted, connVars, procVars
    <2> QED
      BY <2>1 DEF DetachedFirst, DetachesClosed
  <1>5. CASE Restart
    BY <1>5 DEF Restart, DetachedFirst, DetachesClosed
  <1> QED
    BY <1>2, <1>3, <1>4, <1>5 DEF ServerStep

\* and whoever was shown an open game is still in it.
LEMMA DroppedStep ==
  ASSUME SInv, WInv, GInv, DetachedFirst, OnlyTheLeavingDropped, ServerStep
  PROVE  OnlyTheLeavingDropped'
  <1> DEFINE Excused(d) == \/ conn'[d].game = shown'[d].game
                           \/ Leaving(conn[d].player)'
                           \/ d \in sweep'.conns
  <1> SUFFICES ASSUME faults' = 0, NEW c \in Conns, Live(c)', shown'[c] # NoView,
                      shown'[c].status # "CLOSED"
               PROVE  Excused(c)
    BY DEF OnlyTheLeavingDropped, NoFault
  <1>1. ~Restart /\ ViewsTyped /\ MembersOnly
    BY DEF Restart, GInv
  <1>2. ASSUME faults = 0, Live(c), conn'[c].player = conn[c].player,
               shown[c] # NoView, shown[c].status # "CLOSED", shown[c].game = shown'[c].game,
               conn[c].game = shown[c].game => conn'[c].game = shown'[c].game
        PROVE  Excused(c)
    <2>1. conn[c].game = shown[c].game \/ Leaving(conn[c].player) \/ c \in sweep.conns
      BY <1>2 DEF OnlyTheLeavingDropped, NoFault
    <2>2. Leaving(conn[c].player) => Leaving(conn[c].player)'
      <3>1. PICK p : p = conn[c].player
        OBVIOUS
      <3>2. Leaving(p) => Leaving(p)'
        BY <1>1, LeavingStays
      <3>3. p = conn'[c].player
        BY <1>2, <3>1
      <3> QED
        BY <3>1, <3>2, <3>3 DEF Leaving
    <2>3. c \in sweep.conns => c \in sweep'.conns
      BY <1>1, EvictedStays DEF Live
    <2> QED
      BY <1>2, <2>1, <2>2, <2>3
  <1>3. CASE Still(sweep'.conns)
    <2>1. /\ shown'[c] = shown[c] /\ conn'[c].player = conn[c].player /\ faults = 0
          /\ conn'[c].game = conn[c].game \/ c \in sweep'.conns
          /\ conn[c].closing => conn'[c].closing
      BY <1>3 DEF Still
    <2>2. Live(c)
      BY <1>1, <2>1 DEF MembersOnly, Live
    <2> QED
      BY <1>2, <2>1, <2>2
  <1>4. ASSUME NEW d \in Conns, NEW g \in Games, Tells(d, g)
        PROVE  Excused(c)
    <2>1. CASE shown'[c] = shown[c]
      <3>1. /\ faults = 0 /\ conn'[c].player = conn[c].player /\ Live(c)
            /\ \/ conn'[c].game = conn[c].game
               \/ conn[c].game \in {NoGame, g} /\ conn'[c].game = g
        BY <1>4 DEF Tells, Live
      <3>2. shown[c].game # NoGame
        BY <1>1, <2>1, HubAssumption DEF ViewsTyped, Views
      <3> QED
        BY <1>2, <2>1, <3>1, <3>2
    <2>2. CASE c \in attached'[g] /\ Fresh(c, g)
      BY <1>4, <2>2, FreshGame DEF ShowsGame, Tells
    <2> QED
      BY <1>4, <2>1, <2>2 DEF Tells
  <1>5. ASSUME NEW p \in Procs, NEW g \in Games, Closes(p, g), LastWord(g)
        PROVE  Excused(c)
    <2>1. Live(c) /\ faults = 0 /\ conn'[c].player = conn[c].player
      BY <1>5 DEF Closes, Live
    <2>2. CASE c \in attached[g]
      BY <1>5, <2>1, <2>2 DEF LastWord
    <2>3. CASE c \notin attached[g]
      <3>1. shown'[c] = shown[c] /\ conn'[c].game = conn[c].game
        BY <1>5, <2>3 DEF Closes
      <3> QED
        BY <1>2, <2>1, <3>1
    <2> QED
      BY <2>2, <2>3
  <1>6. ASSUME NEW p \in Procs, NEW t \in Conns, NEW g \in Games, Leaves(p, t, g), LeftAlone(t)
        PROVE  Excused(c)
    <2>1. /\ Live(c) /\ faults = 0 /\ conn'[c].player = conn[c].player /\ c # t
          /\ conn'[c].game = conn[c].game
      BY <1>6 DEF Leaves, Live, LeftAlone
    <2>2. shown'[c] = shown[c] \/ shown'[c] = WithDown(shown[c], conn[t].seat)
      BY <1>6, <2>1 DEF Leaves
    <2>3. /\ shown[c] # NoView /\ shown'[c].game = shown[c].game
          /\ shown'[c].status = shown[c].status
      <3>1. shown[c] = NoView \/ shown[c] \in Views
        BY <1>1 DEF ViewsTyped
      <3>2. shown[c] # NoView
        BY <2>2 DEF WithDown
      <3> QED
        BY <2>2, <3>1, <3>2, DownView
    <2> QED
      BY <1>2, <2>1, <2>3
  <1> QED
    BY <1>1, <1>3, <1>4, <1>5, <1>6, ServerKinds

(***************************************************************************)
(* Nobody else is left waiting when players expire: as long as no          *)
(* statement fails, only the player that is being expired, or is deleted,  *)
(* loses a game without being told. Its opponents and whoever was replaced *)
(* or switched games have been told, have asked for it, or are closing;    *)
(* whom a game that expires detaches is closed before the game is deleted. *)
(***************************************************************************)
THEOREM NobodyElseDropped == ServerSpec => []OnlyTheLeavingDropped
  <1>1. ServerInit => GInv /\ DetachedFirst /\ OnlyTheLeavingDropped
    <2> SUFFICES ASSUME ServerInit PROVE GInv /\ DetachedFirst /\ OnlyTheLeavingDropped
      OBVIOUS
    <2>1. /\ attached = [g \in Games |-> {}] /\ shown = [c \in Conns |-> NoView]
          /\ pc = [p \in Procs |-> IF p = Sweeper THEN "asleep" ELSE "unborn"]
      BY DEF ServerInit, HubInit
    <2> QED
      BY <2>1 DEF GInv, ViewsTyped, MembersOnly, GameShown, DetachedFirst, DetachesClosed,
                  OnlyTheLeavingDropped
  <1>2. SInv /\ WInv /\ GInv /\ DetachedFirst /\ OnlyTheLeavingDropped /\ [ServerNext]_vars =>
          DetachedFirst' /\ OnlyTheLeavingDropped'
    BY ServerCases, DetachedFirstStep, DroppedStep
  <1> QED
    BY <1>1, <1>2, GameViewStep, ServerInvariant, TellersTellTheRow, PTL DEF ServerSpec
=============================================================================

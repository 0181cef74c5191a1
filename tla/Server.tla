------------------------------- MODULE Server -------------------------------
(***************************************************************************)
(* The whole server: the hub of module Hub, POST /games, the clock, the    *)
(* sweeper (internal/sweeper, Hub.ExpirePlayer, Hub.ExpireGame) as one     *)
(* more process, and restarts.                                             *)
(***************************************************************************)
EXTENDS Hub, Integers

CONSTANTS PlayerTTL, GameTTL  \* RPS_PLAYER_TTL, RPS_GAME_TTL in clock ticks

ASSUME ServerAssumption == PlayerTTL \in Nat \ {0} /\ GameTTL \in Nat \ {0}

VARIABLES
  sweep,  \* the locals of SweepOnce, ExpirePlayer and ExpireGame
  posts   \* POST /games requests under way: the game, and what the clock said

vars == <<hubVars, sweep, posts>>

SweepStages == {"asleep", "players", "listOpen", "closeGames", "closeSave", "closeNotify",
                "detach", "detachLock", "deletePlayer", "games", "deleteGame"}

Asleep == [players |-> {}, player |-> NoPlayer, open |-> {}, games |-> {},
           conns |-> {}, start |-> 0]

Sweeps ==
  [players: SUBSET Players, player: Players \cup {NoPlayer},
   open: SUBSET Games, games: SUBSET Games, conns: SUBSET Conns, start: Times]

PlayerCutoff == sweep.start - PlayerTTL
GameCutoff   == sweep.start - GameTTL

ServerTypeOK ==
  /\ TypeOK
  /\ pc[Sweeper] \in SweepStages
  /\ sweep \in Sweeps
  /\ posts \subseteq Games \X Times

At(stage) == pc[Sweeper] = stage

\* An error ends the sweep; the next one starts over.
Abort == Goto(Sweeper, "asleep") /\ Keep(Sweeper, NoFrame) /\ sweep' = Asleep

\* A SELECT of the sweep fails: of a list, of a player, or of a game, the
\* last under the game's lock.
ReadFails ==
  /\ \/ At("players") \/ At("listOpen")
     \/ At("closeGames") /\ \E g \in sweep.open : Free(g)
     \/ At("games") /\ \E g \in sweep.games : Free(g)
  /\ Fault /\ Abort
  /\ UNCHANGED <<storeVars, connVars, lock, shown>>

-----------------------------------------------------------------------------
(* HTTP, clock, restart.                                                    *)

\* POST /games by the player HostOf[g]: its credentials, and the clock.
PostBegin(g) ==
  /\ HostOf[g] \in players
  /\ g \notin used /\ \A post \in posts : post[1] # g
  /\ posts' = posts \cup {<<g, now>>}
  /\ UNCHANGED <<hubVars, sweep>>

\* CreateGame, which fails if the host has no row by then.
PostGame(g, t) ==
  /\ <<g, t>> \in posts
  /\ posts' = posts \ {<<g, t>>}
  /\ \/ CreateGame(g, HostOf[g], t) /\ UNCHANGED faults
     \/ HostOf[g] \notin players /\ UNCHANGED <<storeVars, faults>>
     \/ Fault /\ UNCHANGED storeVars
  /\ UNCHANGED <<connVars, lock, procVars, shown, sweep>>

Tick ==
  /\ now < MaxNow
  /\ now' = now + 1
  /\ UNCHANGED <<players, active, games, used, connVars, lock, procVars, shown, faults>>
  /\ UNCHANGED <<sweep, posts>>

(***************************************************************************)
(* The process dies, at any point between two transactions, and comes back *)
(* with the database: connections, attachments, locks and requests are     *)
(* lost.                                                                   *)
(***************************************************************************)
Restart ==
  /\ conns' = {}
  /\ playerConn' = [p \in Players |-> NoConn]
  /\ attached' = [g \in Games |-> {}]
  /\ conn' = [c \in Conns |-> IF pc[c] = "unborn" THEN NewConn
                              ELSE [NewConn EXCEPT !.closing = TRUE]]
  /\ lock' = [g \in Games |-> NoProc]
  /\ pc' = [p \in Procs |-> IF p = Sweeper THEN "asleep"
                            ELSE IF pc[p] = "unborn" THEN "unborn" ELSE "gone"]
  /\ fr' = [p \in Procs |-> NoFrame]
  /\ shown' = [c \in Conns |-> NoView]
  /\ sweep' = Asleep
  /\ posts' = {}
  /\ UNCHANGED <<storeVars, faults>>

-----------------------------------------------------------------------------
(* SweepOnce, players first.                                                *)

SweepBegin ==
  /\ At("asleep")
  /\ sweep' = [Asleep EXCEPT !.players = ExpiredPlayers(now - PlayerTTL), !.start = now]
  /\ Goto(Sweeper, "players")
  /\ UNCHANGED <<storeVars, connVars, lock, fr, shown, faults>>

\* Mutant: a connected player is spared.
IdleUnconnected(p) == p \in players /\ active[p] < PlayerCutoff /\ playerConn[p] = NoConn

Idle(p) == p \in players /\ active[p] < PlayerCutoff

\* ExpirePlayer: gone or active again means nothing to do.
ExpirePlayer(p) ==
  /\ At("players")
  /\ p \in sweep.players
  /\ IF Idle(p)
     THEN /\ sweep' = [sweep EXCEPT !.players = @ \ {p}, !.player = p]
          /\ Goto(Sweeper, "listOpen")
     ELSE /\ sweep' = [sweep EXCEPT !.players = @ \ {p}]
          /\ UNCHANGED pc
  /\ UNCHANGED <<storeVars, connVars, lock, fr, shown, faults>>

ListOpenGames ==
  /\ At("listOpen")
  /\ sweep' = [sweep EXCEPT !.open = OpenGames(sweep.player)]
  /\ Goto(Sweeper, "closeGames")
  /\ UNCHANGED <<storeVars, connVars, lock, fr, shown, faults>>

\* closeForExpiredPlayer: lock, load, and close unless it is closed or gone.
CloseLock(g) ==
  /\ At("closeGames")
  /\ g \in sweep.open
  /\ sweep' = [sweep EXCEPT !.open = @ \ {g}]
  /\ IF Open(g) /\ SeatOf(games[g], sweep.player) # NoSeat
     THEN /\ Hold(g, Sweeper)
          /\ Goto(Sweeper, "closeSave")
          /\ Keep(Sweeper, [Frame("expire", Pending, g) EXCEPT
                              !.row = [games[g] EXCEPT !.st = Close(@)]])
     ELSE Free(g) /\ UNCHANGED <<lock, procVars>>
  /\ UNCHANGED <<storeVars, connVars, shown, faults>>

\* The save leaves last_active_at alone and touches nobody.  Nobody but the
\* sweeper deletes players, so the foreign keys of the row still hold.
CloseSave ==
  LET g   == fr[Sweeper].game
      row == fr[Sweeper].row
  IN  /\ At("closeSave")
      /\ \/ /\ CanSave(g, row)
            /\ SaveGame(g, row, NoPlayer)
            /\ Goto(Sweeper, "closeNotify")
            /\ UNCHANGED <<lock, fr, sweep, faults>>
         \/ Fault /\ Release(g) /\ Abort /\ UNCHANGED storeVars
      /\ UNCHANGED <<connVars, shown>>

CloseNotify ==
  LET g   == fr[Sweeper].game
      own == {c \in attached[g] : conn[c].player = sweep.player}
  IN  /\ At("closeNotify")
      /\ CloseGameFor(g, fr[Sweeper].row, own, {})
      /\ Release(g)
      /\ Goto(Sweeper, "closeGames") /\ Keep(Sweeper, NoFrame)
      /\ UNCHANGED <<storeVars, conns, playerConn, sweep>>

\* The player's live connection: close code 4002, then detach.
CloseConn ==
  /\ At("closeGames")
  /\ sweep.open = {}
  /\ LET c == playerConn[sweep.player]
     IN  IF c = NoConn THEN Goto(Sweeper, "deletePlayer") /\ UNCHANGED <<fr, conn>>
         ELSE /\ Closed(c)
              /\ Goto(Sweeper, "detach")
              /\ Keep(Sweeper, DetachFrame(c, "deletePlayer", NoGame))
  /\ UNCHANGED <<storeVars, conns, playerConn, attached, lock, shown, faults, sweep>>

ForgetPlayer ==
  /\ At("deletePlayer")
  /\ \/ /\ DeletePlayer(sweep.player)
        /\ sweep' = [sweep EXCEPT !.player = NoPlayer]
        /\ Goto(Sweeper, "players")
        /\ UNCHANGED <<fr, faults>>
     \/ Fault /\ Abort /\ UNCHANGED storeVars
  /\ UNCHANGED <<connVars, lock, shown>>

-----------------------------------------------------------------------------
(* SweepOnce, then games.                                                   *)

ListGames ==
  /\ At("players")
  /\ sweep.players = {}
  /\ sweep' = [sweep EXCEPT !.games = ExpiredGames(GameCutoff)]
  /\ Goto(Sweeper, "games")
  /\ UNCHANGED <<storeVars, connVars, lock, fr, shown, faults>>

\* Mutants: the game is not looked at again under the lock; a game that
\* somebody is attached to is spared.
StillExpiredUnchecked(g) == games[g] # NoRow
StillExpiredUnattended(g) == g \in ExpiredGames(GameCutoff) /\ attached[g] = {}

StillExpired(g) == g \in ExpiredGames(GameCutoff)

\* Mutant: the connections are closed, their own handlers detach them later.
EvictLater(g) == UNCHANGED <<attached, conn>>

\* Everybody is detached.
Evict(g) == Detached(attached[g], g)

\* ExpireGame under the lock: look again, then evict.
ExpireGame(g) ==
  /\ At("games")
  /\ g \in sweep.games
  /\ IF StillExpired(g)
     THEN /\ Hold(g, Sweeper)
          /\ Goto(Sweeper, "deleteGame")
          /\ Keep(Sweeper, Frame("expire", Pending, g))
          /\ Evict(g)
          /\ sweep' = [sweep EXCEPT !.games = @ \ {g}, !.conns = attached[g]]
     ELSE /\ Free(g)
          /\ sweep' = [sweep EXCEPT !.games = @ \ {g}]
          /\ UNCHANGED <<lock, procVars, attached, conn>>
  /\ UNCHANGED <<storeVars, conns, playerConn, shown, faults>>

\* Close code 4003, to one after the other.
CloseEvicted(c) ==
  /\ At("deleteGame")
  /\ c \in sweep.conns
  /\ sweep' = [sweep EXCEPT !.conns = @ \ {c}]
  /\ Closed(c)
  /\ UNCHANGED <<storeVars, conns, playerConn, attached, lock, procVars, shown, faults>>

ForgetGame ==
  LET g == fr[Sweeper].game
  IN  /\ At("deleteGame")
      /\ sweep.conns = {}
      /\ Release(g)
      /\ \/ /\ DeleteGame(g)
            /\ Goto(Sweeper, "games") /\ Keep(Sweeper, NoFrame)
            /\ UNCHANGED <<faults, sweep>>
         \/ Fault /\ Abort /\ UNCHANGED storeVars
      /\ UNCHANGED <<connVars, shown>>

SweepEnd ==
  /\ At("games")
  /\ sweep.games = {}
  /\ Abort
  /\ UNCHANGED <<storeVars, connVars, lock, shown, faults>>

SweepStep ==
  \/ SweepBegin \/ ListOpenGames \/ CloseSave \/ CloseNotify \/ CloseConn
  \/ ForgetPlayer \/ ListGames \/ ForgetGame \/ SweepEnd \/ ReadFails
  \/ \E p \in Players : ExpirePlayer(p)
  \/ \E g \in Games : CloseLock(g) \/ ExpireGame(g)
  \/ \E c \in Conns : CloseEvicted(c)
  \/ DetachStep(Sweeper) /\ UNCHANGED sweep

-----------------------------------------------------------------------------
ServerInit ==
  /\ players = Players
  /\ active = [p \in Players |-> 0]
  /\ games = [g \in Games |-> NoRow]
  /\ used = {}
  /\ now = 0
  /\ HubInit
  /\ sweep = Asleep
  /\ posts = {}

Post(g) == PostBegin(g) \/ \E t \in Times : PostGame(g, t)

\* A step of one of the goroutines that last: of a connection, or the sweeper's.
Goroutine ==
  /\ \/ \E c \in Conns : (Client(c) \/ Handler(c)) /\ UNCHANGED sweep
     \/ SweepStep
  /\ UNCHANGED posts

ServerNext ==
  \/ \E g \in Games : Post(g)
  \/ Tick
  \/ Restart
  \/ Goroutine

ServerSpec == ServerInit /\ [][ServerNext]_vars

-----------------------------------------------------------------------------
(* Properties.                                                              *)

(***************************************************************************)
(* A game row is deleted only when the game has been inactive for longer   *)
(* than its TTL at the moment of the deletion: every handler stamps the    *)
(* row under the game lock, and ExpireGame looks again under that lock     *)
(* before it deletes.                                                      *)
(***************************************************************************)
OnlyIdleGamesDeleted ==
  [][\A g \in Games :
       games[g] # NoRow /\ games'[g] = NoRow => games[g].last < now - GameTTL]_vars

(***************************************************************************)
(* Seats never change hands: a player in a stored seat is replaced by      *)
(* nobody but NULL, and NULL by somebody only when a guest joins a game    *)
(* that waits for one.  A save by a handler that loaded the row before a   *)
(* player was deleted must not put the dead player back.                   *)
(***************************************************************************)
SeatsKept ==
  [][\A g \in Games : games[g] # NoRow /\ games'[g] # NoRow =>
       \A seat \in Seats :
         games'[g].who[seat] # games[g].who[seat] =>
           \/ games'[g].who[seat] = NoPlayer /\ games[g].who[seat] \notin players'
           \/ /\ seat = "GUEST" /\ games[g].who[seat] = NoPlayer
              /\ games[g].st.status = "WAITING_FOR_GUEST_TO_JOIN"
              /\ games'[g].st.status = "ACTIVE"]_vars

(***************************************************************************)
(* hub.go: ExpirePlayer "is a no-op if the player no longer exists or has  *)
(* been active since cutoff".                                              *)
(***************************************************************************)
OnlyIdlePlayersDeleted ==
  [][\A p \in players \ players' : active[p] < now - PlayerTTL]_vars

(***************************************************************************)
(* SPEC.md, 6.2: a game that is not CLOSED when its host or guest expires  *)
(* becomes CLOSED.                                                         *)
(***************************************************************************)
ExpiryClosesGames ==
  \A g \in Games : Open(g) =>
    /\ games[g].who["HOST"] # NoPlayer
    /\ games[g].st.status # "WAITING_FOR_GUEST_TO_JOIN" => games[g].who["GUEST"] # NoPlayer

(***************************************************************************)
(* hub.go: ExpirePlayer "terminates their connection and deletes them": a  *)
(* connection that is authenticated as a player without a row is closing.  *)
(***************************************************************************)
ExpiryTerminates ==
  \A c \in Conns : Live(c) /\ conn[c].player # NoPlayer => conn[c].player \in players

(***************************************************************************)
(* Both: nothing of an expired player goes on, neither a game nor a        *)
(* connection.                                                             *)
(***************************************************************************)
ExpiryComplete == ExpiryClosesGames /\ ExpiryTerminates

-----------------------------------------------------------------------------
(***************************************************************************)
(* On top of the hub's fairness: the ticker starts a sweep again and       *)
(* again, a sweep goes on, and it gets the locks it waits for.  The        *)
(* process does not crash for ever, or no sweep might ever end.            *)
(***************************************************************************)
ServerFairness ==
  /\ \A c \in Conns :
       /\ WF_vars(Handler(c) /\ UNCHANGED <<sweep, posts>>)
       /\ SF_vars(/\ ConnectLock(c) \/ OpLock(c) \/ Detach(c) \/ DetachRetry(c)
                  /\ UNCHANGED <<sweep, posts>>)
       /\ WF_vars(Disconnect(c) /\ conn[c].closing /\ UNCHANGED <<sweep, posts>>)
  /\ WF_vars(SweepStep /\ UNCHANGED posts)
  /\ \A g \in Games : SF_vars((CloseLock(g) \/ ExpireGame(g)) /\ UNCHANGED posts)
  /\ SF_vars((Detach(Sweeper) \/ DetachRetry(Sweeper)) /\ UNCHANGED <<sweep, posts>>)
  /\ <>[][~Restart]_vars

FairServerSpec == ServerSpec /\ ServerFairness

\* A player who stays inactive beyond the TTL is deleted in the end.
IdlePlayersExpire ==
  \A p \in Players :
    p \in players /\ active[p] < now - PlayerTTL ~> p \notin players \/ active[p] >= now - PlayerTTL

\* So is a game nobody plays.
IdleGamesExpire ==
  \A g \in Games :
    g \in ExpiredGames(now - GameTTL) ~> g \notin ExpiredGames(now - GameTTL)
=============================================================================

# rps-backend in TLA+

A verification project for `rps-backend`, a Go server for two-player
Rock-Paper-Scissors: TLA+ modules translated from the code under `src/`, TLC
runs on small instances, and TLAPS proofs for every value of the constants.
Paths below are relative to the repository's root; `hub.go`, `actions.go`,
`conn.go` and `snapshot.go` are in `internal/hub`.

## 1. Inventory of the system

The server is one process. Players and games are created over HTTP and live in
SQLite; they are played over one WebSocket per client. A sweeper deletes what
has been idle for too long.

| Component | State | Operations | Correct when |
|---|---|---|---|
| Rules, `internal/rules` | none; pure functions on `rules.State` | `Join`, `PlayMove`, `Rematch`, `DeclineRematch`, `Close`, `VisibleMove` | rounds, counters and throws fit together; nobody sees a throw early; a rematch needs both seats |
| Store, `internal/store` | tables `players`, `games` | one statement or transaction per call: create, load, touch, save, delete, list the expired | rows always hold a consistent game; a stale save cannot revive a deleted player |
| Game lock, `Hub.lockGame` | `Hub.locks`: a mutex per game, made on demand and counted | lock, release | mutual exclusion per game, no leak, everyone served |
| Hub, `hub.go`, `actions.go` | `conns`, `players`, `games` under `h.mu`; each `Conn`'s player, game, seat | `NewConn`, `Handle` with six actions, `detach`, `Disconnect`, `CloseAll` | registries agree; one live connection per player; attachments match rows |
| Snapshots, `snapshot.go` | none | `view`, `For` | personal, current, without the opponent's throw during a round |
| Sweeper, `internal/sweeper`, `Hub.ExpirePlayer`, `Hub.ExpireGame` | the lists of the running sweep | `SweepOnce` | deletes what is idle, only that, and everything that belongs to it |
| HTTP API, `internal/httpapi`, `Store.CreatePlayer` | a request's draws and scan | create a player, create a game | display names are unique, every request is answered, a refusal is justified; the row and the host's activity are written together |
| Transport, `internal/ws`, `conn.go` | per socket: read, write and ping loops, auth timer, send buffer, close code | accept, read, send, write, flush, close handshake | what was queued before a close arrives before the close frame; dead and unauthenticated clients are noticed; every socket told to close is disconnected from the hub |
| Process, `cmd/rps-backend` | - | start, orderly shutdown | a restart finds a usable database; shutdown waits for the connections it told to close |
| Clock, configuration, secrets, container | - | - | not interesting here |

**Who runs.** Each socket has one goroutine that reads an action and runs its
handler to the end before it reads the next. The sweeper is one more goroutine,
HTTP handlers are others. They share the database, the hub's maps (`h.mu`, held
for brief blocks) and the game locks (held from a handler's load to its last
message). A handler may change *another* goroutine's connection: authenticating
detaches the old connection of the same player, leaving detaches everybody,
a send to a full buffer closes the receiver.

**What is hard.**

- The lock map drops entries while others arrive (`hub.go:97-117`).
- A handler looks at `c.gameID` or at a row, then waits for a lock; both may
  have changed (`hub.go:161-191`, `actions.go:162-202`, `238-263`).
- A connection may be replaced in the middle of its own handler
  (`actions.go:127-139`).
- Player expiry is a long sequence of steps with no lock around it
  (`hub.go:227-257`); game expiry is under one lock (`hub.go:318-343`).
- A statement may fail after the row was saved, or in the middle of a sweep.
- The clock is read before the transaction that writes the time
  (`actions.go:123`, `232`, `httpapi.go:179`), so that a stamp may be older than
  one written meanwhile.
- The process may die between a save and the messages about it.
- A discriminator found free is taken before the `INSERT` (`store.go:179-193`).
- A socket has four goroutines of its own, is sent to and closed by any others,
  and each of them may be between its check and its act (`ws.go`, `conn.go`).

`PROJECT.json` lists each hazard at its line with the properties that cover it.

## 2. The modules

```
  Series  <-refines-  Game  --EXTENDS-->  Rules  <--EXTENDS--  Store
                       ^                                        ^
                       | each handler is a step (GameSteps)     | EXTENDS
                       +------------------------------------   Hub
  Mutex   <-refines-  GameLock  (Hub's locks are Mutex's)       ^
  Roster  <-refines-  Players   (POST /players, on its own)     | EXTENDS
  Transport  (one socket; ends every closing connection)      Server

  RulesProofs, GameProofs, GameLockProofs, HubProofs, ViewProofs,
  ServerProofs, PlayersProofs, TransportProofs
```

**`Rules`**. The package `rules`, one operator per transition. A Go function
that returns `(State, error)` is split in `CanT` (no error) and `T` (the
result). `HostMove`/`GuestMove` and `HostWins`/`GuestWins` become functions of
the seat. `VisibleMove` returns `"PENDING"` for `ok = false`.

**`Game`**. The life of one row: created, joined, played, closed, deleted. One
action per handler. What the handlers add to the rules (locks, attachments,
messages) is `Hub`'s business. `MaxRounds` bounds the rematches.

**`Series`**. What a game promises, without throws and statuses: in a round each
seat commits once, the second commitment ends the round and scores one point,
a further round needs a request that stands, and an ended series never goes on.
(That the two seats of a request and its acceptance differ is not visible in a
row; `Hub` states it as `RematchNeedsBoth`.) `Game` implements it under the
mapping `Phase`, `Committed`, `Asking`, `Score`.

**`GameLock`**. `lockGame` at its own grain: the block under `h.mu` that finds or
makes the lock and counts the caller (`Find`, `Make`), the mutex's lock
(`Acquire`) and unlock (`Unlock`), the block that drops the reference (`Drop`).
An address may be reused once nothing refers to it, so that a lost or doubled
entry would be noticed. **`Mutex`** is its promise: a lock per game, taken only
when free.

**`Store`**. The two tables and one operator per statement or transaction.
`SaveGame` overwrites the whole row, as the code does, and succeeds only if the
row and the players its foreign keys name exist (`CanSave`); `DeletePlayer`
sets foreign keys to NULL; `TouchPlayer` of a missing row is no error. Secrets
and names are left out: a caller with a wrong secret is one that changes
nothing.

**`Hub`**. Connections as processes. The variables are the hub's maps (`conns`,
`playerConn` for `h.players`, `attached` for `h.games`), the fields of each
`Conn` (`conn`), the holder of each game's lock, each goroutine's place and
locals (`pc`, `fr`), and `shown`: what the client was last told of its game,
which is the snapshot with later `game::closed` and
`game::opponent_disconnected` events applied. A step is what a handler does
between two points where others can be noticed:

| Code | Actions |
|---|---|
| `ServeHTTP` | `Accept` |
| `authenticate` | `Authenticate`, `AuthTouch`, `Register`, `Replace`, then `detach` |
| `detach` | `DetachLook`, `DetachRetry`, `Detach` |
| `connect` | `Connect`, (`detach`,) `ConnectLock`, `ConnectSave`, `ConnectAttach` |
| `move`, `rematch`, `rematchDecline`, `leave` | `Request`, `OpLock`, `OpSave`, `OpNotify` |
| `Disconnect` | `Disconnect`, `detach`, `Unregister` |
| full buffer, authentication timer, `CloseAll` | `Abandon` |

Loading under the lock and computing the next state is one step with the
acquisition, since nobody else writes the row meanwhile except the deletion of
a player, which the model lets happen before the save. The clock belongs to
that step (`Stamped`): `save` reads it before its transaction, and the player may
write a newer time in between, which the save then overwrites with the older one.
The block after the save (view, attach, sends, unlock) is one step: all it reads
is protected by the lock, but for the two players. `view` reads them one after the
other, and the sweeper may delete one of them before, between or after the two
reads: `Finds` says which players a view may find, and a snapshot has only their
cards. A receiver that starts closing in the middle of the block is the same as
one that closed before; it may do so at any point of its own handler (`Abandon`).
A request that is refused before it takes a lock changes nothing and is not an
action.

**`Server`**. `Hub`, `POST /games`, the clock, crashes and the sweeper:
`SweepBegin`, `ExpirePlayer`, `ListOpenGames`, `CloseLock`/`CloseSave`/
`CloseNotify` (`closeForExpiredPlayer`), `CloseConn` with `detach`,
`ForgetPlayer`, then `ListGames`, `ExpireGame`, `CloseEvicted`, `ForgetGame`.
`ExpireGame` detaches everybody in one block under `h.mu`; the sockets are closed
afterwards, one `CloseEvicted` each, and in between such a client may still act,
even connect to another game. Any statement of the sweep may fail, which ends the
sweep (`Abort`). `POST /games` reads the clock (`PostBegin`) and creates the game
later (`PostGame`), when its host may be gone; `posts` are the requests in between.
`Restart` may come at any point, in the middle of a sweep or with nobody
connected, and forgets all but the database.

**`Players`**. `POST /players` as concurrent requests on one table: `Draw` is one
random `INSERT` of the first loop, `Scan` the `SELECT` of `freeDiscriminator`
with its snapshot, `ReadRow` and `EndScan` its loop over the rows, `Insert` the
`INSERT` of what was found, which scans again when another request was faster.
`Expire` is the sweeper's deletion, `Fail` any statement that fails. It is kept
apart from `Hub`, which only ever sees players that exist. **`Roster`** is what a
client is promised: a name nobody has, a refusal because every name was taken at
a moment since it asked, or a failure; the moment is recorded in `refusable`,
since the code finds out later, when its loop ends.

**`Transport`**. One socket from the upgrade to the last `wg.Done`.

| Code | Actions |
|---|---|
| `ServeHTTP`, `readLoop` | `Request`, `Upgrade`, `Count`, `Start`, `Receive`, `Handled`, `ReadFails`, `Disconnect`, `Unregister`, `GiveUp`, `Return` |
| `writeLoop`, `conn.Close` | `TakeMessage`, `WriteDone`, `WriteFails`, `NoticeClosing`, `DrainEnds`, `CloseSocket`, `WriterCancelled` |
| `pingLoop` | `PingerStops`, `Ping`, `Pong`, `PingFails`, `Drop` |
| `authTimer` | `TimerFires`, `TimerCloses` |
| `Conn.send`, `Conn.Close` | `SendCheck`, `SendQueue`, `HubCloses` |
| `serve` in `main.go`, `CloseAll`, `Wait` | `Signal`, `ListConns`, `TellConns`, `WaitReturns`, `WaitTimesOut`, `ListenFails` |

Messages have no contents: a channel is FIFO, so that `buffered` is its length and
`owed` counts those of its messages that were queued before the close was
requested and are not yet written. `owed` is the only variable the code does not
have. The WebSocket library is external; what the model assumes of it is said at
the head of the module.

**MC modules** (`MCGame`, `MCGameLock`, `MCHub`, `MCServer`, `MCPlayers`,
`MCTransport`) give the instances.
Definitions commented "Mutant" are plausible mistakes in the code; they are not
used by the specification. Each property is checked to fail when its mutant
takes the place of the definition it mutates.

## 3. The runs

Bounds: `MaxRounds` rounds, `MaxFaults` failing statements, clock 0..`MaxNow`.
Each socket is used once; c1 and c2 are sockets of player p1, c3 is one of p2.
In the passing runs a game's TTL is one tick and a player's two, so that a game
can expire under players who stay attached; in the violation runs both are one,
like the defaults of the configuration, which are equal.

| Run | Instance | Shows |
|---|---|---|
| `game` | 3 rounds | `RoundConsistent`, `NoPeeking`, `ThrowsFinal`, `ScoreCountsRounds`, and `Game` implements `Series` |
| `game_lock` | 3 processes, 2 games, 3 addresses | `MutualExclusion`, `NoLeak`, `Served`, and `GameLock` implements `Mutex` |
| `hub_replace` | 3 sockets, 1 game, 1 fault, no throws | `NewestRegistered`, `AttachmentBacked`, `NotDroppedSilently` under replacement and a failing statement |
| `hub_duel` | 2 sockets, 1 game, 2 throws, 2 rounds | `OwnView`, `ThrowsHidden`, `BoardCurrent`, `GameSteps`, `RematchNeedsBoth` |
| `hub_switch` | 2 sockets, 2 games, no throws, fair | `RegistriesAgree` and `PresenceAccurate` when players switch games; `HandlersReturn`, `ClosingEnds` |
| `server_expiry` | 2 sockets, 1 game, clock 0..3, crashes | `OnlyIdleGamesDeleted`, `SeatsKept` and `AttachmentBacked` with the sweeper at work |
| `server_live` | 1 socket, 1 game, clock 0..3, 1 fault, fair | `IdlePlayersExpire`, `IdleGamesExpire` |
| `players` | 3 requests, 2 base names, 2 discriminators, 2 draws, fair | `ScanExact`, `Answered`, and `Players` implements `Roster` |
| `transport` | 1 sender that never stops, a buffer of 2, fair | `Flushed`, `NothingLeft`, `ClosingEnds`, `DeadDropped`, `AuthenticatedOrOut` |
| `hub_peek`, `server_revived`, `server_remains` | | expected violations, section 4 |

Why the bounds are enough. Three processes are a holder, a waiter and a
newcomer of a lock. Three sockets are the smallest instance where a replaced
connection, its successor and an opponent meet; two games are what a switch
needs; two rounds contain a rematch and the throws after it. `hub_replace`,
`hub_switch` and `server_expiry` have no throws and no rematches (`ClientThrows`,
`ClientOps`): registries, attachments and expiry never look at the round, and
`hub_duel` and `game` do. The clock reaches "just beyond the longer TTL", where
everything has expired that nobody has touched, with every earlier relation of
activity and cutoff on the way. Two discriminators are a first and a last one; of
three requests for one name one must be refused, and with a second name and
expiry a gap can open while another request scans. A buffer of two is empty,
partly full or full with a message in the writer's hands; one sender stands for
any number, as it may always send again, and the theorems of section 5 are for
any number. `SYMMETRY` in `hub_replace` swaps the two interchangeable sockets of
p1; the runs with liveness have no symmetry.

`CHECK_DEADLOCK FALSE` stands only in runs where everything may really stop: a
deleted game (`game`), a hub whose every socket has been used and is gone,
requests that are all answered (`players`) and a process that has ended
(`transport`).

`BoardCurrent`, `OwnView` and `PresenceAccurate` assume that no statement has
failed (`NoFault`): a handler whose view fails after its save answers
"internal" or only logs, and tells nobody else (`actions.go:212-215`,
`hub.go:207-211`). `PresenceAccurate` also waits until no attached connection
is closing, since a closing one is detached only by its own goroutine.

### Fairness

- Every running handler goes on (`WF` of `Handler`, of `Unlock` and `Drop`, of
  `SweepStep`): nothing in them waits but game locks; sends never block.
- Who waits for a game lock gets it if it is free again and again (`SF`):
  `sync.Mutex` hands the lock to a waiter of more than 1 ms.
- A connection that is closing is disconnected (`WF` in `Hub`). `Transport` shows
  it: its `ClosingEnds` says that a socket told to close comes to `Disconnect` and
  to the end of `ServeHTTP`, whatever its client does.
- In `Transport`, every goroutine goes on (`WF` of `Serve`, `Writer`, `Pinger`,
  `Timer`, `SendQueue`): reads, writes and pings have timeouts or end with the
  socket. `SF` of `PingerStops`: a `select` with a ready `closing` or `ctx.Done`
  takes it in the end, though the ticker may be ready as well. The expiry of
  `ServeHTTP`'s own timeout (`GiveUp`), the deadlines of `main` and the shutdown
  are not assumed to happen.
- In `Players`, a request is served (`WF`); that it is answered follows because a
  lost race is another request's success, and there are finitely many.
- The ticker starts sweeps again and again (part of `WF` of `SweepStep`).
- Crashes end at some time (`<>[][~Restart]_vars` in `ServerFairness`): a process
  that dies again and again before a sweep is over deletes nothing. How many there
  are before is not bounded.

Nothing is assumed of clients or of the clock. Faults are bounded by `MaxFaults`,
so the liveness of expiry is that of a database that works again.

## 4. Where code and documents disagree

1. **A replaced connection that attaches late leaks a throw** (`hub_peek`).
   `authenticate` of a newer connection closes and detaches the old one, but
   the old one's `connect` may be waiting for the game lock and attach
   afterwards. `connect` sends every other attached connection the view of the
   *other* seat (`actions.go:220-226`); the other one may be the same player's
   newer connection, which is then shown the opponent's locked-in throw.
   `docs/SPEC.md:320` hides it while the status is `ACTIVE`. Late attachment
   and late detachment also break `PresenceAccurate`: when the old connection
   is detached after the newer one has attached, its seat is announced as
   disconnected although the newer connection sits in it. With three sockets
   that happens after a late attachment; with four, TLC finds it without one,
   when an old connection that is closing waits for the game lock in `detach`
   while a third socket of its player registers, connects and attaches. The
   theorems of `ViewProofs`, and those of `ServerProofs` about the same three
   properties, say that nothing else leads there.
2. **A player who becomes active is deleted anyway** (`server_revived`).
   `ExpirePlayer` checks once (`hub.go:235`) and deletes later (`hub.go:256`);
   its comment says it is a no-op for a player active since the cutoff.
   `OnlyTheIdleExpire` proves that it takes an authentication, a replacement, a
   save or a new game of that player between the two.
3. **What a player gains while it expires survives it** (`server_remains`).
   `ExpirePlayer` lists the open games once (`hub.go:239`) and looks the
   connection up once (`hub.go:249`). A game created or joined after the first
   stays open with a NULL seat, where `docs/SPEC.md:147` has it `CLOSED`; a
   handshake that overlaps the deletion ends in an open, authenticated connection
   of nobody, since `TouchPlayer` of a deleted row is no error. The comment of
   `ExpirePlayer` says that games are closed and the connection is terminated.
   `ExpiryIsComplete` proves that nothing is left of a player who keeps still.

Three more gaps have no run. `closeForExpiredPlayer` detaches the expiring player's
own connection without a message (`hub.go:299-304`), as the socket is to be
closed after the last game. If a statement of the next game fails (`hub.go:244`),
the sweep ends there, and the client goes on showing an open game it no longer
belongs to, until a later sweep expires it. TLC finds this in `Server` with two games of
one player and one fault; `NotDroppedSilently` is therefore a property of `Hub`,
and `NobodyElseDropped` (section 5) says what the whole server does promise.

`ExpireGame` collects the connections of the game, detaches them and closes them
one by one (`hub.go:333-341`). A client that has not been closed yet and connects to
another game in that time is closed with `4003`, game expired, while it plays
there. It is detached from that game like anybody whose socket ends; the two games
it takes are more than `server_expiry` has, so that only the theorems cover it.

The last is not run because the model would only restate it: a socket that is
upgraded but not yet in `h.conns` when `CloseAll` makes its list is not told to
close (`docs/SPEC.md:379` says "close all sockets with `1000`") and, before
`wg.Add`, not waited for. The process exits then anyway. `NothingLeft` is about
the connections that were told.

## 5. What is proved

`tlapm` checks the modules below to the last leaf. None uses an assumption
beyond those of the modules it extends: bounds are natural numbers, the set of
lock users is finite, and the nil values (also of rows and game states) are not
elements of the sets.

**`RulesProofs`**. The transitions of `Rules` map states to states, one lemma
each.

**`GameProofs`** (any `MaxRounds`). `TypeCorrect` follows from those lemmas. `RoundConsistent` is not
inductive on its own: a step is only understood from a state of the right type,
so `IInv` is `TypeOK /\ RoundConsistent`, and every transition keeps
`Consistent` (`RoundsConsistent`). From it follow

- `NobodyPeeks`: an opponent's throw is visible only when the round is over;
- `ThrowsAreFinal`: only an accepted rematch clears throws, and both at once;
- `CountersCountRounds`: `Settle` adds one point in all, in the counter of
  its outcome, and no other transition touches a counter;
- `GameImplementsSeries`: `Create` is `Open`, `JoinGuest` is `Begin`, a first
  throw is `Commit`, a second is `Settle`, `Rematch` is `Ask` or `Agree`,
  `DeclineRematch` is `Decline`, `Close` is `End`, the deletion is `Forget`.

**`GameLockProofs`** (any processes, games and addresses). Mutual exclusion is
not inductive: it depends on a game's users all having the same object. `IInv`
says that every user of a game has the object the map has (`SameObject`), that
games do not share objects (`OwnObject`), that the counter is the number of
users and not zero (`CountExact`), and that who is inside owns the mutex
(`OwnerInside`). `Invariant` proves it, with the cardinality of `Users` under
`Enter` and `Drop` as the only arithmetic. `Exclusion` and `NothingLeaks`
follow, and `LockImplementsMutex` maps `Acquire` to `Take` and `Unlock` to
`Give`. `TypeCorrect` is a part of `IInv`.

**`HubProofs`** (any players, games, connections, rounds and faults). None of the
hub's properties is inductive: a step is understood only from what its goroutine
knows at that point. `IInv` adds that to them, per stage: who is past a load
holds the game's lock (`Locals`), where a connection is tells what it may be
attached to (`Place`), and the row a handler is about to save is an update of the
row that is stored, but for players deleted since (`Ready`). `AttachmentBacked`
speaks of free locks; `Backed` is its form for all states, in which a closed game
has attachments only while its closer (`Closer`) is about to detach them. The
argument is rely-guarantee: `Footprint(p)` says what a step of p may change of
others (nothing of a game somebody else has locked, and of another connection
only its attachment to a game p has locked or finds free), `OthersKept` that it
leaves every other goroutine's knowledge true, and each action owes its own. The
sweeper's stages and deleted players are part of `IInv`, so that its lemmas hold
in `Server` as well. From `Invariant` follow

- `TypeCorrect`, `RegistriesAlwaysAgree`, `OneLiveConnection`,
  `AttachmentsAreBacked`;
- `RowsFollowGame`: only `ConnectSave` and `OpSave` change rows, and each is an
  action of `Game` or changes nothing of the state, because the row it loaded is
  still the stored one (`GameSteps`);
- `RematchTakesTwo`: the throws of a full round are cleared only by accepting a
  rematch of the other seat (`RematchNeedsBoth`);
- `HandlersUseMutex`: the handlers use the locks as `Mutex` has them, with any
  number of goroutines, and a goroutine takes one only while it holds none
  (`Held`). So nobody waits for a lock inside another, which is why lock order
  can never close a circle.

`Named` (a connection is only ever authenticated as the player whose
credentials its client has) is kept by every step as well; `ConnSteps` lists
what a step may do to a connection.

**`ViewProofs`** (the same constants). What clients have been shown. `Hub` sends
messages inside the block that follows a save, so a client is behind the stored
row exactly while somebody is between the two (`Notifying`). `VInv` says, whoever
is attached and alive has been shown the public part of the row, or somebody is
about to tell everyone; who was shown an open game is attached to it; and a
handler tells what it has just stored. Every step is of one of six kinds
(`Kinds`): it shows nothing (`Quiet`), unregisters a connection, stores a row and
tells nobody yet (`Saved`), tells everyone (`Tells`), closes the game (`Closes`), or
detaches one connection (`Leaves`). One lemma per action finds its kind, one per
kind says what it does to the pictures. From `Pictures` follow, unconditionally,

- `NobodyDroppedSilently`: `NotDroppedSilently`;
- `BoardsAreCurrent`: `BoardCurrent`, so no broadcast is missed or overtaken.

The part of a view that depends on the seat is different, since section 4 shows
that it does go wrong. `PInv` (one's own seat, what it may see, who is there) is
proved under `[]SeatsUnshared`: a live connection shares its seat with no other
attached one. That is precisely what a late attachment or detachment breaks, and
with it `ThrowsStayHidden`, `ViewsArePersonal` and `PresenceIsAccurate` hold for
any number of players, sockets and rounds. Two theorems say when the hypothesis
is met: `SequentialSockets`, when a player has one authenticated connection at a
time, however often it comes back; `SingleSockets`, in every behaviour where a
client keeps its first socket, which is a condition on the constants alone. The
theorems are about `Hub` without the sweeper; most of the lemmas speak of any
process, and `ServerProofs` uses them for the whole server.

**`ServerProofs`** (any TTLs and length of time as well). A handler's step keeps
`IInv` by the lemmas of `HubProofs`, and by its `Footprint` it keeps what the
sweeper knows; so only the sweeper, `POST /games`, the clock and a crash are left.
`SInv` is `IInv` with two parts: `UsedRows` (a row's game ID has been used, so that
`POST /games` never overwrites one) and `SweepLocal`, what the sweep knows at each
stage: whom it expires, that the row it is about to save is the open stored one,
closed (`closeSave`), and that the game it is about to delete is idle and has
nobody attached (`deleteGame`), and that only then anybody is left to be closed
(`sweep.conns`). `ServerCases` splits a step of the server into those of `ServerStep`,
where a request that fails is a step that changes nothing (`Idles`): the requests
under way matter only for types. One step does not respect the rely condition:
`DELETE` of a player changes rows that others have locked. `Deletion` shows that
it only vacates seats, and `DeletionReady` that the rows handlers hold still fit:
that is why `Fits` allows for dead players, and why the foreign keys then refuse
the save. A crash leads to a process that knows nothing (`Restarted`). From
`ServerInvariant` follow

- `ServerTypeCorrect` (with a small invariant for `posts`), and
  `AttachmentsBackedOnServer`;
- `NoLiveGameDeleted` and `SeatsNeverChangeHands`, with `RowChanges`, which lists
  every way a row can change: a save, a creation, a deleted player, a deleted game;
- `ServerFollowsGame`: `PostGame`, `CloseSave` and `ForgetGame` are `Create`,
  `Leave` and `Expire` of `Game`, and nothing else of the sweep is a step of it;
- `RegistriesAgreeOnServer`, `OneLiveConnectionOnServer` and
  `RematchTakesTwoOnServer`, the hub's theorems with sweeper and crashes;
- `ServerUsesMutex`: the sweeper too takes one lock at a time, and a crash drops
  them all.

The rest of the module is about the expiry of a player, the one operation that
holds no lock. Findings 2 and 3 show that it can go wrong when the player acts
meanwhile; the theorems `ExpiryIsComplete` and `OnlyTheIdleExpire` show that it
takes that. Their hypotheses are about the one player that is being expired, from
the check of its activity to its deletion: no connection with its credentials is
at one of the stages that touch, register, replace or save (`Undisturbed`), and
it creates no game (`NothingNew`). Everybody else may do anything: its opponents
play, join and leave, its own connection may be open, wait for locks, disconnect,
and statements may fail. `EInv` is the invariant: what has been
closed and what is still listed covers all the player's open games (`Progress`),
its activity stays before the cutoff, its connection is closed after its games,
and of a deleted player no game is open (`ExpiryClosesGames`) and no connection
is authenticated or on its way there (`Dropped`). TLC checked `EInv` under the two
hypotheses before it was proved.

The last part takes the seat-dependent theorems of `ViewProofs` to the server.
There a seat may lose its player while a connection sits in it, so the seats of
the attached connections no longer follow from the row alone. `WInv` says what
does: a seat belongs to the connection's player or to nobody (`SeatsBacked`); a
game that has had a guest waits for none again, even when the guest is deleted
(`RowsJoined`), so that nobody takes a vacated seat and a seat is shared by
connections of one player only (`SeatsTaken`); a handler about to tell has a row that
fits everybody attached, whoever has been deleted since (`RowOfAll`, in
`Attaching`): the views are made of that row, with the players they find; and
whoever is about to tell of a row, the sweeper in `closeNotify` too, tells of the stored one (`TellsRow`). A step of
the sweep then closes a game, detaches one connection, or shows nothing
(`SweepShows`), so it is of a kind `ViewProofs` knows; a creation, a tick and a
crash show nothing new (`Still`). `ServerKinds` collects this: every step of the
server tells everybody of a row, closes a game, detaches one connection, or shows
nothing. From it and `TellersTellTheRow` follow

- `SeatPicturesOnServer`, and from it `ThrowsStayHiddenOnServer`,
  `ViewsArePersonalOnServer` and `PresenceIsAccurateOnServer`, again under
  `[]SeatsUnshared`;
- `SequentialSocketsOnServer` and `SingleSocketsOnServer`, which meet that
  hypothesis: deleted players and crashes add nothing to finding 1;
- `GamesAreCurrentOnServer`, without a hypothesis on seats: `GameCurrent` is
  `BoardCurrent` where players may be deleted. A deletion tells nobody, so a view
  may still show a player who is gone; the round, the score, the locked-in throws
  and who sits where of the players there are have been shown as stored;
- `NobodyElseDropped`: `OnlyTheLeavingDropped` is `NotDroppedSilently` where
  players expire. As long as no statement fails, a live client that was last
  shown an open game is attached to it, unless its player is the one the sweeper
  is expiring or is deleted (`Leaving`), or the sweeper has detached it from a game
  that expires and is about to close it (`sweep.conns`). It takes that whoever is
  put out of a closed game has been told or is leaving (`LastWord`), that whoever
  is detached alone is closing, or leaves for another game (`DetachedFirst`), and
  that nobody stays in `sweep.conns` without being closed (`EvictedStays`). Both
  exceptions are real: `closeForExpiredPlayer` tells the opponents and not the
  player, and `ExpireGame` detaches before it closes.

**`PlayersProofs`** (any requests, names, number of discriminators and draws).
`ScanExact` is about the end of the loop; what is inductive is its loop
invariant: every number below the running candidate is in the snapshot
(`AllBelow`), and the rows not yet read are those from the candidate on
(`Unread`). Then
`EndScan` leaves the least gap or has seen every row (`ScanResult`).
`DisplayNamesUnique` needs no more than that an `INSERT` collides exactly with
the rows there are. `PlayersImplementRoster` maps every statement to a step of
`Roster` or a stutter: a `SELECT` that returns every discriminator is
`FindFull`, which is why a later refusal is justified although players may have
expired since.

**`TransportProofs`** (any senders, any buffer). `Flushed` speaks of the moment the
close frame is written; `FlushInv` adds what holds on the way: while the writer
may still write, what is owed is still in its hands or in the buffer, and it
comes to the close with an open socket only with nothing owed. `CloseOnce` is the
lemma about `Conn.Close`: only the first call counts, and what is owed then is
what is unwritten. `NothingLeft` needs `Beginning` (before `Start` nothing runs
and `CloseAll` has listed nothing).

**Only model-checked.** All liveness (`Served`, `HandlersReturn`, `ClosingEnds`,
`IdlePlayersExpire`, `IdleGamesExpire`, `Answered`, and `ClosingEnds`,
`DeadDropped`, `AuthenticatedOrOut` of `Transport`): the prover has no rule for
fairness and ENABLED. Every invariant and every action property of the runs is
the subject of a theorem, five of them under hypotheses: `ThrowsHidden`,
`OwnView`, `PresenceAccurate`, and the two that the code violates,
`OnlyIdlePlayersDeleted` and `ExpiryComplete`.

## 6. What is not modelled

- **Configuration, secrets, clock, container.** They are read once or keep no
  state. The TTLs are constants; a caller with a wrong secret changes nothing.
- **`Hub` and `Transport` in one state space.** `Hub` takes a message for known to
  the client when it is sent, and `Abandon` for what a full buffer or the
  authentication timer does; `Transport` has the buffer, the writer and the timer
  of one socket, with handlers that only take time, send and authenticate. Their
  product is out of reach for TLC. They meet in three places: `send` and `Close`
  of `Conn`, the end of a closing connection, and `Disconnect`.
- **Contents on the wire**: envelopes, origins, read limits, error codes, CORS,
  `/healthz`, validation of requests, logging.
- **Opening and migrating the database**; what SQLite itself guarantees of
  transactions and foreign keys is taken from its documentation, so that a crash
  is between two transactions.
- **Failures of the first load of a handler**, which are the same as no request.

## 7. Plan

Done in this order, the most important behaviour first: `Rules` and `Game` with
`Series`; `GameLock` with `Mutex`; `Store`; `Hub`; `Server`; `Players` with
`Roster`; `Transport`; their proofs.

Next: an abstract specification of presence and delivery that `Hub` implements
when no connection is replaced.

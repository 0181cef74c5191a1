-------------------------------- MODULE Store --------------------------------
(***************************************************************************)
(* Package store (internal/store): the tables players and games, and the   *)
(* statements the hub, the HTTP API and the sweeper run on them.  Every    *)
(* operator is one SQLite statement or transaction, hence atomic.          *)
(* Secrets and names are left out: a caller either has them right or gets  *)
(* nowhere, which is the same as not calling.                              *)
(***************************************************************************)
EXTENDS Rules, FiniteSets

CONSTANTS
  Players,   \* player IDs
  NoPlayer,  \* a NULL player column, "" in Go
  Games,     \* game IDs (UUIDs, never drawn twice)
  NoRow,     \* no row with this game ID
  MaxNow     \* bound of the clock

ASSUME StoreAssumption ==
  /\ NoPlayer \notin Players
  /\ MaxNow \in Nat

VARIABLES
  players,  \* the players that have a row
  active,   \* last_active_at of each player
  games,    \* the rows of games
  used,     \* the game IDs that ever had a row
  now       \* the clock

storeVars == <<players, active, games, used, now>>

Times == 0 .. MaxNow

NoSeat == ""

(***************************************************************************)
(* store.Game: who[seat] is host_player_id or guest_player_id, st the      *)
(* embedded rules.State, last is last_active_at.                           *)
(***************************************************************************)
Row == [who: [Seats -> Players \cup {NoPlayer}], st: State, last: Times]

ASSUME RowAssumption == NoRow \notin Row

StoreTypeOK ==
  /\ players \subseteq Players
  /\ active \in [Players -> Times]
  /\ games \in [Games -> Row \cup {NoRow}]
  /\ used \subseteq Games
  /\ now \in Times

\* The INSERT leaves the throws to their DEFAULT, which is PENDING too.
Created(host, t) ==
  [who |-> [seat \in Seats |-> IF seat = "HOST" THEN host ELSE NoPlayer],
   st |-> NewState, last |-> t]

SeatOf(row, p) ==
  IF p = NoPlayer THEN NoSeat
  ELSE IF row.who["HOST"] = p THEN "HOST"
  ELSE IF row.who["GUEST"] = p THEN "GUEST" ELSE NoSeat

-----------------------------------------------------------------------------
Touched(p, t) == IF p \in players THEN [active EXCEPT ![p] = t] ELSE active

\* UPDATE players: no row, no error.  The caller has read the clock before.
TouchPlayer(p, t) ==
  /\ active' = Touched(p, t)
  /\ UNCHANGED <<players, games, used, now>>

\* The INSERT's foreign key: the host has a row.
CreateGame(g, host, t) ==
  /\ g \notin used /\ host \in players
  /\ used' = used \cup {g}
  /\ games' = [games EXCEPT ![g] = Created(host, t)]
  /\ active' = Touched(host, t)
  /\ UNCHANGED <<players, now>>

\* Mutant: the foreign keys are off (_foreign_keys is a connection option).
CanSaveNoKeys(g, row) == games[g] # NoRow

\* SaveGame succeeds: the row is still there, and so are the players that
\* the foreign keys name.
CanSave(g, row) ==
  /\ games[g] # NoRow
  /\ \A seat \in Seats : row.who[seat] \in players \cup {NoPlayer}

\* SaveGame overwrites the whole row and touches player p, if one is given, with
\* the same time.
SaveGame(g, row, p) ==
  /\ games' = [games EXCEPT ![g] = row]
  /\ active' = IF p = NoPlayer THEN active ELSE Touched(p, row.last)
  /\ UNCHANGED <<players, used, now>>

\* ON DELETE SET NULL in both foreign keys.
Vacated(row, p) ==
  [row EXCEPT !.who = [seat \in Seats |-> IF @[seat] = p THEN NoPlayer ELSE @[seat]]]

DeletePlayer(p) ==
  /\ players' = players \ {p}
  /\ games' = [g \in Games |-> IF games[g] = NoRow THEN NoRow ELSE Vacated(games[g], p)]
  /\ UNCHANGED <<active, used, now>>

DeleteGame(g) ==
  /\ games' = [games EXCEPT ![g] = NoRow]
  /\ UNCHANGED <<players, active, used, now>>

ExpiredPlayers(cutoff) == {p \in players : active[p] < cutoff}

ExpiredGames(cutoff) == {g \in Games : games[g] # NoRow /\ games[g].last < cutoff}

OpenGames(p) ==
  {g \in Games : /\ games[g] # NoRow
                 /\ games[g].st.status # "CLOSED"
                 /\ SeatOf(games[g], p) # NoSeat}
=============================================================================

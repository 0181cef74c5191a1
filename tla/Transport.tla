------------------------------ MODULE Transport ------------------------------
(***************************************************************************)
(* Package ws (internal/ws), Conn of internal/hub and the shutdown of      *)
(* cmd/rps-backend: the life of one socket.  Its request goroutine         *)
(* upgrades, reads and cleans up; its writer, its pinger and its           *)
(* authentication timer run beside it; any goroutine of the hub may send   *)
(* to it or close it; main may stop the server.                            *)
(*                                                                         *)
(* Messages are anonymous: a Go channel keeps their order, so that it is   *)
(* enough to count the buffered ones, and those that were queued before    *)
(* the close was requested and are still to be written.  The handlers are  *)
(* module Hub's business; here they take time, send, and authenticate.     *)
(*                                                                         *)
(* The websocket library is external: a failed or timed-out write or ping  *)
(* leaves a dead socket or is followed by CloseNow, conn.Close writes the  *)
(* close frame, waits a bounded time for the peer's and closes the socket, *)
(* and Read fails once the socket is closed or the peer has gone.          *)
(***************************************************************************)
EXTENDS Integers

CONSTANTS
  Senders,     \* goroutines that send to this connection
  SendBuffer,  \* 32
  NoCode       \* closing has not been requested

\* "normal" is also the code of the shutdown; "evicted" stands for 4000, 4002, 4003.
Codes == {"normal", "evicted", "authTimeout", "slow"}

ASSUME TransportAssumption == SendBuffer \in Nat \ {0} /\ NoCode \notin Codes

VARIABLES
  serve,       \* ServeHTTP and readLoop
  writer,      \* writeLoop
  pinger,      \* pingLoop
  timer,       \* authTimer
  sender,      \* send, in each sender
  socket,      \* the server's end: open or closed
  peer,        \* the client: it reads and answers, is silently dead, or hung up
  buffered,    \* len(c.out)
  owed,        \* queued before the close was requested and not yet written
  code,        \* c.closeCode once c.closing is closed
  frame,       \* the close frame written
  authed,      \* c.playerID # ""
  main,        \* serve in cmd/rps-backend
  told         \* c was in the list of CloseAll

serveVars == <<serve, authed>>
loopVars  == <<writer, pinger, timer>>
wireVars  == <<socket, peer, frame>>
connVars  == <<sender, buffered, owed, code>>
mainVars  == <<main, told>>
vars == <<serveVars, loopVars, wireVars, connVars, mainVars>>

\* ServeHTTP between wg.Add and wg.Done.
Counted == {"counted", "reading", "handling", "leaving", "detaching", "waiting", "givenUp"}

\* c is in h.conns.
Registered == serve \in {"reading", "handling", "leaving", "detaching"}

\* ctx is done.
Cancelled == serve \in {"givenUp", "done"}

TypeOK ==
  /\ serve \in {"none", "upgrading", "upgraded", "done"} \cup Counted
  /\ authed \in BOOLEAN
  /\ writer \in {"off", "select", "writing", "draining", "flushing", "closing", "done"}
  /\ pinger \in {"off", "waiting", "pinging", "dropping", "done"}
  /\ timer \in {"off", "armed", "firing"}
  /\ socket \in {"none", "open", "closed"}
  /\ peer \in {"reads", "dead", "left"}
  /\ frame \in Codes \cup {NoCode}
  /\ sender \in [Senders -> {"idle", "sending"}]
  /\ buffered \in 0 .. SendBuffer
  /\ owed \in 0 .. SendBuffer + 1
  /\ code \in Codes \cup {NoCode}
  /\ main \in {"serving", "shutdown", "telling", "waiting", "stopped", "cutOff", "failed"}
  /\ told \in BOOLEAN

Closing == code # NoCode

-----------------------------------------------------------------------------
(* Conn: Close and send.                                                    *)

\* The message in the writer's hands and those in the buffer.
Queued == IF writer = "writing" THEN buffered + 1 ELSE buffered

\* The first call wins.
Close(k) ==
  /\ code' = IF Closing THEN code ELSE k
  /\ owed' = IF Closing THEN owed ELSE Queued

\* Mutant: send does not look whether the connection is closing.
MaySendAlways == writer # "off"

\* The connection is known to others, and it is not closing.
MaySend == writer # "off" /\ ~Closing

SendCheck(s) ==
  /\ sender[s] = "idle"
  /\ MaySend
  /\ sender' = [sender EXCEPT ![s] = "sending"]
  /\ UNCHANGED <<serveVars, loopVars, wireVars, buffered, owed, code, mainVars>>

\* Mutant: off by one.
HasRoomOneMore == buffered <= SendBuffer

HasRoom == buffered < SendBuffer

\* Enqueue, or close a slow consumer.
SendQueue(s) ==
  /\ sender[s] = "sending"
  /\ sender' = [sender EXCEPT ![s] = "idle"]
  /\ IF HasRoom
     THEN buffered' = buffered + 1 /\ UNCHANGED <<owed, code>>
     ELSE Close("slow") /\ UNCHANGED buffered
  /\ UNCHANGED <<serveVars, loopVars, wireVars, mainVars>>

\* A newer connection replaces this one; its player or its game expires.
HubCloses ==
  /\ authed /\ ~Closing
  /\ Close("evicted")
  /\ UNCHANGED <<serveVars, loopVars, wireVars, sender, buffered, mainVars>>

-----------------------------------------------------------------------------
(* ServeHTTP and readLoop.                                                  *)

\* GET /ws arrives; the listener is open until Shutdown.
Request ==
  /\ serve = "none" /\ main = "serving"
  /\ serve' = "upgrading"
  /\ UNCHANGED <<authed, loopVars, wireVars, connVars, mainVars>>

\* websocket.Accept fails, or hijacks the connection.
Upgrade ==
  /\ serve = "upgrading"
  /\ \/ serve' = "done" /\ socket' = "closed"
     \/ serve' = "upgraded" /\ socket' = "open"
  /\ UNCHANGED <<authed, loopVars, peer, frame, connVars, mainVars>>

\* wg.Add
Count ==
  /\ serve = "upgraded"
  /\ serve' = "counted"
  /\ UNCHANGED <<authed, loopVars, wireVars, connVars, mainVars>>

\* NewConn, the loops and the timer.
Start ==
  /\ serve = "counted"
  /\ serve' = "reading"
  /\ writer' = "select" /\ pinger' = "waiting" /\ timer' = "armed"
  /\ UNCHANGED <<authed, wireVars, connVars, mainVars>>

\* A message for Handle, which ignores it once the connection is closing.
Receive ==
  /\ serve = "reading" /\ socket = "open" /\ peer = "reads" /\ ~Closing
  /\ serve' = "handling"
  /\ UNCHANGED <<authed, loopVars, wireVars, connVars, mainVars>>

\* The handler returns; it may have authenticated the connection.
Handled ==
  /\ serve = "handling"
  /\ serve' = "reading" /\ authed' \in {authed, TRUE}
  /\ UNCHANGED <<loopVars, wireVars, connVars, mainVars>>

ReadFails ==
  /\ serve = "reading"
  /\ socket = "closed" \/ peer = "left"
  /\ serve' = "leaving" /\ socket' = "closed"
  /\ UNCHANGED <<authed, loopVars, peer, frame, connVars, mainVars>>

\* Hub.Disconnect: Close, then detach and unregister.
Disconnect ==
  /\ serve = "leaving"
  /\ serve' = "detaching"
  /\ Close("normal")
  /\ UNCHANGED <<authed, loopVars, wireVars, sender, buffered, mainVars>>

Unregister ==
  /\ serve = "detaching"
  /\ serve' = "waiting"
  /\ UNCHANGED <<authed, loopVars, wireVars, connVars, mainVars>>

\* Mutant: ServeHTTP does not wait for the writer.
LoopsDonePinger == pinger = "done"

LoopsDone == writer = "done" /\ pinger = "done"

\* The deferred cancel, Stop and wg.Done.
Return ==
  /\ serve \in {"waiting", "givenUp"}
  /\ LoopsDone
  /\ serve' = "done"
  /\ timer' = IF timer = "armed" THEN "off" ELSE timer
  /\ UNCHANGED <<authed, writer, pinger, wireVars, connVars, mainVars>>

\* The loops have not ended within writeTimeout.
GiveUp ==
  /\ serve = "waiting"
  /\ serve' = "givenUp"
  /\ UNCHANGED <<authed, loopVars, wireVars, connVars, mainVars>>

-----------------------------------------------------------------------------
(* writeLoop.                                                               *)

\* A write, a ping or a read on this socket may fail or time out.
Unwell == socket = "closed" \/ peer # "reads" \/ Cancelled

\* A message has been written, the oldest first.
Written == owed' = IF owed > 0 THEN owed - 1 ELSE 0

TakeMessage ==
  /\ \/ writer = "select" /\ writer' = "writing"
     \/ writer = "draining" /\ writer' = "flushing"
  /\ buffered > 0 /\ buffered' = buffered - 1
  /\ UNCHANGED <<serveVars, pinger, timer, wireVars, sender, owed, code, mainVars>>

WriteDone ==
  /\ \/ writer = "writing" /\ writer' = "select"
     \/ writer = "flushing" /\ writer' = "draining"
  /\ socket = "open"
  /\ Written
  /\ UNCHANGED <<serveVars, pinger, timer, wireVars, sender, buffered, code, mainVars>>

\* CloseNow and the end of the loop; or the end of the flush.
WriteFails ==
  /\ \/ writer = "writing" /\ writer' = "done"
     \/ writer = "flushing" /\ writer' = "closing"
  /\ Unwell
  /\ socket' = "closed"
  /\ UNCHANGED <<serveVars, pinger, timer, peer, frame, connVars, mainVars>>

\* Mutant: nothing is flushed.
FlushesNever == FALSE

Flushes == code # "slow"

NoticeClosing ==
  /\ writer = "select" /\ Closing
  /\ writer' = IF Flushes THEN "draining" ELSE "closing"
  /\ UNCHANGED <<serveVars, pinger, timer, wireVars, connVars, mainVars>>

DrainEnds ==
  /\ writer = "draining" /\ buffered = 0
  /\ writer' = "closing"
  /\ UNCHANGED <<serveVars, pinger, timer, wireVars, connVars, mainVars>>

\* conn.Close: the close frame, if it can be written, and the end of the socket.
CloseSocket ==
  /\ writer = "closing"
  /\ writer' = "done" /\ socket' = "closed"
  /\ \/ socket = "open" /\ frame' = code
     \/ (socket = "closed" \/ peer # "reads") /\ UNCHANGED frame
  /\ UNCHANGED <<serveVars, pinger, timer, peer, connVars, mainVars>>

WriterCancelled ==
  /\ writer = "select" /\ Cancelled
  /\ writer' = "done" /\ socket' = "closed"
  /\ UNCHANGED <<serveVars, pinger, timer, peer, frame, connVars, mainVars>>

-----------------------------------------------------------------------------
(* pingLoop.                                                                *)

PingerStops ==
  /\ pinger = "waiting" /\ (Cancelled \/ Closing)
  /\ pinger' = "done"
  /\ UNCHANGED <<serveVars, writer, timer, wireVars, connVars, mainVars>>

Ping ==
  /\ pinger = "waiting"
  /\ pinger' = "pinging"
  /\ UNCHANGED <<serveVars, writer, timer, wireVars, connVars, mainVars>>

\* The pong is read by the read loop, hence not during a handler.
Pong ==
  /\ pinger = "pinging"
  /\ socket = "open" /\ peer = "reads" /\ serve = "reading"
  /\ pinger' = "waiting"
  /\ UNCHANGED <<serveVars, writer, timer, wireVars, connVars, mainVars>>

\* Mutant: a failed ping only ends the loop.
AfterNoPongDone == "done"

AfterNoPong == IF Closing THEN "done" ELSE "dropping"

PingFails ==
  /\ pinger = "pinging"
  /\ Unwell \/ serve # "reading"
  /\ pinger' = AfterNoPong
  /\ UNCHANGED <<serveVars, writer, timer, wireVars, connVars, mainVars>>

\* CloseNow
Drop ==
  /\ pinger = "dropping"
  /\ pinger' = "done" /\ socket' = "closed"
  /\ UNCHANGED <<serveVars, writer, timer, peer, frame, connVars, mainVars>>

-----------------------------------------------------------------------------
(* authTimer: it looks, then it closes.                                     *)

\* Mutant: a connection in the middle of a handler is spared.
TimeIsUpUnused == ~authed /\ serve # "handling"

TimeIsUp == ~authed

TimerFires ==
  /\ timer = "armed"
  /\ timer' = IF TimeIsUp THEN "firing" ELSE "off"
  /\ UNCHANGED <<serveVars, writer, pinger, wireVars, connVars, mainVars>>

TimerCloses ==
  /\ timer = "firing"
  /\ timer' = "off"
  /\ Close("authTimeout")
  /\ UNCHANGED <<serveVars, writer, pinger, wireVars, sender, buffered, mainVars>>

-----------------------------------------------------------------------------
(* The client: it falls silent (or too slow), or hangs up.                  *)

PeerFails ==
  /\ socket = "open"
  /\ \/ peer = "reads" /\ peer' \in {"dead", "left"}
     \/ peer = "dead" /\ peer' = "left"
  /\ UNCHANGED <<serveVars, loopVars, socket, frame, connVars, mainVars>>

-----------------------------------------------------------------------------
(* serve in main: the way down.                                             *)

MainGoes(from, to) == main = from /\ main' = to

ListenFails ==
  /\ MainGoes("serving", "failed")
  /\ UNCHANGED <<serveVars, loopVars, wireVars, connVars, told>>

\* The signal, the end of the sweeper, and Shutdown, which closes the listener.
Signal ==
  /\ MainGoes("serving", "shutdown")
  /\ UNCHANGED <<serveVars, loopVars, wireVars, connVars, told>>

\* Shutdown waits for requests, though not beyond shutdownCtx and not for
\* hijacked connections; CloseAll lists.
ListConns ==
  /\ MainGoes("shutdown", "telling")
  /\ told' = Registered
  /\ UNCHANGED <<serveVars, loopVars, wireVars, connVars>>

\* CloseAll closes those of its list.
TellConns ==
  /\ MainGoes("telling", "waiting")
  /\ IF told THEN Close("normal") ELSE UNCHANGED <<code, owed>>
  /\ UNCHANGED <<serveVars, loopVars, wireVars, sender, buffered, told>>

\* The counter of wg is zero.
AllReturned == serve \notin Counted

WaitReturns ==
  /\ MainGoes("waiting", "stopped")
  /\ AllReturned
  /\ UNCHANGED <<serveVars, loopVars, wireVars, connVars, told>>

\* shutdownCtx is done after 10 s, whatever goes on.
WaitTimesOut ==
  /\ MainGoes("waiting", "cutOff")
  /\ UNCHANGED <<serveVars, loopVars, wireVars, connVars, told>>

-----------------------------------------------------------------------------
Init ==
  /\ serve = "none"
  /\ authed = FALSE
  /\ writer = "off" /\ pinger = "off" /\ timer = "off"
  /\ socket = "none" /\ peer = "reads" /\ frame = NoCode
  /\ sender = [s \in Senders |-> "idle"]
  /\ buffered = 0 /\ owed = 0 /\ code = NoCode
  /\ main = "serving" /\ told = FALSE

\* The process runs.
Up == main \notin {"stopped", "cutOff", "failed"}

Serve  == Upgrade \/ Count \/ Start \/ Handled \/ ReadFails \/ Disconnect \/ Unregister \/ Return
Writer == TakeMessage \/ WriteDone \/ WriteFails \/ NoticeClosing \/ DrainEnds
          \/ CloseSocket \/ WriterCancelled
Pinger == PingerStops \/ Ping \/ Pong \/ PingFails \/ Drop
Timer  == TimerFires \/ TimerCloses
Main   == ListConns \/ TellConns \/ WaitReturns \/ WaitTimesOut

Environment ==
  Request \/ Receive \/ HubCloses \/ PeerFails \/ Signal \/ ListenFails

Next ==
  /\ Up
  /\ \/ Serve \/ GiveUp \/ Writer \/ Pinger \/ Timer \/ Main \/ Environment
     \/ \E s \in Senders : SendCheck(s) \/ SendQueue(s)

Spec == Init /\ [][Next]_vars

(***************************************************************************)
(* Every goroutine goes on; reads, writes, pings and handlers end, in      *)
(* success or failure, or at their timeouts; a select takes a ready case   *)
(* in the end.  Nothing is assumed of clients and of main.                 *)
(***************************************************************************)
Fairness ==
  /\ WF_vars(Up /\ Serve) /\ WF_vars(Up /\ Writer) /\ WF_vars(Up /\ Pinger)
  /\ SF_vars(Up /\ PingerStops)
  /\ WF_vars(Up /\ Timer)
  /\ \A s \in Senders : WF_vars(Up /\ SendQueue(s))

FairSpec == Spec /\ Fairness
-----------------------------------------------------------------------------
(***************************************************************************)
(* What was queued when the close was requested has been written before    *)
(* the close frame, whoever sent and whoever closed, unless the code says  *)
(* that the client was too slow for it.                                    *)
(***************************************************************************)
Flushed == frame \notin {NoCode, "slow"} => owed = 0

(***************************************************************************)
(* Nothing is left behind.  When ServeHTTP returns, its loops have ended,  *)
(* its socket is closed and no timer waits to close it; and a server that  *)
(* stops before its deadline has come that far with every connection that  *)
(* CloseAll told to close.  (One that was upgraded and not yet registered  *)
(* when CloseAll made its list is not told.)                               *)
(***************************************************************************)
NothingLeft ==
  /\ serve = "done" =>
       /\ writer \in {"off", "done"} /\ pinger \in {"off", "done"}
       /\ socket = "closed" /\ timer # "armed"
  /\ main = "stopped" /\ told => serve = "done"

(***************************************************************************)
(* A connection that is told to close is cleaned up, whatever its client   *)
(* does and however many go on sending to it.                              *)
(***************************************************************************)
ClosingEnds == Closing ~> serve = "done" \/ ~Up

(***************************************************************************)
(* A client that falls silent is noticed.                                  *)
(***************************************************************************)
DeadDropped == serve = "reading" /\ peer # "reads" ~> serve = "done" \/ ~Up

(***************************************************************************)
(* Nobody stays unauthenticated.                                           *)
(***************************************************************************)
AuthenticatedOrOut == Registered ~> authed \/ serve = "done" \/ ~Up
=============================================================================

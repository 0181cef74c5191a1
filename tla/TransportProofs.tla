--------------------------- MODULE TransportProofs ---------------------------
(***************************************************************************)
(* Proofs about one socket, for any number of senders and any size of the  *)
(* send buffer.                                                            *)
(***************************************************************************)
EXTENDS Transport, TLAPS

\* The loops and the timer have not been started.
Early == serve \in {"none", "upgrading", "upgraded", "counted"}

Beginning == Early => writer = "off" /\ pinger = "off" /\ timer = "off" /\ ~told

\* What the buffer holds, and the message being written.
Unwritten == IF writer \in {"writing", "flushing"} THEN buffered + 1 ELSE buffered

(***************************************************************************)
(* As long as the writer may still write, what is owed has not left its    *)
(* hands; it reaches the close with the socket open only after a complete  *)
(* flush, unless the client is too slow.                                   *)
(***************************************************************************)
FlushInv ==
  /\ writer \notin {"closing", "done"} => owed <= Unwritten
  /\ writer \in {"draining", "flushing", "closing"} => Closing
  /\ writer \in {"draining", "flushing"} => code # "slow"
  /\ writer = "closing" /\ socket = "open" /\ code # "slow" => owed = 0
  /\ writer = "done" => socket = "closed"
  /\ frame # NoCode => writer = "done" /\ frame = code /\ (code # "slow" => owed = 0)

IInv == TypeOK /\ NothingLeft /\ Beginning /\ FlushInv

-----------------------------------------------------------------------------
(* Conn.Close and the buffer.                                               *)

\* However often it is called, the first code stays, and what is owed is
\* what is unwritten at that moment.
LEMMA CloseOnce ==
  ASSUME IInv, NEW k \in Codes, Close(k)
  PROVE  /\ code' \in Codes /\ (Closing => code' = code /\ owed' = owed)
         /\ owed' \in 0 .. SendBuffer + 1
         /\ writer \notin {"closing", "done"} => owed' <= Unwritten
  <1>1. buffered \in 0 .. SendBuffer /\ owed \in 0 .. SendBuffer + 1 /\ SendBuffer \in Nat
    BY TransportAssumption DEF IInv, TypeOK
  <1>2. CASE Closing
    BY <1>1, <1>2 DEF Close, Closing, IInv, TypeOK, FlushInv
  <1>3. CASE ~Closing
    <2>1. code' = k /\ owed' = Queued
      BY <1>3 DEF Close
    <2>2. Queued \in 0 .. SendBuffer + 1
      BY <1>1 DEF Queued
    <2>3. writer \notin {"closing", "done"} => Queued = Unwritten
      BY <1>3 DEF Queued, Unwritten, IInv, FlushInv
    <2> QED
      BY <1>1, <1>3, <2>1, <2>2, <2>3 DEF Unwritten
  <1> QED
    BY <1>2, <1>3

\* Closing changes nothing the invariant has settled.
LEMMA CloseKeeps ==
  ASSUME IInv, NEW k \in Codes, Close(k),
         UNCHANGED <<writer, socket, frame, buffered>>
  PROVE  FlushInv' /\ code' \in Codes /\ owed' \in 0 .. SendBuffer + 1
  BY CloseOnce, TransportAssumption DEF IInv, FlushInv, Closing, Unwritten

-----------------------------------------------------------------------------
(* Each step keeps the invariant.                                           *)

LEMMA InitInv == Init => IInv
  <1> SUFFICES ASSUME Init PROVE IInv
    OBVIOUS
  <1>1. TypeOK
    <2>1. authed \in BOOLEAN /\ told \in BOOLEAN /\ sender \in [Senders -> {"idle", "sending"}]
      BY DEF Init
    <2>2. buffered \in 0 .. SendBuffer /\ owed \in 0 .. SendBuffer + 1
      BY TransportAssumption DEF Init
    <2>3. /\ serve = "none" /\ writer = "off" /\ pinger = "off" /\ timer = "off"
          /\ socket = "none" /\ peer = "reads" /\ frame = NoCode /\ code = NoCode /\ main = "serving"
      BY DEF Init
    <2> QED
      BY <2>1, <2>2, <2>3 DEF TypeOK
  <1>2. serve = "none" /\ writer = "off" /\ pinger = "off" /\ timer = "off" /\ ~told
        /\ main = "serving" /\ buffered = 0 /\ owed = 0 /\ frame = NoCode
    BY DEF Init
  <1> QED
    BY <1>1, <1>2 DEF IInv, NothingLeft, Beginning, FlushInv, Unwritten

LEMMA ServeInv ==
  ASSUME IInv, Serve \/ GiveUp
  PROVE  IInv'
  <1> USE TransportAssumption
      DEF IInv, TypeOK, Codes, Counted, NothingLeft, Beginning, Early, FlushInv, Unwritten, Closing,
          serveVars, loopVars, wireVars, connVars, mainVars
  <1>1. ASSUME Upgrade PROVE IInv'
    BY <1>1 DEF Upgrade
  <1>2. ASSUME Count PROVE IInv'
    BY <1>2 DEF Count
  <1>3. ASSUME Start PROVE IInv'
    BY <1>3 DEF Start
  <1>4. ASSUME Handled PROVE IInv'
    <2>1. authed' \in BOOLEAN
      BY <1>4 DEF Handled
    <2>2. serve = "handling" /\ serve' = "reading" /\ UNCHANGED <<loopVars, wireVars, connVars, mainVars>>
      BY <1>4 DEF Handled
    <2> QED
      BY <2>1, <2>2
  <1>5. ASSUME ReadFails PROVE IInv'
    BY <1>5 DEF ReadFails
  <1>6. ASSUME Disconnect PROVE IInv'
    <2>1. FlushInv' /\ code' \in Codes /\ owed' \in 0 .. SendBuffer + 1
      BY <1>6, CloseKeeps DEF Disconnect
    <2> QED
      BY <1>6, <2>1 DEF Disconnect
  <1>7. ASSUME Unregister PROVE IInv'
    BY <1>7 DEF Unregister
  <1>8. ASSUME Return PROVE IInv'
    BY <1>8 DEF Return, LoopsDone
  <1>9. ASSUME GiveUp PROVE IInv'
    BY <1>9 DEF GiveUp
  <1> QED
    BY <1>1, <1>2, <1>3, <1>4, <1>5, <1>6, <1>7, <1>8, <1>9 DEF Serve

LEMMA WriterInv ==
  ASSUME IInv, Writer
  PROVE  IInv'
  <1> USE TransportAssumption
      DEF IInv, TypeOK, Codes, Counted, NothingLeft, Beginning, Early, FlushInv, Unwritten, Closing,
          serveVars, loopVars, wireVars, connVars, mainVars
  <1>1. ASSUME TakeMessage PROVE IInv'
    BY <1>1 DEF TakeMessage
  <1>2. ASSUME WriteDone PROVE IInv'
    BY <1>2 DEF WriteDone, Written
  <1>3. ASSUME WriteFails PROVE IInv'
    BY <1>3 DEF WriteFails
  <1>4. ASSUME NoticeClosing PROVE IInv'
    BY <1>4 DEF NoticeClosing, Flushes
  <1>5. ASSUME DrainEnds PROVE IInv'
    BY <1>5 DEF DrainEnds
  <1>6. ASSUME CloseSocket PROVE IInv'
    BY <1>6 DEF CloseSocket
  <1>7. ASSUME WriterCancelled PROVE IInv'
    BY <1>7 DEF WriterCancelled
  <1> QED
    BY <1>1, <1>2, <1>3, <1>4, <1>5, <1>6, <1>7 DEF Writer

LEMMA PingerInv ==
  ASSUME IInv, Pinger
  PROVE  IInv'
  <1> USE TransportAssumption
      DEF IInv, TypeOK, Codes, Counted, NothingLeft, Beginning, Early, FlushInv, Unwritten, Closing,
          serveVars, loopVars, wireVars, connVars, mainVars
  <1>1. ASSUME PingerStops PROVE IInv'
    BY <1>1 DEF PingerStops
  <1>2. ASSUME Ping PROVE IInv'
    BY <1>2 DEF Ping
  <1>3. ASSUME Pong PROVE IInv'
    BY <1>3 DEF Pong
  <1>4. ASSUME PingFails PROVE IInv'
    BY <1>4 DEF PingFails, AfterNoPong
  <1>5. ASSUME Drop PROVE IInv'
    BY <1>5 DEF Drop
  <1> QED
    BY <1>1, <1>2, <1>3, <1>4, <1>5 DEF Pinger

LEMMA TimerInv ==
  ASSUME IInv, Timer
  PROVE  IInv'
  <1> USE TransportAssumption
      DEF IInv, TypeOK, Codes, Counted, NothingLeft, Beginning, Early, FlushInv, Unwritten, Closing,
          serveVars, loopVars, wireVars, connVars, mainVars
  <1>1. ASSUME TimerFires PROVE IInv'
    BY <1>1 DEF TimerFires
  <1>2. ASSUME TimerCloses PROVE IInv'
    <2>1. FlushInv' /\ code' \in Codes /\ owed' \in 0 .. SendBuffer + 1
      BY <1>2, CloseKeeps DEF TimerCloses
    <2> QED
      BY <1>2, <2>1 DEF TimerCloses
  <1> QED
    BY <1>1, <1>2 DEF Timer

LEMMA MainInv ==
  ASSUME IInv, Main
  PROVE  IInv'
  <1> USE TransportAssumption
      DEF IInv, TypeOK, Codes, Counted, NothingLeft, Beginning, Early, FlushInv, Unwritten, Closing,
          serveVars, loopVars, wireVars, connVars, mainVars
  <1>1. ASSUME ListConns PROVE IInv'
    BY <1>1 DEF ListConns, MainGoes, Registered
  <1>2. ASSUME TellConns PROVE IInv'
    <2>1. CASE told
      <3>1. FlushInv' /\ code' \in Codes /\ owed' \in 0 .. SendBuffer + 1
        BY <1>2, <2>1, CloseKeeps DEF TellConns
      <3> QED
        BY <1>2, <3>1 DEF TellConns, MainGoes
    <2>2. CASE ~told
      BY <1>2, <2>2 DEF TellConns, MainGoes
    <2> QED
      BY <2>1, <2>2
  <1>3. ASSUME WaitReturns PROVE IInv'
    BY <1>3 DEF WaitReturns, MainGoes, AllReturned
  <1>4. ASSUME WaitTimesOut PROVE IInv'
    BY <1>4 DEF WaitTimesOut, MainGoes
  <1> QED
    BY <1>1, <1>2, <1>3, <1>4 DEF Main

LEMMA EnvironmentInv ==
  ASSUME IInv, Up, Environment
  PROVE  IInv'
  <1> USE TransportAssumption
      DEF IInv, TypeOK, Codes, Counted, NothingLeft, Beginning, Early, FlushInv, Unwritten, Closing,
          serveVars, loopVars, wireVars, connVars, mainVars
  <1>1. ASSUME Request PROVE IInv'
    BY <1>1 DEF Request
  <1>2. ASSUME Receive PROVE IInv'
    BY <1>2 DEF Receive
  <1>3. ASSUME HubCloses PROVE IInv'
    <2>1. FlushInv' /\ code' \in Codes /\ owed' \in 0 .. SendBuffer + 1
      BY <1>3, CloseKeeps DEF HubCloses
    <2> QED
      BY <1>3, <2>1 DEF HubCloses
  <1>4. ASSUME PeerFails PROVE IInv'
    BY <1>4 DEF PeerFails
  <1>5. ASSUME Signal PROVE IInv'
    BY <1>5 DEF Signal, MainGoes
  <1>6. ASSUME ListenFails PROVE IInv'
    BY <1>6 DEF ListenFails, MainGoes
  <1> QED
    BY <1>1, <1>2, <1>3, <1>4, <1>5, <1>6 DEF Environment

LEMMA SenderInv ==
  ASSUME IInv, NEW s \in Senders, SendCheck(s) \/ SendQueue(s)
  PROVE  IInv'
  <1> USE TransportAssumption
      DEF IInv, TypeOK, Codes, Counted, NothingLeft, Beginning, Early, FlushInv, Unwritten, Closing,
          serveVars, loopVars, wireVars, connVars, mainVars
  <1>1. ASSUME SendCheck(s) PROVE IInv'
    BY <1>1 DEF SendCheck
  <1>2. ASSUME SendQueue(s) PROVE IInv'
    <2>1. sender' \in [Senders -> {"idle", "sending"}]
      BY <1>2 DEF SendQueue, IInv, TypeOK
    <2>2. CASE HasRoom
      BY <1>2, <2>1, <2>2 DEF SendQueue, HasRoom
    <2>3. CASE ~HasRoom
      <3>1. FlushInv' /\ code' \in Codes /\ owed' \in 0 .. SendBuffer + 1
        BY <1>2, <2>3, CloseKeeps DEF SendQueue
      <3> QED
        BY <1>2, <2>1, <2>3, <3>1 DEF SendQueue
    <2> QED
      BY <2>2, <2>3
  <1> QED
    BY <1>1, <1>2

LEMMA NextInv == IInv /\ [Next]_vars => IInv'
  <1> SUFFICES ASSUME IInv, [Next]_vars PROVE IInv'
    OBVIOUS
  <1>1. ASSUME UNCHANGED vars PROVE IInv'
    BY <1>1
       DEF IInv, TypeOK, NothingLeft, Beginning, Early, FlushInv, Unwritten, Closing,
           vars, serveVars, loopVars, wireVars, connVars, mainVars
  <1> QED
    BY <1>1, ServeInv, WriterInv, PingerInv, TimerInv, MainInv, EnvironmentInv, SenderInv
       DEF Next

THEOREM Invariant == Spec => []IInv
  BY InitInv, NextInv, PTL DEF Spec

-----------------------------------------------------------------------------
(***************************************************************************)
(* The goroutines of a socket stay in the states the code has, and the     *)
(* buffer within its bound.                                                *)
(***************************************************************************)
THEOREM TypeCorrect == Spec => []TypeOK
  <1>1. IInv => TypeOK
    BY DEF IInv
  <1> QED
    BY <1>1, Invariant, PTL

(***************************************************************************)
(* What was queued before a close is written before the close frame,       *)
(* however many goroutines send and close.                                 *)
(***************************************************************************)
THEOREM FlushedBeforeClose == Spec => []Flushed
  <1>1. IInv => Flushed
    BY DEF IInv, FlushInv, Flushed
  <1> QED
    BY <1>1, Invariant, PTL

(***************************************************************************)
(* A handler that returns, and a server that stops in time, leave no       *)
(* goroutine, no open socket and no armed timer.                           *)
(***************************************************************************)
THEOREM NothingIsLeft == Spec => []NothingLeft
  <1>1. IInv => NothingLeft
    BY DEF IInv
  <1> QED
    BY <1>1, Invariant, PTL
=============================================================================

--------------------------- MODULE TcpAsyncClient ---------------------------
(***************************************************************************)
(* TcpAsyncClient.cpp: an application thread that connects, starts, writes *)
(* and stops, the service thread that runs the handlers of the io_context, *)
(* and the system below: the peer, the socket and the timers.              *)
(*                                                                         *)
(* A handler is one step, but for the loop that delivers the messages of a *)
(* read, where every callback is one.  Operations of the socket and timers *)
(* are "pending" until the system has completed them; then their handlers  *)
(* wait for the service thread.  A message is sent in two halves, of which *)
(* the second has the delimiter.  The bytes that are written are left out. *)
(***************************************************************************)
EXTENDS Naturals, Sequences, SequencesExt

CONSTANTS
  MaxMessages,  \* bound: messages the peer sends
  MaxConnects,  \* bound: calls of Connect and Connect2
  MaxStarts     \* bound: calls of Start

ASSUME BoundsAssumption == {MaxMessages, MaxConnects, MaxStarts} \subseteq Nat

Messages == 1 .. MaxMessages
Broken  == 0                   \* what is delivered of an incomplete message
Garbled == MaxMessages + 1     \* a message that ends in bytes behind the buffer

VARIABLES
  IsEndPointOk, isStarted, isConnected, stopFlag, hbStopFlag, isDone,
  socket,      \* "closed", "open" or "connected"
  stopped,     \* the io_context is stopped, for good
  service,     \* the service thread: where it is, "none", or "crashed": an exception
               \* has left it, and the program has ended
  app,         \* where the application thread is in its call
  disconnects, \* whether Stop is called by DisConnect
  connectOp, readOp,             \* async_connect, async_read_until
  connTimer, hbTimer, waitTimer,
  lateTimeout, \* the handler of an expired connTimer is waiting
  request, beat,                 \* the posted write of a request, of a heartbeat
  sent,        \* messages the peer has sent on this connection
  net,         \* what of them has not been received yet
  recvBuf,
  consumed,    \* whether this run of the read handler has consumed a message
  delivered,   \* what cbReceived got
  connects, starts,
  abandoned    \* history: an attempt to connect was left without a socket

flagVars   == <<IsEndPointOk, isStarted, isConnected, stopFlag, hbStopFlag, isDone>>
socketVars == <<socket, connectOp, readOp>>
timerVars  == <<connTimer, hbTimer, waitTimer, lateTimeout>>
writeVars  == <<request, beat>>
dataVars   == <<sent, net, recvBuf, consumed, delivered>>
appVars    == <<app, disconnects, connects, starts>>
avars == <<flagVars, socketVars, timerVars, writeVars, dataVars, appVars, stopped, service,
           abandoned>>

AInit ==
  /\ IsEndPointOk = FALSE /\ isStarted = FALSE /\ isConnected = FALSE
  /\ stopFlag = FALSE /\ hbStopFlag = FALSE
  /\ isDone \in BOOLEAN                    \* not initialised
  /\ socket = "closed" /\ connectOp = "none" /\ readOp = "none"
  /\ connTimer = "none" /\ hbTimer = "none" /\ waitTimer = "none" /\ lateTimeout = FALSE
  /\ request = "none" /\ beat = "none"
  /\ sent = 0 /\ net = << >> /\ recvBuf = << >> /\ consumed = FALSE /\ delivered = << >>
  /\ stopped = FALSE /\ service = "none"
  /\ app = "idle" /\ disconnects = FALSE /\ connects = 0 /\ starts = 0
  /\ abandoned = FALSE

\* An operation that is cancelled fails, if it is not completed already.
Aborted(op) == IF op = "pending" THEN "failed" ELSE op

\* The cancellation that is part of close and of cancel; of writes only the report
\* tells.
CancelSocket == connectOp' = Aborted(connectOp) /\ readOp' = Aborted(readOp)

\* socket_.cancel() of a handler throws if the socket is closed.  Nothing catches the
\* exception between the handler and the end of the thread.
ThrowIfClosed == service' = IF socket = "closed" THEN "crashed" ELSE service
-----------------------------------------------------------------------------
(* The system.                                                             *)

Half(m, last) == [message |-> m, last |-> last]

\* The peer sends the next message.
PeerSends ==
  /\ socket = "connected" /\ sent < MaxMessages
  /\ sent' = sent + 1
  /\ net' = net \o <<Half(sent + 1, FALSE), Half(sent + 1, TRUE)>>
  /\ UNCHANGED <<flagVars, socketVars, timerVars, writeVars, recvBuf, consumed, delivered,
                 appVars, stopped, abandoned, service>>

ConnectEnds ==
  /\ connectOp = "pending"
  /\ \/ socket = "open" /\ socket' = "connected" /\ connectOp' = "done"
     \/ connectOp' = "failed" /\ UNCHANGED socket
  /\ UNCHANGED <<flagVars, readOp, timerVars, writeVars, dataVars, appVars, stopped,
                 abandoned, service>>

\* The next bytes arrive, however many.  The read is complete once there is a
\* delimiter among them.
Receive ==
  /\ readOp = "pending" /\ socket = "connected"
  /\ \E n \in 1 .. Len(net) :
       /\ recvBuf' = recvBuf \o SubSeq(net, 1, n)
       /\ net' = SubSeq(net, n + 1, Len(net))
  /\ readOp' = IF \E h \in ToSet(recvBuf') : h.last THEN "done" ELSE "pending"
  /\ UNCHANGED <<flagVars, socket, connectOp, timerVars, writeVars, sent, consumed, delivered,
                 appVars, stopped, abandoned, service>>

\* The peer closes or resets the connection, or there is none yet.
ReadFails ==
  /\ readOp = "pending"
  /\ readOp' = "failed"
  /\ UNCHANGED <<flagVars, socket, connectOp, timerVars, writeVars, dataVars, appVars,
                 stopped, abandoned, service>>

-----------------------------------------------------------------------------
(* The service thread in run().                                            *)

InRun == service = "run" /\ ~stopped

\* Timers expire when run() looks at them; the handler comes later.
ConnTimerExpires ==
  /\ InRun /\ connTimer = "armed"
  /\ connTimer' = "none" /\ lateTimeout' = TRUE
  /\ UNCHANGED <<flagVars, socketVars, hbTimer, waitTimer, writeVars, dataVars, appVars,
                 stopped, abandoned, service>>

\* Mutation: the handler of the timer does not cancel the attempt.
TimeoutIgnored ==
  /\ InRun /\ lateTimeout
  /\ lateTimeout' = FALSE
  /\ UNCHANGED <<flagVars, socketVars, connTimer, hbTimer, waitTimer, writeVars, dataVars,
                 appVars, stopped, abandoned, service>>

\* Too late, if the connection has been made; otherwise whatever is pending on the
\* socket is cancelled, even an attempt that was begun since.
ConnectTimeout ==
  /\ InRun /\ lateTimeout
  /\ lateTimeout' = FALSE
  /\ IF isConnected
       THEN UNCHANGED <<connectOp, readOp, service>>
       ELSE CancelSocket /\ ThrowIfClosed
  /\ UNCHANGED <<flagVars, socket, connTimer, hbTimer, waitTimer, writeVars, dataVars,
                 appVars, stopped, abandoned>>

Connected ==
  /\ InRun /\ connectOp = "done"
  /\ connectOp' = "none" /\ connTimer' = "none"
  /\ isConnected' = TRUE
  /\ UNCHANGED <<IsEndPointOk, isStarted, stopFlag, hbStopFlag, isDone, socket, readOp,
                 hbTimer, waitTimer, lateTimeout, writeVars, dataVars, appVars, stopped,
                 abandoned, service>>

ConnectFailed ==
  /\ InRun /\ connectOp = "failed"
  /\ connectOp' = "none" /\ connTimer' = "none"
  /\ readOp' = Aborted(readOp)
  /\ ThrowIfClosed
  /\ UNCHANGED <<flagVars, socket, hbTimer, waitTimer, lateTimeout, writeVars, dataVars,
                 appVars, stopped, abandoned>>

\* Mutation: a closed socket is read, too.
ReadClosed ==
  readOp' = IF stopFlag THEN "none" ELSE "pending"

\* do_read, on either thread.
do_read ==
  readOp' = IF socket = "closed" \/ stopFlag THEN "none" ELSE "pending"

\* The read handler: an error ends the loop ...
ReadError ==
  /\ InRun /\ readOp = "failed"
  /\ readOp' = "none" /\ isDone' = TRUE
  /\ connectOp' = Aborted(connectOp)
  /\ ThrowIfClosed
  /\ UNCHANGED <<IsEndPointOk, isStarted, isConnected, stopFlag, hbStopFlag, socket,
                 timerVars, writeVars, dataVars, appVars, stopped, abandoned>>

\* ... and data are delivered message by message.
ReadDone ==
  /\ InRun /\ readOp = "done"
  /\ readOp' = "none" /\ service' = "deliver" /\ consumed' = FALSE
  /\ UNCHANGED <<flagVars, socket, connectOp, timerVars, writeVars, sent, net, recvBuf,
                 delivered, appVars, stopped, abandoned>>

Delimiters == {i \in DOMAIN recvBuf : recvBuf[i].last}

\* The position of the first delimiter.
pos == CHOOSE i \in Delimiters : \A j \in Delimiters : i <= j

\* Mutation: what follows the message is consumed with it.
DeliverAndClear ==
  /\ service = "deliver" /\ Delimiters # {}
  /\ delivered' = Append(delivered, IF pos = 2 THEN recvBuf[1].message ELSE Broken)
  /\ recvBuf' = << >>
  /\ consumed' = TRUE
  /\ UNCHANGED <<flagVars, socketVars, timerVars, writeVars, sent, net, appVars, stopped,
                 abandoned, service>>

\* A message is delivered, complete or not, and consumed with its delimiter.
DeliverMessage ==
  /\ service = "deliver" /\ Delimiters # {}
  /\ delivered' = Append(delivered, IF pos = 2 THEN recvBuf[1].message ELSE Broken)
  /\ recvBuf' = SubSeq(recvBuf, pos + 1, Len(recvBuf))
  /\ consumed' = TRUE
  /\ UNCHANGED <<flagVars, socketVars, timerVars, writeVars, sent, net, appVars, stopped,
                 abandoned, service>>

\* dataSize is what the buffer held before anything was consumed, so that the search
\* goes on behind the end of what it holds now.  A delimiter it finds there makes a
\* message of the rest and of old bytes.
Overread ==
  /\ service = "deliver" /\ Delimiters = {} /\ recvBuf # << >> /\ consumed
  /\ delivered' = Append(delivered, Garbled)
  /\ recvBuf' = << >>
  /\ UNCHANGED <<flagVars, socketVars, timerVars, writeVars, sent, net, consumed, appVars,
                 stopped, abandoned, service>>

\* Mutation: the next read is not begun.
ReadOnce ==
  /\ service = "deliver" /\ Delimiters = {}
  /\ service' = "run"
  /\ UNCHANGED <<flagVars, socketVars, timerVars, writeVars, dataVars, appVars, stopped,
                 abandoned>>

\* Nothing more to deliver: read again, unless asked to stop.
ReadAgain ==
  /\ service = "deliver" /\ Delimiters = {}
  /\ service' = "run"
  /\ do_read
  /\ UNCHANGED <<flagVars, socket, connectOp, timerVars, writeVars, dataVars, appVars,
                 stopped, abandoned>>

\* The heartbeat timer expires: a beat is posted and the next one scheduled.  (The
\* flags are read several times, but once they are set nothing comes of either.)
HeartBeat ==
  /\ InRun /\ hbTimer = "armed"
  /\ IF hbStopFlag \/ stopFlag
       THEN hbTimer' = "none" /\ UNCHANGED beat
       ELSE beat' = "posted" /\ UNCHANGED hbTimer
  /\ UNCHANGED <<flagVars, socketVars, connTimer, waitTimer, lateTimeout, request, dataVars,
                 appVars, stopped, abandoned, service>>

\* The posted functions call async_write; its handlers only report, so that nothing
\* depends on when a write ends.
Write ==
  /\ InRun
  /\ \/ request = "posted" /\ request' = "none" /\ UNCHANGED beat
     \/ beat = "posted" /\ beat' = "none" /\ UNCHANGED request
  /\ UNCHANGED <<flagVars, socketVars, timerVars, dataVars, appVars, stopped, abandoned,
                 service>>

\* The timer of WaitSeconds unblocks its caller.
WaitOver ==
  /\ InRun /\ waitTimer = "armed"
  /\ waitTimer' = "none" /\ app' = "idle"
  /\ UNCHANGED <<flagVars, socketVars, connTimer, hbTimer, lateTimeout, writeVars, dataVars,
                 disconnects, connects, starts, stopped, abandoned, service>>

\* run() returns once the io_context is stopped; it returns at once if it was.
ReturnFromRun ==
  /\ service = "run" /\ stopped
  /\ service' = "ended"
  /\ UNCHANGED <<flagVars, socketVars, timerVars, writeVars, dataVars, appVars, stopped,
                 abandoned>>
-----------------------------------------------------------------------------
(* The application thread.  Calls that are refused change nothing.         *)

Set ==
  /\ app = "idle"
  /\ IsEndPointOk' = TRUE
  /\ UNCHANGED <<isStarted, isConnected, stopFlag, hbStopFlag, isDone, socketVars, timerVars,
                 writeVars, dataVars, appVars, stopped, abandoned, service>>

\* The time limit is seconds: it does not run out before async_connect is called.
\* A socket that is connected is not connected again; one the system refuses to open
\* stays closed.
Connect ==
  /\ app = "idle" /\ IsEndPointOk /\ connectOp = "none" /\ connects < MaxConnects
  /\ connTimer' = "armed"
  /\ \/ socket # "connected" /\ socket' = "open" /\ connectOp' = "pending"
     \/ socket # "open" /\ connectOp' = "failed" /\ UNCHANGED socket
  /\ abandoned' = (abandoned \/ socket' = "closed")
  /\ connects' = connects + 1
  /\ UNCHANGED <<flagVars, readOp, hbTimer, waitTimer, lateTimeout, writeVars, dataVars,
                 app, disconnects, starts, stopped, service>>

\* The synchronous connect opens the socket and fails or succeeds; isConnected is not
\* touched.
Connect2 ==
  /\ app = "idle" /\ connectOp = "none" /\ connects < MaxConnects
  /\ socket' \in IF socket = "connected" THEN {"connected"} ELSE {socket, "open", "connected"}
  /\ connects' = connects + 1
  /\ UNCHANGED <<flagVars, connectOp, readOp, timerVars, writeVars, dataVars, app,
                 disconnects, starts, stopped, abandoned, service>>

\* A thread the system refuses is an exception.
Start ==
  /\ app = "idle" /\ ~isStarted /\ starts < MaxStarts
  /\ stopFlag' = FALSE /\ isDone' = FALSE
  /\ starts' = starts + 1
  /\ \/ service' = "run" /\ isStarted' = TRUE /\ app' = "do_read"
     \/ UNCHANGED <<service, isStarted, app>>
  /\ UNCHANGED <<IsEndPointOk, isConnected, hbStopFlag, socketVars, timerVars, writeVars,
                 dataVars, disconnects, connects, stopped, abandoned>>

\* The first read is begun by the thread that starts the client ...
StartReading ==
  /\ app = "do_read"
  /\ do_read
  /\ app' = "HeartBeat"
  /\ UNCHANGED <<flagVars, socket, connectOp, timerVars, writeVars, dataVars, disconnects,
                 connects, starts, stopped, abandoned, service>>

\* ... and so is the first beat.
StartBeating ==
  /\ app = "HeartBeat"
  /\ hbTimer' = IF stopFlag THEN hbTimer ELSE "armed"
  /\ app' = "idle"
  /\ UNCHANGED <<flagVars, socketVars, connTimer, waitTimer, lateTimeout, writeVars, dataVars,
                 disconnects, connects, starts, stopped, abandoned, service>>

AsyncWrite ==
  /\ app = "idle" /\ request = "none"
  /\ ~stopFlag /\ socket # "closed" /\ isStarted
  /\ request' = "posted"
  /\ UNCHANGED <<flagVars, socketVars, timerVars, beat, dataVars, appVars, stopped,
                 abandoned, service>>

WaitSeconds ==
  /\ app = "idle"
  /\ app' = "wait" /\ waitTimer' = "armed"
  /\ UNCHANGED <<flagVars, socketVars, connTimer, hbTimer, lateTimeout, writeVars, dataVars,
                 disconnects, connects, starts, stopped, abandoned, service>>

\* Stop, and DisConnect, which calls it first: the flags, one after the other ...
Stop ==
  /\ app = "idle"
  /\ \E forDisConnect \in BOOLEAN :
       /\ isStarted \/ forDisConnect
       /\ disconnects' = forDisConnect
  /\ IF isStarted
       THEN stopFlag' = TRUE /\ app' = "hbStop"
       ELSE app' = "close" /\ UNCHANGED stopFlag
  /\ UNCHANGED <<IsEndPointOk, isStarted, isConnected, hbStopFlag, isDone, socketVars,
                 timerVars, writeVars, dataVars, connects, starts, stopped, abandoned,
                 service>>

StopHeartBeat ==
  /\ app = "hbStop"
  /\ hbStopFlag' = TRUE
  /\ app' = "stop"
  /\ UNCHANGED <<IsEndPointOk, isStarted, isConnected, stopFlag, isDone, socketVars,
                 timerVars, writeVars, dataVars, disconnects, connects, starts, stopped,
                 abandoned, service>>

\* Mutation: the io_context is left running.
CancelTimersOnly ==
  /\ app = "stop"
  /\ connTimer' = "none" /\ hbTimer' = "none"
  /\ app' = "join"
  /\ UNCHANGED <<flagVars, socketVars, waitTimer, lateTimeout, writeVars, dataVars,
                 disconnects, connects, starts, stopped, abandoned, service>>

\* ... the timers and the io_context (what the shutdown of the socket does then is
\* seen by no handler) ...
StopContext ==
  /\ app = "stop"
  /\ connTimer' = "none" /\ hbTimer' = "none"
  /\ stopped' = TRUE
  /\ app' = "join"
  /\ UNCHANGED <<flagVars, socketVars, waitTimer, lateTimeout, writeVars, dataVars,
                 disconnects, connects, starts, service, abandoned>>

\* ... and the service thread.
JoinService ==
  /\ app = "join" /\ service = "ended"
  /\ service' = "none" /\ isStarted' = FALSE
  /\ app' = IF disconnects THEN "close" ELSE "idle"
  /\ UNCHANGED <<IsEndPointOk, isConnected, stopFlag, hbStopFlag, isDone, socketVars,
                 timerVars, writeVars, dataVars, disconnects, connects, starts, stopped,
                 abandoned>>

\* An attempt to connect that the service thread has not dealt with loses its socket.
CloseSocket ==
  /\ app = "close"
  /\ abandoned' = (abandoned \/ connectOp # "none")
  /\ socket' = "closed" /\ CancelSocket
  /\ sent' = 0 /\ net' = << >>
  /\ isConnected' = FALSE
  /\ app' = "idle"
  /\ UNCHANGED <<IsEndPointOk, isStarted, stopFlag, hbStopFlag, isDone, timerVars,
                 writeVars, recvBuf, consumed, delivered, disconnects, connects, starts,
                 stopped, service>>
-----------------------------------------------------------------------------
Handlers ==
  \/ ConnTimerExpires \/ ConnectTimeout \/ Connected \/ ConnectFailed
  \/ ReadError \/ ReadDone \/ HeartBeat \/ Write \/ WaitOver

Deliver == DeliverMessage \/ Overread \/ ReadAgain

AppStep ==
  \/ StartReading \/ StartBeating
  \/ StopHeartBeat \/ StopContext \/ JoinService \/ CloseSocket

\* The program has not ended.
Alive == service # "crashed"

ANext ==
  /\ Alive
  /\ \/ PeerSends \/ ConnectEnds \/ Receive \/ ReadFails
     \/ Handlers \/ Deliver \/ ReturnFromRun
     \/ Set \/ Connect \/ Connect2 \/ Start \/ AsyncWrite \/ WaitSeconds \/ Stop \/ AppStep

\* Timers expire and every handler has its turn, as run() takes them in the order in
\* which they became ready (weak fairness is enough: the messages, which keep them
\* waiting, are bounded); callbacks return; what has been sent arrives.  Neither the
\* peer nor the system has to complete a connect or a write, and nobody has to call.
\* (Actions share a WF where only one of them can be enabled at a time.)
AFairness ==
  /\ WF_avars(Deliver \/ ReturnFromRun)
  /\ WF_avars(Alive /\ AppStep) /\ WF_avars(Alive /\ Receive)
  /\ WF_avars(ConnTimerExpires) /\ WF_avars(ConnectTimeout)
  /\ WF_avars(Connected \/ ConnectFailed) /\ WF_avars(ReadError \/ ReadDone)
  /\ WF_avars(WaitOver)

ASpec == AInit /\ [][ANext]_avars /\ AFairness
-----------------------------------------------------------------------------
(* Properties.                                                             *)

Ops == {"none", "pending", "done", "failed"}

\* The states of operations and threads.  The client is started exactly if it has a
\* service thread, so that none is assigned over another, and the time limit runs
\* only while an attempt has not been dealt with
\* (TcpAsyncClient.cpp:151-163, 202-229, 360-378, 405-407).
ATypeOK ==
  /\ {IsEndPointOk, isStarted, isConnected, stopFlag, hbStopFlag, isDone,
      lateTimeout, consumed, disconnects, stopped, abandoned} \subseteq BOOLEAN
  /\ socket \in {"closed", "open", "connected"} /\ {connectOp, readOp} \subseteq Ops
  /\ {connTimer, hbTimer, waitTimer} \subseteq {"none", "armed"}
  /\ {request, beat} \subseteq {"none", "posted"}
  /\ sent \in 0 .. MaxMessages
  /\ \A h \in ToSet(net) \cup ToSet(recvBuf) : h \in [message : Messages, last : BOOLEAN]
  /\ Len(net) <= 2 * sent
  /\ ToSet(delivered) \subseteq Messages \cup {Broken, Garbled}
  /\ service \in {"none", "run", "deliver", "ended", "crashed"}
  /\ isStarted = (service # "none")
  /\ connTimer = "armed" => connectOp # "none"
  /\ app \in {"idle", "do_read", "HeartBeat", "wait", "hbStop", "stop", "join", "close"}
  /\ connects \in 0 .. MaxConnects /\ starts \in 0 .. MaxStarts

\* Messages are delivered as they were sent, none left out and none twice, in
\* whatever pieces they arrive, as long as the search has never run past the end of
\* the buffer (TcpAsyncClient.cpp:73-88).
DeliveredInOrder ==
  Garbled \notin ToSet(delivered) => \A i \in DOMAIN delivered : delivered[i] = i

\* Every message is delivered while the read loop lives: unless the client is asked
\* to stop or the read fails, and the search does not run past the buffer
\* (TcpAsyncClient.cpp:56-98).
MessagesDelivered ==
  \A m \in Messages :
    (m <= sent /\ readOp # "none" /\ socket = "connected" /\ InRun)
      ~> (ToSet(delivered) \cap {m, Garbled} # {} \/ isDone \/ stopFlag)

\* An attempt to connect comes to an end, by the time limit if by nothing else;
\* unless the client already believes to be connected
\* (TcpAsyncClient.cpp:202-229).
ConnectResolves ==
  (connectOp = "pending" /\ InRun) ~> (connectOp # "pending" \/ isConnected \/ stopFlag)

\* Stop and DisConnect come back, whatever handler the service thread is in, and
\* so does WaitSeconds, if there is a service thread to run its timer; unless a
\* handler ends the program (TcpAsyncClient.cpp:170-191, 246-256, 379-409).
CallsReturn ==
  app # "idle" ~>
    \/ app = "idle"
    \/ app = "wait" /\ (service \in {"none", "ended"} \/ stopped)
    \/ ~Alive

\* No exception leaves the service thread, whatever was stopped, closed and started
\* in between; but for an attempt to connect that has lost its socket, as when a
\* client that is not started is disconnected and then started: neither an error of
\* a read nor a time limit that comes late, nor anything in a client that is started
\* first and gets its sockets (TcpAsyncClient.cpp:37-41, 68, 210, 222, 246-250, 371).
OnlyLostAttemptsThrow == ~Alive => abandoned
=============================================================================

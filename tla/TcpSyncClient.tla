--------------------------- MODULE TcpSyncClient ---------------------------
(***************************************************************************)
(* TcpSyncClient.cpp: threads that send a request and wait for the answer, *)
(* one at a time because Send holds mtx_, and a manager, the thread that   *)
(* calls Set, Connect and DisConnect, which do not.  What all of them      *)
(* share is the socket, the timer and pimpl->ec: each access to ec is a    *)
(* step, and so is each call of the system.  The peer may also speak       *)
(* unasked.  As in TcpAsyncClient a message comes in two halves, of which  *)
(* the second has the delimiter.                                           *)
(***************************************************************************)
EXTENDS Naturals, Sequences, SequencesExt

CONSTANTS
  Senders, Manager, Nobody,
  MaxCalls,     \* bound: calls of Send, and of Connect by the manager
  MaxLinks,     \* bound: connections made
  MaxTalk       \* bound: messages the peer sends on a connection

ASSUME SyncBoundsAssumption == {MaxCalls, MaxLinks, MaxTalk} \subseteq Nat
ASSUME SendersAssumption    == Nobody \notin Senders /\ Manager \notin Senders

Users == Senders \cup {Manager}

VARIABLES
  endPointOk,  \* IsEndPointOk
  link,        \* socket_: "closed", "open", or "connected"
  links,       \* connections made so far, and the number of the present one
  peerOpen,    \* the peer has not closed it
  spoken,      \* messages it has sent on it
  wire,        \* the halves of them that have not been received yet
  limit,       \* the timer: "off", "armed" or "expired"
  ec,          \* pimpl->ec
  mtx,         \* who holds mtx_
  userPc,      \* where user u is in its call
  at,          \* the connection that its read_until has begun to read
  buf,         \* recvBuf of the Send that holds mtx_
  response,    \* its strResponse: the messages, each a sequence of halves
  success,     \* back.Success of the call that ended last
  calls,
  heard,       \* history: all that was put into responses on this connection
  disturbed    \* history: a call of the manager overlapped with a Send on it

linkVars == <<link, links, peerOpen, spoken, wire>>
sendVars == <<mtx, at, buf, response, calls>>
histVars == <<heard, disturbed>>
yvars == <<endPointOk, linkVars, limit, ec, userPc, sendVars, success, histVars>>

YInit ==
  /\ endPointOk = FALSE
  /\ link = "closed" /\ links = 0 /\ peerOpen = FALSE /\ spoken = 0 /\ wire = << >>
  /\ limit = "off" /\ ec = "ok"
  /\ mtx = Nobody /\ at = 0 /\ buf = << >> /\ response = << >> /\ calls = 0
  /\ success = TRUE
  /\ userPc = [u \in Users |-> "idle"]
  /\ heard = << >> /\ disturbed = FALSE

Piece(m, end) == [link |-> links, message |-> m, end |-> end]
HasDelimiter(b) == \E i \in DOMAIN b : b[i].end

GoOn(u, pc) == userPc' = [userPc EXCEPT ![u] = pc]

\* The call of user u returns; Send gives mtx_ back.
Return(u, ok) ==
  /\ GoOn(u, "idle")
  /\ success' = ok
  /\ mtx' = IF u = Manager THEN mtx ELSE Nobody
-----------------------------------------------------------------------------
(* The peer, and time.                                                     *)

\* The peer sends a message, asked or not.  MaxTalk is an assumption, not only a
\* bound: the code has no limit, and reads on for as long as the peer talks.
PeerSpeaks ==
  /\ link = "connected" /\ peerOpen /\ spoken < MaxTalk
  /\ spoken' = spoken + 1
  /\ wire' = wire \o <<Piece(spoken + 1, FALSE), Piece(spoken + 1, TRUE)>>
  /\ UNCHANGED <<endPointOk, link, links, peerOpen, limit, ec, userPc, sendVars, success, histVars>>

\* It may close in the middle of a message.
PeerLeaves ==
  /\ link = "connected" /\ peerOpen
  /\ peerOpen' = FALSE
  /\ wire' \in {wire} \cup {Front(wire) : i \in DOMAIN wire}
  /\ UNCHANGED <<endPointOk, link, links, spoken, limit, ec, userPc, sendVars, success, histVars>>

\* Nobody runs the io_context, so that the handler, which would cancel what the
\* socket is doing, is not called.
LimitPasses ==
  /\ limit = "armed"
  /\ limit' = "expired"
  /\ UNCHANGED <<endPointOk, linkVars, ec, userPc, sendVars, success, histVars>>
-----------------------------------------------------------------------------
(* The manager's calls.  It sets the end point before anybody uses it.     *)

SetEndPoint ==
  /\ \A u \in Users : userPc[u] = "idle"
  /\ ~endPointOk
  /\ endPointOk' = TRUE
  /\ UNCHANGED <<linkVars, limit, ec, userPc, sendVars, success, histVars>>

CallConnect ==
  /\ userPc[Manager] = "idle" /\ calls < MaxCalls
  /\ calls' = calls + 1
  /\ GoOn(Manager, "connect")
  /\ disturbed' = (disturbed \/ mtx # Nobody)
  /\ UNCHANGED <<endPointOk, linkVars, limit, ec, mtx, at, buf, response, success, heard>>

\* Closing the socket ends what others do with it.
DisConnect ==
  /\ userPc[Manager] = "idle"
  /\ link' = "closed"
  /\ limit' = "off"
  /\ wire' = << >> /\ peerOpen' = FALSE
  /\ disturbed' = (disturbed \/ mtx # Nobody)
  /\ UNCHANGED <<endPointOk, links, spoken, ec, userPc, sendVars, success, heard>>
-----------------------------------------------------------------------------
(* Connect, as the manager's call or from within Send.                     *)

\* Connect has returned: the manager's call is over, Send goes on or gives up.
Proceed(u, ok) ==
  IF ok /\ u # Manager THEN GoOn(u, "clear") /\ UNCHANGED <<mtx, success>> ELSE Return(u, ok)

ConnectClear(u) ==
  /\ userPc[u] = "connect"
  /\ IF endPointOk
       THEN ec' = "ok" /\ GoOn(u, "test") /\ UNCHANGED <<mtx, success>>
       ELSE UNCHANGED ec /\ Return(u, FALSE)
  /\ UNCHANGED <<endPointOk, linkVars, limit, at, buf, response, calls, histVars>>

\* An open socket is taken for a connection.
ConnectTest(u) ==
  /\ userPc[u] = "test"
  /\ IF link = "closed"
       THEN GoOn(u, "dial") /\ UNCHANGED <<mtx, success>>
       ELSE Proceed(u, TRUE)
  /\ UNCHANGED <<endPointOk, linkVars, limit, ec, at, buf, response, calls, histVars>>

Dial(u) ==
  /\ userPc[u] = "dial"
  /\ link' = IF link = "closed" THEN "open" ELSE link
  /\ limit' = "armed"
  /\ GoOn(u, "dialing")
  /\ UNCHANGED <<endPointOk, links, peerOpen, spoken, wire, ec, sendVars, success, histVars>>

\* The connection is made, or it fails and leaves the socket open, as it is where
\* another call has connected or closed it meanwhile.
DialEnds(u) ==
  /\ userPc[u] = "dialing"
  /\ \/ /\ link = "open" /\ links < MaxLinks
        /\ link' = "connected" /\ links' = links + 1 /\ peerOpen' = TRUE
        /\ spoken' = 0 /\ wire' = << >>
        /\ ec' = "ok"
        /\ heard' = << >>
        /\ disturbed' = (mtx # Nobody /\ userPc[Manager] # "idle")
     \/ ec' = "failed" /\ UNCHANGED <<linkVars, histVars>>
  /\ limit' = "off"
  /\ GoOn(u, "dialed")
  /\ UNCHANGED <<endPointOk, sendVars, success>>

ConnectCheck(u) ==
  /\ userPc[u] = "dialed"
  /\ Proceed(u, ec = "ok")
  /\ UNCHANGED <<endPointOk, linkVars, limit, ec, at, buf, response, calls, histVars>>
-----------------------------------------------------------------------------
(* Send.  An empty request is refused: a stuttering step.                  *)

CallSend(s) ==
  /\ userPc[s] = "idle" /\ calls < MaxCalls
  /\ calls' = calls + 1
  /\ GoOn(s, "lock")
  /\ UNCHANGED <<endPointOk, linkVars, limit, ec, mtx, at, buf, response, success, histVars>>

\* A socket that is open is used as it is, whether connected or not.
SendLock(s) ==
  /\ userPc[s] = "lock" /\ mtx = Nobody
  /\ mtx' = s /\ buf' = << >> /\ response' = << >>
  /\ GoOn(s, IF link = "closed" THEN "connect" ELSE "clear")
  /\ disturbed' = (disturbed \/ userPc[Manager] # "idle")
  /\ UNCHANGED <<endPointOk, linkVars, limit, ec, at, calls, success, heard>>

SendClear(s) ==
  /\ userPc[s] = "clear"
  /\ ec' = "ok"
  /\ limit' = "armed"
  /\ GoOn(s, "write")
  /\ UNCHANGED <<endPointOk, linkVars, sendVars, success, histVars>>

\* The request can be written to a peer that is there, may be written to one that
\* has just left, and cannot be without a connection.
SendWrite(s) ==
  /\ userPc[s] = "write"
  /\ \/ link = "connected" /\ ec' = "ok"
     \/ ~(link = "connected" /\ peerOpen) /\ ec' = "failed"
  /\ limit' = "off"
  /\ GoOn(s, "written")
  /\ UNCHANGED <<endPointOk, linkVars, sendVars, success, histVars>>

SendCheckWrite(s) ==
  /\ userPc[s] = "written"
  /\ IF ec = "ok"
       THEN GoOn(s, "read") /\ limit' = "armed" /\ UNCHANGED <<mtx, success>>
       ELSE Return(s, FALSE) /\ UNCHANGED limit
  /\ at' = links
  /\ UNCHANGED <<endPointOk, linkVars, ec, buf, response, calls, histVars>>

ReadEnds(s, code) == ec' = code /\ GoOn(s, "check") /\ limit' = "off"

\* read_until has a delimiter: at once, or when the bytes that it waits for come,
\* however many.
BytesArrive(s) ==
  /\ userPc[s] = "read"
  /\ ~HasDelimiter(buf)
  /\ link = "connected" /\ wire # << >>
  /\ \E n \in 1 .. Len(wire) :
       /\ buf' = buf \o SubSeq(wire, 1, n)
       /\ wire' = SubSeq(wire, n + 1, Len(wire))
  /\ UNCHANGED <<endPointOk, link, links, peerOpen, spoken, limit, ec, userPc,
                 mtx, at, response, calls, success, histVars>>

ReadComplete(s) ==
  /\ userPc[s] = "read"
  /\ HasDelimiter(buf)
  /\ ReadEnds(s, "ok")
  /\ UNCHANGED <<endPointOk, linkVars, sendVars, success, histVars>>

\* The peer has closed and nothing is left, or the socket was closed meanwhile.
ReadBreaks(s) ==
  /\ userPc[s] = "read"
  /\ ~HasDelimiter(buf)
  /\ \/ link = "connected" /\ ~peerOpen /\ wire = << >> /\ ReadEnds(s, "eof")
     \/ (link # "connected" \/ links # at) /\ ReadEnds(s, "failed")
  /\ UNCHANGED <<endPointOk, linkVars, sendVars, success, histVars>>

\* Mutation: the error is not looked at.
SendCheckNothing(s) ==
  /\ userPc[s] = "check"
  /\ IF buf = << >> THEN Return(s, TRUE) ELSE GoOn(s, "extract") /\ UNCHANGED <<mtx, success>>
  /\ UNCHANGED <<endPointOk, linkVars, limit, ec, at, buf, response, calls, histVars>>


SendCheckRead(s) ==
  /\ userPc[s] = "check"
  /\ IF ec # "ok" THEN Return(s, FALSE)
     ELSE IF buf = << >> THEN Return(s, TRUE)
     ELSE GoOn(s, "extract") /\ UNCHANGED <<mtx, success>>
  /\ UNCHANGED <<endPointOk, linkVars, limit, ec, at, buf, response, calls, histVars>>

\* Where the first message in the buffer ends; nowhere without a delimiter.
FirstEnd == IF HasDelimiter(buf) THEN SelectInSeq(buf, LAMBDA h : h.end) ELSE 0

\* ExtractSingleResponse.
ExtractSingleResponse ==
  /\ buf' = SubSeq(buf, FirstEnd + 1, Len(buf))
  /\ response' = IF FirstEnd = 0 THEN response ELSE Append(response, SubSeq(buf, 1, FirstEnd))
  /\ heard' = heard \o SubSeq(buf, 1, FirstEnd)

\* Mutation: Send is content with one message.
SendExtractOne(s) ==
  /\ userPc[s] = "extract"
  /\ ExtractSingleResponse
  /\ ec' = IF link = "closed" THEN "failed" ELSE "ok"
  /\ Return(s, TRUE)
  /\ UNCHANGED <<endPointOk, linkVars, limit, at, calls, disturbed>>

\* A message is taken out of the buffer.  With more in it, or more to be read, Send
\* reads on, even if that is only a part of another message.
SendExtract(s) ==
  /\ userPc[s] = "extract"
  /\ ExtractSingleResponse
  /\ ec' = IF link = "closed" THEN "failed" ELSE "ok"
  /\ IF buf' # << >> \/ wire # << >>
       THEN GoOn(s, "read") /\ UNCHANGED <<mtx, success>>
       ELSE Return(s, TRUE)
  /\ at' = links
  /\ UNCHANGED <<endPointOk, linkVars, limit, calls, disturbed>>
-----------------------------------------------------------------------------
ConnectStep(u) == ConnectClear(u) \/ ConnectTest(u) \/ Dial(u) \/ DialEnds(u) \/ ConnectCheck(u)
ReadStep(s) == BytesArrive(s) \/ ReadComplete(s) \/ ReadBreaks(s)
SendStep(s) ==
  \/ SendLock(s) \/ SendClear(s) \/ SendWrite(s) \/ SendCheckWrite(s)
  \/ ReadStep(s) \/ SendCheckRead(s) \/ SendExtract(s)
PeerStep == PeerSpeaks \/ PeerLeaves

YNext ==
  \/ SetEndPoint \/ CallConnect \/ DisConnect
  \/ \E u \in Users : ConnectStep(u)
  \/ \E s \in Senders : CallSend(s) \/ SendStep(s)
  \/ PeerStep \/ LimitPasses

YSpec == YInit /\ [][YNext]_yvars

\* Calls go on, and mtx_ is had in the end by whoever waits for it (the calls are
\* bounded, so that it gets free for good, or is kept for good).  No time limit need
\* ever pass, and the peer need neither speak nor close.
ClientFairness ==
  /\ \A s \in Senders : WF_yvars(ConnectStep(s) \/ SendStep(s))
  /\ WF_yvars(ConnectStep(Manager))

YFairSpec == YSpec /\ ClientFairness
-----------------------------------------------------------------------------
(* Properties.                                                             *)

Spoken == [i \in 1 .. 2 * spoken |-> Piece((i + 1) \div 2, i % 2 = 0)]

\* Whatever the peer says, also unasked, in parts or while nobody listens, no Send
\* skips or repeats any of it: what the Sends on a connection have returned, what
\* the present one holds and what waits in the socket is all that was said, in this
\* order; for a connection on which no call of Connect or DisConnect has ever met a
\* Send (TcpSyncClient.cpp:24-52, 219-240).
NothingSkipped ==
  ~disturbed /\ link = "connected" =>
    LET held == IF mtx = Nobody THEN << >> ELSE buf
        all  == heard \o held \o wire
    IN IsPrefix(all, Spoken) /\ (peerOpen => all = Spoken)

Whole(m) == Len(m) = 2 /\ m = <<[m[2] EXCEPT !.end = FALSE], m[2]>>

\* On a connection on which no Send has been disturbed a Send reports success only with
\* an answer, of messages that are whole, and failure only if there is no peer to talk
\* to: pimpl->ec, which all calls share, is that of its own last operation
\* (TcpSyncClient.cpp:199, 221-240).
OutcomeIsTrue ==
  [][(mtx # Nobody /\ mtx' = Nobody /\ ~disturbed) =>
       IF success' THEN response' # << >> /\ \A i \in DOMAIN response' : Whole(response'[i])
       ELSE ~(link = "connected" /\ peerOpen)]_yvars

\* Send s waits for a peer that is there and has nothing to read for it; and it waits
\* for the first message of the answer, unless its connection was replaced under it.
Unanswered(s) ==
  /\ userPc[s] = "read"
  /\ link = "connected" /\ peerOpen /\ wire = << >>
  /\ disturbed \/ (buf = << >> /\ response = << >>)

-----------------------------------------------------------------------------
(* What the source says and its code does not keep.                        *)

\* TcpSyncClient.cpp:133: "Cancel socket operations if timer expires".
LimitEndsRead ==
  \A s \in Senders : (userPc[s] = "read" /\ limit = "expired") ~> userPc[s] # "read"
=============================================================================

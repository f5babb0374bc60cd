------------------------------ MODULE H2Client ------------------------------
(***************************************************************************)
(* One upstream HTTP/2 connection, internal/upstream/h2client.go and       *)
(* h2client_response.go: the callers of RoundTrip that share it, its       *)
(* readLoop goroutine, a caller of Close, and the server at the other end. *)
(*                                                                         *)
(* Granularity.  A section of code under cc.mu is one step; what a         *)
(* goroutine does between two such sections is a step of its own.  A frame *)
(* is sent by the server and read by readLoop in the same step (a frame in *)
(* flight is a frame not yet sent), together with the stream lookup that   *)
(* opens every handler.  An io.Pipe write and the read that takes it are   *)
(* one step, as the pipe is unbuffered.  The id counter is not bounded: at *)
(* 2^31 the framer refuses the id, which is the outcome of SendFails.  A   *)
(* TLS connection on which a write has failed takes no other write.        *)
(* SETTINGS and PING acknowledgements change none of this state.           *)
(***************************************************************************)
EXTENDS Integers, FiniteSets

CONSTANTS Reqs,          \* calls of RoundTrip on this connection
          MaxBody,       \* bound: DATA units in one response
          ConnWindow,    \* units of DATA the server may have outstanding
          StreamWindow,  \* the same for one stream
          PeerMay,       \* what the server and the network may do
          Hinted,        \* requests that may get interim headers (1xx) first
          EarlyClose,    \* callers that may close the body before its end
          Cancellable    \* callers whose context may be cancelled

Peculiarities ==
    {"trailers", "padding", "reset", "goaway", "drop", "writeError"}

ASSUME ConstantsAssumption ==
    /\ MaxBody \in Nat /\ ConnWindow \in Nat /\ StreamWindow \in Nat
    /\ PeerMay \subseteq Peculiarities
    /\ Hinted \subseteq Reqs /\ EarlyClose \subseteq Reqs /\ Cancellable \subseteq Reqs

VARIABLES
    closed,    \* cc.closed
    nextID,    \* cc.nextID
    streams,   \* the requests whose stream is in the map cc.streams
    net,       \* the socket can still be read
    writable,  \* and written: no write to it has failed
    closeAt,   \* progress of Close(): "idle", "failing", "done"
    toFail,    \* the streams Close() or failAll() took out and will fail
    pc,        \* where each caller is in RoundTrip and in reading the body
    sid,       \* its stream id; 0 before writeRequest assigns one
    status,    \* the response RoundTrip returned: "none", "interim", "final"
    got,       \* units of body read
    end,       \* how it ended: "none", "noresp", "eof", "err", "aborted"
    headers,   \* the channel st.headers (capacity 1)
    errs,      \* the channel st.errs (capacity 1) holds an error
    bodyW,     \* write half of the pipe: "open", "eof", "err"
    bodyR,     \* read half: "open", "closed"
    rlAt,      \* where readLoop is
    cur,       \* the stream the handler looked up
    frame,     \* the frame in hand: the request it answers, kind, END_STREAM
    srv,       \* how far the server is with each request
    size,      \* units of body in its response, chosen when the request arrives
    sent,      \* units of body it has sent
    pad,       \* units of padding it has sent with them
    connWin, strWin,  \* flow-control windows as the server sees them
    unread     \* units charged to the connection window that no caller has read

conn   == <<closed, nextID, streams, net, writable, closeAt, toFail>>
caller == <<pc, sid, status, got, end>>
pipe   == <<headers, errs, bodyW, bodyR>>
loop   == <<rlAt, cur, frame>>
server == <<srv, size, sent, pad, connWin, strWin, unread>>
vars   == <<conn, caller, pipe, loop, server>>

Failers  == {"Close", "readLoop"}
Blocks   == {"interim", "final", "trailers"}          \* of headers
Chunks   == {"data", "padded", "padding", "empty"}    \* DATA
Kinds    == Blocks \cup Chunks
Frames   == [for : Reqs, kind : Kinds, fin : BOOLEAN]
LoopAt   == {"read", "headers", "write", "credit", "end",
             "goaway", "failall", "stopped"}
Handling == {"headers", "write", "credit", "end"}

(* The type of every variable.  readLoop holds a stream and a frame only   *)
(* while it is handling one, and never grants the server more than the     *)
(* windows it announced.                                                   *)
TypeOK ==
    /\ closed \in BOOLEAN /\ net \in BOOLEAN /\ writable \in BOOLEAN
    /\ nextID \in Nat
    /\ streams \subseteq Reqs
    /\ closeAt \in {"idle", "failing", "done"}
    /\ toFail \in [Failers -> SUBSET Reqs]
    /\ pc \in [Reqs -> {"start", "wait", "reading", "leaving", "done"}]
    /\ sid \in [Reqs -> Nat]
    /\ status \in [Reqs -> {"none", "interim", "final"}]
    /\ got \in [Reqs -> Nat]
    /\ end \in [Reqs -> {"none", "noresp", "eof", "err", "aborted"}]
    /\ headers \in [Reqs -> {"none", "interim", "final"}]
    /\ errs \in [Reqs -> BOOLEAN]
    /\ bodyW \in [Reqs -> {"open", "eof", "err"}]
    /\ bodyR \in [Reqs -> {"open", "closed"}]
    /\ rlAt \in LoopAt
    /\ IF rlAt \in Handling THEN cur \in Reqs /\ frame \in Frames
                            ELSE cur = "none" /\ frame = "none"
    /\ srv \in [Reqs -> {"idle", "open", "hinted", "headers", "ended", "trailed", "reset"}]
    /\ size \in [Reqs -> Nat] /\ sent \in [Reqs -> Nat] /\ pad \in [Reqs -> Nat]
    /\ unread \in Int
    /\ connWin \in 0..ConnWindow
    /\ strWin \in [Reqs -> 0..StreamWindow]

Init ==
    /\ closed = FALSE /\ nextID = 1 /\ streams = {}
    /\ net = TRUE /\ writable = TRUE
    /\ closeAt = "idle" /\ toFail = [f \in Failers |-> {}]
    /\ pc = [r \in Reqs |-> "start"]
    /\ sid = [r \in Reqs |-> 0]
    /\ status = [r \in Reqs |-> "none"]
    /\ got = [r \in Reqs |-> 0]
    /\ end = [r \in Reqs |-> "none"]
    /\ headers = [r \in Reqs |-> "none"]
    /\ errs = [r \in Reqs |-> FALSE]
    /\ bodyW = [r \in Reqs |-> "open"]
    /\ bodyR = [r \in Reqs |-> "open"]
    /\ rlAt = "read" /\ cur = "none" /\ frame = "none"
    /\ srv = [r \in Reqs |-> "idle"]
    /\ size = [r \in Reqs |-> 0] /\ sent = [r \in Reqs |-> 0]
    /\ pad = [r \in Reqs |-> 0] /\ unread = 0
    /\ connWin = ConnWindow
    /\ strWin = [r \in Reqs |-> StreamWindow]

-----------------------------------------------------------------------------
(* The map cc.streams, keyed by stream id, and the pipe of a stream.       *)

\* cc.streams[id]: the requests found under an id (at most one: ids are not reused).
StreamAt(id) == {s \in streams : sid[s] = id}

\* The first close of a pipe's write half decides what its reader sees.
CloseW(S, how) ==
    bodyW' = [s \in Reqs |-> IF s \in S /\ bodyW[s] = "open" THEN how ELSE bodyW[s]]

\* st.fail: a non-blocking send on errs, then CloseWithError.
MutFailCleanly(S) == errs' = [s \in Reqs |-> errs[s] \/ s \in S] /\ CloseW(S, "eof")
MutFailSilently(S) == errs' = errs /\ CloseW(S, "err")
Fail(S) ==
    /\ errs' = [s \in Reqs |-> errs[s] \/ s \in S]
    /\ CloseW(S, "err")

\* removeStream: out of the map, then bodyW.Close, which the reader sees as EOF.
MutRemoveKeepsPipe(id) == streams' = streams \ StreamAt(id) /\ bodyW' = bodyW
MutRemoveAsError(id) == streams' = streams \ StreamAt(id) /\ CloseW(StreamAt(id), "err")
RemoveStream(id) ==
    /\ streams' = streams \ StreamAt(id)
    /\ CloseW(StreamAt(id), "eof")

\* The critical section Close and failAll share: the map is taken over whole.
TakeAll(f) ==
    /\ closed' = TRUE
    /\ toFail' = [toFail EXCEPT ![f] = streams]
    /\ streams' = {}

-----------------------------------------------------------------------------
(* A caller: RoundTrip, then the reader of the response body.              *)

\* readRequestBody fails: nothing has been written.
ReadBodyFails(r) ==
    /\ pc[r] = "start"
    /\ pc' = [pc EXCEPT ![r] = "done"]
    /\ end' = [end EXCEPT ![r] = "noresp"]
    /\ UNCHANGED <<conn, sid, status, got, pipe, loop, server>>

MutWriteWhenClosed == TRUE
MayWrite == ~closed

MutSameID == nextID
FollowingID == nextID + 2

\* writeRequest finds the connection closed.
SendClosed(r) ==
    /\ pc[r] = "start"
    /\ ~MayWrite
    /\ pc' = [pc EXCEPT ![r] = "done"]
    /\ end' = [end EXCEPT ![r] = "noresp"]
    /\ UNCHANGED <<conn, sid, status, got, pipe, loop, server>>

\* writeRequest succeeds: the stream enters the map under a fresh id before
\* its frames are written, all in one critical section.
Send(r) ==
    /\ pc[r] = "start"
    /\ MayWrite /\ writable
    /\ nextID' = FollowingID
    /\ sid' = [sid EXCEPT ![r] = nextID]
    /\ streams' = (streams \ StreamAt(nextID)) \cup {r}
    /\ srv' = [srv EXCEPT ![r] = "open"]
    /\ \E n \in 0..MaxBody : size' = [size EXCEPT ![r] = n]
    /\ pc' = [pc EXCEPT ![r] = "wait"]
    /\ UNCHANGED <<closed, net, writable, closeAt, toFail, status, got, end, pipe,
                   loop, sent, pad, connWin, strWin, unread>>

\* A write fails, on the socket or in the framer: the id is used up, the
\* stream is out of the map again, and the server may have seen the request.
SendFails(r) ==
    /\ pc[r] = "start"
    /\ MayWrite
    /\ "writeError" \in PeerMay
    /\ nextID' = FollowingID
    /\ sid' = [sid EXCEPT ![r] = nextID]
    /\ streams' = streams \ StreamAt(nextID)
    /\ writable' \in {writable, FALSE}
    /\ \E seen \in {"idle", "open"} : srv' = [srv EXCEPT ![r] = seen]
    /\ \E n \in 0..MaxBody : size' = [size EXCEPT ![r] = n]
    /\ pc' = [pc EXCEPT ![r] = "done"]
    /\ end' = [end EXCEPT ![r] = "noresp"]
    /\ UNCHANGED <<closed, net, closeAt, toFail, status, got, pipe, loop,
                   sent, pad, connWin, strWin, unread>>

\* The three branches of RoundTrip's select; ties are broken arbitrarily.
TakeHeaders(r) ==
    /\ pc[r] = "wait"
    /\ headers[r] # "none"
    /\ status' = [status EXCEPT ![r] = headers[r]]
    /\ headers' = [headers EXCEPT ![r] = "none"]
    /\ pc' = [pc EXCEPT ![r] = "reading"]
    /\ UNCHANGED <<conn, sid, got, end, errs, bodyW, bodyR, loop, server>>

TakeErr(r) ==
    /\ pc[r] = "wait"
    /\ errs[r]
    /\ errs' = [errs EXCEPT ![r] = FALSE]
    /\ pc' = [pc EXCEPT ![r] = "leaving"]
    /\ end' = [end EXCEPT ![r] = "noresp"]
    /\ UNCHANGED <<conn, sid, status, got, headers, bodyW, bodyR, loop, server>>

Cancel(r) ==
    /\ pc[r] = "wait"
    /\ r \in Cancellable
    /\ pc' = [pc EXCEPT ![r] = "leaving"]
    /\ end' = [end EXCEPT ![r] = "noresp"]
    /\ UNCHANGED <<conn, sid, status, got, pipe, loop, server>>

\* A Read of the body meets readLoop's blocked Write.
ReadChunk(r) ==
    /\ pc[r] = "reading"
    /\ rlAt = "write" /\ cur = r
    /\ bodyW[r] = "open"
    /\ got' = [got EXCEPT ![r] = @ + 1]
    /\ rlAt' = "credit"
    /\ unread' = unread - 1
    /\ UNCHANGED <<conn, pc, sid, status, end, pipe, cur, frame, srv, size, sent, pad,
                   connWin, strWin>>

\* A Read finds the write half closed; the caller closes the body.
ReadEnd(r) ==
    /\ pc[r] = "reading"
    /\ bodyW[r] # "open"
    /\ end' = [end EXCEPT ![r] = bodyW[r]]
    /\ bodyR' = [bodyR EXCEPT ![r] = "closed"]
    /\ pc' = [pc EXCEPT ![r] = "leaving"]
    /\ UNCHANGED <<conn, sid, status, got, headers, errs, bodyW, loop, server>>

\* h2Body.Close before the end, its first half: the read half is closed.
Abandon(r) ==
    /\ pc[r] = "reading"
    /\ r \in EarlyClose
    /\ end' = [end EXCEPT ![r] = "aborted"]
    /\ bodyR' = [bodyR EXCEPT ![r] = "closed"]
    /\ pc' = [pc EXCEPT ![r] = "leaving"]
    /\ UNCHANGED <<conn, sid, status, got, headers, errs, bodyW, loop, server>>

\* removeStream, on the error branches of RoundTrip and in h2Body.Close.  No
\* RST_STREAM is written.
Leave(r) ==
    /\ pc[r] = "leaving"
    /\ RemoveStream(sid[r])
    /\ pc' = [pc EXCEPT ![r] = "done"]
    /\ UNCHANGED <<closed, nextID, net, writable, closeAt, toFail, sid, status, got,
                   end, headers, errs, bodyR, loop, server>>

-----------------------------------------------------------------------------
(* The server (external).  It answers a request with optional interim      *)
(* headers, headers, DATA within both windows and optional trailers, and   *)
(* may reset the stream.  Padding counts against the windows like body.    *)

Body(k)    == IF k \in {"data", "padded"} THEN 1 ELSE 0
Padding(k) == IF k \in {"padded", "padding"} THEN 1 ELSE 0
Cost(k)    == Body(k) + Padding(k)

ServerFrame(q, k, fin) ==
    /\ fin => sent[q] + Body(k) = size[q]
    /\ UNCHANGED size
    /\ \/ /\ k = "interim" /\ ~fin /\ q \in Hinted
          /\ srv[q] = "open"
          /\ srv' = [srv EXCEPT ![q] = "hinted"]
          /\ UNCHANGED <<sent, pad, connWin, strWin, unread>>
       \/ /\ k = "final"
          /\ srv[q] \in {"open", "hinted"}
          /\ srv' = [srv EXCEPT ![q] = IF fin THEN "ended" ELSE "headers"]
          /\ UNCHANGED <<sent, pad, connWin, strWin, unread>>
       \/ /\ k \in Chunks
          /\ k = "empty" => fin
          /\ k \in {"padded", "padding"} => "padding" \in PeerMay
          /\ srv[q] = "headers"
          /\ sent[q] + Body(k) <= size[q]
          /\ Cost(k) <= connWin /\ Cost(k) <= strWin[q]
          /\ srv' = [srv EXCEPT ![q] = IF fin THEN "ended" ELSE "headers"]
          /\ sent' = [sent EXCEPT ![q] = @ + Body(k)]
          /\ pad' = [pad EXCEPT ![q] = @ + Padding(k)]
          /\ connWin' = connWin - Cost(k)
          /\ strWin' = [strWin EXCEPT ![q] = @ - Cost(k)]
          /\ unread' = unread + Cost(k)
       \/ /\ k = "trailers" /\ fin /\ "trailers" \in PeerMay
          /\ srv[q] = "headers"
          /\ srv' = [srv EXCEPT ![q] = "trailed"]
          /\ UNCHANGED <<sent, pad, connWin, strWin, unread>>

\* The network breaks (external): reads fail from now on.
Drop ==
    /\ "drop" \in PeerMay
    /\ net
    /\ net' = FALSE
    /\ UNCHANGED <<closed, nextID, streams, writable, closeAt, toFail, caller, pipe,
                   loop, server>>

-----------------------------------------------------------------------------
(* readLoop.                                                               *)

Stage(k) == IF Body(k) > 0 THEN "write" ELSE IF k \in Chunks THEN "end" ELSE "headers"

\* DATA without a byte of body and without END_STREAM: nothing to do, and the
\* padding it may have is not credited to any window.
Idle(k, fin) == k \in Chunks /\ Body(k) = 0 /\ ~fin

\* HEADERS or DATA: the handler looks its stream up; on a miss it returns, and
\* the DATA it drops is not credited to the connection window.
ReadFrame(q) ==
    /\ rlAt = "read" /\ net
    /\ \E k \in Kinds, fin \in BOOLEAN :
          /\ ServerFrame(q, k, fin)
          /\ \/ /\ StreamAt(sid[q]) = {} \/ Idle(k, fin)
                /\ UNCHANGED loop
             \/ \E s \in StreamAt(sid[q]) :
                   /\ ~Idle(k, fin)
                   /\ rlAt' = Stage(k)
                   /\ cur' = s
                   /\ frame' = [for |-> q, kind |-> k, fin |-> fin]
    /\ UNCHANGED <<conn, caller, pipe>>

\* RST_STREAM: failStream.
ReadReset(q) ==
    /\ rlAt = "read" /\ net
    /\ "reset" \in PeerMay
    /\ srv[q] \in {"open", "hinted", "headers"}
    /\ srv' = [srv EXCEPT ![q] = "reset"]
    /\ streams' = streams \ StreamAt(sid[q])
    /\ Fail(StreamAt(sid[q]))
    /\ UNCHANGED <<closed, nextID, net, writable, closeAt, toFail, caller, headers,
                   bodyR, loop, size, sent, pad, connWin, strWin, unread>>

\* The handler returns; the loop reads on.
ReadOn == rlAt' = "read" /\ cur' = "none" /\ frame' = "none"

\* The end of both handlers: endStream if the frame carries END_STREAM.
MutIgnoreEndStream == ReadOn
AfterFrame ==
    \/ frame.fin /\ rlAt' = "end" /\ UNCHANGED <<cur, frame>>
    \/ ~frame.fin /\ ReadOn

\* handleHeaders with a :status, informational or final: a non-blocking send
\* on st.headers.  An interim block is thus what RoundTrip returns.
OfferHeaders ==
    headers' = [headers EXCEPT ![cur] = IF @ = "none" THEN frame.kind ELSE @]

HandleHeaders ==
    /\ rlAt = "headers" /\ frame.kind # "trailers"
    /\ OfferHeaders
    /\ AfterFrame
    /\ UNCHANGED <<conn, caller, errs, bodyW, bodyR, server>>

\* handleHeaders without a :status, which is what trailers are: the stream
\* fails and the END_STREAM flag is not looked at.
HandleTrailers ==
    /\ rlAt = "headers" /\ frame.kind = "trailers"
    /\ Fail({cur})
    /\ ReadOn
    /\ UNCHANGED <<conn, caller, headers, bodyR, server>>

\* handleData: the pipe refuses the write because either half is closed.
WriteFails ==
    /\ rlAt = "write"
    /\ bodyW[cur] # "open" \/ bodyR[cur] = "closed"
    /\ RemoveStream(sid[frame.for])
    /\ ReadOn
    /\ UNCHANGED <<closed, nextID, net, writable, closeAt, toFail, caller, headers,
                   errs, bodyR, server>>

\* handleData after the write: the bytes of body are credited to both windows
\* unless the connection is closed.  writeControl ignores a write that fails.
MutCreditStreamOnly == connWin' = connWin
MutCreditTwice == connWin' = connWin + 2
CreditConn == connWin' = connWin + 1
CreditWindow ==
    /\ rlAt = "credit"
    /\ \/ /\ ~closed /\ writable
          /\ CreditConn
          /\ strWin' = [strWin EXCEPT ![frame.for] = @ + 1]
          /\ UNCHANGED writable
       \/ /\ ~closed /\ writable /\ "writeError" \in PeerMay
          /\ CreditConn \/ UNCHANGED connWin
          /\ writable' = FALSE
          /\ UNCHANGED strWin
       \/ /\ closed \/ ~writable
          /\ UNCHANGED <<connWin, strWin, writable>>
    /\ AfterFrame
    /\ UNCHANGED <<closed, nextID, streams, net, closeAt, toFail, caller, pipe, srv,
                   size, sent, pad, unread>>

EndStream ==
    /\ rlAt = "end"
    /\ RemoveStream(sid[frame.for])
    /\ ReadOn
    /\ UNCHANGED <<closed, nextID, net, writable, closeAt, toFail, caller, headers,
                   errs, bodyR, server>>

\* GOAWAY, or a read error: failAll takes every stream.  After a GOAWAY the
\* loop goes on, to meet the error of reading the socket it has closed.
GoAway ==
    /\ rlAt = "read" /\ net
    /\ "goaway" \in PeerMay
    /\ TakeAll("readLoop")
    /\ rlAt' = "goaway"
    /\ UNCHANGED <<nextID, net, writable, closeAt, caller, pipe, cur, frame, server>>

ReadError ==
    /\ rlAt = "read" /\ ~net
    /\ TakeAll("readLoop")
    /\ rlAt' = "failall"
    /\ UNCHANGED <<nextID, net, writable, closeAt, caller, pipe, cur, frame, server>>

MutSocketLeftOpen == net' = net
CloseConn == net' = FALSE
FailAllDone ==
    /\ rlAt \in {"goaway", "failall"}
    /\ toFail["readLoop"] = {}
    /\ CloseConn
    /\ rlAt' = IF rlAt = "goaway" THEN "read" ELSE "stopped"
    /\ UNCHANGED <<closed, nextID, streams, writable, closeAt, toFail, caller, pipe,
                   cur, frame, server>>

-----------------------------------------------------------------------------
(* Close, called by the pool.  A call that finds the connection closed     *)
(* returns at once, so one effective call is enough.                       *)

CloseCall ==
    /\ ~closed
    /\ closeAt = "idle"
    /\ TakeAll("Close")
    /\ closeAt' = "failing"
    /\ UNCHANGED <<nextID, net, writable, caller, pipe, loop, server>>

CloseDone ==
    /\ closeAt = "failing"
    /\ toFail["Close"] = {}
    /\ CloseConn
    /\ closeAt' = "done"
    /\ UNCHANGED <<closed, nextID, streams, writable, toFail, caller, pipe, loop, server>>

\* One turn of the loop of Close or failAll over the streams it took.
FailOne(f, s) ==
    /\ s \in toFail[f]
    /\ toFail' = [toFail EXCEPT ![f] = @ \ {s}]
    /\ Fail({s})
    /\ UNCHANGED <<closed, nextID, streams, net, writable, closeAt, caller, headers,
                   bodyR, loop, server>>

-----------------------------------------------------------------------------
\* All callers have returned and released their bodies.
Terminated ==
    /\ \A r \in Reqs : pc[r] = "done"
    /\ UNCHANGED vars

CallerStep(r) == SendClosed(r) \/ TakeHeaders(r) \/ TakeErr(r) \/ Leave(r)

\* The reader is Response.Write to the socket of a client (forward), which has
\* no deadline: whether it reads on, or gives up, is up to that client.
ReaderStep(r) == ReadChunk(r) \/ ReadEnd(r) \/ Abandon(r)

CallerChoice(r) == ReadBodyFails(r) \/ Send(r) \/ SendFails(r) \/ Cancel(r)

LoopStep ==
    \/ HandleHeaders \/ HandleTrailers \/ WriteFails \/ CreditWindow \/ EndStream
    \/ ReadError \/ FailAllDone \/ \E s \in Reqs : FailOne("readLoop", s)

CloseStep == CloseDone \/ \E s \in Reqs : FailOne("Close", s)

Next ==
    \/ \E r \in Reqs : CallerStep(r) \/ ReaderStep(r) \/ CallerChoice(r)
    \/ \E q \in Reqs : ReadFrame(q) \/ ReadReset(q)
    \/ LoopStep \/ CloseStep \/ CloseCall \/ GoAway \/ Drop
    \/ Terminated

Spec == Init /\ [][Next]_vars

(* Fairness of the goroutines: a runnable goroutine runs.  Nothing is      *)
(* assumed of the server, of the clients that bodies are written to, of    *)
(* cancellation or of who calls Close.                                     *)
GoFairness ==
    /\ \A r \in Reqs : WF_vars(CallerStep(r))
    /\ WF_vars(LoopStep) /\ WF_vars(CloseStep)

GoSpec == Spec /\ GoFairness

-----------------------------------------------------------------------------
(* Properties.                                                             *)

(* A stream id finds at most one stream, and a frame is handled on the     *)
(* stream of the request it answers: two callers sharing the connection    *)
(* never get each other's response (writeRequest's id, lines 122-124).     *)
NoCrossTalk ==
    rlAt \in Handling => cur = frame.for

(* A closed connection has an empty stream map: no request slips in behind *)
(* Close or failAll, where nobody would ever fail it (lines 105-107, 119). *)
ClosedMapEmpty == closed => streams = {}

(* Whoever waits in RoundTrip's select can still be woken: a response or   *)
(* an error is in a channel, or its stream is in the map, or Close or      *)
(* failAll holds it and is about to fail it.                               *)
NoOrphanWaiter ==
    \A r \in Reqs : pc[r] = "wait" =>
        \/ headers[r] # "none" \/ errs[r]
        \/ r \in streams
        \/ \E f \in Failers : r \in toFail[f]

(* readLoop is never left in a pipe write that nobody can end: the caller  *)
(* has not left, or a half of the pipe is closed, or a pending fail will   *)
(* close it (handleData, line 66).  A caller that stays and does not read  *)
(* holds readLoop up as long as it likes, and every other stream with it.  *)
WriteCanEnd ==
    rlAt = "write" =>
        \/ pc[cur] # "done"
        \/ bodyW[cur] # "open" \/ bodyR[cur] = "closed"
        \/ \E f \in Failers : cur \in toFail[f]

(* A body that ends with EOF is the whole body: no failure of the stream   *)
(* or of the connection looks like a regular end (st.fail against          *)
(* removeStream).                                                          *)
CleanEOFIsComplete ==
    \A r \in Reqs : end[r] = "eof" => srv[r] = "ended" /\ got[r] = size[r]

(* As long as writes succeed, what is missing from a window is what the    *)
(* server has sent and no caller has read, and the unit being credited:    *)
(* reading a body gives back what the body has cost, once and to both      *)
(* windows (handleData, lines 65-77).  It gives back no more: the DATA     *)
(* that is dropped behind an early close (line 62) and all padding, which  *)
(* len(f.Data()) leaves out (line 70), are missing until the end.          *)
WindowConserved ==
    ~closed /\ writable =>
        LET InHand(S) == IF rlAt = "credit" /\ frame.for \in S THEN 1 ELSE 0
        IN  /\ connWin + InHand(Reqs) + unread = ConnWindow
            /\ \A r \in Reqs :
                  strWin[r] + InHand({r}) + (sent[r] + pad[r] - got[r]) = StreamWindow

(* The connection as its callers see it.                                   *)
PhaseOf(at) == CASE at = "start"   -> "new"
                 [] at = "wait"    -> "pending"
                 [] at = "reading" -> "body"
                 [] OTHER          -> "ended"

Contract == INSTANCE Exchanges
    WITH open    <- ~closed,
         phase   <- [r \in Reqs |-> PhaseOf(pc[r])],
         length  <- size,
         read    <- got,
         outcome <- end

(* Streams, frames, pipes and the order of locks and channel sends amount  *)
(* to the contract of a RoundTripper: one answer or one failure, a body in *)
(* order, EOF after its last unit only, nothing sent once closed.          *)
ImplementsExchanges == Contract!Spec

(* A response the server has sent in full is delivered in full unless the  *)
(* connection was closed.  The one exception is a response with trailers,  *)
(* whose trailing header block has no :status (handleHeaders, lines        *)
(* 33-36): only such a body can end in an error after its last unit.       *)
CompleteResponseDelivered ==
    \A r \in Reqs : end[r] = "err" =>
        \/ closed \/ srv[r] = "reset"
        \/ srv[r] = "trailed" /\ got[r] = size[r]

(* Once the connection is closed, by whatever party, readLoop stops and    *)
(* every caller that was on it returns or, when it is writing to a client, *)
(* finds the body ended at its next read.                                  *)
CloseReleases ==
    closed ~> /\ rlAt = "stopped"
              /\ \A r \in Reqs : \/ pc[r] \in {"start", "done"}
                                 \/ pc[r] = "reading" /\ bodyW[r] # "open"

(* A server that answers every request it has accepted as far as flow      *)
(* control lets it.                                                        *)
ServerAnswers == \A q \in Reqs : WF_vars(ReadFrame(q))

(* Clients that take what is written to them, or leave.                    *)
ReadersRead == \A r \in Reqs : WF_vars(ReaderStep(r))

(* Every request on the connection ends when the server answers, without   *)
(* padding, and the readers of all its bodies read them to the end.  One   *)
(* reader that stalls can hold up every request: readLoop is in its pipe.  *)
EveryRequestEnds ==
    ServerAnswers /\ ReadersRead => \A r \in Reqs : (pc[r] = "wait") ~> (pc[r] = "done")
=============================================================================

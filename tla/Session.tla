------------------------------- MODULE Session -------------------------------
(***************************************************************************)
(* One client connection after the proxy negotiation: Intercept, forward,  *)
(* forwardWebSocket and Passthrough (internal/mitm/mitm.go), with the      *)
(* decoding of responses (internal/upstream/decompress.go) and the framing *)
(* http.Response.Write gives them.                                         *)
(*                                                                         *)
(* The client may pipeline requests.  What it sends is a queue of request  *)
(* heads and body units; what the proxy writes is read by the client in    *)
(* the same step, framed as the client was told.  A request through the    *)
(* transport is an answer or an error here; RoundTripper and H2Client have *)
(* its inside.  A WebSocket client writes no frame before the 101.         *)
(***************************************************************************)
EXTENDS Tunnel

CONSTANTS MaxReqs,     \* bound: requests the client sends on the connection
          MaxBody,     \* bound: units in a request or response body
          Pipelining,  \* TRUE: the client sends without waiting for answers
          Framed,      \* how upstreams frame the bodies of their answers
          Coded,       \* the content codings they use
          Interim      \* TRUE: they may send a 1xx before the answer

\* gzip reads its header before the answer is returned.  The others fail when
\* they are read: br and zstd report nothing before, and deflate, which peeks
\* at two bytes, takes a body that has not got them for raw DEFLATE.
Codings   == {"plain", "gzip", "late"}
Told      == {"length", "chunked"}   \* framings that tell the client the end

ASSUME SessionAssumption ==
    /\ MaxReqs \in Nat /\ MaxBody \in Nat /\ MaxUnits \in Nat
    /\ Pipelining \in BOOLEAN /\ Interim \in BOOLEAN
    /\ Framed \subseteq Told \cup {"eof"} /\ Coded \subseteq Codings

VARIABLES
    pc,        \* where the handler is
    input,     \* what the client has sent and the session's reader not consumed
    nsent,     \* requests the client has begun to send
    kind,      \* what each request is
    owed,      \* units of the last request's body the client has yet to send
    cur,       \* the request in hand; 0 before the first
    heads,     \* responses begun towards the client, per request
    answer,    \* "none", "upstream" (a relayed response), "status" (writeStatus)
    framing,   \* how the client finds the end of the body; "none": no final head
    size,      \* units in the body the upstream sends; -1: no answer yet
    body,      \* units of it written to the client
    view,      \* the client's reading: "none", "reading", "complete", "broken"
    fault      \* the upstream or the network failed this request

exchange == <<heads, answer, framing, size, body, view, fault>>
client   == <<input, nsent, kind, owed>>
vars     == <<tunnelVars, pc, cur, client, exchange>>

Reqs     == 1..MaxReqs
Kinds    == {"plain", "head", "upgrade", "badTarget", "garbled"}
Framings == Told \cup {"none", "eof"}
PCs      == {"handshake", "read", "target", "forward", "upload", "await", "relay",
             "wsDial", "wsSend", "wsAwait", "switch", "dial", "tunnel", "closed"}

\* The types.
TypeOK ==
    /\ TunnelTypeOK
    /\ pc \in PCs
    /\ input \in Seq([req : Reqs, part : {"head", "body"}])
    /\ nsent \in 0..MaxReqs /\ cur \in 0..MaxReqs
    /\ kind \in [Reqs -> Kinds]
    /\ owed \in 0..MaxBody
    /\ heads \in [Reqs -> Nat]
    /\ answer \in [Reqs -> {"none", "upstream", "status"}]
    /\ framing \in [Reqs -> Framings]
    /\ size \in [Reqs -> -1..MaxBody] /\ body \in [Reqs -> 0..MaxBody]
    /\ view \in [Reqs -> {"none", "reading", "complete", "broken"}]
    /\ fault \in [Reqs -> BOOLEAN]

Init ==
    /\ TunnelInit
    /\ pc \in {"handshake", "dial"}   \* Intercept, Passthrough
    /\ input = <<>> /\ nsent = 0 /\ owed = 0 /\ cur = 0
    /\ kind = [i \in Reqs |-> "plain"]
    /\ heads = [i \in Reqs |-> 0] /\ answer = [i \in Reqs |-> "none"]
    /\ framing = [i \in Reqs |-> "none"]
    /\ size = [i \in Reqs |-> -1] /\ body = [i \in Reqs |-> 0]
    /\ view = [i \in Reqs |-> "none"] /\ fault = [i \in Reqs |-> FALSE]

ClientGone == eof["up"]

-----------------------------------------------------------------------------
(* The client (external).                                                  *)

Passing == cur = 0 /\ pc \in {"dial", "tunnel"}   \* a passthrough connection

\* It has read the responses to all it sent.
Caught == \A i \in 1..nsent : view[i] = "complete"

SendHead(k, n) ==
    /\ ~ClientGone /\ ~Passing /\ pc \notin {"handshake", "closed"}
    /\ owed = 0 /\ nsent < MaxReqs
    /\ Caught \/ Pipelining
    /\ \A i \in 1..nsent : kind[i] # "upgrade" \/ framing[i] # "none"
    /\ pc \notin {"switch", "tunnel"}
    /\ k = "plain" \/ n = 0
    /\ nsent' = nsent + 1
    /\ kind' = [kind EXCEPT ![nsent + 1] = k]
    /\ owed' = n
    /\ input' = Append(input, [req |-> nsent + 1, part |-> "head"])
    /\ UNCHANGED <<tunnelVars, pc, cur, exchange>>

SendBody ==
    /\ ~ClientGone /\ owed > 0 /\ pc # "closed"
    /\ owed' = owed - 1
    /\ input' = Append(input, [req |-> nsent, part |-> "body"])
    /\ UNCHANGED <<tunnelVars, pc, cur, nsent, kind, exchange>>

\* A unit written into the tunnel: by the client of a passthrough at once, by
\* a WebSocket client after the 101, by the server behind its 101.
ClientWrites ==
    /\ Passing \/ (pc = "tunnel" /\ cur > 0 /\ view[cur] = "complete")
    /\ WriteUnit("up")
    /\ UNCHANGED <<pc, cur, client, exchange>>

ServerWrites ==
    /\ pc \in {"switch", "tunnel"}
    /\ WriteUnit("down")
    /\ UNCHANGED <<pc, cur, client, exchange>>

ClientLeaves ==
    /\ pc # "closed"
    /\ SenderCloses("up")
    /\ UNCHANGED <<pc, cur, client, exchange>>

ServerLeaves ==
    /\ pc \in {"switch", "tunnel"}
    /\ SenderCloses("down")
    /\ UNCHANGED <<pc, cur, client, exchange>>

-----------------------------------------------------------------------------
(* How the session ends, and what the client makes of it.                  *)

\* The client's connection is closed (Intercept's defers).  A body that ends
\* with the connection looks complete; one with a length is, if all has come.
Cut(v) ==
    view' = [i \in Reqs |->
                IF v[i] # "reading" THEN v[i]
                ELSE IF \/ framing[i] = "eof"
                        \/ framing[i] = "length" /\ body[i] = size[i]
                     THEN "complete" ELSE "broken"]

CloseClient(v) == pc' = "closed" /\ Cut(v)

\* The client's view when the response in hand begins or is over; a client that
\* still waits for an end or a final head takes it for a part of that answer.
Seen(v) ==
    IF \E i \in 1..(cur - 1) : view[i] = "reading" THEN view
    ELSE [view EXCEPT ![cur] = v]

CloseSock == sock' = IF sock = "open" THEN "closed" ELSE sock

\* writeStatus, then the error return that ends the session.
MutStatusAndContinue ==
    /\ pc' = "read"
    /\ heads' = [heads EXCEPT ![cur] = @ + 1]
    /\ answer' = [answer EXCEPT ![cur] = "status"]
    /\ framing' = [framing EXCEPT ![cur] = "length"]
    /\ view' = Seen("complete")
WriteStatusAndReturn ==
    /\ heads' = [heads EXCEPT ![cur] = @ + 1]
    /\ answer' = [answer EXCEPT ![cur] = "status"]
    /\ framing' = [framing EXCEPT ![cur] = "length"]
    /\ CloseClient(Seen("complete"))

-----------------------------------------------------------------------------
(* Intercept.                                                              *)

Handshake ==
    /\ pc = "handshake"
    /\ pc' \in {"read", "closed"}
    /\ UNCHANGED <<tunnelVars, cur, client, exchange>>

HandshakeAborted ==
    /\ pc = "handshake" /\ ClientGone
    /\ pc' = "closed"
    /\ UNCHANGED <<tunnelVars, cur, client, exchange>>

ReadRequest ==
    /\ pc = "read" /\ input # <<>>
    /\ Head(input).part = "head" /\ kind[Head(input).req] # "garbled"
    /\ cur' = Head(input).req
    /\ input' = Tail(input)
    /\ pc' = "target"
    /\ UNCHANGED <<tunnelVars, nsent, kind, owed, exchange>>

\* ReadRequest fails: the client has closed, or the input is not a request.
ReadRequestFails ==
    /\ pc = "read"
    /\ \/ input = <<>> /\ ClientGone
       \/ /\ input # <<>>
          /\ Head(input).part = "body" \/ kind[Head(input).req] = "garbled"
    /\ CloseClient(view)
    /\ UNCHANGED <<tunnelVars, cur, client, heads, answer, framing, size, body, fault>>

\* isWebSocketUpgrade and http.NewRequest, which both paths begin with.
Target ==
    /\ pc = "target"
    /\ \/ /\ kind[cur] = "badTarget"
          /\ WriteStatusAndReturn
       \/ /\ kind[cur] # "badTarget"
          /\ pc' = IF kind[cur] = "upgrade" THEN "wsDial" ELSE "forward"
          /\ UNCHANGED <<heads, answer, framing, view>>
    /\ UNCHANGED <<tunnelVars, cur, client, size, body, fault>>

-----------------------------------------------------------------------------
(* forward, over a pooled HTTP/2 connection or an HTTP/1.1 socket of its   *)
(* own.                                                                    *)

Forward ==
    /\ pc = "forward"
    /\ pc' = "upload"
    /\ sock' \in {"none", "open"}
    /\ UNCHANGED <<ends, deadline, ended, cur, client, exchange>>

\* readRequestBody and WriteRequestHTTP1 read the body to its end before
\* anything is answered.
MutNothingLeft == FALSE
BodyLeft ==
    \/ \E i \in DOMAIN input : input[i] = [req |-> cur, part |-> "body"]
    \/ nsent = cur /\ owed > 0

UploadUnit ==
    /\ pc = "upload"
    /\ input # <<>> /\ Head(input) = [req |-> cur, part |-> "body"]
    /\ input' = Tail(input)
    /\ UNCHANGED <<tunnelVars, pc, cur, nsent, kind, owed, exchange>>

UploadDone ==
    /\ pc = "upload"
    /\ ~BodyLeft
    /\ pc' = "await"
    /\ UNCHANGED <<tunnelVars, cur, client, exchange>>

\* The client closed in the middle of the body.
UploadFails ==
    /\ pc = "upload"
    /\ BodyLeft /\ input = <<>> /\ ClientGone
    /\ WriteStatusAndReturn
    /\ CloseSock
    /\ fault' = [fault EXCEPT ![cur] = TRUE]
    /\ UNCHANGED <<ends, deadline, ended, cur, client, size, body>>

\* RoundTrip returns an error: dialling, writing or reading failed.
RoundTripFails ==
    /\ pc \in {"forward", "await"}
    /\ WriteStatusAndReturn
    /\ CloseSock
    /\ fault' = [fault EXCEPT ![cur] = TRUE]
    /\ UNCHANGED <<ends, deadline, ended, cur, client, size, body>>

\* decompressor: gzip reads its header at once, and an empty body has none.
\* deflate peeks, but takes what it does not know for raw; the others read later.
Decoded(c) == c # "plain"
DecoderFails(c, n) == c = "gzip" /\ n = 0

\* decodeResponse drops the length of a body it decodes; Response.Write then
\* frames by chunks, by length or, knowing neither, by the end of the
\* connection.  The answer to HEAD, a 204 and a 304 have no body to frame.
ClientFraming(f, decoded, bodiless) ==
    IF bodiless THEN "length"
    ELSE IF f = "length" /\ decoded THEN "eof" ELSE f

\* The head of a response is written; its body is still to come.
BeginRelay(f, n) ==
    /\ pc' = "relay"
    /\ heads' = [heads EXCEPT ![cur] = @ + 1]
    /\ answer' = [answer EXCEPT ![cur] = "upstream"]
    /\ framing' = [framing EXCEPT ![cur] = f]
    /\ view' = Seen("reading")
    /\ size' = [size EXCEPT ![cur] = n]

\* RoundTrip returns a response, or decodeResponse an error.  HTTP/2 has no
\* chunks.
Respond ==
    /\ pc = "await"
    /\ \E f \in Framed, c \in Coded, n \in 0..MaxBody, bodiless \in BOOLEAN :
          /\ f = "chunked" => sock = "open"
          /\ kind[cur] = "head" => bodiless
          /\ bodiless => n = 0
          /\ \/ /\ ~DecoderFails(c, n)
                /\ BeginRelay(ClientFraming(f, Decoded(c), bodiless), n)
                /\ UNCHANGED sock
             \/ /\ DecoderFails(c, n)
                /\ WriteStatusAndReturn
                /\ CloseSock
                /\ size' = [size EXCEPT ![cur] = n]
    /\ UNCHANGED <<ends, deadline, ended, cur, client, body, fault>>

\* Neither HTTP/1.1's ReadResponse nor handleHeaders skips a 1xx: it is what
\* RoundTrip returns.  Over HTTP/2 the body of the final answer follows it.
RespondInterim ==
    /\ pc = "await" /\ Interim
    /\ \E n \in 0..MaxBody :
          /\ sock = "open" \/ kind[cur] = "head" => n = 0
          /\ BeginRelay("none", n)
    /\ UNCHANGED <<tunnelVars, cur, client, body, fault>>

-----------------------------------------------------------------------------
(* resp.Write: the body, then the deferred closes.                         *)

MoreBody == body[cur] < size[cur]

RelayUnit ==
    /\ pc = "relay" /\ MoreBody
    /\ body' = [body EXCEPT ![cur] = @ + 1]
    /\ UNCHANGED <<tunnelVars, pc, cur, client, heads, answer, framing, size, view, fault>>

\* The client knows the end of a body with a length or chunks.
RelayDone ==
    /\ pc = "relay" /\ body[cur] = size[cur]
    /\ view' = IF framing[cur] \in Told THEN Seen("complete") ELSE view
    /\ pc' = "read"
    /\ CloseSock
    /\ UNCHANGED <<ends, deadline, ended, cur, client, heads, answer,
                   framing, size, body, fault>>

\* A read of the body fails, behind its last unit too (trailers over HTTP/2, a
\* bad checksum); of the answer to HEAD none is read.  Or a write to the client.
MutEndCleanly == CloseClient(Seen("complete"))
EndOnError == CloseClient(view)

RelayFails ==
    /\ pc = "relay"
    /\ kind[cur] # "head" \/ ClientGone
    /\ fault' = [fault EXCEPT ![cur] = TRUE]
    /\ EndOnError
    /\ CloseSock
    /\ UNCHANGED <<ends, deadline, ended, cur, client, heads, answer,
                   framing, size, body>>

-----------------------------------------------------------------------------
(* forwardWebSocket.                                                       *)

WsDial ==
    /\ pc = "wsDial"
    /\ pc' = "wsSend"
    /\ sock' = "open"
    /\ UNCHANGED <<ends, deadline, ended, cur, client, exchange>>

\* The dial fails, or the server chose h2 although it was not offered; or the
\* upgrade response cannot be read.
WsFails ==
    /\ pc \in {"wsDial", "wsAwait"}
    /\ WriteStatusAndReturn
    /\ CloseSock
    /\ fault' = [fault EXCEPT ![cur] = TRUE]
    /\ UNCHANGED <<ends, deadline, ended, cur, client, size, body>>

WsSend ==
    /\ pc = "wsSend"
    /\ pc' = "wsAwait"
    /\ UNCHANGED <<tunnelVars, cur, client, exchange>>

\* The upgrade cannot be written: the client is told nothing.
MutLeaveSocket == UNCHANGED sock
CloseUpgrade == CloseSock

WsSendFails ==
    /\ pc = "wsSend"
    /\ CloseUpgrade
    /\ CloseClient(view)
    /\ fault' = [fault EXCEPT ![cur] = TRUE]
    /\ UNCHANGED <<ends, deadline, ended, cur, client, heads, answer,
                   framing, size, body>>

\* A status other than 101, another 1xx included: relayed as it is, and the
\* session goes on.
WsRejected ==
    /\ pc = "wsAwait"
    /\ \/ \E f \in Framed, n \in 0..MaxBody : BeginRelay(f, n)
       \/ Interim /\ BeginRelay("none", 0)
    /\ UNCHANGED <<tunnelVars, cur, client, body, fault>>

WsAccepted ==
    /\ pc = "wsAwait"
    /\ pc' = "switch"
    /\ UNCHANGED <<tunnelVars, cur, client, exchange>>

\* The 101 is written; what the reader of the response has read ahead is the
\* beginning of the stream.
WsSwitch ==
    /\ pc = "switch"
    /\ pc' = "tunnel"
    /\ heads' = [heads EXCEPT ![cur] = @ + 1]
    /\ answer' = [answer EXCEPT ![cur] = "upstream"]
    /\ framing' = [framing EXCEPT ![cur] = "length"]
    /\ view' = Seen("complete")
    /\ size' = [size EXCEPT ![cur] = 0]
    /\ \E n \in 0..Len(pending["down"]) : StartCopies("down", n)
    /\ UNCHANGED <<sock, deadline, cur, client, body, fault>>

WsSwitchFails ==
    /\ pc = "switch" /\ ClientGone
    /\ CloseSock
    /\ CloseClient(view)
    /\ fault' = [fault EXCEPT ![cur] = TRUE]
    /\ UNCHANGED <<ends, deadline, ended, cur, client, heads, answer,
                   framing, size, body>>

-----------------------------------------------------------------------------
(* Passthrough, and the tunnel of both.                                    *)

\* DialTCP, which leaves its deadline on a socket to the upstream proxy; the
\* client's first bytes may be in the reader of the negotiation.
Dial ==
    /\ pc = "dial"
    /\ \/ /\ pc' = "tunnel" /\ sock' = "open"
          /\ deadline' \in {"none", "armed"}
          /\ \E n \in 0..Len(pending["up"]) : StartCopies("up", n)
       \/ pc' = "closed" /\ UNCHANGED tunnelVars
    /\ UNCHANGED <<cur, client, exchange>>

Copying(d) ==
    /\ pc = "tunnel"
    /\ CopyStep(d)
    /\ UNCHANGED <<pc, cur, client, exchange>>

Expire ==
    /\ pc = "tunnel"
    /\ DeadlineFires
    /\ UNCHANGED <<pc, cur, client, exchange>>

TunnelEnds ==
    /\ pc = "tunnel"
    /\ CloseBoth
    /\ pc' = "closed"
    /\ UNCHANGED <<cur, client, exchange>>

-----------------------------------------------------------------------------
Terminated == pc = "closed" /\ UNCHANGED vars

ClientStep ==
    \/ \E k \in Kinds, n \in 0..MaxBody : SendHead(k, n)
    \/ Handshake \/ SendBody \/ ClientWrites \/ ServerWrites \/ ClientLeaves \/ ServerLeaves
    \/ Expire

\* Steps the handler takes by itself.
HandlerStep ==
    \/ HandshakeAborted \/ ReadRequest \/ ReadRequestFails \/ Target
    \/ UploadUnit \/ UploadDone \/ UploadFails \/ RelayDone
    \/ WsSwitch \/ WsSwitchFails \/ TunnelEnds \/ \E d \in Dirs : Copying(d)

\* Steps that wait for the upstream.
UpstreamStep ==
    \/ Forward \/ RoundTripFails \/ Respond \/ RespondInterim \/ RelayUnit \/ RelayFails
    \/ WsDial \/ WsFails \/ WsSend \/ WsSendFails \/ WsRejected \/ WsAccepted \/ Dial

Next == ClientStep \/ HandlerStep \/ UpstreamStep \/ Terminated

(* The handler's goroutines run, and the upstream answers or fails: dials  *)
(* have a deadline, answers have not, so this much is assumed of servers.  *)
Spec == Init /\ [][Next]_vars /\ WF_vars(HandlerStep) /\ WF_vars(UpstreamStep)

-----------------------------------------------------------------------------
(* Whenever the session reads its next request, its reader stands at the   *)
(* head of the request after the last one served: every body was consumed  *)
(* (readRequestBody, WriteRequestHTTP1), no error path reads on.           *)
ReaderAligned ==
    pc = "read" /\ input # <<>> => Head(input) = [req |-> cur + 1, part |-> "head"]

(* The session goes on only after one response to every request so far,    *)
(* and never begins a second: no status follows a response that failed     *)
(* half-way (forward, lines 131-148).  A 1xx counts as that response.      *)
OneAnswerEach ==
    /\ \A i \in Reqs : heads[i] <= 1
    /\ pc = "read" => \A i \in 1..cur : heads[i] = 1 /\ answer[i] = "upstream"

(* "The response body is transparently decompressed so the client always   *)
(* receives a decodable stream" (roundtripper.go, lines 34-35): an answer  *)
(* that nothing is wrong with is not replaced by a status of Doppel's own. *)
GoodAnswerRelayed ==
    \A i \in Reqs : answer[i] = "status" => fault[i] \/ kind[i] = "badTarget"

(* The session reads on only when the body of every response was written   *)
(* whole, and a response the client takes for complete by its length or    *)
(* its chunks has the whole body (forward, lines 145-147).  A body that    *)
(* ends with the connection has no such mark: when it breaks off, the      *)
(* close of the connection makes it look complete.                         *)
CompleteIsWhole ==
    /\ pc = "read" => \A i \in 1..cur : body[i] = size[i]
    /\ \A i \in Reqs :
          view[i] = "complete" /\ framing[i] \in Told /\ answer[i] = "upstream"
              => body[i] = size[i]

(* While the session waits for a request, no client waits for the end of a *)
(* response.                                                               *)
(* "decodeResponse transparently decompresses resp so the client always    *)
(* receives a usable body" (decompress.go, lines 17-18).                   *)
NoMutualWait == pc = "read" => \A i \in Reqs : view[i] # "reading"

(* Between requests and after the session no upstream socket of its own is *)
(* open, whatever path led there (the closes of forwardWebSocket, tunnel,  *)
(* Passthrough and connClosingBody).                                       *)
NoSocketLeft == pc \in {"read", "closed"} => sock # "open"

(* A client that goes away ends its session.                               *)
LeavingEnds == ClientGone ~> pc = "closed"
==============================================================================

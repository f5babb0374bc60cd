----------------------------- MODULE SessionProofs -----------------------------
(***************************************************************************)
(* Proofs about one client connection, for any bounds on the requests, the *)
(* bodies and the units of a tunnel.                                       *)
(***************************************************************************)
EXTENDS Session, TLAPS

\* A direction of the tunnel: what has arrived and what has not are, in order
\* and without a gap, what was written.
InOrder(g, p, n) ==
    /\ Len(g) + Len(p) = n
    /\ \A i \in 1..Len(g) : g[i] = i
    /\ \A i \in 1..Len(p) : p[i] = Len(g) + i

StreamOK(d) == InOrder(got[d], pending[d], sent[d])

\* Why the copy of a direction has returned.
EndedOK(d) ==
    d \in ended =>
        \/ eof[Other(d)] \/ (eof[d] /\ pending[d] = <<>>)
        \/ reset # {} \/ deadline = "fired"

TunnelInv == TunnelTypeOK /\ \A d \in Dirs : StreamOK(d) /\ EndedOK(d)

\* The deadline is that of a dialled socket.
DialOK == pc = "dial" => deadline = "none"

-----------------------------------------------------------------------------
\* A request is in hand; its body has been read or it has none.
InHand  == {"target", "forward", "upload", "await", "relay",
            "wsDial", "wsSend", "wsAwait", "switch"}
Drained == {"read", "await", "relay", "wsDial", "wsSend", "wsAwait", "switch"}

ControlOK ==
    /\ pc \in PCs /\ cur \in 0..nsent /\ nsent \in 0..MaxReqs
    /\ owed \in 0..MaxBody /\ kind \in [Reqs -> Kinds]
    /\ pc \in InHand => cur > 0
    /\ pc \in {"handshake", "dial"} => cur = 0
    /\ pc \in {"wsDial", "wsSend", "wsAwait", "switch"} => kind[cur] = "upgrade"

\* The tokens between the reader and the client, in order.
Tokens == [req : Reqs, part : {"head", "body"}]

TokensOK ==
    /\ Len(input) \in Nat
    /\ \A i \in 1..Len(input) : input[i] \in Tokens
    /\ \A i \in 1..Len(input) :
          /\ input[i].req \in cur..nsent
          /\ input[i].req = cur => input[i].part = "body"
          /\ input[i].part = "body" => kind[input[i].req] = "plain"
    /\ \A i, j \in 1..Len(input) : i < j =>
          /\ input[i].req <= input[j].req
          /\ input[j].part = "head" => input[i].req < input[j].req
    /\ \A r \in (cur + 1)..nsent : \E i \in 1..Len(input) : input[i] = [req |-> r, part |-> "head"]
    /\ owed > 0 => nsent > 0 /\ kind[nsent] = "plain"

\* Nothing of the body of the request in hand is left.
DrainedOK == pc \in Drained => ~BodyLeft

QueueInv == input \in Seq(Tokens) /\ ControlOK /\ TokensOK /\ DrainedOK

-----------------------------------------------------------------------------
\* The sockets a session may have open.
SockOK ==
    sock = "open" => pc \in {"upload", "await", "relay", "wsSend", "wsAwait", "switch", "tunnel"}

Views == {"none", "reading", "complete", "broken"}

\* The types of what is kept per request.
ExchangeTypes ==
    /\ heads \in [Reqs -> 0..1]
    /\ answer \in [Reqs -> {"none", "upstream", "status"}]
    /\ framing \in [Reqs -> Framings]
    /\ size \in [Reqs -> -1..MaxBody] /\ body \in [Reqs -> 0..MaxBody]
    /\ view \in [Reqs -> Views]
    /\ fault \in [Reqs -> BOOLEAN]

\* Requests before the one in hand have had a relayed response, those behind
\* it nothing; the one in hand has nothing until its response begins.
Unanswered(i) == heads[i] = 0 /\ answer[i] = "none" /\ view[i] = "none" /\ body[i] = 0
Answered(i)   == heads[i] = 1 /\ answer[i] = "upstream"
Served(i)     == Answered(i) /\ body[i] = size[i]

AnswersOK ==
    /\ \A i \in Reqs : i < cur => Served(i)
    /\ \A i \in Reqs : i > cur => Unanswered(i)
    /\ pc \in InHand \ {"relay"} => Unanswered(cur)
    /\ pc = "read" /\ cur > 0 => Served(cur)
    /\ pc = "relay" =>
          Answered(cur) /\ view[cur] \in {"none", "reading"} /\ body[cur] <= size[cur]

ExchangeInv == SockOK /\ ExchangeTypes /\ AnswersOK /\ CompleteIsWhole

IndInv == TunnelInv /\ DialOK /\ QueueInv /\ ExchangeInv

-----------------------------------------------------------------------------
(* The tunnel: a new unit goes to the end of what is pending, and a copy   *)
(* moves the first pending unit.  First over lengths and elements alone.   *)
LEMMA AddPointwise ==
    ASSUME NEW g, NEW p, NEW q, NEW n \in Nat, Len(g) \in Nat, Len(p) \in Nat,
           Len(q) = Len(p) + 1, q[Len(p) + 1] = n + 1,
           \A i \in 1..Len(p) : q[i] = p[i],
           InOrder(g, p, n)
    PROVE  InOrder(g, q, n + 1)
<1>1. ASSUME NEW i \in 1..Len(q) PROVE q[i] = Len(g) + i
  <2>1. CASE i = Len(p) + 1 BY <2>1 DEF InOrder
  <2>2. CASE i \in 1..Len(p) BY <2>2 DEF InOrder
  <2> QED BY <2>1, <2>2
<1> QED BY <1>1 DEF InOrder

LEMMA MoveLength ==
    ASSUME NEW g, NEW p, NEW h, NEW q, NEW n \in Nat,
           Len(g) \in Nat, Len(p) \in Nat, Len(g) + Len(p) = n,
           Len(h) = Len(g) + 1, Len(q) = Len(p) - 1
    PROVE  Len(h) + Len(q) = n
OBVIOUS

LEMMA MovePointwise ==
    ASSUME NEW g, NEW p, NEW h, NEW q, NEW n \in Nat,
           Len(g) \in Nat, Len(p) \in Nat, Len(p) > 0,
           Len(h) = Len(g) + 1, h[Len(g) + 1] = p[1],
           \A i \in 1..Len(g) : h[i] = g[i],
           Len(q) = Len(p) - 1, \A i \in 1..Len(q) : q[i] = p[i + 1],
           Len(h) + Len(q) = n,
           InOrder(g, p, n)
    PROVE  InOrder(h, q, n)
<1>1. ASSUME NEW i \in 1..Len(h) PROVE h[i] = i
  <2>1. CASE i = Len(g) + 1 BY <2>1 DEF InOrder
  <2>2. CASE i \in 1..Len(g) BY <2>2 DEF InOrder
  <2> QED BY <2>1, <2>2
<1>2. ASSUME NEW i \in 1..Len(q) PROVE q[i] = Len(h) + i
  <2>1. i + 1 \in 1..Len(p) OBVIOUS
  <2>2. q[i] = Len(g) + (i + 1) BY <2>1 DEF InOrder
  <2>3. Len(g) + (i + 1) = Len(h) + i OBVIOUS
  <2> QED BY <2>2, <2>3
<1> QED BY <1>1, <1>2, Zenon DEF InOrder

LEMMA AddUnit ==
    ASSUME NEW g \in Seq(Nat), NEW p \in Seq(Nat), NEW n \in Nat, InOrder(g, p, n)
    PROVE  InOrder(g, Append(p, n + 1), n + 1)
<1> DEFINE q == Append(p, n + 1)
<1>1. Len(g) \in Nat /\ Len(p) \in Nat /\ Len(q) = Len(p) + 1
  OBVIOUS
<1>2. q[Len(p) + 1] = n + 1 /\ \A i \in 1..Len(p) : q[i] = p[i]
  OBVIOUS
<1> QED BY <1>1, <1>2, AddPointwise, Zenon

LEMMA MoveUnit ==
    ASSUME NEW g \in Seq(Nat), NEW p \in Seq(Nat), NEW n \in Nat,
           InOrder(g, p, n), p # <<>>
    PROVE  InOrder(Append(g, Head(p)), Tail(p), n)
<1> DEFINE h == Append(g, Head(p))
           q == Tail(p)
<1>1. /\ Len(g) \in Nat /\ Len(p) \in Nat /\ Len(p) > 0
      /\ Len(h) = Len(g) + 1 /\ Len(q) = Len(p) - 1
  OBVIOUS
<1>2. h[Len(g) + 1] = p[1] /\ \A i \in 1..Len(g) : h[i] = g[i]
  OBVIOUS
<1>3. \A i \in 1..Len(q) : q[i] = p[i + 1]
  OBVIOUS
<1>4. Len(h) + Len(q) = n
  <2>1. Len(g) + Len(p) = n BY Zenon DEF InOrder
  <2> QED BY <1>1, <2>1, MoveLength, Zenon
<1> QED BY <1>1, <1>2, <1>3, <1>4, MovePointwise, Zenon

LEMMA TunnelInitOK == TunnelInit => TunnelInv
<1> SUFFICES ASSUME TunnelInit PROVE TunnelInv
  OBVIOUS
<1>1. eof \in [Dirs -> BOOLEAN] /\ reset \subseteq Dirs BY Zenon DEF TunnelInit
<1> QED
  BY <1>1, SMT DEF TunnelInit, TunnelInv, TunnelTypeOK, StreamOK, InOrder, EndedOK, Dirs

LEMMA WriteUnitOK ==
    ASSUME TunnelInv, NEW d \in Dirs, WriteUnit(d) PROVE TunnelInv'
<1> USE DEF TunnelInv, TunnelTypeOK, WriteUnit
<1>1. TunnelTypeOK' OBVIOUS
<1>2. /\ pending'[d] = Append(pending[d], sent[d] + 1) /\ sent'[d] = sent[d] + 1
      /\ \A c \in Dirs \ {d} : pending'[c] = pending[c] /\ sent'[c] = sent[c]
  OBVIOUS
<1>3. StreamOK(d)'
  BY <1>2, AddUnit DEF StreamOK
<1>4. \A c \in Dirs \ {d} : StreamOK(c)'
  BY <1>2 DEF StreamOK
<1>5. \A c \in Dirs : EndedOK(c)'
  BY <1>2, Zenon DEF EndedOK
<1> QED BY <1>1, <1>3, <1>4, <1>5

LEMMA CopyStepOK ==
    ASSUME TunnelInv, NEW d \in Dirs, CopyStep(d) PROVE TunnelInv'
<1> USE DEF TunnelInv, TunnelTypeOK
<1>1. CASE CopyUnit(d)
  <2>1. TunnelTypeOK' BY <1>1 DEF CopyUnit
  <2>2. /\ got'[d] = Append(got[d], Head(pending[d])) /\ pending'[d] = Tail(pending[d])
        /\ \A c \in Dirs \ {d} : got'[c] = got[c] /\ pending'[c] = pending[c]
    BY <1>1 DEF CopyUnit
  <2>3. StreamOK(d)'
    BY <1>1, <2>2, MoveUnit DEF CopyUnit, StreamOK
  <2>4. \A c \in Dirs \ {d} : StreamOK(c)'
    BY <1>1, <2>2 DEF CopyUnit, StreamOK
  <2>5. \A c \in Dirs : EndedOK(c)'
    BY <1>1, <2>2, Zenon DEF CopyUnit, EndedOK
  <2> QED BY <2>1, <2>3, <2>4, <2>5
<1>2. CASE CopyEnds(d)
  BY <1>2 DEF CopyEnds, AtEOF, StreamOK, EndedOK, ends
<1>3. CASE CopyFails(d)
  BY <1>3 DEF CopyFails, StreamOK, EndedOK, ends
<1>4. CASE CopyBreaks(d)
  BY <1>4 DEF CopyBreaks, StreamOK, EndedOK, ends
<1> QED BY <1>1, <1>2, <1>3, <1>4 DEF CopyStep

LEMMA SenderClosesOK ==
    ASSUME TunnelInv, NEW d \in Dirs, SenderCloses(d) PROVE TunnelInv'
<1>1. eof' \in [Dirs -> BOOLEAN] /\ \A c \in Dirs : eof[c] => eof'[c]
  BY Zenon DEF SenderCloses, TunnelInv, TunnelTypeOK
<1>2. \A c \in Dirs : Other(c) \in Dirs BY DEF Dirs, Other
<1>3. reset' \subseteq Dirs /\ (reset # {} => reset' # {})
  BY Zenon DEF SenderCloses, TunnelInv, TunnelTypeOK
<1> QED BY <1>1, <1>2, <1>3 DEF SenderCloses, TunnelInv, TunnelTypeOK, StreamOK, EndedOK

(* The steps that only change the socket and its deadline.                 *)
LEMMA SocketStepOK ==
    ASSUME TunnelInv, sock' \in {"none", "open", "closed"},
           deadline' \in {"none", "armed", "fired"},
           deadline = "fired" => deadline' = "fired",
           UNCHANGED <<ends, ended>>
    PROVE  TunnelInv'
BY DEF TunnelInv, TunnelTypeOK, StreamOK, EndedOK, ends

(* Starting the copies loses nothing of what was read ahead.               *)
LEMMA StartCopiesOK ==
    ASSUME TunnelInv, NEW d \in Dirs, NEW n, StartCopies(d, n)
    PROVE  UNCHANGED <<ends, ended>>
BY DEF TunnelInv, TunnelTypeOK, StartCopies, ThroughReader, ends

-----------------------------------------------------------------------------
(* The queue between the client and the session's reader.                  *)

queue == <<input, nsent, kind, owed, cur>>

\* Where the handler goes when it neither reads nor is sent anything.
Moves ==
    \/ pc' \in {pc, "closed"}
    \/ pc = "handshake" /\ pc' = "read"
    \/ pc = "dial" /\ pc' = "tunnel"
    \/ pc = "target" /\ pc' = "forward"
    \/ pc = "target" /\ pc' = "wsDial" /\ kind[cur] = "upgrade"
    \/ pc = "forward" /\ pc' = "upload"
    \/ pc = "upload" /\ pc' = "await" /\ ~BodyLeft
    \/ pc = "await" /\ pc' = "relay"
    \/ pc = "relay" /\ pc' = "read"
    \/ pc = "wsDial" /\ pc' = "wsSend"
    \/ pc = "wsSend" /\ pc' = "wsAwait"
    \/ pc = "wsAwait" /\ pc' \in {"relay", "switch"}
    \/ pc = "switch" /\ pc' = "tunnel"

QueueStep ==
    \/ \E k \in Kinds, n \in 0..MaxBody : SendHead(k, n)
    \/ SendBody \/ ReadRequest \/ UploadUnit

LEMMA OtherMoves ==
    ASSUME [Next]_vars, ~QueueStep
    PROVE  /\ UNCHANGED queue /\ Moves
           /\ pc = "dial" => pc' # "dial" \/ deadline' = deadline
<1> USE DEF queue, Moves, client, exchange, tunnelVars
<1>1. CASE Handshake \/ ClientWrites \/ ServerWrites \/ ClientLeaves \/ ServerLeaves \/ Expire
  BY <1>1 DEF Handshake, ClientWrites, ServerWrites, ClientLeaves, ServerLeaves, Expire,
     WriteUnit, SenderCloses
<1>2. CASE HandshakeAborted \/ ReadRequestFails \/ Target \/ UploadDone \/ UploadFails
  BY <1>2 DEF HandshakeAborted, ReadRequestFails, Target, UploadDone, UploadFails,
     WriteStatusAndReturn, CloseClient
<1>3. CASE RelayDone \/ WsSwitch \/ WsSwitchFails \/ TunnelEnds \/ \E d \in Dirs : Copying(d)
  BY <1>3 DEF RelayDone, WsSwitch, WsSwitchFails, TunnelEnds, Copying, CloseClient
<1>4. CASE Forward \/ RoundTripFails \/ Respond \/ RespondInterim \/ RelayUnit \/ RelayFails
  BY <1>4 DEF Forward, RoundTripFails, Respond, RespondInterim, RelayUnit, RelayFails, BeginRelay,
     WriteStatusAndReturn, EndOnError, CloseClient
<1>5. CASE WsDial \/ WsFails \/ WsSend \/ WsSendFails \/ WsRejected \/ WsAccepted \/ Dial
  BY <1>5 DEF WsDial, WsFails, WsSend, WsSendFails, WsRejected, WsAccepted, Dial,
     BeginRelay, WriteStatusAndReturn, CloseClient
<1>6. CASE UNCHANGED vars
  BY <1>6 DEF vars
<1> QED
  BY <1>1, <1>2, <1>3, <1>4, <1>5, <1>6
     DEF Next, ClientStep, HandlerStep, UpstreamStep, Terminated, QueueStep

LEMMA QueueInit == Init => QueueInv
BY SessionAssumption
   DEF Init, QueueInv, ControlOK, TokensOK, Tokens, DrainedOK, Reqs, Kinds, PCs, InHand, Drained

(* Moving on leaves the queue alone; a body is over when it should be.     *)
LEMMA QueueOther ==
    ASSUME QueueInv, UNCHANGED queue, Moves PROVE QueueInv'
<1>1. ControlOK' /\ input' \in Seq(Tokens)
  BY DEF QueueInv, ControlOK, queue, Moves, PCs, InHand
<1>2. TokensOK'
  BY Zenon DEF QueueInv, TokensOK, queue
<1>3. BodyLeft' = BodyLeft
  BY Zenon DEF BodyLeft, queue
<1>4. DrainedOK'
  <2>1. ASSUME cur = 0 \/ kind[cur] = "upgrade" PROVE ~BodyLeft
    <3>1. TokensOK /\ cur \in 0..nsent /\ DOMAIN input = 1..Len(input) BY DEF QueueInv, ControlOK
    <3>2. ASSUME NEW i \in DOMAIN input, input[i] = [req |-> cur, part |-> "body"] PROVE FALSE
      <4>1. input[i] \in Tokens /\ kind[cur] = "plain"
        BY <3>1, <3>2 DEF TokensOK
      <4>2. cur > 0 BY <3>2, <4>1, SessionAssumption DEF Tokens, Reqs
      <4> QED BY <2>1, <4>1, <4>2
    <3>3. ASSUME nsent = cur, owed > 0 PROVE FALSE
      BY <2>1, <3>1, <3>3 DEF TokensOK
    <3> QED BY <3>2, <3>3 DEF BodyLeft
  <2> QED BY <1>3, <2>1 DEF QueueInv, ControlOK, DrainedOK, Drained, Moves, PCs, InHand
<1> QED BY <1>1, <1>2, <1>4 DEF QueueInv

(* A head is sent.                                                         *)
LEMMA SendHeadOK ==
    ASSUME QueueInv, NEW k \in Kinds, NEW n \in 0..MaxBody, SendHead(k, n)
    PROVE  QueueInv'
<1> DEFINE t == [req |-> nsent + 1, part |-> "head"]
<1>1. /\ nsent \in Nat /\ nsent + 1 \in Reqs /\ cur \in 0..nsent /\ MaxReqs \in Nat
      /\ nsent' = nsent + 1 /\ owed' = n /\ cur' = cur /\ pc' = pc /\ owed = 0
      /\ kind' \in [Reqs -> Kinds] /\ kind'[nsent + 1] = k
      /\ \A r \in Reqs \ {nsent + 1} : kind'[r] = kind[r]
      /\ k # "plain" => n = 0
      /\ pc \in PCs
  BY SessionAssumption DEF SendHead, QueueInv, ControlOK, Reqs, exchange
<1>2. /\ t \in Tokens /\ input' \in Seq(Tokens)
      /\ Len(input) \in Nat /\ Len(input') = Len(input) + 1
      /\ input'[Len(input) + 1] = t
      /\ \A i \in 1..Len(input) : input'[i] = input[i]
  BY <1>1 DEF SendHead, QueueInv, Tokens
<1>3. ControlOK'
  BY <1>1 DEF QueueInv, ControlOK, Reqs, InHand
<1>4. TokensOK'
  <2>1. TokensOK BY DEF QueueInv
  <2>2. \A i \in 1..Len(input') : i \in 1..Len(input) \/ i = Len(input) + 1
    BY <1>2
  <2>3. \A i \in 1..Len(input') : input'[i] \in Tokens
    BY <1>2, <2>1, <2>2 DEF TokensOK
  <2>4. \A i \in 1..Len(input') :
          /\ input'[i].req \in cur'..nsent'
          /\ input'[i].req = cur' => input'[i].part = "body"
          /\ input'[i].part = "body" => kind'[input'[i].req] = "plain"
    BY <1>1, <1>2, <2>1, <2>2, SMTT(20) DEF TokensOK, Tokens, Reqs
  <2>5. \A i, j \in 1..Len(input') : i < j =>
          /\ input'[i].req <= input'[j].req
          /\ input'[j].part = "head" => input'[i].req < input'[j].req
    <3> SUFFICES ASSUME NEW i \in 1..Len(input'), NEW j \in 1..Len(input'), i < j
                 PROVE  /\ input'[i].req <= input'[j].req
                        /\ input'[j].part = "head" => input'[i].req < input'[j].req
      OBVIOUS
    <3>1. i \in 1..Len(input) BY <1>2
    <3>2. CASE j \in 1..Len(input) BY <1>2, <2>1, <3>1, <3>2 DEF TokensOK
    <3>3. CASE j = Len(input) + 1 BY <1>1, <1>2, <2>1, <3>1, <3>3 DEF TokensOK
    <3> QED BY <2>2, <3>2, <3>3
  <2>6. \A r \in (cur' + 1)..nsent' :
          \E i \in 1..Len(input') : input'[i] = [req |-> r, part |-> "head"]
    <3> SUFFICES ASSUME NEW r \in (cur + 1)..(nsent + 1)
                 PROVE  \E i \in 1..Len(input') : input'[i] = [req |-> r, part |-> "head"]
      BY <1>1
    <3>1. CASE r = nsent + 1
      <4>1. Len(input) + 1 \in 1..Len(input') BY <1>2
      <4> QED BY <1>2, <3>1, <4>1
    <3>2. CASE r # nsent + 1
      <4>1. r \in (cur + 1)..nsent BY <1>1, <3>2
      <4>2. PICK i \in 1..Len(input) : input[i] = [req |-> r, part |-> "head"]
        BY <2>1, <4>1 DEF TokensOK
      <4>3. i \in 1..Len(input') BY <1>2
      <4> QED BY <1>2, <4>2, <4>3
    <3> QED BY <3>1, <3>2
  <2>7. Len(input') \in Nat /\ (owed' > 0 => nsent' > 0 /\ kind'[nsent'] = "plain")
    BY <1>1, <1>2
  <2> QED BY <1>1, <1>2, <2>3, <2>4, <2>5, <2>6, <2>7, Zenon DEF TokensOK
<1>5. DrainedOK'
  BY <1>1, <1>2 DEF QueueInv, DrainedOK, BodyLeft
<1> QED BY <1>2, <1>3, <1>4, <1>5 DEF QueueInv

(* A unit of its body is sent.                                             *)
LEMMA SendBodyOK == ASSUME QueueInv, SendBody PROVE QueueInv'
<1> DEFINE t == [req |-> nsent, part |-> "body"]
<1>1. /\ nsent \in Reqs /\ kind[nsent] = "plain" /\ owed \in 1..MaxBody /\ MaxBody \in Nat
      /\ owed' = owed - 1 /\ UNCHANGED <<nsent, cur, pc, kind>>
      /\ cur \in 0..nsent
  BY SessionAssumption DEF SendBody, QueueInv, ControlOK, TokensOK, Reqs
<1>2. /\ t \in Tokens /\ input' \in Seq(Tokens)
      /\ Len(input) \in Nat /\ Len(input') = Len(input) + 1
      /\ input'[Len(input) + 1] = t
      /\ \A i \in 1..Len(input) : input'[i] = input[i]
  BY <1>1 DEF SendBody, QueueInv, Tokens
<1>3. ControlOK'
  BY <1>1 DEF QueueInv, ControlOK
<1>4. TokensOK'
  <2>1. TokensOK BY DEF QueueInv
  <2>2. \A i \in 1..Len(input') : i \in 1..Len(input) \/ i = Len(input) + 1
    BY <1>2
  <2>3. \A i \in 1..Len(input') : input'[i] \in Tokens
    BY <1>2, <2>1, <2>2 DEF TokensOK
  <2>4. \A i \in 1..Len(input') :
          /\ input'[i].req \in cur'..nsent'
          /\ input'[i].req = cur' => input'[i].part = "body"
          /\ input'[i].part = "body" => kind'[input'[i].req] = "plain"
    BY <1>1, <1>2, <2>1, <2>2 DEF TokensOK, Tokens, Reqs
  <2>5. \A i, j \in 1..Len(input') : i < j =>
          /\ input'[i].req <= input'[j].req
          /\ input'[j].part = "head" => input'[i].req < input'[j].req
    BY <1>1, <1>2, <2>1, <2>2 DEF TokensOK
  <2>6. \A r \in (cur' + 1)..nsent' :
          \E i \in 1..Len(input') : input'[i] = [req |-> r, part |-> "head"]
    BY <1>1, <1>2, <2>1 DEF TokensOK
  <2>7. Len(input') \in Nat /\ (owed' > 0 => nsent' > 0 /\ kind'[nsent'] = "plain")
    BY <1>1, <1>2 DEF Reqs
  <2> QED BY <1>1, <1>2, <2>3, <2>4, <2>5, <2>6, <2>7, Zenon DEF TokensOK
<1>5. DrainedOK'
  BY <1>1, <1>2 DEF QueueInv, DrainedOK, BodyLeft
<1> QED BY <1>2, <1>3, <1>4, <1>5 DEF QueueInv

(* When nothing of a body is left, what comes next is the next head.       *)
LEMMA NextIsHead ==
    ASSUME QueueInv, ~BodyLeft, input # <<>>
    PROVE  Head(input) = [req |-> cur + 1, part |-> "head"] /\ cur + 1 <= nsent
<1>1. Head(input) = input[1] /\ Len(input) \in Nat /\ Len(input) > 0
      /\ DOMAIN input = 1..Len(input)
  BY DEF QueueInv
<1>2. TokensOK /\ cur \in Nat /\ nsent \in Nat BY DEF QueueInv, ControlOK
<1>3. 1 \in 1..Len(input) BY <1>1
<1>4. input[1] \in Tokens /\ input[1].req \in cur..nsent
      /\ (input[1].req = cur => input[1].part = "body")
  BY <1>2, <1>3 DEF TokensOK
<1>5. input[1].req # cur
  <2>1. SUFFICES ASSUME input[1].req = cur PROVE FALSE
    OBVIOUS
  <2>2. input[1] = [req |-> cur, part |-> "body"]
    BY <1>4, <2>1 DEF Tokens
  <2> QED BY <1>1, <1>3, <2>2 DEF BodyLeft
<1>6. cur + 1 \in (cur + 1)..nsent BY <1>2, <1>4, <1>5
<1>7. PICK j \in 1..Len(input) : input[j] = [req |-> cur + 1, part |-> "head"]
  BY <1>2, <1>6 DEF TokensOK
<1>8. j = 1
  <2>1. SUFFICES ASSUME 1 < j PROVE FALSE
    BY <1>7
  <2>2. input[1].req < cur + 1 BY <1>2, <1>3, <1>7, <2>1 DEF TokensOK
  <2> QED BY <1>2, <1>4, <1>5, <2>2
<1> QED BY <1>1, <1>6, <1>7, <1>8

(* The tokens behind the first one, seen by a reader that stands at c.     *)
LEMMA TailOK ==
    ASSUME QueueInv, input # <<>>, input' = Tail(input),
           UNCHANGED <<nsent, kind, owed>>, cur' \in {cur, cur + 1},
           cur' = cur => input[1].part = "body",
           cur' = cur + 1 => input[1] = [req |-> cur + 1, part |-> "head"]
    PROVE  TokensOK' /\ input' \in Seq(Tokens)
<1>1. /\ input' \in Seq(Tokens) /\ Len(input) \in Nat /\ Len(input) > 0
      /\ Len(input') = Len(input) - 1
      /\ \A i \in 1..Len(input') : input'[i] = input[i + 1]
  BY DEF QueueInv
<1>2. TokensOK /\ cur \in Nat /\ nsent \in Nat BY DEF QueueInv, ControlOK
<1>3. /\ 1 \in 1..Len(input)
      /\ \A i \in 1..Len(input') : i + 1 \in 1..Len(input) /\ 1 < i + 1
  BY <1>1
<1>4. \A i \in 1..Len(input') : input'[i] \in Tokens
  BY <1>1, <1>2, <1>3 DEF TokensOK
<1>5. ASSUME NEW i \in 1..Len(input')
      PROVE  /\ input'[i].req \in cur'..nsent'
             /\ input'[i].req = cur' => input'[i].part = "body"
             /\ input'[i].part = "body" => kind'[input'[i].req] = "plain"
  <2> DEFINE t == input[i + 1]
  <2>1. /\ input'[i] = t /\ t \in Tokens /\ t.req \in cur..nsent
        /\ t.req = cur => t.part = "body"
        /\ t.part = "body" => kind[t.req] = "plain"
        /\ input[1].req <= t.req /\ (t.part = "head" => input[1].req < t.req)
    BY <1>1, <1>2, <1>3, <1>5 DEF TokensOK
  <2> HIDE DEF t
  <2>2. CASE cur' = cur BY <2>1, <2>2
  <2>3. CASE cur' = cur + 1 BY <1>2, <2>1, <2>3 DEF Tokens
  <2> QED BY <2>2, <2>3
<1>6. ASSUME NEW i \in 1..Len(input'), NEW j \in 1..Len(input'), i < j
      PROVE  /\ input'[i].req <= input'[j].req
             /\ input'[j].part = "head" => input'[i].req < input'[j].req
  <2>1. i + 1 \in 1..Len(input) /\ j + 1 \in 1..Len(input) /\ i + 1 < j + 1
    BY <1>1, <1>6
  <2>2. /\ input[i + 1].req <= input[j + 1].req
        /\ input[j + 1].part = "head" => input[i + 1].req < input[j + 1].req
    BY <1>2, <2>1 DEF TokensOK
  <2> QED BY <1>1, <2>2, Zenon
<1>7. ASSUME NEW r \in (cur' + 1)..nsent'
      PROVE  \E i \in 1..Len(input') : input'[i] = [req |-> r, part |-> "head"]
  <2>1. r \in (cur + 1)..nsent /\ r \in Nat /\ (cur' = cur + 1 => r # cur + 1)
    <3>1. CASE cur' = cur BY <1>2, <1>7, <3>1
    <3>2. CASE cur' = cur + 1 BY <1>2, <1>7, <3>2
    <3> QED BY <3>1, <3>2
  <2>2. PICK j \in 1..Len(input) : input[j] = [req |-> r, part |-> "head"]
    BY <1>2, <2>1 DEF TokensOK
  <2>3. j # 1 BY <2>1, <2>2
  <2>4. j - 1 \in 1..Len(input') /\ (j - 1) + 1 = j BY <1>1, <2>3
  <2>5. input'[j - 1] = [req |-> r, part |-> "head"] BY <1>1, <2>2, <2>4
  <2> QED BY <2>4, <2>5
<1>8. Len(input') \in Nat /\ (owed' > 0 => nsent' > 0 /\ kind'[nsent'] = "plain")
  BY <1>1, <1>2 DEF TokensOK
<1> QED BY <1>1, <1>4, <1>5, <1>6, <1>7, <1>8, Zenon DEF TokensOK

(* The session reads a head.                                               *)
LEMMA ReadRequestOK == ASSUME QueueInv, ReadRequest PROVE QueueInv' /\ cur' = cur + 1
<1>1. ~BodyLeft BY DEF ReadRequest, QueueInv, DrainedOK, Drained
<1>2. /\ input[1] = [req |-> cur + 1, part |-> "head"] /\ cur + 1 <= nsent
      /\ Head(input) = [req |-> cur + 1, part |-> "head"]
  <2>1. input # <<>> /\ Head(input) = input[1] BY DEF ReadRequest
  <2> QED BY <1>1, <2>1, NextIsHead
<1>3. cur' = cur + 1 /\ pc' = "target" /\ UNCHANGED <<nsent, kind, owed>>
  BY <1>2 DEF ReadRequest
<1>4. TokensOK' /\ input' \in Seq(Tokens)
  <2>1. input # <<>> /\ input' = Tail(input) BY DEF ReadRequest
  <2>2. cur \in Nat BY DEF QueueInv, ControlOK
  <2> QED BY <1>2, <1>3, <2>1, <2>2, TailOK
<1>5. ControlOK' /\ DrainedOK'
  BY <1>2, <1>3 DEF QueueInv, ControlOK, DrainedOK, Drained, PCs, InHand
<1> QED BY <1>3, <1>4, <1>5 DEF QueueInv

(* A unit of the body is forwarded.                                        *)
LEMMA UploadUnitOK == ASSUME QueueInv, UploadUnit PROVE QueueInv'
<1>1. /\ pc = "upload" /\ input # <<>> /\ input' = Tail(input)
      /\ input[1] = [req |-> cur, part |-> "body"]
      /\ UNCHANGED <<pc, cur, nsent, kind, owed>>
  BY DEF UploadUnit
<1>2. cur \in Nat BY DEF QueueInv, ControlOK
<1>3. TokensOK' /\ input' \in Seq(Tokens) BY <1>1, <1>2, TailOK
<1>4. ControlOK' /\ DrainedOK'
  BY <1>1 DEF QueueInv, ControlOK, DrainedOK, Drained
<1> QED BY <1>3, <1>4 DEF QueueInv

LEMMA QueueInd == ASSUME QueueInv, [Next]_vars PROVE QueueInv'
BY OtherMoves, QueueOther, SendHeadOK, SendBodyOK, ReadRequestOK, UploadUnitOK DEF QueueStep

LEMMA DialInd == ASSUME QueueInv, DialOK, [Next]_vars PROVE DialOK'
<1>1. CASE QueueStep
  BY <1>1 DEF QueueStep, SendHead, SendBody, ReadRequest, UploadUnit, tunnelVars, DialOK
<1>2. CASE ~QueueStep
  BY <1>2, OtherMoves DEF Moves, DialOK
<1> QED BY <1>1, <1>2

LEMMA TunnelInd ==
    ASSUME TunnelInv, DialOK, [Next]_vars PROVE TunnelInv'
<1> USE DEF tunnelVars
<1>0. sock \in {"none", "open", "closed"} /\ deadline \in {"none", "armed", "fired"}
  BY DEF TunnelInv, TunnelTypeOK
<1>1. CASE ClientStep
  <2>1. \A d \in Dirs : (WriteUnit(d) \/ SenderCloses(d)) => TunnelInv'
    BY WriteUnitOK, SenderClosesOK
  <2>2. "up" \in Dirs /\ "down" \in Dirs BY DEF Dirs
  <2>3. CASE Expire BY <1>0, <2>3, SocketStepOK DEF Expire, DeadlineFires
  <2> QED
    BY <1>0, <1>1, <2>1, <2>2, <2>3, SocketStepOK
       DEF ClientStep, SendHead, Handshake, SendBody, ClientWrites, ServerWrites,
           ClientLeaves, ServerLeaves
<1>2. CASE \E d \in Dirs : Copying(d)
  BY <1>2, CopyStepOK DEF Copying
<1>3. CASE UNCHANGED vars
  BY <1>0, <1>3, SocketStepOK DEF vars
<1>4. ASSUME /\ sock' \in {"none", "open", "closed"} /\ deadline' = deadline
             /\ \/ UNCHANGED <<ends, ended>>
                \/ \E d \in Dirs : \E n \in 0..Len(pending[d]) : StartCopies(d, n)
      PROVE  TunnelInv'
  BY <1>0, <1>4, SocketStepOK, StartCopiesOK
<1>5. CASE HandlerStep
  BY <1>0, <1>2, <1>4, <1>5
     DEF HandlerStep, HandshakeAborted, ReadRequest, ReadRequestFails, Target, UploadUnit,
         UploadDone, UploadFails, RelayDone, WsSwitch, WsSwitchFails, TunnelEnds,
         CloseSock, CloseBoth, Dirs
<1>6. CASE Dial
  <2>1. sock' \in {"none", "open", "closed"} BY <1>0, <1>6 DEF Dial
  <2>2. deadline' \in {"none", "armed", "fired"} /\ deadline # "fired"
    BY <1>6 DEF Dial, DialOK
  <2>3. UNCHANGED <<ends, ended>>
    BY <1>6, StartCopiesOK DEF Dial, Dirs
  <2> QED BY <2>1, <2>2, <2>3, SocketStepOK
<1>7. CASE UpstreamStep /\ ~Dial
  BY <1>0, <1>4, <1>7
     DEF UpstreamStep, Forward, RoundTripFails, Respond, RespondInterim, RelayUnit,
         RelayFails, WsDial, WsFails, WsSend, WsSendFails, WsRejected, WsAccepted,
         CloseSock, CloseUpgrade
<1> QED BY <1>1, <1>3, <1>5, <1>6, <1>7 DEF Next, Terminated

-----------------------------------------------------------------------------
(* What the client is told and makes of it.                                *)

LEMMA SeenEffect ==
    ASSUME NEW v \in Views, view \in [Reqs -> Views], cur \in Reqs
    PROVE  /\ Seen(v) \in [Reqs -> Views]
           /\ \A i \in Reqs \ {cur} : Seen(v)[i] = view[i]
           /\ Seen(v)[cur] \in {view[cur], v}
BY DEF Seen

LEMMA CutEffect ==
    ASSUME NEW w \in [Reqs -> Views], Cut(w)
    PROVE  /\ view' \in [Reqs -> Views]
           /\ \A i \in Reqs : view'[i] = "complete" =>
                 w[i] = "complete" \/ framing[i] = "eof" \/ body[i] = size[i]
           /\ \A i \in Reqs : w[i] = "none" => view'[i] = "none"
BY DEF Cut, Views

\* A request that the session has not failed keeps what it has been told.
Kept(i) ==
    /\ heads'[i] = heads[i] /\ answer'[i] = answer[i] /\ framing'[i] = framing[i]
    /\ view'[i] = "complete" =>
          view[i] = "complete" \/ framing[i] = "eof" \/ body[i] = size[i]
    /\ view[i] = "none" => view'[i] = "none"

LEMMA StatusEffect ==
    ASSUME ExchangeTypes, cur \in Reqs, heads[cur] = 0, WriteStatusAndReturn
    PROVE  /\ pc' = "closed" /\ answer'[cur] = "status"
           /\ heads' \in [Reqs -> 0..1]
           /\ answer' \in [Reqs -> {"none", "upstream", "status"}]
           /\ framing' \in [Reqs -> Framings] /\ view' \in [Reqs -> Views]
           /\ \A i \in Reqs \ {cur} : Kept(i)
<1> DEFINE w == Seen("complete")
<1>1. "complete" \in Views BY DEF Views
<1>2. /\ w \in [Reqs -> Views] /\ \A i \in Reqs \ {cur} : w[i] = view[i]
  BY <1>1, SeenEffect DEF ExchangeTypes
<1>3. Cut(w) /\ pc' = "closed" BY DEF WriteStatusAndReturn, CloseClient
<1> HIDE DEF w
<1>4. /\ view' \in [Reqs -> Views]
      /\ \A i \in Reqs : view'[i] = "complete" =>
            w[i] = "complete" \/ framing[i] = "eof" \/ body[i] = size[i]
      /\ \A i \in Reqs : w[i] = "none" => view'[i] = "none"
  BY <1>2, <1>3, CutEffect
<1>5. /\ heads' = [heads EXCEPT ![cur] = heads[cur] + 1]
      /\ answer' = [answer EXCEPT ![cur] = "status"]
      /\ framing' = [framing EXCEPT ![cur] = "length"]
  BY DEF WriteStatusAndReturn
<1> QED BY <1>2, <1>3, <1>4, <1>5 DEF ExchangeTypes, Framings, Told, Kept

LEMMA RelayEffect ==
    ASSUME ExchangeTypes, cur \in Reqs, heads[cur] = 0,
           NEW f \in Framings, NEW n \in 0..MaxBody, BeginRelay(f, n)
    PROVE  /\ pc' = "relay" /\ heads'[cur] = 1 /\ answer'[cur] = "upstream"
           /\ size'[cur] = n /\ view'[cur] \in {view[cur], "reading"}
           /\ heads' \in [Reqs -> 0..1]
           /\ answer' \in [Reqs -> {"none", "upstream", "status"}]
           /\ framing' \in [Reqs -> Framings] /\ view' \in [Reqs -> Views]
           /\ size' \in [Reqs -> -1..MaxBody]
           /\ \A i \in Reqs \ {cur} : Kept(i) /\ size'[i] = size[i]
<1>1. "reading" \in Views BY DEF Views
<1>2. /\ view' \in [Reqs -> Views] /\ \A i \in Reqs \ {cur} : view'[i] = view[i]
      /\ view'[cur] \in {view[cur], "reading"}
  BY <1>1, SeenEffect DEF ExchangeTypes, BeginRelay
<1> QED BY <1>2, SessionAssumption DEF BeginRelay, ExchangeTypes, Kept

LEMMA FaultEffect ==
    ASSUME ExchangeTypes, cur \in Reqs, fault' = [fault EXCEPT ![cur] = TRUE]
    PROVE  /\ fault' \in [Reqs -> BOOLEAN] /\ fault'[cur]
           /\ \A i \in Reqs : fault[i] => fault'[i]
BY Zenon DEF ExchangeTypes

-----------------------------------------------------------------------------
(* The exchanges: first the steps that answer nothing.                     *)

LEMMA ExchangeInit == Init => ExchangeInv
<1> SUFFICES ASSUME Init PROVE ExchangeInv
  OBVIOUS
<1>1. fault \in [Reqs -> BOOLEAN] BY Zenon DEF Init
<1>2. SockOK /\ ExchangeTypes
  BY <1>1, SessionAssumption, SMT DEF Init, TunnelInit, SockOK, ExchangeTypes, Framings, Told, Views
<1>3. AnswersOK /\ CompleteIsWhole
  BY SessionAssumption, SMT
     DEF Init, AnswersOK, CompleteIsWhole, Told, Served, Answered, Unanswered, InHand, Reqs
<1> QED BY <1>2, <1>3 DEF ExchangeInv

LEMMA QuietOK ==
    ASSUME QueueInv, ExchangeInv, UNCHANGED exchange, cur' = cur,
           \A r \in Reqs : r <= cur => kind'[r] = kind[r],
           pc' = "relay" <=> pc = "relay",
           pc' = "read" => pc = "read" \/ cur = 0,
           pc' \in InHand => pc \in InHand,
           sock' = "open" => pc' \in {"upload", "await", "relay", "wsSend", "wsAwait", "switch", "tunnel"}
    PROVE  ExchangeInv'
<1> USE DEF ExchangeInv, exchange
<1>1. SockOK' BY DEF SockOK
<1>2. ExchangeTypes' BY DEF ExchangeTypes
<1>3. CompleteIsWhole' BY DEF CompleteIsWhole
<1>4. cur \in Nat BY DEF QueueInv, ControlOK
<1>5. AnswersOK' BY <1>4 DEF AnswersOK, Served, Answered, Unanswered, Reqs
<1> QED BY <1>1, <1>2, <1>3, <1>5

(* Steps between the reading of a request and its response.                *)
LEMMA QuietSteps ==
    ASSUME QueueInv, ExchangeInv,
           \/ HandshakeAborted \/ UploadUnit \/ UploadDone \/ Forward
           \/ WsDial \/ WsSend \/ WsAccepted \/ Dial \/ TunnelEnds \/ Expire
           \/ \E d \in Dirs : Copying(d)
           \/ Target /\ kind[cur] # "badTarget"
    PROVE  ExchangeInv'
<1> USE DEF InHand, client, tunnelVars
<1>1. SockOK BY DEF ExchangeInv
<1>2. CASE HandshakeAborted \/ UploadUnit \/ UploadDone \/ Forward
  <2>1. UNCHANGED <<exchange, cur, kind>>
    BY <1>2 DEF HandshakeAborted, UploadUnit, UploadDone, Forward
  <2> QED BY <1>1, <1>2, <2>1, QuietOK
             DEF SockOK, HandshakeAborted, UploadUnit, UploadDone, Forward
<1>3. CASE WsDial \/ WsSend \/ WsAccepted
  <2>1. UNCHANGED <<exchange, cur, kind>> BY <1>3 DEF WsDial, WsSend, WsAccepted
  <2> QED BY <1>1, <1>3, <2>1, QuietOK DEF SockOK, WsDial, WsSend, WsAccepted
<1>4. CASE Dial \/ TunnelEnds \/ Expire \/ \E d \in Dirs : Copying(d)
  <2>1. UNCHANGED <<exchange, cur, kind>> BY <1>4 DEF Dial, TunnelEnds, Expire, Copying
  <2> QED BY <1>1, <1>4, <2>1, QuietOK
             DEF SockOK, Dial, TunnelEnds, Expire, Copying, CloseBoth, CopyStep,
                 CopyUnit, CopyEnds, CopyFails, CopyBreaks, DeadlineFires
<1>5. CASE Target /\ kind[cur] # "badTarget"
  <2>1. UNCHANGED <<exchange, cur, kind, sock>> /\ pc = "target" /\ pc' \in {"wsDial", "forward"}
    BY <1>5 DEF Target, exchange
  <2> QED BY <1>1, <2>1, QuietOK DEF SockOK
<1> QED BY <1>2, <1>3, <1>4, <1>5

LEMMA ClientExchange ==
    ASSUME QueueInv, ExchangeInv, ClientStep PROVE ExchangeInv'
<1> USE DEF InHand, client, tunnelVars
<1>1. SockOK BY DEF ExchangeInv
<1>2. ASSUME NEW k \in Kinds, NEW n \in 0..MaxBody, SendHead(k, n) PROVE ExchangeInv'
  <2>1. /\ UNCHANGED <<exchange, cur, pc, sock>>
        /\ \A r \in Reqs : r <= cur => kind'[r] = kind[r]
    BY <1>2, SessionAssumption DEF SendHead, QueueInv, ControlOK, Reqs
  <2> QED BY <1>1, <2>1, QuietOK DEF SockOK
<1>3. CASE SendBody \/ ClientWrites \/ ServerWrites \/ ClientLeaves \/ ServerLeaves
  <2>1. UNCHANGED <<exchange, cur, pc, sock, kind>>
    BY <1>3 DEF SendBody, ClientWrites, ServerWrites, ClientLeaves, ServerLeaves,
       WriteUnit, SenderCloses
  <2> QED BY <1>1, <2>1, QuietOK DEF SockOK
<1>4. CASE Handshake
  <2>1. UNCHANGED <<exchange, cur, sock, kind>> /\ pc' \in {"read", "closed"} /\ cur = 0
        /\ pc = "handshake"
    BY <1>4 DEF Handshake, QueueInv, ControlOK
  <2> QED BY <1>1, <2>1, QuietOK DEF SockOK
<1> QED BY <1>2, <1>3, <1>4, QuietSteps DEF ClientStep

LEMMA ReadExchange ==
    ASSUME QueueInv, ExchangeInv, ReadRequest PROVE ExchangeInv'
<1> USE DEF ExchangeInv
<1>1. /\ cur' = cur + 1 /\ cur \in Nat /\ cur + 1 \in Reqs
      /\ pc = "read" /\ pc' = "target" /\ UNCHANGED <<exchange, sock, kind>>
  <2>1. cur' = cur + 1 /\ cur' \in 0..nsent' /\ nsent' \in 0..MaxReqs /\ cur \in Nat
    BY ReadRequestOK DEF QueueInv, ControlOK
  <2> QED BY <2>1, SessionAssumption DEF ReadRequest, tunnelVars, Reqs
<1>2. SockOK' /\ ExchangeTypes' /\ CompleteIsWhole'
  BY <1>1 DEF SockOK, ExchangeTypes, CompleteIsWhole, exchange
<1>3. AnswersOK'
  BY <1>1 DEF AnswersOK, Served, Answered, Unanswered, InHand, exchange, Reqs
<1> QED BY <1>2, <1>3

LEMMA HandIsReq == QueueInv /\ pc \in InHand => cur \in Reqs
BY SessionAssumption DEF QueueInv, ControlOK, Reqs

(* A failure that the client is told of.                                   *)
LEMMA StatusStep ==
    ASSUME QueueInv, ExchangeInv, pc \in InHand \ {"relay"}, WriteStatusAndReturn,
           UNCHANGED <<cur, kind, body>>, sock' # "open",
           size' \in [Reqs -> -1..MaxBody], \A i \in Reqs \ {cur} : size'[i] = size[i],
           fault' \in [Reqs -> BOOLEAN]
    PROVE  ExchangeInv'
<1> USE DEF ExchangeInv
<1>1. cur \in Reqs /\ heads[cur] = 0
  BY HandIsReq DEF AnswersOK, Unanswered
<1>2. /\ pc' = "closed" /\ answer'[cur] = "status"
      /\ heads' \in [Reqs -> 0..1]
      /\ answer' \in [Reqs -> {"none", "upstream", "status"}]
      /\ framing' \in [Reqs -> Framings] /\ view' \in [Reqs -> Views]
      /\ \A i \in Reqs \ {cur} : Kept(i)
  BY <1>1, StatusEffect
<1>3. SockOK' BY DEF SockOK
<1>4. ExchangeTypes' BY <1>2, Zenon DEF ExchangeTypes
<1>5. CompleteIsWhole' BY <1>2 DEF CompleteIsWhole, Kept, Told
<1>6. AnswersOK'
  <2>1. \A i \in Reqs : i < cur => Served(i)'
    BY <1>1, <1>2 DEF AnswersOK, Kept, Served, Answered, Reqs
  <2>2. \A i \in Reqs : i > cur => Unanswered(i)'
    BY <1>1, <1>2 DEF AnswersOK, Kept, Unanswered, Reqs
  <2> QED BY <1>2, <2>1, <2>2 DEF AnswersOK, InHand
<1> QED BY <1>3, <1>4, <1>5, <1>6

LEMMA StatusExchange ==
    ASSUME QueueInv, ExchangeInv,
           \/ Target /\ kind[cur] = "badTarget"
           \/ UploadFails \/ RoundTripFails \/ WsFails
    PROVE  ExchangeInv'
<1>0. cur \in Reqs /\ pc \in InHand \ {"relay"} /\ ExchangeTypes /\ SockOK
  BY HandIsReq DEF ExchangeInv, Target, UploadFails, RoundTripFails, WsFails, InHand
<1> USE DEF client, tunnelVars, ExchangeTypes
<1>1. CASE Target /\ kind[cur] = "badTarget"
  BY <1>0, <1>1, StatusStep DEF Target, SockOK
<1>2. CASE UploadFails \/ RoundTripFails \/ WsFails
  <2>1. /\ fault' = [fault EXCEPT ![cur] = TRUE] /\ WriteStatusAndReturn
        /\ UNCHANGED <<cur, kind, body, size>> /\ CloseSock
    BY <1>2 DEF UploadFails, RoundTripFails, WsFails
  <2>2. sock' # "open" BY <2>1 DEF CloseSock
  <2> QED BY <1>0, <2>1, <2>2, FaultEffect, StatusStep
<1> QED BY <1>1, <1>2

(* A response that begins.                                                 *)
LEMMA RelayStep ==
    ASSUME QueueInv, ExchangeInv, pc \in {"await", "wsAwait"},
           NEW f \in Framings, NEW n \in 0..MaxBody, BeginRelay(f, n),
           UNCHANGED <<cur, kind, body, fault, sock>>
    PROVE  ExchangeInv'
<1> USE DEF ExchangeInv
<1>0. cur \in Reqs /\ heads[cur] = 0 /\ body[cur] = 0 /\ view[cur] = "none"
  BY HandIsReq DEF AnswersOK, Unanswered, InHand
<1>1. /\ pc' = "relay" /\ heads'[cur] = 1 /\ answer'[cur] = "upstream"
      /\ size'[cur] = n /\ view'[cur] \in {view[cur], "reading"}
      /\ heads' \in [Reqs -> 0..1]
      /\ answer' \in [Reqs -> {"none", "upstream", "status"}]
      /\ framing' \in [Reqs -> Framings] /\ view' \in [Reqs -> Views]
      /\ size' \in [Reqs -> -1..MaxBody]
      /\ \A i \in Reqs \ {cur} : Kept(i) /\ size'[i] = size[i]
  BY <1>0, RelayEffect
<1>2. SockOK' BY <1>1 DEF SockOK
<1>3. ExchangeTypes' BY <1>1, Zenon DEF ExchangeTypes
<1>4. CompleteIsWhole' BY <1>0, <1>1 DEF CompleteIsWhole, Kept, Told
<1>5. AnswersOK'
  <2>1. \A i \in Reqs : i < cur => Served(i)'
    BY <1>0, <1>1 DEF AnswersOK, Kept, Served, Answered, Reqs
  <2>2. \A i \in Reqs : i > cur => Unanswered(i)'
    BY <1>0, <1>1 DEF AnswersOK, Kept, Unanswered, Reqs
  <2>3. Answered(cur)' /\ view'[cur] \in {"none", "reading"} /\ body'[cur] <= size'[cur]
    BY <1>0, <1>1 DEF Answered
  <2> QED BY <1>1, <2>1, <2>2, <2>3 DEF AnswersOK
<1> QED BY <1>2, <1>3, <1>4, <1>5

LEMMA RelayExchange ==
    ASSUME QueueInv, ExchangeInv, Respond \/ RespondInterim \/ WsRejected PROVE ExchangeInv'
<1> USE DEF client, tunnelVars
<1>0. \A f \in Framed \cup {"none"}, c \in Codings, bodiless \in BOOLEAN :
        f \in Framings /\ ClientFraming(f, Decoded(c), bodiless) \in Framings
  BY SessionAssumption DEF ClientFraming, Framings, Told
<1>1. CASE WsRejected
  <2>0. 0 \in 0..MaxBody BY SessionAssumption
  <2>1. PICK f \in Framed \cup {"none"}, n \in 0..MaxBody : BeginRelay(f, n)
    BY <1>1, <2>0, Zenon DEF WsRejected
  <2>2. f \in Framings BY <2>1, SessionAssumption DEF Framings, Told
  <2> QED BY <1>1, <2>1, <2>2, RelayStep DEF WsRejected
<1>2. CASE RespondInterim
  <2>1. PICK n \in 0..MaxBody : BeginRelay("none", n)
    BY <1>2 DEF RespondInterim
  <2>2. "none" \in Framings BY DEF Framings
  <2> QED BY <1>2, <2>1, <2>2, RelayStep DEF RespondInterim
<1>3. CASE Respond
  <2>1. PICK f \in Framed, c \in Coded, n \in 0..MaxBody, bodiless \in BOOLEAN :
          \/ /\ BeginRelay(ClientFraming(f, Decoded(c), bodiless), n)
             /\ UNCHANGED sock
          \/ /\ WriteStatusAndReturn
             /\ CloseSock
             /\ size' = [size EXCEPT ![cur] = n]
    BY <1>3 DEF Respond
  <2>2. pc = "await" /\ UNCHANGED <<cur, kind, body, fault>>
    BY <1>3 DEF Respond
  <2>3. ClientFraming(f, Decoded(c), bodiless) \in Framings
    BY <1>0, <2>1, SessionAssumption
  <2>4. CASE BeginRelay(ClientFraming(f, Decoded(c), bodiless), n) /\ UNCHANGED sock
    BY <2>1, <2>2, <2>3, <2>4, RelayStep
  <2>5. CASE /\ WriteStatusAndReturn /\ CloseSock
             /\ size' = [size EXCEPT ![cur] = n]
    <3>1. cur \in Reqs BY <2>2, HandIsReq DEF InHand
    <3>2. /\ size' \in [Reqs -> -1..MaxBody]
          /\ \A i \in Reqs \ {cur} : size'[i] = size[i]
      BY <2>1, <2>5, <3>1, SessionAssumption DEF ExchangeInv, ExchangeTypes
    <3>3. sock' # "open" BY <2>5 DEF CloseSock
    <3>4. fault' \in [Reqs -> BOOLEAN] BY <2>2, Zenon DEF ExchangeInv, ExchangeTypes
    <3> QED BY <2>2, <2>5, <3>2, <3>3, <3>4, StatusStep DEF InHand
  <2> QED BY <2>1, <2>4, <2>5
<1> QED BY <1>1, <1>2, <1>3

(* A session that ends without another word to the client.                 *)
LEMMA EndExchange ==
    ASSUME QueueInv, ExchangeInv,
           ReadRequestFails \/ RelayFails \/ WsSendFails \/ WsSwitchFails
    PROVE  ExchangeInv'
<1> USE DEF ExchangeInv
<1>1. /\ pc' = "closed" /\ Cut(view)
      /\ UNCHANGED <<cur, kind, heads, answer, framing, size, body>>
  BY DEF ReadRequestFails, RelayFails, WsSendFails, WsSwitchFails, EndOnError,
         CloseClient, client
<1>2. sock' # "open"
  BY DEF ReadRequestFails, RelayFails, WsSendFails, WsSwitchFails, CloseUpgrade,
         CloseSock, SockOK, tunnelVars
<1>3. fault' \in [Reqs -> BOOLEAN]
  <2>1. CASE ReadRequestFails BY <2>1, Zenon DEF ReadRequestFails, ExchangeTypes
  <2>2. CASE RelayFails \/ WsSendFails \/ WsSwitchFails
    <3>1. fault' = [fault EXCEPT ![cur] = TRUE]
      BY <2>2 DEF RelayFails, WsSendFails, WsSwitchFails
    <3>2. cur \in Reqs
      BY <2>2, HandIsReq DEF RelayFails, WsSendFails, WsSwitchFails, InHand
    <3> QED BY <3>1, <3>2, FaultEffect
  <2> QED BY <2>1, <2>2
<1>4. /\ view' \in [Reqs -> Views]
      /\ \A i \in Reqs : view'[i] = "complete" =>
            view[i] = "complete" \/ framing[i] = "eof" \/ body[i] = size[i]
      /\ \A i \in Reqs : view[i] = "none" => view'[i] = "none"
  BY <1>1, CutEffect DEF ExchangeTypes
<1>5. SockOK' BY <1>2 DEF SockOK
<1>6. ExchangeTypes' BY <1>1, <1>3, <1>4, Zenon DEF ExchangeTypes
<1>7. CompleteIsWhole' BY <1>1, <1>4 DEF CompleteIsWhole, Told
<1>8. AnswersOK'
  BY <1>1, <1>4 DEF AnswersOK, Served, Answered, Unanswered, InHand
<1> QED BY <1>5, <1>6, <1>7, <1>8

(* A unit of a body is relayed.                                            *)
LEMMA RelayUnitExchange == ASSUME QueueInv, ExchangeInv, RelayUnit PROVE ExchangeInv'
<1> USE DEF ExchangeInv
<1>1. /\ cur \in Reqs /\ cur \in Nat /\ pc = "relay" /\ body[cur] < size[cur]
      /\ body' = [body EXCEPT ![cur] = body[cur] + 1]
      /\ UNCHANGED <<sock, pc, cur, kind, heads, answer, framing, size, view, fault>>
  BY HandIsReq DEF RelayUnit, MoreBody, InHand, tunnelVars, client, QueueInv, ControlOK
<1>2. body' \in [Reqs -> 0..MaxBody] /\ body'[cur] <= size[cur]
      /\ \A i \in Reqs \ {cur} : body'[i] = body[i]
  BY <1>1, SessionAssumption DEF ExchangeTypes
<1>3. SockOK' BY <1>1 DEF SockOK
<1>4. ExchangeTypes' BY <1>1, <1>2, Zenon DEF ExchangeTypes
<1>5. view[cur] \in {"none", "reading"} BY <1>1 DEF AnswersOK
<1>6. CompleteIsWhole' BY <1>1, <1>2, <1>5 DEF CompleteIsWhole
<1>7. AnswersOK'
  BY <1>1, <1>2 DEF AnswersOK, Served, Answered, Unanswered, InHand, Reqs
<1> QED BY <1>3, <1>4, <1>6, <1>7

(* A response is over: the whole body has been relayed.                    *)
LEMMA RelayDoneExchange == ASSUME QueueInv, ExchangeInv, RelayDone PROVE ExchangeInv'
<1> USE DEF ExchangeInv
<1>1. /\ cur \in Reqs /\ cur \in Nat /\ pc = "relay" /\ pc' = "read"
      /\ body[cur] = size[cur] /\ sock' # "open"
      /\ UNCHANGED <<cur, kind, heads, answer, framing, size, body, fault>>
  BY HandIsReq DEF RelayDone, InHand, client, CloseSock, QueueInv, ControlOK
<1>2. view' \in [Reqs -> Views] /\ \A i \in Reqs \ {cur} : view'[i] = view[i]
  <2>1. "complete" \in Views BY DEF Views
  <2> QED BY <1>1, <2>1, SeenEffect DEF RelayDone, ExchangeTypes
<1>3. SockOK' BY <1>1 DEF SockOK
<1>4. ExchangeTypes' BY <1>1, <1>2, Zenon DEF ExchangeTypes
<1>5. CompleteIsWhole'
  <2>1. AnswersOK /\ CompleteIsWhole OBVIOUS
  <2>2. \A i \in 1..cur : i \in Reqs /\ (i < cur \/ i = cur)
    BY <1>1, SessionAssumption DEF Reqs
  <2>3. \A i \in 1..cur : body[i] = size[i]
    BY <1>1, <2>1, <2>2 DEF AnswersOK, Served
  <2> QED BY <1>1, <1>2, <2>1, <2>3 DEF CompleteIsWhole
<1>6. AnswersOK'
  BY <1>1, <1>2 DEF AnswersOK, Served, Answered, Unanswered, InHand, Reqs
<1> QED BY <1>3, <1>4, <1>5, <1>6

(* The 101 is a response without a body.                                   *)
LEMMA SwitchExchange == ASSUME QueueInv, ExchangeInv, WsSwitch PROVE ExchangeInv'
<1> USE DEF ExchangeInv
<1>1. /\ cur \in Reqs /\ cur \in Nat /\ pc = "switch" /\ pc' = "tunnel"
      /\ UNCHANGED <<sock, cur, kind, body, fault>>
  BY HandIsReq DEF WsSwitch, InHand, client, QueueInv, ControlOK
<1>2. Unanswered(cur) BY <1>1 DEF AnswersOK, InHand
<1>3. view' \in [Reqs -> Views] /\ \A i \in Reqs \ {cur} : view'[i] = view[i]
  <2>1. "complete" \in Views BY DEF Views
  <2> QED BY <1>1, <2>1, SeenEffect DEF WsSwitch, ExchangeTypes
<1>4. /\ heads' = [heads EXCEPT ![cur] = heads[cur] + 1]
      /\ answer' = [answer EXCEPT ![cur] = "upstream"]
      /\ framing' = [framing EXCEPT ![cur] = "length"]
      /\ size' = [size EXCEPT ![cur] = 0]
  BY DEF WsSwitch
<1>5. SockOK' BY <1>1 DEF SockOK
<1>6. ExchangeTypes'
  <2>1. fault' \in [Reqs -> BOOLEAN] BY <1>1, Zenon DEF ExchangeTypes
  <2> QED BY <1>1, <1>2, <1>3, <1>4, <2>1, SessionAssumption DEF ExchangeTypes, Unanswered, Framings, Told
<1>7. CompleteIsWhole'
  BY <1>1, <1>2, <1>3, <1>4 DEF CompleteIsWhole, Unanswered, ExchangeTypes
<1>8. AnswersOK'
  BY <1>1, <1>3, <1>4
     DEF AnswersOK, Served, Answered, Unanswered, InHand, Reqs, ExchangeTypes
<1> QED BY <1>5, <1>6, <1>7, <1>8

LEMMA ExchangeInd == ASSUME QueueInv, ExchangeInv, [Next]_vars PROVE ExchangeInv'
<1>1. CASE UNCHANGED vars
  BY <1>1, QuietOK DEF vars, exchange, client, tunnelVars, ExchangeInv, SockOK
<1>2. CASE HandlerStep \/ UpstreamStep
  BY <1>2, QuietSteps, ReadExchange, StatusExchange, RelayExchange, EndExchange,
     RelayUnitExchange, RelayDoneExchange, SwitchExchange, Zenon
     DEF HandlerStep, UpstreamStep
<1> QED BY <1>1, <1>2, ClientExchange DEF Next, Terminated

-----------------------------------------------------------------------------
LEMMA Inductive == Spec => []IndInv
<1>1. Init => IndInv
  BY TunnelInitOK, QueueInit, ExchangeInit DEF Init, TunnelInit, DialOK, IndInv
<1>2. IndInv /\ [Next]_vars => IndInv'
  BY TunnelInd, DialInd, QueueInd, ExchangeInd DEF IndInv
<1> QED BY <1>1, <1>2, PTL DEF Spec

(* The variables keep their types: the bounds on requests, bodies and      *)
(* units hold on every path of the handler and of the two ends.            *)
THEOREM SessionTypes == Spec => []TypeOK
<1>1. IndInv => TypeOK
  <2> SUFFICES ASSUME TunnelInv, QueueInv, ExchangeInv PROVE TypeOK
    BY DEF IndInv
  <2>1. pc \in PCs /\ nsent \in 0..MaxReqs /\ cur \in 0..MaxReqs
    BY SessionAssumption DEF QueueInv, ControlOK
  <2>2. heads \in [Reqs -> Nat] BY DEF ExchangeInv, ExchangeTypes
  <2>3. input \in Seq([req : Reqs, part : {"head", "body"}])
    BY Zenon DEF QueueInv, Tokens
  <2> QED
    BY <2>1, <2>2, <2>3, Zenon
       DEF TunnelInv, QueueInv, ControlOK, ExchangeInv, ExchangeTypes, Views, TypeOK
<1> QED BY <1>1, Inductive, PTL

(* When Intercept reads its next request, the reader stands at the head of *)
(* the request after the last one served, whatever the client pipelined.   *)
THEOREM RequestsInStep == Spec => []ReaderAligned
<1>1. IndInv => ReaderAligned
  BY NextIsHead DEF IndInv, QueueInv, DrainedOK, Drained, ReaderAligned
<1> QED BY <1>1, Inductive, PTL

(* No request is answered twice, and the session goes on only behind a     *)
(* relayed response to each; a 1xx of the upstream is such a response.     *)
THEOREM AnswersExact == Spec => []OneAnswerEach
<1>1. IndInv => OneAnswerEach
  <2> SUFFICES ASSUME IndInv PROVE OneAnswerEach
    OBVIOUS
  <2>1. cur \in Nat /\ ExchangeTypes /\ AnswersOK
    BY DEF IndInv, QueueInv, ControlOK, ExchangeInv
  <2>2. \A i \in Reqs : heads[i] <= 1 BY <2>1 DEF ExchangeTypes
  <2>3. ASSUME pc = "read" PROVE \A i \in 1..cur : heads[i] = 1 /\ answer[i] = "upstream"
    <3>1. cur \in 0..MaxReqs
      BY SessionAssumption DEF IndInv, QueueInv, ControlOK
    <3> QED BY <2>1, <2>3, <3>1, SessionAssumption DEF AnswersOK, Served, Answered, Reqs
  <2> QED BY <2>2, <2>3, Zenon DEF OneAnswerEach
<1> QED BY <1>1, Inductive, PTL

(* The session reads on only behind bodies written whole, and a client     *)
(* that was told the end of a body has all of it when it sees that end.    *)
(* Nothing is claimed of a body that ends with the connection.             *)
THEOREM NoTruncation == Spec => []CompleteIsWhole
<1>1. IndInv => CompleteIsWhole BY DEF IndInv, ExchangeInv
<1> QED BY <1>1, Inductive, PTL

(* Every path of forward, forwardWebSocket, tunnel and Passthrough closes  *)
(* the socket it dialled before the session reads on or ends.              *)
THEOREM SocketsClosed == Spec => []NoSocketLeft
<1>1. IndInv => NoSocketLeft BY DEF IndInv, ExchangeInv, SockOK, NoSocketLeft
<1> QED BY <1>1, Inductive, PTL

(* Each side of a tunnel has been given, in order and without a gap, what  *)
(* the other wrote, the units read ahead of the tunnel included.           *)
THEOREM BytesUnmodified == Spec => []TunnelIntact
<1>1. IndInv => TunnelIntact
  <2> SUFFICES ASSUME IndInv, NEW d \in Dirs
               PROVE  got[d] = [i \in 1..Len(got[d]) |-> i]
    BY DEF TunnelIntact
  <2>1. got[d] \in Seq(Nat) /\ \A i \in 1..Len(got[d]) : got[d][i] = i
    BY DEF IndInv, TunnelInv, TunnelTypeOK, StreamOK, InOrder
  <2>2. got[d] = [i \in 1..Len(got[d]) |-> got[d][i]] BY <2>1
  <2> QED BY <2>1, <2>2
<1> QED BY <1>1, Inductive, PTL

(* In a tunnel that no reset and no deadline cuts, a copy that ends first  *)
(* and has a receiver left ended because its sender closed, with nothing   *)
(* of what it wrote still on the way.                                      *)
THEOREM LastBytesArrive == Spec => []ClosingSideHeard
<1>1. IndInv => ClosingSideHeard
  <2> SUFFICES ASSUME IndInv, NEW d \in Dirs, ended = {d}, ~eof[Other(d)],
                      reset = {}, deadline # "fired"
               PROVE  Len(got[d]) = sent[d]
    BY DEF ClosingSideHeard
  <2>1. pending[d] = <<>> BY DEF IndInv, TunnelInv, EndedOK
  <2>2. got[d] \in Seq(Nat) /\ Len(got[d]) + Len(pending[d]) = sent[d]
    BY DEF IndInv, TunnelInv, TunnelTypeOK, StreamOK, InOrder
  <2> QED BY <2>1, <2>2
<1> QED BY <1>1, Inductive, PTL
=============================================================================

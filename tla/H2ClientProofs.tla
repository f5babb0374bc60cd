--------------------------- MODULE H2ClientProofs ---------------------------
(***************************************************************************)
(* Proofs about one HTTP/2 connection, for any number of callers, any      *)
(* window sizes and any server allowed by H2Client.                        *)
(***************************************************************************)
EXTENDS H2Client, TLAPS

Active == {"wait", "reading", "leaving"}

\* A pending Close or failAll holds the stream and will fail it.
Held(r) == \E f \in Failers : r \in toFail[f]

\* Ids grow and are never shared: a lookup finds the stream of one request.
IdsOK ==
    /\ nextID > 0
    /\ \A r \in Reqs : sid[r] < nextID
    /\ \A r, s \in Reqs : sid[r] = sid[s] /\ sid[r] # 0 => r = s

\* Who has an id, and who may be in the map.
MapOK ==
    \A r \in Reqs :
        /\ pc[r] = "start" => sid[r] = 0
        /\ pc[r] \in Active => sid[r] # 0
        /\ r \in streams => pc[r] \in Active
        /\ srv[r] # "idle" => sid[r] # 0

\* What readLoop knows of the frame and the stream in its hands.
LoopOK ==
    rlAt \in Handling =>
        /\ cur = frame.for
        /\ srv[cur] \in {"hinted", "headers", "ended", "trailed"}
        /\ rlAt = "headers" => frame.kind \in {"interim", "final", "trailers"}
        /\ bodyW[cur] = "open" => cur \in streams \/ Held(cur)

\* Streams are held only while a Close or failAll is running.
HeldOK ==
    /\ rlAt \notin {"goaway", "failall"} => toFail["readLoop"] = {}
    /\ closeAt # "failing" => toFail["Close"] = {}

\* A waiting caller whose response headers have been read gets them, or an error.
AnswerKept ==
    \A r \in Reqs : pc[r] = "wait" /\ srv[r] \in {"hinted", "headers", "ended", "trailed"} =>
        headers[r] # "none" \/ errs[r] \/ Held(r) \/ (rlAt = "headers" /\ cur = r)

\* The windows with the unit in readLoop's hands.
InHand == rlAt \in {"write", "credit"}
WindowsOK ==
    /\ InHand => connWin < ConnWindow
    /\ InHand => strWin[frame.for] < StreamWindow

IndInv ==
    /\ TypeOK /\ IdsOK /\ MapOK /\ LoopOK /\ HeldOK
    /\ ClosedMapEmpty /\ NoOrphanWaiter /\ AnswerKept /\ WindowsOK

-----------------------------------------------------------------------------
(* A lookup by the id of a request finds that request's stream or nothing. *)
LEMMA OneStreamPerId ==
    ASSUME IdsOK, MapOK, streams \subseteq Reqs, NEW q \in Reqs
    PROVE  StreamAt(sid[q]) = streams \cap {q}
BY DEF IdsOK, MapOK, StreamAt, Active

(* st.fail on a set of streams: each gets an error and a closed pipe, and  *)
(* no other stream changes.  Stated pointwise for the lemmas below.        *)
LEMMA FailEffect ==
    ASSUME NEW S \in SUBSET Reqs, Fail(S),
           errs \in [Reqs -> BOOLEAN],
           bodyW \in [Reqs -> {"open", "eof", "err"}]
    PROVE  /\ errs' \in [Reqs -> BOOLEAN]
           /\ \A s \in S : errs'[s]
           /\ \A s \in Reqs \ S : errs'[s] = errs[s]
           /\ bodyW' \in [Reqs -> {"open", "eof", "err"}]
           /\ \A s \in S : bodyW'[s] # "open"
           /\ \A s \in Reqs \ S : bodyW'[s] = bodyW[s]
<1>1. /\ errs' \in [Reqs -> BOOLEAN]
      /\ \A s \in S : errs'[s]
      /\ \A s \in Reqs \ S : errs'[s] = errs[s]
  BY Zenon DEF Fail
<1>2. /\ bodyW' \in [Reqs -> {"open", "eof", "err"}]
      /\ \A s \in S : bodyW'[s] # "open"
      /\ \A s \in Reqs \ S : bodyW'[s] = bodyW[s]
  BY SMT DEF Fail, CloseW
<1> QED BY <1>1, <1>2

(* The initial state.                                                      *)
LEMMA InitInd == Init => IndInv
<1> SUFFICES ASSUME Init PROVE IndInv
  OBVIOUS
<1> USE ConstantsAssumption
<1>1. closed \in BOOLEAN /\ net \in BOOLEAN /\ errs \in [Reqs -> BOOLEAN]
  BY Zenon DEF Init
<1>2. TypeOK
  BY <1>1, SMT DEF Init, TypeOK, Failers, LoopAt, Handling
<1>3. IdsOK /\ MapOK /\ LoopOK /\ HeldOK /\ WindowsOK
  BY SMT DEF Init, IdsOK, MapOK, LoopOK, HeldOK, WindowsOK, InHand, Active,
             Failers, Handling
<1>4. ClosedMapEmpty
  BY Zenon DEF Init, ClosedMapEmpty
<1>5. NoOrphanWaiter /\ AnswerKept
  BY SMT DEF Init, NoOrphanWaiter, AnswerKept
<1> QED BY <1>2, <1>3, <1>4, <1>5 DEF IndInv

(* Every step of a caller.                                                 *)
LEMMA CallerInd ==
    ASSUME IndInv, NEW r \in Reqs, CallerStep(r) \/ ReaderStep(r) \/ CallerChoice(r)
    PROVE  IndInv'
<1> USE ConstantsAssumption
    DEF IndInv, TypeOK, IdsOK, MapOK, LoopOK, HeldOK, ClosedMapEmpty,
        NoOrphanWaiter, AnswerKept, WindowsOK, InHand, Held, Active, Failers,
        Handling, LoopAt, Frames, Kinds, Blocks, Chunks, conn, caller, pipe, loop, server
<1>1. CASE ReadBodyFails(r) BY <1>1, SMT DEF ReadBodyFails
<1>2. CASE SendClosed(r) BY <1>2, SMT DEF SendClosed, MayWrite
<1>3. CASE Send(r) BY <1>3, SMT DEF Send, MayWrite, FollowingID, StreamAt
<1>4. CASE SendFails(r)
  <2>1. writable' \in BOOLEAN BY <1>4, Zenon DEF SendFails
  <2> QED BY <1>4, <2>1, SMT DEF SendFails, MayWrite, FollowingID, StreamAt
<1>5. CASE TakeHeaders(r) BY <1>5, SMT DEF TakeHeaders
<1>6. CASE TakeErr(r) BY <1>6, SMT DEF TakeErr
<1>7. CASE Cancel(r) BY <1>7, SMT DEF Cancel
<1>8. CASE ReadChunk(r) BY <1>8, SMT DEF ReadChunk
<1>9. CASE ReadEnd(r) BY <1>9, SMT DEF ReadEnd
<1>10. CASE Abandon(r) BY <1>10, SMT DEF Abandon
<1>11. CASE Leave(r)
  <2>1. StreamAt(sid[r]) = streams \cap {r} BY OneStreamPerId
  <2> QED BY <1>11, <2>1, SMT DEF Leave, RemoveStream, CloseW
<1> QED
  BY <1>1, <1>2, <1>3, <1>4, <1>5, <1>6, <1>7, <1>8, <1>9, <1>10, <1>11
     DEF CallerStep, ReaderStep, CallerChoice

(* A turn of the loop of Close or failAll.                                 *)
LEMMA FailOneInd ==
    ASSUME IndInv, NEW f \in Failers, NEW s \in Reqs, FailOne(f, s)
    PROVE  IndInv'
<1> USE ConstantsAssumption
    DEF IndInv, TypeOK, IdsOK, MapOK, LoopOK, HeldOK, ClosedMapEmpty,
        NoOrphanWaiter, AnswerKept, WindowsOK, InHand, Held, Active, Failers,
        Handling, LoopAt, Frames, Kinds, Blocks, Chunks, conn, caller, pipe, loop, server
<1> USE DEF FailOne
<1>1. /\ errs' \in [Reqs -> BOOLEAN] /\ errs'[s]
      /\ \A t \in Reqs \ {s} : errs'[t] = errs[t]
      /\ bodyW' \in [Reqs -> {"open", "eof", "err"}] /\ bodyW'[s] # "open"
      /\ \A t \in Reqs \ {s} : bodyW'[t] = bodyW[t]
  BY FailEffect
<1>2. \A t \in Reqs : t # s => (Held(t) <=> Held(t)')
  OBVIOUS
<1>3. TypeOK' /\ IdsOK' /\ MapOK' /\ HeldOK' /\ ClosedMapEmpty' /\ WindowsOK'
  BY <1>1, SMT
<1>4. LoopOK'
  BY <1>1, <1>2, SMT
<1>5. ASSUME NEW t \in Reqs, pc'[t] = "wait"
      PROVE  /\ headers'[t] # "none" \/ errs'[t] \/ t \in streams' \/ Held(t)'
             /\ srv'[t] \in {"hinted", "headers", "ended", "trailed"} =>
                   headers'[t] # "none" \/ errs'[t] \/ Held(t)'
                      \/ (rlAt' = "headers" /\ cur' = t)
  <2>1. CASE t = s BY <1>1, <2>1
  <2>2. CASE t # s
    <3>1. errs'[t] = errs[t] /\ (Held(t) <=> Held(t)') BY <1>1, <1>2, <2>2
    <3> QED BY <1>5, <3>1, SMT
  <2> QED BY <2>1, <2>2
<1> QED BY <1>3, <1>4, <1>5 DEF NoOrphanWaiter, AnswerKept

(* A frame changes the state of its request and is charged to the windows  *)
(* with body and padding; a block of headers costs nothing.                *)
LEMMA FrameEffect ==
    ASSUME TypeOK, NEW q \in Reqs, NEW k \in Kinds, NEW fin \in BOOLEAN,
           ServerFrame(q, k, fin)
    PROVE  /\ Body(k) \in 0..1 /\ Padding(k) \in 0..1
           /\ Cost(k) \in 0..connWin /\ Cost(k) <= strWin[q]
           /\ Body(k) > 0 => k \in Chunks
           /\ Cost(k) = Body(k) + Padding(k)
           /\ srv[q] \in {"open", "hinted", "headers"}
           /\ srv' = [srv EXCEPT ![q] = srv'[q]]
           /\ srv'[q] \in {"hinted", "headers", "ended", "trailed"}
           /\ srv'[q] = "trailed" => k = "trailers"
           /\ srv'[q] \in {"ended", "trailed"} => sent[q] + Body(k) = size[q]
           /\ fin => srv'[q] = IF k = "trailers" THEN "trailed" ELSE "ended"
           /\ k \in {"empty", "trailers"} => fin
           /\ k \in Chunks => srv[q] = "headers" /\ sent[q] + Body(k) <= size[q]
           /\ size' = size
           /\ sent' = [sent EXCEPT ![q] = @ + Body(k)]
           /\ pad' = [pad EXCEPT ![q] = @ + Padding(k)]
           /\ connWin' = connWin - Cost(k)
           /\ strWin' = [strWin EXCEPT ![q] = @ - Cost(k)]
           /\ unread' = unread + Cost(k)
<1> USE ConstantsAssumption
    DEF TypeOK, ServerFrame, Kinds, Blocks, Chunks, Body, Padding, Cost
<1>1. CASE k \in Chunks BY <1>1, SMT
<1>2. CASE k \in Blocks
  <2>1. Body(k) = 0 /\ Padding(k) = 0 BY <1>2
  <2> QED BY <1>2, <2>1, SMT
<1> QED BY <1>1, <1>2

(* Every step of readLoop that handles HEADERS, DATA or RST_STREAM.        *)
LEMMA FrameInd ==
    ASSUME IndInv,
           \/ \E q \in Reqs : ReadFrame(q) \/ ReadReset(q)
           \/ HandleHeaders \/ HandleTrailers \/ WriteFails
           \/ CreditWindow \/ EndStream
    PROVE  IndInv'
<1> USE ConstantsAssumption
    DEF IndInv, TypeOK, IdsOK, MapOK, LoopOK, HeldOK, ClosedMapEmpty,
        NoOrphanWaiter, AnswerKept, WindowsOK, InHand, Held, Active, Failers,
        Handling, LoopAt, Frames, Kinds, Blocks, Chunks, conn, caller, pipe, loop, server
<1>1. ASSUME NEW q \in Reqs, ReadFrame(q) PROVE IndInv'
  <2>1. StreamAt(sid[q]) = streams \cap {q} BY OneStreamPerId
  <2>2. PICK k \in Kinds, fin \in BOOLEAN :
            /\ ServerFrame(q, k, fin)
            /\ \/ /\ q \notin streams \/ Idle(k, fin)
                  /\ UNCHANGED loop
               \/ /\ q \in streams /\ ~Idle(k, fin)
                  /\ rlAt' = Stage(k) /\ cur' = q
                  /\ frame' = [for |-> q, kind |-> k, fin |-> fin]
    BY <1>1, <2>1 DEF ReadFrame
  <2>3. /\ rlAt = "read"
        /\ UNCHANGED <<conn, caller, pipe>>
    BY <1>1 DEF ReadFrame
  <2> HIDE DEF Kinds
  <2>4. /\ Cost(k) \in 0..connWin /\ Cost(k) <= strWin[q]
        /\ Body(k) \in 0..1 /\ Padding(k) \in 0..1 /\ Cost(k) = Body(k) + Padding(k)
        /\ Body(k) > 0 => k \in Chunks
        /\ srv[q] \in {"open", "hinted", "headers"}
        /\ srv' = [srv EXCEPT ![q] = srv'[q]]
        /\ srv'[q] \in {"hinted", "headers", "ended", "trailed"}
        /\ k \in Chunks => srv[q] = "headers"
        /\ size' = size
        /\ sent' = [sent EXCEPT ![q] = @ + Body(k)]
        /\ pad' = [pad EXCEPT ![q] = @ + Padding(k)]
        /\ connWin' = connWin - Cost(k)
        /\ strWin' = [strWin EXCEPT ![q] = @ - Cost(k)]
        /\ unread' = unread + Cost(k)
    BY <2>2, FrameEffect
  <2>5. /\ size' \in [Reqs -> Nat] /\ sent' \in [Reqs -> Nat] /\ pad' \in [Reqs -> Nat]
        /\ unread' \in Int /\ connWin' \in 0..ConnWindow
        /\ strWin' \in [Reqs -> 0..StreamWindow]
    BY <2>4, SMT
  <2>6. CASE UNCHANGED loop /\ (q \notin streams \/ Idle(k, fin))
    <3>1. q \in streams => srv[q] = "headers" BY <2>4, <2>6 DEF Idle
    <3>2. TypeOK' /\ WindowsOK' BY <2>3, <2>4, <2>5, <2>6, SMT
    <3>3. IdsOK' /\ MapOK' /\ LoopOK' /\ HeldOK' /\ ClosedMapEmpty'
      BY <2>3, <2>4, <2>6, SMT
    <3>4. NoOrphanWaiter' /\ AnswerKept' BY <2>3, <2>4, <2>6, <3>1, SMT
    <3> QED BY <3>2, <3>3, <3>4
  <2>7. CASE /\ q \in streams
             /\ rlAt' = Stage(k) /\ cur' = q
             /\ frame' = [for |-> q, kind |-> k, fin |-> fin]
    <3>1. /\ frame' \in Frames /\ frame'.for = q /\ frame'.kind = k
          /\ rlAt' \in {"write", "end", "headers"}
          /\ rlAt' = "write" => Cost(k) > 0
          /\ rlAt' = "headers" => k \in {"interim", "final", "trailers"}
          /\ rlAt' # "headers" => k \in Chunks
      BY <2>2, <2>4, <2>7, SMT DEF Stage, Kinds
    <3>2. TypeOK' /\ WindowsOK' BY <2>3, <2>4, <2>5, <2>7, <3>1, SMT
    <3>3. IdsOK' /\ MapOK' /\ LoopOK' /\ HeldOK' /\ ClosedMapEmpty'
      BY <2>3, <2>4, <2>7, <3>1, SMT
    <3>4. NoOrphanWaiter' /\ AnswerKept' BY <2>3, <2>4, <2>7, <3>1, SMT
    <3> QED BY <3>2, <3>3, <3>4
  <2> QED BY <2>2, <2>6, <2>7
<1>2. ASSUME NEW q \in Reqs, ReadReset(q) PROVE IndInv'
  <2> DEFINE S == streams \cap {q}
  <2>1. StreamAt(sid[q]) = S BY OneStreamPerId
  <2>2. /\ \A s \in S : errs'[s]
        /\ \A s \in Reqs \ S : errs'[s] = errs[s]
    BY <1>2, <2>1, FailEffect DEF ReadReset
  <2>3. TypeOK'
    <3>1. /\ errs' \in [Reqs -> BOOLEAN]
          /\ bodyW' \in [Reqs -> {"open", "eof", "err"}]
      BY <1>2, <2>1, FailEffect DEF ReadReset
    <3>2. /\ srv' \in [Reqs -> {"idle", "open", "hinted", "headers", "ended", "trailed", "reset"}]
          /\ streams' \subseteq Reqs
      BY <1>2, <2>1, SMT DEF ReadReset
    <3> QED BY <1>2, <3>1, <3>2 DEF ReadReset
  <2>4. ASSUME NEW s \in Reqs, pc'[s] = "wait"
        PROVE  /\ headers'[s] # "none" \/ errs'[s] \/ s \in streams' \/ Held(s)'
               /\ srv'[s] \in {"hinted", "headers", "ended", "trailed"} =>
                     headers'[s] # "none" \/ errs'[s] \/ Held(s)'
                        \/ (rlAt' = "headers" /\ cur' = s)
    <3>1. CASE s \in S BY <2>2, <3>1
    <3>2. CASE s \notin S
      <4>1. errs'[s] = errs[s] BY <2>2, <3>2
      <4> QED BY <1>2, <2>1, <2>4, <3>2, <4>1, SMT DEF ReadReset
    <3> QED BY <3>1, <3>2
  <2>5. IdsOK' /\ MapOK' /\ LoopOK' /\ HeldOK' /\ ClosedMapEmpty' /\ WindowsOK'
    BY <1>2, <2>1, SMT DEF ReadReset
  <2> QED BY <2>3, <2>4, <2>5
<1>3. CASE HandleHeaders
  BY <1>3, SMT DEF HandleHeaders, OfferHeaders, AfterFrame, ReadOn
<1>4. CASE HandleTrailers
  <2>1. /\ errs' \in [Reqs -> BOOLEAN] /\ errs'[cur]
        /\ \A s \in Reqs \ {cur} : errs'[s] = errs[s]
        /\ bodyW' \in [Reqs -> {"open", "eof", "err"}]
    BY <1>4, FailEffect DEF HandleTrailers
  <2>2. TypeOK' /\ IdsOK' /\ MapOK' /\ LoopOK' /\ HeldOK' /\ ClosedMapEmpty' /\ WindowsOK'
    BY <1>4, <2>1, SMT DEF HandleTrailers, ReadOn
  <2>3. NoOrphanWaiter' /\ AnswerKept'
    BY <1>4, <2>1, SMT DEF HandleTrailers, ReadOn
  <2> QED BY <2>2, <2>3
<1>5. CASE WriteFails
  <2>1. StreamAt(sid[frame.for]) = streams \cap {frame.for}
    BY <1>5, OneStreamPerId DEF WriteFails
  <2> QED BY <1>5, <2>1, SMT DEF WriteFails, RemoveStream, CloseW, ReadOn
<1>6. CASE CreditWindow
  <2>1. writable' \in BOOLEAN BY <1>6, Zenon DEF CreditWindow
  <2>2. CASE frame.fin
    BY <1>6, <2>1, <2>2, SMT DEF CreditWindow, CreditConn, AfterFrame
  <2>3. CASE ~frame.fin
    BY <1>6, <2>1, <2>3, SMT DEF CreditWindow, CreditConn, AfterFrame, ReadOn
  <2> QED BY <2>2, <2>3
<1>7. CASE EndStream
  <2>1. StreamAt(sid[frame.for]) = streams \cap {frame.for}
    BY <1>7, OneStreamPerId DEF EndStream
  <2> QED BY <1>7, <2>1, SMT DEF EndStream, RemoveStream, CloseW, ReadOn
<1> QED BY <1>1, <1>2, <1>3, <1>4, <1>5, <1>6, <1>7

(* Every step that closes the connection or its socket.                    *)
LEMMA CloseInd ==
    ASSUME IndInv,
           CloseCall \/ GoAway \/ ReadError \/ CloseDone \/ FailAllDone \/ Drop
    PROVE  IndInv'
<1> USE ConstantsAssumption
    DEF IndInv, TypeOK, IdsOK, MapOK, LoopOK, HeldOK, ClosedMapEmpty,
        NoOrphanWaiter, AnswerKept, WindowsOK, InHand, Held, Active, Failers,
        Handling, LoopAt, Frames, Kinds, Blocks, Chunks, conn, caller, pipe, loop, server
<1>1. CASE CloseCall BY <1>1, SMT DEF CloseCall, TakeAll
<1>2. CASE GoAway BY <1>2, SMT DEF GoAway, TakeAll
<1>3. CASE ReadError BY <1>3, SMT DEF ReadError, TakeAll
<1>4. CASE CloseDone
  <2>1. net' \in BOOLEAN BY <1>4, Zenon DEF CloseDone, CloseConn
  <2> QED BY <1>4, <2>1, SMT DEF CloseDone
<1>5. CASE FailAllDone
  <2>1. net' \in BOOLEAN BY <1>5, Zenon DEF FailAllDone, CloseConn
  <2> QED BY <1>5, <2>1, SMT DEF FailAllDone
<1>6. CASE Drop
  <2>1. net' \in BOOLEAN BY <1>6, Zenon DEF Drop
  <2> QED BY <1>6, <2>1, SMT DEF Drop
<1> QED BY <1>1, <1>2, <1>3, <1>4, <1>5, <1>6

(* The invariant is inductive.                                             *)
LEMMA NextInd == IndInv /\ [Next]_vars => IndInv'
<1> SUFFICES ASSUME IndInv, [Next]_vars PROVE IndInv'
  OBVIOUS
<1>1. ASSUME NEW r \in Reqs, CallerStep(r) \/ ReaderStep(r) \/ CallerChoice(r) PROVE IndInv'
  BY <1>1, CallerInd
<1>2. CASE \E q \in Reqs : ReadFrame(q) \/ ReadReset(q)
  BY <1>2, FrameInd
<1>3. CASE LoopStep
  BY <1>3, FrameInd, CloseInd, FailOneInd DEF LoopStep, Failers
<1>4. CASE CloseStep
  BY <1>4, CloseInd, FailOneInd DEF CloseStep, Failers
<1>5. CASE CloseCall \/ GoAway \/ Drop
  BY <1>5, CloseInd
<1>6. CASE UNCHANGED vars
  BY <1>6 DEF vars, conn, caller, pipe, loop, server, IndInv, TypeOK, IdsOK,
     MapOK, LoopOK, HeldOK, ClosedMapEmpty, NoOrphanWaiter, AnswerKept,
     WindowsOK, InHand, Held
<1> QED BY <1>1, <1>2, <1>3, <1>4, <1>5, <1>6 DEF Next, Terminated

LEMMA Inductive == Spec => []IndInv
BY InitInd, NextInd, PTL DEF Spec

-----------------------------------------------------------------------------
(* Type correctness of the connection: in particular readLoop never grants *)
(* the server more than the announced windows.                             *)
THEOREM TypeCorrect == Spec => []TypeOK
<1>1. IndInv => TypeOK BY DEF IndInv
<1> QED BY <1>1, Inductive, PTL

(* Callers sharing the connection never get each other's frames.           *)
THEOREM CrossTalkFree == Spec => []NoCrossTalk
<1>1. IndInv => NoCrossTalk BY DEF IndInv, LoopOK, NoCrossTalk
<1> QED BY <1>1, Inductive, PTL

(* No request is registered on a connection that Close or failAll has      *)
(* emptied.                                                                *)
THEOREM ClosedIsEmpty == Spec => []ClosedMapEmpty
<1>1. IndInv => ClosedMapEmpty BY DEF IndInv
<1> QED BY <1>1, Inductive, PTL

(* Nobody waits in RoundTrip for a response that no one will deliver.      *)
THEOREM NoWaiterOrphaned == Spec => []NoOrphanWaiter
<1>1. IndInv => NoOrphanWaiter BY DEF IndInv
<1> QED BY <1>1, Inductive, PTL

(* readLoop, which serves every stream, is never left in a pipe write by   *)
(* callers that have gone: only one that stays without reading holds it.   *)
THEOREM OnlyLiveReadersHoldLoop == Spec => []WriteCanEnd
<1>1. IndInv => WriteCanEnd
  BY DEF IndInv, TypeOK, LoopOK, MapOK, WriteCanEnd, Held, Handling, Active
<1> QED BY <1>1, Inductive, PTL

-----------------------------------------------------------------------------
(* Bodies and windows, and that the connection implements the contract of  *)
(* Exchanges, on top of the invariant above.                               *)

\* The server is not through with the response.
Unfinished == {"open", "hinted", "headers"}
Gone       == {"leaving", "done"}

\* The response has been read to its regular end.
Full(r) == srv[r] = "ended" /\ got[r] = size[r]

\* What may break a body off.
Broken(r) == closed \/ srv[r] = "reset" \/ (srv[r] = "trailed" /\ got[r] = size[r])

\* The server sends what it has announced.
ServerOK ==
    \A r \in Reqs :
        /\ sent[r] <= size[r]
        /\ srv[r] \in {"ended", "trailed"} => sent[r] = size[r]
        /\ srv[r] = "idle" => sent[r] = 0 /\ got[r] = 0

\* END_STREAM, and trailers, come when the server is through.
FrameOK ==
    rlAt \in Handling =>
        /\ rlAt = "end" => srv[cur] = "ended"
        /\ rlAt = "headers" /\ frame.kind = "trailers" => srv[cur] = "trailed"
        /\ frame.fin /\ ~(rlAt = "headers" /\ frame.kind = "trailers") => srv[cur] = "ended"

\* Units reach the reader one by one, as long as frames find the stream.
ReadOK ==
    \A r \in Reqs :
        /\ rlAt = "write" /\ cur = r => got[r] + 1 = sent[r]
        /\ rlAt \in Handling \ {"write"} /\ cur = r => got[r] = sent[r]
        /\ rlAt \notin Handling \/ cur # r => (r \in streams => got[r] = sent[r])

\* How a body ends, seen from the pipe and by its reader.
EndOK ==
    \A r \in Reqs :
        /\ pc[r] \in Gone <=> end[r] # "none"
        /\ bodyR[r] = "closed" => pc[r] \in Gone
        /\ bodyW[r] = "eof" => pc[r] \in Gone \/ Full(r)
        /\ bodyW[r] = "err" => Broken(r)
        /\ end[r] = "eof" => Full(r)
        /\ end[r] = "err" => Broken(r)

\* The server finds the stream of a caller that has not turned away.
FoundOK ==
    ~closed => \A r \in Reqs :
        srv[r] \in Unfinished /\ end[r] \in {"none", "eof", "err"} => r \in streams

\* Streams are taken out to be failed on a closed connection only.
FailingOK == \A r \in Reqs : Held(r) => closed

\* WindowConserved, with the unit being credited said case by case.
ConservedOK ==
    ~closed /\ writable =>
        /\ connWin + unread = IF rlAt = "credit" THEN ConnWindow - 1 ELSE ConnWindow
        /\ \A r \in Reqs :
              strWin[r] + (sent[r] + pad[r] - got[r]) =
                  IF rlAt = "credit" /\ frame.for = r THEN StreamWindow - 1
                                                     ELSE StreamWindow

BodyInv ==
    /\ ServerOK /\ FrameOK /\ ReadOK /\ EndOK /\ FoundOK /\ FailingOK
    /\ ConservedOK

-----------------------------------------------------------------------------
LEMMA BodyInit == Init => BodyInv
<1> SUFFICES ASSUME Init PROVE BodyInv
  OBVIOUS
<1> USE ConstantsAssumption
<1>1. ServerOK /\ FrameOK
  BY SMT DEF Init, ServerOK, FrameOK, Handling
<1>2. ReadOK /\ EndOK /\ FoundOK
  BY SMT DEF Init, ReadOK, EndOK, FoundOK, Handling, Gone, Unfinished
<1>3. FailingOK /\ ConservedOK
  BY SMT DEF Init, FailingOK, Held, Failers, ConservedOK, InHand
<1> QED BY <1>1, <1>2, <1>3 DEF BodyInv

(* A write that fails leaves the windows alone.                            *)
LEMMA SendFailsConserves ==
    ASSUME ConservedOK, NEW r \in Reqs, SendFails(r) PROVE ConservedOK'
<1>1. UNCHANGED <<closed, rlAt, frame, got, sent, pad, connWin, strWin, unread>>
  BY DEF SendFails, loop
<1>2. writable' \in {writable, FALSE}  BY Zenon DEF SendFails
<1>3. CASE writable' = writable  BY <1>1, <1>3, Zenon DEF ConservedOK
<1>4. CASE writable' = FALSE  BY <1>4, Zenon DEF ConservedOK
<1> QED BY <1>2, <1>3, <1>4, Zenon

(* Every step of a caller.                                                 *)
LEMMA BodyCaller ==
    ASSUME IndInv, BodyInv, NEW r \in Reqs, CallerStep(r) \/ ReaderStep(r) \/ CallerChoice(r)
    PROVE  BodyInv'
<1> USE ConstantsAssumption
    DEF IndInv, TypeOK, IdsOK, MapOK, LoopOK, Held, Active, Failers, Handling,
        LoopAt, Frames, Kinds, Blocks, Chunks, InHand, conn, caller, pipe, loop, server,
        BodyInv, ServerOK, FrameOK, ReadOK, EndOK, FoundOK, FailingOK, ConservedOK,
        Full, Broken, Gone, Unfinished
<1>1. CASE ReadBodyFails(r) BY <1>1, SMT DEF ReadBodyFails
<1>2. CASE SendClosed(r) BY <1>2, SMT DEF SendClosed, MayWrite
<1>3. CASE Send(r) BY <1>3, SMT DEF Send, MayWrite, FollowingID, StreamAt
<1>4. CASE SendFails(r)
  <2>1. ConservedOK'  BY <1>4, SendFailsConserves
  <2>2. ServerOK' /\ FrameOK' /\ ReadOK'
    BY <1>4, SMT DEF SendFails, MayWrite, FollowingID, StreamAt
  <2>3. EndOK' /\ FoundOK' /\ FailingOK'
    BY <1>4, SMT DEF SendFails, MayWrite, FollowingID, StreamAt
  <2> QED BY <2>1, <2>2, <2>3
<1>5. CASE TakeHeaders(r) BY <1>5, SMT DEF TakeHeaders
<1>6. CASE TakeErr(r)
  <2>1. errs' \in [Reqs -> BOOLEAN] BY <1>6, Zenon DEF TakeErr
  <2> QED BY <1>6, <2>1, SMT DEF TakeErr
<1>7. CASE Cancel(r) BY <1>7, SMT DEF Cancel
<1>8. CASE ReadChunk(r)
  <2>1. cur = r /\ frame.for = r BY <1>8 DEF ReadChunk
  <2>2. ConservedOK' BY <1>8, <2>1, SMT DEF ReadChunk
  <2>3. ServerOK' /\ FrameOK' /\ ReadOK' BY <1>8, <2>1, SMT DEF ReadChunk
  <2>4. EndOK' /\ FoundOK' /\ FailingOK' BY <1>8, <2>1, SMT DEF ReadChunk
  <2> QED BY <2>2, <2>3, <2>4
<1>9. CASE ReadEnd(r) BY <1>9, SMT DEF ReadEnd
<1>10. CASE Abandon(r) BY <1>10, SMT DEF Abandon
<1>11. CASE Leave(r)
  <2>1. StreamAt(sid[r]) = streams \cap {r} BY OneStreamPerId
  <2> QED BY <1>11, <2>1, SMT DEF Leave, RemoveStream, CloseW
<1> QED
  BY <1>1, <1>2, <1>3, <1>4, <1>5, <1>6, <1>7, <1>8, <1>9, <1>10, <1>11
     DEF CallerStep, ReaderStep, CallerChoice

(* A turn of the loop of Close or failAll: the connection is closed.       *)
LEMMA BodyFailOne ==
    ASSUME IndInv, BodyInv, NEW f \in Failers, NEW s \in Reqs, FailOne(f, s)
    PROVE  BodyInv'
<1> USE ConstantsAssumption
    DEF IndInv, TypeOK, IdsOK, MapOK, LoopOK, HeldOK, Held, Active, Failers, Handling,
        LoopAt, Frames, Kinds, Blocks, Chunks, InHand, conn, caller, pipe, loop, server,
        BodyInv, ServerOK, FrameOK, ReadOK, EndOK, FoundOK, FailingOK, ConservedOK,
        Full, Broken, Gone, Unfinished
<1> USE DEF FailOne
<1>1. closed BY DEF FailingOK
<1>2. \A t \in Reqs \ {s} : bodyW'[t] = bodyW[t]
  BY FailEffect
<1>3. bodyW'[s] = IF bodyW[s] = "open" THEN "err" ELSE bodyW[s]
  BY DEF Fail, CloseW
<1> QED BY <1>1, <1>2, <1>3, SMT

(* Every step of readLoop that handles HEADERS, DATA or RST_STREAM.        *)
LEMMA BodyFrame ==
    ASSUME IndInv, BodyInv,
           \/ \E q \in Reqs : ReadFrame(q) \/ ReadReset(q)
           \/ HandleHeaders \/ HandleTrailers \/ WriteFails
           \/ CreditWindow \/ EndStream
    PROVE  BodyInv'
<1> USE ConstantsAssumption
    DEF IndInv, TypeOK, IdsOK, MapOK, LoopOK, HeldOK, Held, Active, Failers, Handling,
        LoopAt, Frames, Kinds, Blocks, Chunks, InHand, conn, caller, pipe, loop, server,
        BodyInv, ServerOK, FrameOK, ReadOK, EndOK, FoundOK, FailingOK, ConservedOK,
        Full, Broken, Gone, Unfinished
<1>1. ASSUME NEW q \in Reqs, ReadFrame(q) PROVE BodyInv'
  <2>1. StreamAt(sid[q]) = streams \cap {q} BY OneStreamPerId
  <2>2. PICK k \in Kinds, fin \in BOOLEAN :
            /\ ServerFrame(q, k, fin)
            /\ \/ /\ q \notin streams \/ Idle(k, fin)
                  /\ UNCHANGED loop
               \/ /\ q \in streams /\ ~Idle(k, fin)
                  /\ rlAt' = Stage(k) /\ cur' = q
                  /\ frame' = [for |-> q, kind |-> k, fin |-> fin]
    BY <1>1, <2>1 DEF ReadFrame
  <2>3. /\ rlAt = "read"
        /\ UNCHANGED <<conn, caller, pipe>>
    BY <1>1 DEF ReadFrame
  <2> HIDE DEF Kinds
  <2>4. /\ Cost(k) \in 0..connWin /\ Cost(k) <= strWin[q]
        /\ Body(k) \in 0..1 /\ Padding(k) \in 0..1 /\ Cost(k) = Body(k) + Padding(k)
        /\ Body(k) > 0 => k \in Chunks
        /\ srv[q] \in Unfinished
        /\ srv' = [srv EXCEPT ![q] = srv'[q]]
        /\ srv'[q] \in {"hinted", "headers", "ended", "trailed"}
        /\ srv'[q] = "trailed" => k = "trailers"
        /\ srv'[q] \in {"ended", "trailed"} => sent[q] + Body(k) = size[q]
        /\ fin => srv'[q] = IF k = "trailers" THEN "trailed" ELSE "ended"
        /\ k \in {"empty", "trailers"} => fin
        /\ k \in Chunks => sent[q] + Body(k) <= size[q]
        /\ size' = size
        /\ sent' = [sent EXCEPT ![q] = @ + Body(k)]
        /\ pad' = [pad EXCEPT ![q] = @ + Padding(k)]
        /\ connWin' = connWin - Cost(k)
        /\ strWin' = [strWin EXCEPT ![q] = @ - Cost(k)]
        /\ unread' = unread + Cost(k)
    BY <2>2, FrameEffect
  <2>5. sent'[q] <= size'[q] /\ ServerOK'
    BY <2>3, <2>4, SMT
  <2>6. ConservedOK'
    <3>1. rlAt \notin {"credit"} /\ rlAt' # "credit" BY <2>2, <2>3, SMT DEF Stage
    <3>2. connWin' + unread' = connWin + unread BY <2>4
    <3>3. \A r \in Reqs : strWin'[r] + (sent'[r] + pad'[r] - got'[r])
                             = strWin[r] + (sent[r] + pad[r] - got[r])
      <4> SUFFICES ASSUME NEW r \in Reqs
                   PROVE  strWin'[r] + (sent'[r] + pad'[r] - got'[r])
                             = strWin[r] + (sent[r] + pad[r] - got[r])
        OBVIOUS
      <4>1. got' = got BY <2>3
      <4>2. CASE r = q BY <2>4, <4>1, <4>2, SMT
      <4>3. CASE r # q BY <2>4, <4>1, <4>3, SMT
      <4> QED BY <4>2, <4>3
    <3> QED BY <2>3, <3>1, <3>2, <3>3, SMT
  <2>7. CASE UNCHANGED loop /\ (q \notin streams \/ Idle(k, fin))
    <3>1. q \in streams => Body(k) = 0 /\ srv'[q] # "trailed" BY <2>4, <2>7 DEF Idle
    <3> QED BY <2>3, <2>4, <2>5, <2>6, <2>7, <3>1, SMT
  <2>8. CASE /\ q \in streams
             /\ rlAt' = Stage(k) /\ cur' = q /\ ~Idle(k, fin)
             /\ frame' = [for |-> q, kind |-> k, fin |-> fin]
    <3>1. /\ frame'.for = q /\ frame'.kind = k /\ frame'.fin = fin
          /\ rlAt' \in {"write", "end", "headers"}
          /\ rlAt' = "write" <=> Body(k) > 0
          /\ rlAt' = "end" => fin /\ k # "trailers"
          /\ rlAt' # "headers" => k # "trailers"
      BY <2>4, <2>8, SMT DEF Stage, Idle
    <3> QED BY <2>3, <2>4, <2>5, <2>6, <2>8, <3>1, SMT
  <2> QED BY <2>2, <2>7, <2>8
<1>2. ASSUME NEW q \in Reqs, ReadReset(q) PROVE BodyInv'
  <2>1. StreamAt(sid[q]) = streams \cap {q} BY OneStreamPerId
  <2>2. \A s \in Reqs \ {q} : bodyW'[s] = bodyW[s]
    BY <1>2, <2>1 DEF ReadReset, Fail, CloseW
  <2>3. bodyW'[q] \in {bodyW[q], "err"}
    BY <1>2, <2>1 DEF ReadReset, Fail, CloseW
  <2> QED BY <1>2, <2>1, <2>2, <2>3, SMT DEF ReadReset
<1>3. CASE HandleHeaders
  BY <1>3, SMT DEF HandleHeaders, AfterFrame, ReadOn
<1>4. CASE HandleTrailers
  <2>1. \A s \in Reqs \ {cur} : bodyW'[s] = bodyW[s]
    BY <1>4 DEF HandleTrailers, Fail, CloseW
  <2>2. bodyW'[cur] \in {bodyW[cur], "err"}
    BY <1>4 DEF HandleTrailers, Fail, CloseW
  <2> QED BY <1>4, <2>1, <2>2, SMT DEF HandleTrailers, ReadOn
<1>5. CASE WriteFails
  <2>1. StreamAt(sid[frame.for]) = streams \cap {frame.for}
    BY <1>5, OneStreamPerId DEF WriteFails
  <2> QED BY <1>5, <2>1, SMT DEF WriteFails, RemoveStream, CloseW, ReadOn
<1>6. CASE CreditWindow
  <2>1. /\ rlAt = "credit" /\ rlAt' \in {"end", "read"}
        /\ rlAt' = "end" => frame.fin /\ UNCHANGED <<cur, frame>>
        /\ closed' = closed
        /\ UNCHANGED <<streams, toFail, caller, pipe, srv, size, sent, pad, unread>>
    BY <1>6, SMT DEF CreditWindow, AfterFrame, ReadOn
  <2>2. ConservedOK'
    <3>1. ~closed' /\ writable' =>
             /\ ~closed /\ writable /\ CreditConn
             /\ strWin' = [strWin EXCEPT ![frame.for] = @ + 1]
      <4> SUFFICES ASSUME ~closed', writable'
                   PROVE  /\ ~closed /\ writable /\ CreditConn
                          /\ strWin' = [strWin EXCEPT ![frame.for] = @ + 1]
        OBVIOUS
      <4>1. ~closed BY <2>1
      <4>2. \/ /\ writable /\ CreditConn
               /\ strWin' = [strWin EXCEPT ![frame.for] = @ + 1]
            \/ ~writable /\ writable' = writable
        BY <1>6, <4>1 DEF CreditWindow
      <4> QED BY <4>1, <4>2
    <3>2. frame.for \in Reqs BY <2>1
    <3>3. CASE ~closed' /\ writable'
      <4>1. connWin' + unread' = ConnWindow
        BY <2>1, <3>1, <3>3, SMT DEF CreditConn
      <4>2. ASSUME NEW r \in Reqs
            PROVE  strWin'[r] + (sent'[r] + pad'[r] - got'[r]) = StreamWindow
        <5>1. CASE r = frame.for
          <6>1. strWin'[r] = strWin[r] + 1 BY <3>1, <3>2, <3>3, <5>1
          <6>2. strWin[r] + (sent[r] + pad[r] - got[r]) = StreamWindow - 1
            BY <2>1, <3>1, <3>3, <5>1
          <6>3. sent' = sent /\ pad' = pad /\ got' = got BY <2>1
          <6> QED BY <3>2, <5>1, <6>1, <6>2, <6>3, SMT
        <5>2. CASE r # frame.for BY <2>1, <3>1, <3>2, <3>3, <5>2, SMT
        <5> QED BY <5>1, <5>2
      <4> QED BY <2>1, <4>1, <4>2
    <3> QED BY <3>3
  <2>3. ServerOK' /\ FrameOK' /\ ReadOK' BY <2>1, SMT
  <2>4. EndOK' /\ FoundOK' /\ FailingOK' BY <2>1, SMT
  <2> QED BY <2>2, <2>3, <2>4
<1>7. CASE EndStream
  <2>1. StreamAt(sid[frame.for]) = streams \cap {frame.for}
    BY <1>7, OneStreamPerId DEF EndStream
  <2> QED BY <1>7, <2>1, SMT DEF EndStream, RemoveStream, CloseW, ReadOn
<1> QED BY <1>1, <1>2, <1>3, <1>4, <1>5, <1>6, <1>7

(* Every step that closes the connection or its socket.                    *)
LEMMA BodyClose ==
    ASSUME IndInv, BodyInv,
           CloseCall \/ GoAway \/ ReadError \/ CloseDone \/ FailAllDone \/ Drop
    PROVE  BodyInv'
<1> USE ConstantsAssumption
    DEF IndInv, TypeOK, IdsOK, MapOK, LoopOK, HeldOK, Held, Active, Failers, Handling,
        LoopAt, Frames, Kinds, Blocks, Chunks, InHand, conn, caller, pipe, loop, server,
        BodyInv, ServerOK, FrameOK, ReadOK, EndOK, FoundOK, FailingOK, ConservedOK,
        Full, Broken, Gone, Unfinished
<1>1. CASE CloseCall BY <1>1, SMT DEF CloseCall, TakeAll
<1>2. CASE GoAway BY <1>2, SMT DEF GoAway, TakeAll
<1>3. CASE ReadError BY <1>3, SMT DEF ReadError, TakeAll
<1>4. CASE CloseDone BY <1>4, SMT DEF CloseDone
<1>5. CASE FailAllDone BY <1>5, SMT DEF FailAllDone
<1>6. CASE Drop BY <1>6, SMT DEF Drop
<1> QED BY <1>1, <1>2, <1>3, <1>4, <1>5, <1>6

LEMMA BodyNext == IndInv /\ BodyInv /\ [Next]_vars => BodyInv'
<1> SUFFICES ASSUME IndInv, BodyInv, [Next]_vars PROVE BodyInv'
  OBVIOUS
<1>1. ASSUME NEW r \in Reqs, CallerStep(r) \/ ReaderStep(r) \/ CallerChoice(r) PROVE BodyInv'
  BY <1>1, BodyCaller
<1>2. CASE \E q \in Reqs : ReadFrame(q) \/ ReadReset(q)
  BY <1>2, BodyFrame
<1>3. CASE LoopStep
  BY <1>3, BodyFrame, BodyClose, BodyFailOne DEF LoopStep, Failers
<1>4. CASE CloseStep
  BY <1>4, BodyClose, BodyFailOne DEF CloseStep, Failers
<1>5. CASE CloseCall \/ GoAway \/ Drop
  BY <1>5, BodyClose
<1>6. CASE UNCHANGED vars
  BY <1>6 DEF vars, conn, caller, pipe, loop, server, BodyInv, ServerOK, FrameOK,
     ReadOK, EndOK, FoundOK, FailingOK, ConservedOK, Full, Broken, Held, InHand
<1> QED BY <1>1, <1>2, <1>3, <1>4, <1>5, <1>6 DEF Next, Terminated

LEMMA BodyInductive == Spec => [](IndInv /\ BodyInv)
<1>1. Init => IndInv /\ BodyInv BY InitInd, BodyInit
<1>2. IndInv /\ BodyInv /\ [Next]_vars => (IndInv /\ BodyInv)' BY NextInd, BodyNext
<1> QED BY <1>1, <1>2, PTL DEF Spec

-----------------------------------------------------------------------------
(* A body that ends with EOF is the whole body, whatever failures race     *)
(* with its end.                                                           *)
THEOREM EOFMeansComplete == Spec => []CleanEOFIsComplete
<1>1. BodyInv => CleanEOFIsComplete
  BY DEF BodyInv, EndOK, Full, CleanEOFIsComplete
<1> QED BY <1>1, BodyInductive, PTL

(* A body breaks off only for a cause, and with trailers only at its end.  *)
THEOREM BreaksForCause == Spec => []CompleteResponseDelivered
<1>1. BodyInv => CompleteResponseDelivered
  BY DEF BodyInv, EndOK, Broken, CompleteResponseDelivered
<1> QED BY <1>1, BodyInductive, PTL

(* What is missing from a window is what was sent and not read, padding    *)
(* included: the credits are exact, and what is dropped is never credited. *)
THEOREM WindowsConserved == Spec => []WindowConserved
<1>1. IndInv /\ BodyInv => WindowConserved
  <2> SUFFICES ASSUME IndInv, BodyInv, ~closed, writable
               PROVE  WindowConserved
    BY DEF WindowConserved
  <2> USE ConstantsAssumption
      DEF IndInv, TypeOK, LoopOK, BodyInv, ConservedOK, Handling, Frames
  <2>1. CASE rlAt = "credit"
    BY <2>1, SMT DEF WindowConserved
  <2>2. CASE rlAt # "credit"
    BY <2>2, SMT DEF WindowConserved
  <2> QED BY <2>1, <2>2
<1> QED BY <1>1, BodyInductive, PTL

-----------------------------------------------------------------------------
(* H2Client implements Exchanges, step by step.  The abstract phase of a   *)
(* caller changes where pc does.                                           *)
LEMMA PhaseValues ==
    /\ PhaseOf("start") = "new" /\ PhaseOf("wait") = "pending"
    /\ PhaseOf("reading") = "body"
    /\ PhaseOf("leaving") = "ended" /\ PhaseOf("done") = "ended"
BY DEF PhaseOf

(* A caller that moves on moves its phase and no other.                    *)
LEMMA PhaseStep ==
    ASSUME TypeOK, NEW r \in Reqs, NEW from, NEW to,
           pc[r] = from, pc' = [pc EXCEPT ![r] = to]
    PROVE  Contract!Phase(r, PhaseOf(from), PhaseOf(to))
BY DEF Contract!Phase, TypeOK

(* The steps that change what a caller sees.                               *)
LEMMA CallerRefines ==
    ASSUME IndInv, BodyInv, NEW r \in Reqs, CallerStep(r) \/ ReaderStep(r) \/ CallerChoice(r)
    PROVE  Contract!Next \/ UNCHANGED Contract!vars
<1>t. TypeOK BY DEF IndInv
<1>1. CASE ReadBodyFails(r)
  <2>1. Contract!Phase(r, "new", "ended")
    BY <1>1, <1>t, PhaseStep, PhaseValues DEF ReadBodyFails
  <2>2. Contract!Refuse(r)
    BY <1>1, <2>1 DEF ReadBodyFails, Contract!Refuse, Contract!End, conn, server
  <2> QED BY <2>2 DEF Contract!Next
<1>2. CASE SendClosed(r)
  <2>1. Contract!Phase(r, "new", "ended")
    BY <1>2, <1>t, PhaseStep, PhaseValues DEF SendClosed
  <2>2. Contract!Refuse(r)
    BY <1>2, <2>1 DEF SendClosed, Contract!Refuse, Contract!End, conn, server
  <2> QED BY <2>2 DEF Contract!Next
<1>3. CASE Send(r)
  <2>1. Contract!Phase(r, "new", "pending")
    BY <1>3, <1>t, PhaseStep, PhaseValues DEF Send
  <2>2. Contract!Issue(r)
    BY <1>3, <2>1 DEF Send, Contract!Issue, Contract!SetLength, MayWrite
  <2> QED BY <2>2 DEF Contract!Next
<1>4. CASE SendFails(r)
  <2>1. Contract!Phase(r, "new", "ended")
    <3>1. pc[r] = "start" /\ pc' = [pc EXCEPT ![r] = "done"]
      BY <1>4, Zenon DEF SendFails
    <3> QED BY <1>t, <3>1, PhaseStep, PhaseValues
  <2>2. Contract!Refuse(r)
    BY <1>4, <2>1 DEF SendFails, Contract!Refuse, Contract!End, Contract!SetLength, MayWrite
  <2> QED BY <2>2 DEF Contract!Next
<1>5. CASE TakeHeaders(r)
  <2>1. Contract!Phase(r, "pending", "body")
    BY <1>5, <1>t, PhaseStep, PhaseValues DEF TakeHeaders
  <2>2. Contract!Answer(r)
    BY <1>5, <2>1 DEF TakeHeaders, Contract!Answer, conn, server
  <2> QED BY <2>2 DEF Contract!Next
<1>6. CASE TakeErr(r)
  <2>1. Contract!Phase(r, "pending", "ended")
    BY <1>6, <1>t, PhaseStep, PhaseValues DEF TakeErr
  <2>2. Contract!NoAnswer(r)
    BY <1>6, <2>1 DEF TakeErr, Contract!NoAnswer, Contract!End, conn, server
  <2> QED BY <2>2 DEF Contract!Next
<1>7. CASE Cancel(r)
  <2>1. Contract!Phase(r, "pending", "ended")
    BY <1>7, <1>t, PhaseStep, PhaseValues DEF Cancel
  <2>2. Contract!NoAnswer(r)
    BY <1>7, <2>1 DEF Cancel, Contract!NoAnswer, Contract!End, conn, server
  <2> QED BY <2>2 DEF Contract!Next
<1>8. CASE ReadChunk(r)
  <2>1. got[r] < size[r]
    BY <1>8 DEF ReadChunk, BodyInv, ReadOK, ServerOK, IndInv, TypeOK
  <2>2. Contract!Read(r)
    BY <1>8, <2>1, PhaseValues DEF ReadChunk, Contract!Read, conn, server
  <2> QED BY <2>2 DEF Contract!Next
<1>9. CASE ReadEnd(r)
  <2>1. Contract!Phase(r, "body", "ended")
    BY <1>9, <1>t, PhaseStep, PhaseValues DEF ReadEnd
  <2>2. bodyW[r] \in {"eof", "err"} BY <1>9, <1>t DEF ReadEnd, TypeOK
  <2>3. CASE bodyW[r] = "eof"
    <3>1. got[r] = size[r]
      BY <1>9, <2>3 DEF ReadEnd, BodyInv, EndOK, Full, Gone
    <3>2. Contract!Finish(r)
      BY <1>9, <2>1, <2>3, <3>1 DEF ReadEnd, Contract!Finish, Contract!End, conn, server
    <3> QED BY <3>2 DEF Contract!Next
  <2>4. CASE bodyW[r] = "err"
    <3>1. Contract!Break(r)
      BY <1>9, <2>1, <2>4 DEF ReadEnd, Contract!Break, Contract!End, conn, server
    <3> QED BY <3>1 DEF Contract!Next
  <2> QED BY <2>2, <2>3, <2>4
<1>10. CASE Abandon(r)
  <2>1. Contract!Phase(r, "body", "ended")
    BY <1>10, <1>t, PhaseStep, PhaseValues DEF Abandon
  <2>2. Contract!Abandon(r)
    BY <1>10, <2>1 DEF Abandon, Contract!Abandon, Contract!End, conn, server
  <2> QED BY <2>2 DEF Contract!Next
<1>11. CASE Leave(r)
  <2>1. \A q \in Reqs : PhaseOf(pc'[q]) = PhaseOf(pc[q])
    BY <1>11, <1>t, PhaseValues DEF Leave, TypeOK
  <2>2. [q \in Reqs |-> PhaseOf(pc'[q])] = [q \in Reqs |-> PhaseOf(pc[q])]
    BY <2>1
  <2> QED BY <1>11, <2>2 DEF Leave, Contract!vars, server
<1> QED
  BY <1>1, <1>2, <1>3, <1>4, <1>5, <1>6, <1>7, <1>8, <1>9, <1>10, <1>11
     DEF CallerStep, ReaderStep, CallerChoice

(* Every other step is a stutter, or shuts the connection.                 *)
LEMMA OthersRefine ==
    ASSUME IndInv, [Next]_vars,
           ~ \E r \in Reqs : CallerStep(r) \/ ReaderStep(r) \/ CallerChoice(r)
    PROVE  Contract!Next \/ UNCHANGED Contract!vars
<1>1. UNCHANGED <<pc, got, end, size>>
  <2>1. CASE \E q \in Reqs : ReadFrame(q) \/ ReadReset(q)
    BY <2>1 DEF ReadFrame, ReadReset, ServerFrame, caller
  <2>2. CASE LoopStep
    BY <2>2 DEF LoopStep, HandleHeaders, HandleTrailers, WriteFails, CreditWindow,
       EndStream, ReadError, FailAllDone, FailOne, caller, server
  <2>3. CASE CloseStep \/ CloseCall \/ GoAway \/ Drop
    BY <2>3 DEF CloseStep, CloseCall, CloseDone, FailOne, GoAway, Drop, caller, server
  <2>4. CASE UNCHANGED vars
    BY <2>4 DEF vars, caller, server
  <2> QED BY <2>1, <2>2, <2>3, <2>4 DEF Next, Terminated
<1>2. closed' = closed \/ closed' = TRUE
  <2>1. CASE \E q \in Reqs : ReadFrame(q) \/ ReadReset(q)
    BY <2>1 DEF ReadFrame, ReadReset, conn
  <2>2. CASE LoopStep
    BY <2>2 DEF LoopStep, HandleHeaders, HandleTrailers, WriteFails, CreditWindow,
       EndStream, ReadError, FailAllDone, FailOne, TakeAll, conn
  <2>3. CASE CloseStep \/ CloseCall \/ GoAway \/ Drop
    BY <2>3 DEF CloseStep, CloseCall, CloseDone, FailOne, GoAway, Drop, TakeAll
  <2>4. CASE UNCHANGED vars
    BY <2>4 DEF vars, conn
  <2> QED BY <2>1, <2>2, <2>3, <2>4 DEF Next, Terminated
<1>3. CASE closed' = closed
  BY <1>1, <1>3, Zenon DEF Contract!vars
<1>4. CASE ~closed /\ closed' = TRUE
  <2>1. Contract!Shut BY <1>1, <1>4, Zenon DEF Contract!Shut
  <2> QED BY <2>1 DEF Contract!Next
<1>5. closed \in BOOLEAN BY DEF IndInv, TypeOK
<1> QED BY <1>2, <1>3, <1>4, <1>5, Zenon

(* The connection keeps the contract of a RoundTripper with its callers.   *)
THEOREM ContractKept == Spec => ImplementsExchanges
<1>1. Init => Contract!Init
  BY PhaseValues DEF Init, Contract!Init
<1>2. IndInv /\ BodyInv /\ [Next]_vars => [Contract!Next]_Contract!vars
  BY CallerRefines, OthersRefine
<1> QED BY <1>1, <1>2, BodyInductive, PTL DEF Spec, Contract!Spec, ImplementsExchanges
=============================================================================

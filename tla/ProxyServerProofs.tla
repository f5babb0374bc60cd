-------------------------- MODULE ProxyServerProofs --------------------------
(***************************************************************************)
(* Proofs about the proxy front end and the two commands that serve, for   *)
(* any number of client connections.                                       *)
(***************************************************************************)
EXTENDS ProxyServer, TLAPS

\* Serve has returned only behind its last handler, the transport is closed
\* only behind Serve, and nothing stops the server before ctx is done.
OrderOK ==
    /\ serve = "returned" => AllHandled
    /\ transport = "closed" => serve = "returned"
    /\ ~cancelled => listening /\ serve = "accept"

\* A socket is open only in the hands of the handler that will close it.
HandsOK ==
    \A c \in Conns :
        /\ fd[c] = "open" => pc[c] \in Running
        /\ up[c] = "open" => pc[c] = "tunnel"
        /\ pc[c] \in Serving => ~armed[c]
        /\ pc[c] \in Negotiating => armed[c]

\* The child runs only under cmd.Run.
ChildOK == child = "running" => main = "child"

IndInv == TypeOK /\ OrderOK /\ HandsOK /\ ChildOK

-----------------------------------------------------------------------------
LEMMA InitInd == Init => IndInv
<1> SUFFICES ASSUME Init PROVE IndInv
  OBVIOUS
<1>1. TypeOK
  <2>1. armed \in [Conns -> BOOLEAN] BY Zenon DEF Init
  <2>2. cancelled \in BOOLEAN /\ listening \in BOOLEAN BY Zenon DEF Init
  <2> QED BY <2>1, <2>2 DEF Init, TypeOK, Running
<1>2. OrderOK BY DEF Init, OrderOK
<1>3. HandsOK BY DEF Init, HandsOK, Serving, Negotiating
<1>4. ChildOK BY DEF Init, ChildOK
<1> QED BY <1>1, <1>2, <1>3, <1>4 DEF IndInv

(* A step of the handler of one connection.                                *)
LEMMA HandlerInd ==
    ASSUME IndInv, NEW c \in Conns, Handler(c)
    PROVE  IndInv'
<1> USE DEF IndInv, TypeOK, OrderOK, HandsOK, ChildOK, AllHandled, Running, Serving,
            Negotiating, Goto, Hangup, command
<1>1. CASE Peek(c) BY <1>1 DEF Peek
<1>2. CASE Greeting(c) BY <1>2 DEF Greeting
<1>3. CASE Establish(c)
  <2>1. CASE ClearDeadline(c) /\ Goto(c, Route(c)) /\ UNCHANGED fd
    <3>1. /\ armed' \in [Conns -> BOOLEAN] /\ ~armed'[c]
          /\ \A d \in Conns \ {c} : armed'[d] = armed[d]
      BY <2>1, Zenon DEF ClearDeadline
    <3>2. pc' = [pc EXCEPT ![c] = pc'[c]] /\ pc'[c] \in {"dial", "tls"}
      BY <2>1 DEF Route
    <3>3. TypeOK' BY <1>3, <2>1, <3>1, <3>2 DEF Establish
    <3>4. OrderOK' /\ ChildOK' BY <1>3, <2>1, <3>1, <3>2 DEF Establish
    <3>5. HandsOK' BY <1>3, <2>1, <3>1, <3>2 DEF Establish
    <3> QED BY <3>3, <3>4, <3>5 DEF IndInv
  <2>2. CASE Hangup(c) /\ UNCHANGED armed
    BY <1>3, <2>2 DEF Establish
  <2> QED BY <1>3, <2>1, <2>2 DEF Establish
<1>4. CASE Timeout(c) BY <1>4 DEF Timeout
<1>5. CASE DialUpstream(c) BY <1>5 DEF DialUpstream
<1>6. CASE TunnelEnds(c) BY <1>6 DEF TunnelEnds, CloseUpstream
<1>7. CASE ClientTLS(c) BY <1>7 DEF ClientTLS
<1>8. CASE ReadRequest(c) BY <1>8 DEF ReadRequest
<1>9. CASE ClientLeaves(c) BY <1>9 DEF ClientLeaves
<1>10. CASE Forwarded(c) BY <1>10 DEF Forwarded
<1> QED
  BY <1>1, <1>2, <1>3, <1>4, <1>5, <1>6, <1>7, <1>8, <1>9, <1>10 DEF Handler

(* A step of Serve, or a client that arrives.                              *)
LEMMA ServeInd ==
    ASSUME IndInv,
           ServerStep \/ Interrupt \/ \E c \in Conns : Arrive(c) \/ Accept(c)
    PROVE  IndInv'
<1> USE DEF IndInv, TypeOK, OrderOK, HandsOK, ChildOK, AllHandled, Running, Serving,
            Negotiating, Goto, command
<1>1. CASE AcceptFails BY <1>1 DEF AcceptFails
<1>2. CASE CloseListener BY <1>2 DEF CloseListener
<1>3. CASE WaitDone BY <1>3 DEF WaitDone
<1>4. CASE Interrupt BY <1>4 DEF Interrupt
<1>5. ASSUME NEW c \in Conns, Arrive(c) PROVE IndInv'
  BY <1>5 DEF Arrive
<1>6. ASSUME NEW c \in Conns, Accept(c) PROVE IndInv'
  BY <1>6 DEF Accept, ArmDeadline
<1> QED BY <1>1, <1>2, <1>3, <1>4, <1>5, <1>6 DEF ServerStep

(* A step of cmdRun or cmdLaunch, or of the child.                         *)
LEMMA CommandInd ==
    ASSUME IndInv, CommandStep \/ ChildExits \/ KillChild
    PROVE  IndInv'
<1> USE DEF IndInv, TypeOK, OrderOK, HandsOK, ChildOK, AllHandled, Running, Serving,
            Negotiating
<1>1. CASE CloseTransport BY <1>1 DEF CloseTransport
<1>2. CASE StartChild BY <1>2 DEF StartChild
<1>3. CASE StopOnExit BY <1>3 DEF StopOnExit
<1>4. CASE LaunchReturn BY <1>4 DEF LaunchReturn
<1>5. CASE ChildExits \/ KillChild BY <1>5 DEF ChildExits, KillChild
<1> QED BY <1>1, <1>2, <1>3, <1>4, <1>5 DEF CommandStep

LEMMA NextInd == IndInv /\ [Next]_vars => IndInv'
<1>1. ASSUME IndInv, UNCHANGED vars PROVE IndInv'
  BY <1>1 DEF vars, IndInv, TypeOK, OrderOK, HandsOK, ChildOK, AllHandled
<1> QED BY <1>1, HandlerInd, ServeInd, CommandInd DEF Next

LEMMA Inductive == Spec => []IndInv
BY InitInd, NextInd, PTL DEF Spec

-----------------------------------------------------------------------------
(* No handler returns with an open socket, and no session or tunnel runs   *)
(* under the negotiation deadline, however many clients connect.           *)
THEOREM SocketsAreSettled == Spec => []SocketsSettled
<1>1. IndInv => SocketsSettled
  BY DEF IndInv, TypeOK, HandsOK, SocketsSettled, Running, Serving, Negotiating
<1> QED BY <1>1, Inductive, PTL

(* No handler reads from a client that is still negotiating without a      *)
(* deadline, on any path from accept to the CONNECT request (server.go,    *)
(* lines 22-25): what NegotiationEnds needs of the code, the rest of it    *)
(* being that a deadline fires.                                            *)
THEOREM NegotiationsAreArmed ==
    Spec => [](\A c \in Conns : pc[c] \in Negotiating => armed[c])
<1>1. IndInv => \A c \in Conns : pc[c] \in Negotiating => armed[c]
  BY DEF IndInv, HandsOK
<1> QED BY <1>1, Inductive, PTL

(* cmdRun closes the transport behind the last handler.                    *)
THEOREM TransportOutlivesUse == Spec => []NoUseAfterClose
<1>1. IndInv => NoUseAfterClose
  BY DEF IndInv, OrderOK, AllHandled, NoUseAfterClose
<1> QED BY <1>1, Inductive, PTL

(* While the child of doppel launch runs, so does its proxy.               *)
THEOREM ChildIsServed == Spec => []ChildHasProxy
<1>1. IndInv => ChildHasProxy
  BY DEF IndInv, OrderOK, ChildOK, ChildHasProxy, Alive
<1> QED BY <1>1, Inductive, PTL
=============================================================================

---------------------------- MODULE ProxyServer -----------------------------
(***************************************************************************)
(* The proxy front end: Serve and handle (internal/proxy/server.go), the   *)
(* HTTP CONNECT and SOCKS5 negotiations (http.go, socks5.go), the hand-    *)
(* over to Intercept or Passthrough (internal/mitm/mitm.go), and the two   *)
(* commands that serve (cmd/doppel/main.go): cmdRun, and cmdLaunch, which  *)
(* runs a child process (internal/launch/launch.go) beside the server.     *)
(*                                                                         *)
(* Each client connection has a handler goroutine; the bytes of the        *)
(* negotiations are abstracted to whether the client's next message is     *)
(* acceptable.  Clients may fall silent or leave at any point.             *)
(***************************************************************************)
EXTENDS Integers

CONSTANTS Conns,          \* client connections
          Passthrough     \* those whose target matches the passthrough list

ASSUME ServerAssumption == Passthrough \subseteq Conns

VARIABLES
    mode,        \* the command: "run", "launch"
    main,        \* its goroutine: "start", "child" (cmd.Run), "select", "serve",
                 \* "exited" (the process is gone)
    child,       \* the launched process: "none", "running", "exited"
    cancelled,   \* ctx is done
    listening,   \* ln is open
    serve,       \* Serve: "accept", "wait" (wg.Wait), "returned"
    transport,   \* the RoundTripper: "open", "closed"
    pc,          \* the handler of each connection
    fd,          \* the client socket: "none", "open", "closed"
    armed,       \* it has a read deadline
    up           \* the upstream socket of a tunnel: "none", "open", "closed"

command == <<mode, main, child>>
vars == <<mode, main, child, cancelled, listening, serve, transport, pc, fd, armed, up>>

Negotiating == {"peek", "http", "greeting", "request"}
Serving     == {"tls", "session", "forward", "dial", "tunnel"}
Running     == Negotiating \cup Serving   \* counted by the WaitGroup

\* The types.
TypeOK ==
    /\ cancelled \in BOOLEAN /\ listening \in BOOLEAN
    /\ serve \in {"accept", "wait", "returned"}
    /\ transport \in {"open", "closed"}
    /\ pc \in [Conns -> Running \cup {"away", "queued", "gone"}]
    /\ fd \in [Conns -> {"none", "open", "closed"}]
    /\ armed \in [Conns -> BOOLEAN]
    /\ up \in [Conns -> {"none", "open", "closed"}]
    /\ mode \in {"run", "launch"}
    /\ main \in {"start", "child", "select", "serve", "exited"}
    /\ child \in {"none", "running", "exited"}

Init ==
    /\ cancelled = FALSE /\ listening = TRUE
    /\ serve = "accept" /\ transport = "open"
    /\ pc = [c \in Conns |-> "away"] /\ fd = [c \in Conns |-> "none"]
    /\ armed = [c \in Conns |-> FALSE]
    /\ up = [c \in Conns |-> "none"]
    /\ child = "none"
    /\ mode \in {"run", "launch"}
    /\ main = IF mode = "run" THEN "serve" ELSE "start"

Goto(c, at) == pc' = [pc EXCEPT ![c] = at]

\* The handler closes the connection and returns.
Hangup(c) == Goto(c, "gone") /\ fd' = [fd EXCEPT ![c] = "closed"]

-----------------------------------------------------------------------------
(* Serve.                                                                  *)

\* A client connects (external).
Arrive(c) ==
    /\ pc[c] = "away" /\ listening
    /\ Goto(c, "queued")
    /\ UNCHANGED <<cancelled, listening, serve, transport, fd, armed, up, command>>

\* Accept; handle sets the negotiation deadline before the first read.
MutNoDeadline(c) == UNCHANGED armed
ArmDeadline(c) == armed' = [armed EXCEPT ![c] = TRUE]

Accept(c) ==
    /\ serve = "accept" /\ listening
    /\ pc[c] = "queued"
    /\ Goto(c, "peek")
    /\ fd' = [fd EXCEPT ![c] = "open"]
    /\ ArmDeadline(c)
    /\ UNCHANGED <<cancelled, listening, serve, transport, up, command>>

\* Accept fails, for whatever reason, after ctx is done.  Before that the
\* loop logs the failure and continues, which changes nothing.
AcceptFails ==
    /\ serve = "accept"
    /\ cancelled
    /\ serve' = "wait"
    /\ UNCHANGED <<cancelled, listening, transport, pc, fd, armed, up, command>>

Interrupt ==
    /\ ~cancelled
    /\ cancelled' = TRUE
    /\ UNCHANGED <<listening, serve, transport, pc, fd, armed, up, command>>

\* The goroutine of Serve that waits for ctx.  Clients in the backlog are lost.
CloseListener ==
    /\ cancelled /\ listening
    /\ listening' = FALSE
    /\ pc' = [c \in Conns |-> IF pc[c] = "queued" THEN "gone" ELSE pc[c]]
    /\ UNCHANGED <<cancelled, serve, transport, fd, armed, up, command>>

\* wg.Wait returns when every handler has.
MutNoWait == TRUE
AllHandled == \A c \in Conns : pc[c] \notin Running

WaitDone ==
    /\ serve = "wait"
    /\ AllHandled
    /\ serve' = "returned"
    /\ UNCHANGED <<cancelled, listening, transport, pc, fd, armed, up, command>>

-----------------------------------------------------------------------------
(* The commands.  When main returns the process and its goroutines end.    *)

\* cmdRun: ListenAndServe has returned; the deferred transport.Close runs.
CloseTransport ==
    /\ main = "serve" /\ serve = "returned"
    /\ transport' = "closed" /\ main' = "exited"
    /\ UNCHANGED <<mode, child, cancelled, listening, serve, pc, fd, armed, up>>

\* cmdLaunch: cmd.Run starts the child, unless it cannot be started or ctx is
\* done already; then stop() follows at once.
MutStartWithoutWait ==
    /\ main = "start"
    /\ child' = "running" /\ cancelled' = TRUE /\ main' = "select"
    /\ UNCHANGED <<mode, listening, serve, transport, pc, fd, armed, up>>
StartChild ==
    /\ main = "start"
    /\ \/ ~cancelled /\ child' = "running" /\ main' = "child" /\ UNCHANGED cancelled
       \/ cancelled' = TRUE /\ main' = "select" /\ UNCHANGED child
    /\ UNCHANGED <<mode, listening, serve, transport, pc, fd, armed, up>>

\* The child ends when it wants to (external) ...
ChildExits ==
    /\ child = "running"
    /\ child' = "exited"
    /\ UNCHANGED <<mode, main, cancelled, listening, serve, transport, pc, fd, armed, up>>

\* ... or because CommandContext kills it when ctx is done.
KillChild == cancelled /\ ChildExits

\* cmd.Run returns and stop() cancels ctx.
StopOnExit ==
    /\ main = "child" /\ child = "exited"
    /\ cancelled' = TRUE /\ main' = "select"
    /\ UNCHANGED <<mode, child, listening, serve, transport, pc, fd, armed, up>>

\* The select: Serve has returned, or the five seconds are over.
MutNoTimer == serve = "returned"
SelectReady == TRUE
LaunchReturn ==
    /\ main = "select"
    /\ SelectReady
    /\ main' = "exited"
    /\ UNCHANGED <<mode, child, cancelled, listening, serve, transport, pc, fd, armed, up>>

-----------------------------------------------------------------------------
(* handle.                                                                 *)

\* The first byte selects the protocol; SOCKS4 and a failed read hang up.
Peek(c) ==
    /\ pc[c] = "peek"
    /\ \/ (\E proto \in {"http", "greeting"} : Goto(c, proto)) /\ UNCHANGED fd
       \/ Hangup(c)
    /\ UNCHANGED <<cancelled, listening, serve, transport, armed, up, command>>

\* SOCKS5 greeting; "no authentication" is selected whatever was offered.
Greeting(c) ==
    /\ pc[c] = "greeting"
    /\ \/ Goto(c, "request") /\ UNCHANGED fd
       \/ Hangup(c)
    /\ UNCHANGED <<cancelled, listening, serve, transport, armed, up, command>>

\* Where the connection goes once the target is known.
Route(c) == IF c \in Passthrough THEN "dial" ELSE "tls"

ClearDeadline(c) == armed' = [armed EXCEPT ![c] = FALSE]

\* The CONNECT request of either protocol is accepted and answered before any
\* upstream connection exists; or it is malformed, of another method or
\* command, or the reply cannot be written.
Establish(c) ==
    /\ pc[c] \in {"http", "request"}
    /\ \/ ClearDeadline(c) /\ Goto(c, Route(c)) /\ UNCHANGED fd
       \/ Hangup(c) /\ UNCHANGED armed
    /\ UNCHANGED <<cancelled, listening, serve, transport, up, command>>

\* The deadline fires and the pending read fails.
Timeout(c) ==
    /\ pc[c] \in Negotiating
    /\ armed[c]
    /\ Hangup(c)
    /\ UNCHANGED <<cancelled, listening, serve, transport, armed, up, command>>

-----------------------------------------------------------------------------
(* Passthrough: DialTCP, then two copies until the first of them ends.     *)

\* DialTCP, which bounds itself (module UpstreamDial).
DialUpstream(c) ==
    /\ pc[c] = "dial"
    /\ \/ /\ up' = [up EXCEPT ![c] = "open"]
          /\ Goto(c, "tunnel") /\ UNCHANGED fd
       \/ Hangup(c) /\ UNCHANGED up
    /\ UNCHANGED <<cancelled, listening, serve, transport, armed, command>>

MutKeepUpstream(c) == UNCHANGED up
CloseUpstream(c) == up' = [up EXCEPT ![c] = "closed"]

TunnelEnds(c) ==
    /\ pc[c] = "tunnel"
    /\ CloseUpstream(c)
    /\ Hangup(c)
    /\ UNCHANGED <<cancelled, listening, serve, transport, armed, command>>

-----------------------------------------------------------------------------
(* Intercept: TLS with the client, then one request after the other.       *)

ClientTLS(c) ==
    /\ pc[c] = "tls"
    /\ \/ Goto(c, "session") /\ UNCHANGED fd
       \/ Hangup(c)
    /\ UNCHANGED <<cancelled, listening, serve, transport, armed, up, command>>

ReadRequest(c) ==
    /\ pc[c] = "session"
    /\ Goto(c, "forward")
    /\ UNCHANGED <<cancelled, listening, serve, transport, fd, armed, up, command>>

\* The client closes its side between two requests.
ClientLeaves(c) ==
    /\ pc[c] = "session"
    /\ Hangup(c)
    /\ UNCHANGED <<cancelled, listening, serve, transport, armed, up, command>>

\* forward returns: the next request is read, or an error ends the session.
Forwarded(c) ==
    /\ pc[c] = "forward"
    /\ \/ Goto(c, "session") /\ UNCHANGED fd
       \/ Hangup(c)
    /\ UNCHANGED <<cancelled, listening, serve, transport, armed, up, command>>

-----------------------------------------------------------------------------
Alive == main # "exited"

ServerStep  == AcceptFails \/ CloseListener \/ WaitDone
CommandStep == CloseTransport \/ StartChild \/ StopOnExit \/ LaunchReturn

Handler(c) ==
    \/ Peek(c) \/ Greeting(c) \/ Establish(c) \/ Timeout(c)
    \/ DialUpstream(c) \/ TunnelEnds(c)
    \/ ClientTLS(c) \/ ReadRequest(c) \/ ClientLeaves(c) \/ Forwarded(c)

Next ==
    \/ /\ Alive
       /\ \/ ServerStep \/ CommandStep \/ Interrupt
          \/ \E c \in Conns : Arrive(c) \/ Accept(c) \/ Handler(c)
    \/ ChildExits
    \/ Alive /\ KillChild
    \/ ~Alive /\ UNCHANGED vars

Spec == Init /\ [][Next]_vars

(* The server's own goroutines run, and a deadline that is set fires.      *)
(* Nothing is assumed of clients.                                          *)
ServerFairness ==
    /\ WF_vars(Alive /\ ServerStep)
    /\ WF_vars(CommandStep)
    /\ WF_vars(Alive /\ KillChild)
    /\ \A c \in Conns : WF_vars(Alive /\ Timeout(c))

ServerSpec == Spec /\ ServerFairness

-----------------------------------------------------------------------------
(* A handler that has returned has closed its client socket and the        *)
(* upstream socket of its tunnel, on every path through the negotiations,  *)
(* Passthrough and Intercept; and a long-lived session never inherits the  *)
(* negotiation deadline (http.go, lines 34-36; socks5.go, lines 37-39).    *)
SocketsSettled ==
    \A c \in Conns :
        /\ pc[c] = "gone" => fd[c] # "open" /\ up[c] # "open"
        /\ pc[c] \in Serving => ~armed[c]

(* The transport is closed only when no request is being forwarded, which  *)
(* is what RoundTripper.Close asks of its caller (roundtripper.go, line    *)
(* 83); Serve's WaitGroup is what guarantees it.                           *)
NoUseAfterClose ==
    transport = "closed" => \A c \in Conns : pc[c] \notin Running

(* A client that connects and goes silent does not pin a goroutine: every  *)
(* negotiation ends (server.go, lines 22-25).                              *)
NegotiationEnds ==
    \A c \in Conns : (pc[c] \in Negotiating) ~> (pc[c] \notin Negotiating \/ ~Alive)

(* Dialling has a deadline; upstreams answer; clients that have been       *)
(* served for long enough finish their TLS handshake and leave.            *)
ClientsLeave ==
    \A c \in Conns :
        /\ WF_vars(Alive /\ DialUpstream(c)) /\ WF_vars(Alive /\ TunnelEnds(c))
        /\ WF_vars(Alive /\ ClientTLS(c)) /\ WF_vars(Alive /\ Forwarded(c))
        /\ SF_vars(Alive /\ ClientLeaves(c))

(* After an interrupt, once the clients in service leave, Serve returns    *)
(* (server.go, lines 57-58) and cmdRun closes the transport and exits, in  *)
(* whatever order the accept error and the closing goroutine come.         *)
ServeReturns ==
    ClientsLeave => ((mode = "run" /\ cancelled) ~> (transport = "closed" /\ ~Alive))

(* The child never outlives doppel launch ("stops the proxy when the child *)
(* exits", main.go, lines 183-184), and while it runs its proxy accepts    *)
(* connections until an interrupt.                                         *)
ChildHasProxy ==
    child = "running" => Alive /\ (~cancelled => listening /\ serve = "accept")

(* Once the child has exited or the user has interrupted, doppel launch    *)
(* ends, whatever the connected clients do (main.go, lines 287-298).       *)
LaunchEnds ==
    (mode = "launch" /\ (cancelled \/ child = "exited")) ~> ~Alive
=============================================================================

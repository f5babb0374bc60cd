---------------------------- MODULE UpstreamDial ----------------------------
(***************************************************************************)
(* One outgoing connection of the Dialer (internal/upstream/dialer.go):    *)
(* the bypass list, the direct dial, the SOCKS5 client handshake with the  *)
(* upstream proxy (proxy.go) and the TLS handshake or tunnel that follows. *)
(*                                                                         *)
(* The handshake is modelled byte by byte, with the real lengths, since    *)
(* its hazard is that the two ends lose their place in the stream.  The    *)
(* upstream proxy is either another Doppel, whose socks5Negotiate          *)
(* (internal/proxy/socks5.go) is modelled as it is, or a proxy that may    *)
(* select any method, refuse, bind any address, fall silent or hang up.    *)
(***************************************************************************)
EXTENDS Integers, Sequences, SequencesExt

CONSTANTS Targets,      \* [labels, kind, bytes]: a host as text and as an address
          Credentials,  \* [user, pass]: the lengths of the two, and NoAuth
          NoAuth,       \* p.Auth = nil
          BypassList,   \* [form, labels], form "local", "suffix" or "exact"
          Local,        \* 127.0.0.1, ::1 and localhost
          Lower,        \* lower case of a label
          None

IPv4len == 4
IPv6len == 16

ASSUME DialAssumption ==
    /\ \A t \in Targets :
          /\ t.kind \in {"v4", "v6", "name"} /\ t.bytes \in Seq(0..255)
          /\ t.kind = "v4" => Len(t.bytes) = IPv4len
          /\ t.kind = "v6" => Len(t.bytes) = IPv6len
          /\ t.labels \in Seq(DOMAIN Lower)
    /\ NoAuth \in Credentials
    /\ Credentials \subseteq {NoAuth} \cup [user : Nat, pass : Nat]
    /\ \A p \in BypassList : p.form \in {"local", "suffix", "exact"}

Payload == 256                    \* a byte of the stream behind the handshake

Byte(n) == n % 256                \* Go's byte(n)
Fill(n) == [i \in 1..n |-> 97]
Port == <<1, 187>>                \* 443, big endian

VARIABLES
    conf,     \* [target, auth, proxy, use, peer]: fixed for the connection
    pc,       \* the dialling goroutine
    sock,     \* its socket: "none", "open", "closed"
    armed,    \* the socket has a deadline
    bound,    \* [status, n]: the connect reply being read
    up, down, \* bytes in flight to and from the proxy
    sp,       \* the proxy: "greeting", "auth", "request", "tunnel", "closed"
    heard,    \* [auth, target]: what the proxy understood
    answered  \* the target has sent its byte

vars == <<conf, pc, sock, armed, bound, up, down, sp, heard, answered>>

Reading   == {"method", "authReply", "reply", "boundLen", "bound"}
Connected == {"tls", "tunnel", "session"}

\* The types; a deadline is only on a socket.
TypeOK ==
    /\ conf.target \in Targets /\ conf.auth \in Credentials
    /\ pc \in Reading \cup Connected \cup {"route", "greet", "failed"}
    /\ sock \in {"none", "open", "closed"} /\ armed \in BOOLEAN
    /\ bound.status \in 0..255 /\ bound.n \in 0..255
    /\ up \in Seq(0..Payload) /\ down \in Seq(0..Payload)
    /\ sp \in {"greeting", "auth", "request", "tunnel", "closed"}
    /\ armed => sock # "none"

Init ==
    /\ conf \in [target : Targets, auth : Credentials, proxy : BOOLEAN,
                 use : {"tls", "tunnel"}, peer : {"doppel", "other"}]
    /\ pc = "route" /\ sock = "none" /\ armed = FALSE
    /\ bound = [status |-> 0, n |-> 0]
    /\ up = <<>> /\ down = <<>>
    /\ sp = "greeting" /\ heard = [auth |-> None, target |-> None]
    /\ answered = FALSE

-----------------------------------------------------------------------------
(* DialTCP and the bypass list.                                            *)

Folded(labels) == [i \in DOMAIN labels |-> Lower[labels[i]]]

\* One pattern; ".host.com" is host.com and what is below it.
MatchesPattern(p, host) ==
    \/ p.form = "local" /\ host \in Local
    \/ p.form = "suffix" /\ IsSuffix(Folded(p.labels), Folded(host))
    \/ p.form = "exact" /\ Folded(p.labels) = Folded(host)

MatchesBypass(host) == \E p \in BypassList : MatchesPattern(p, host)

Via == conf.proxy /\ ~MatchesBypass(conf.target.labels)

Behind == up' = up \o <<Payload>>    \* ClientHello, or the client's first byte

\* The connection is ready: DialWithALPN sets its deadline and starts TLS, a
\* passthrough tunnel starts to copy with whatever deadline the socket has.
Begin ==
    /\ pc' = conf.use
    /\ armed' = (armed \/ conf.use = "tls")
    /\ Behind

Fail == pc' = "failed" /\ sock' = "closed"

\* The direct dial; the peer is the target itself.
DialDirect ==
    /\ pc = "route" /\ ~Via
    /\ \/ sock' = "open" /\ Begin /\ sp' = "tunnel"
       \/ pc' = "failed" /\ UNCHANGED <<sock, armed, up, sp>>
    /\ UNCHANGED <<conf, bound, down, heard, answered>>

\* dialSOCKS5 up to SetDeadline.
MutNoDeadline ==
    /\ pc = "route" /\ Via
    /\ \/ sock' = "open" /\ pc' = "greet"
       \/ pc' = "failed" /\ UNCHANGED sock
    /\ UNCHANGED <<conf, armed, bound, up, down, sp, heard, answered>>
DialProxy ==
    /\ pc = "route" /\ Via
    /\ \/ sock' = "open" /\ armed' = TRUE /\ pc' = "greet"
       \/ pc' = "failed" /\ UNCHANGED <<sock, armed>>
    /\ UNCHANGED <<conf, bound, up, down, sp, heard, answered>>

-----------------------------------------------------------------------------
(* socks5Handshake.  io.ReadFull(n) waits for n bytes.                     *)

Take(n) == Len(down) >= n /\ down' = SubSeq(down, n + 1, Len(down))

Methods == IF conf.auth = NoAuth THEN <<0>> ELSE <<0, 2>>
MutCountMethods == <<5, 2>> \o Methods
Greeting == <<5, Byte(Len(Methods))>> \o Methods

Greet ==
    /\ pc = "greet"
    /\ up' = up \o Greeting
    /\ pc' = "method"
    /\ UNCHANGED <<conf, sock, armed, bound, down, sp, heard, answered>>

CredentialsFit == conf.auth.user <= 255 /\ conf.auth.pass <= 255

UsernamePassword ==
    <<1, Byte(conf.auth.user)>> \o Fill(conf.auth.user)
        \o <<Byte(conf.auth.pass)>> \o Fill(conf.auth.pass)

\* socks5ConnectRequest; a name longer than a length byte can say is an error.
MutAnyName == TRUE
NameFits == conf.target.kind # "name" \/ Len(conf.target.bytes) <= 255

ConnectRequest ==
    LET t == conf.target
    IN  <<5, 1, 0>>
        \o (CASE t.kind = "v4" -> <<1>>
              [] t.kind = "v6" -> <<4>>
              [] t.kind = "name" -> <<3, Byte(Len(t.bytes))>>)
        \o t.bytes \o Port

Connect ==
    IF NameFits THEN up' = up \o ConnectRequest /\ pc' = "reply" /\ UNCHANGED sock
                ELSE Fail /\ UNCHANGED up

Authenticate ==
    IF conf.auth # NoAuth /\ CredentialsFit
    THEN up' = up \o UsernamePassword /\ pc' = "authReply" /\ UNCHANGED sock
    ELSE Fail /\ UNCHANGED up

MethodSelected ==
    /\ pc = "method" /\ Take(2)
    /\ CASE down[1] = 5 /\ down[2] = 2 -> Authenticate
         [] down[1] = 5 /\ down[2] = 0 -> Connect
         [] OTHER -> Fail /\ UNCHANGED up
    /\ UNCHANGED <<conf, armed, bound, sp, heard, answered>>

\* The version byte of this reply is not looked at.
AuthReply ==
    /\ pc = "authReply" /\ Take(2)
    /\ IF down[2] = 0 THEN Connect ELSE Fail /\ UNCHANGED up
    /\ UNCHANGED <<conf, armed, bound, sp, heard, answered>>

ReplyHeader ==
    /\ pc = "reply" /\ Take(4)
    /\ bound' = [status |-> down[2],
                 n |-> CASE down[4] = 1 -> IPv4len [] down[4] = 4 -> IPv6len [] OTHER -> 0]
    /\ IF down[1] # 5 \/ down[4] \notin {1, 3, 4} THEN Fail
       ELSE pc' = (IF down[4] = 3 THEN "boundLen" ELSE "bound") /\ UNCHANGED sock
    /\ UNCHANGED <<conf, armed, up, sp, heard, answered>>

BoundLen ==
    /\ pc = "boundLen" /\ Take(1)
    /\ bound' = [bound EXCEPT !.n = down[1]]
    /\ pc' = "bound"
    /\ UNCHANGED <<conf, sock, armed, up, sp, heard, answered>>

\* The address and the port are discarded before the status is looked at.
MutNoPort == bound.n
BoundBytes == bound.n + 2

Bound ==
    /\ pc = "bound" /\ Take(BoundBytes)
    /\ IF bound.status = 0 THEN Begin /\ UNCHANGED sock ELSE Fail /\ UNCHANGED <<armed, up>>
    /\ UNCHANGED <<conf, bound, sp, heard, answered>>

\* A read or a write fails because the proxy is gone.
PeerGone ==
    /\ pc \in Reading \cup {"greet"} /\ sp = "closed"
    /\ Fail
    /\ UNCHANGED <<conf, armed, bound, up, down, sp, heard, answered>>

\* The deadline expires, whatever the peer does.
Timeout ==
    /\ armed /\ pc \in Reading \cup {"greet", "tls"}
    /\ Fail
    /\ UNCHANGED <<conf, armed, bound, up, down, sp, heard, answered>>

-----------------------------------------------------------------------------
(* DialWithALPN behind the dial: the handshake, and its deadline cleared.  *)

MutKeepDeadline == UNCHANGED armed
ClearDeadline == armed' = FALSE

TLSHandshake ==
    /\ pc = "tls" /\ Take(1)
    /\ \/ down[1] = Payload /\ pc' = "session" /\ ClearDeadline /\ UNCHANGED sock
       \/ Fail /\ UNCHANGED armed
    /\ UNCHANGED <<conf, bound, up, sp, heard, answered>>

TLSPeerGone ==
    /\ pc = "tls" /\ sp = "closed"
    /\ Fail
    /\ UNCHANGED <<conf, armed, bound, up, down, sp, heard, answered>>

-----------------------------------------------------------------------------
(* The proxy.  It reads a message when all of it has arrived.              *)

Consume(n) == Len(up) >= n /\ up' = SubSeq(up, n + 1, Len(up))

\* socks5Negotiate: the methods offered are discarded and none is selected.
PeerGreeting ==
    /\ sp = "greeting" /\ Len(up) >= 2
    /\ Consume(2 + up[2])
    /\ \E m \in IF conf.peer = "doppel" THEN {0} ELSE {0, 1, 2, 255} :
          /\ down' = down \o <<5, m>>
          /\ sp' = CASE m = 0 -> "request" [] m = 2 -> "auth" [] OTHER -> "closed"
    /\ UNCHANGED <<conf, pc, sock, armed, bound, heard, answered>>

PeerAuth ==
    /\ sp = "auth" /\ Len(up) >= 2 /\ Len(up) >= 3 + up[2]
    /\ Consume(3 + up[2] + up[3 + up[2]])
    /\ heard' = [heard EXCEPT !.auth = [user |-> up[2], pass |-> up[3 + up[2]]]]
    /\ \E status \in {0, 1} :
          /\ down' = down \o <<1, status>>
          /\ sp' = IF status = 0 THEN "request" ELSE "closed"
    /\ UNCHANGED <<conf, pc, sock, armed, bound, answered>>

\* readSOCKS5Address: the first byte of the address and its length.
AddrFrom == IF up[4] = 3 THEN 5 ELSE 4
AddrLen ==
    CASE up[4] = 1 -> IPv4len [] up[4] = 4 -> IPv6len [] up[4] = 3 -> up[5]

KindOf(atyp) == CASE atyp = 1 -> "v4" [] atyp = 4 -> "v6" [] atyp = 3 -> "name"

\* writeSOCKS5Reply always binds 0.0.0.0:0.  The other proxy may bind an
\* address of any type and refuse.
DoppelReply == <<5, 0, 0, 1, 0, 0, 0, 0, 0, 0>>

BoundAddrs == {<<1>> \o Fill(IPv4len), <<4>> \o Fill(IPv6len), <<3, 0>>,
               <<3, 2>> \o Fill(2), <<9>>}
OtherReply(status, addr) == <<5, status, 0>> \o addr \o <<0, 0>>

Replies ==
    IF conf.peer = "doppel" THEN {DoppelReply}
    ELSE {OtherReply(status, addr) : status \in {0, 5}, addr \in BoundAddrs}

PeerRequest ==
    /\ sp = "request" /\ Len(up) >= 5
    /\ IF up[1] = 5 /\ up[2] = 1 /\ up[4] \in {1, 3, 4}
       THEN /\ Consume(AddrFrom + AddrLen + 2)
            /\ heard' = [heard EXCEPT !.target =
                  [kind |-> KindOf(up[4]), bytes |-> SubSeq(up, AddrFrom + 1, AddrFrom + AddrLen),
                   port |-> SubSeq(up, AddrFrom + AddrLen + 1, AddrFrom + AddrLen + 2)]]
            /\ \E r \in Replies :
                  /\ down' = down \o r
                  /\ sp' = IF r[2] = 0 THEN "tunnel" ELSE "closed"
       ELSE sp' = "closed" /\ UNCHANGED <<up, down, heard>>
    /\ UNCHANGED <<conf, pc, sock, armed, bound, answered>>

\* The target sends something, perhaps before it is asked to.
TargetSends ==
    /\ sp = "tunnel" /\ ~answered
    /\ down' = down \o <<Payload>> /\ answered' = TRUE
    /\ UNCHANGED <<conf, pc, sock, armed, bound, up, sp, heard>>

PeerCloses ==
    /\ sp # "closed" /\ pc # "route"
    /\ sp' = "closed"
    /\ UNCHANGED <<conf, pc, sock, armed, bound, up, down, heard, answered>>

-----------------------------------------------------------------------------
DialReads == MethodSelected \/ AuthReply \/ ReplyHeader \/ BoundLen \/ Bound
PeerReads == PeerGreeting \/ PeerAuth \/ PeerRequest

DialStep ==
    \/ DialDirect \/ DialProxy \/ Greet \/ DialReads
    \/ PeerGone \/ Timeout \/ TLSHandshake \/ TLSPeerGone

PeerStep == PeerReads \/ TargetSends \/ PeerCloses

Done == pc \in {"tunnel", "session", "failed"} /\ UNCHANGED vars

Next == DialStep \/ PeerStep \/ Done

(* The goroutine runs and a deadline that is set fires; nothing is assumed *)
(* of the proxy.                                                           *)
Spec == Init /\ [][Next]_vars /\ WF_vars(DialStep)

-----------------------------------------------------------------------------
(* Neither end eats a byte of the stream behind the handshake, and neither *)
(* leaves one of the handshake in it: what follows the reply is what the   *)
(* target sent (proxy.go, lines 222-260) and what follows the request is   *)
(* what Doppel sent (socks5.go, lines 54-145).                             *)
StreamAligned ==
    /\ pc \in Connected =>
          \A i \in DOMAIN down : down[i] = Payload
    /\ (pc \in Connected /\ answered /\ sp = "tunnel") =>
          Len(down) = (IF pc = "session" THEN 0 ELSE 1)
    /\ (pc \in Connected /\ sp = "tunnel") => up = <<Payload>>

\* What the documentation of the bypass list says it covers.
OnBypassList ==
    \E p \in BypassList :
        /\ p.form # "local"
        /\ \E i \in 0..Len(conf.target.labels) :
              /\ Folded(SubSeq(conf.target.labels, i + 1, Len(conf.target.labels)))
                     = Folded(p.labels)
              /\ p.form = "exact" => i = 0

(* The proxy understands the very target and credentials Doppel was given, *)
(* whatever their lengths (proxy.go, lines 161-220), and nothing at all of *)
(* a host on the bypass list, or below a domain on it, in any spelling     *)
(* (dialer.go, lines 37-41).                                               *)
ProxyHearsRight ==
    /\ heard.auth \in {None, conf.auth}
    /\ heard.target \in
          {None, [kind |-> conf.target.kind, bytes |-> conf.target.bytes, port |-> Port]}
    /\ OnBypassList => pc \notin Reading \cup {"greet"} /\ heard.target = None

\* The bytes that have arrived do not complete what io.ReadFull is to read.
DialWaits ==
    \/ pc \in {"method", "authReply"} /\ Len(down) < 2
    \/ pc = "reply" /\ Len(down) < 4
    \/ pc = "boundLen" /\ Len(down) < 1
    \/ pc = "bound" /\ Len(down) < BoundBytes
PeerWaits ==
    \/ sp = "greeting" /\ (Len(up) < 2 \/ Len(up) < 2 + up[2])
    \/ /\ sp = "auth"
       /\ Len(up) < 2 \/ Len(up) < 3 + up[2] \/ Len(up) < 3 + up[2] + up[3 + up[2]]
    \/ /\ sp = "request"
       /\ \/ Len(up) < 5
          \/ /\ up[1] = 5 /\ up[2] = 1 /\ up[4] \in {1, 3, 4}
             /\ Len(up) < AddrFrom + AddrLen + 2

(* Doppel and the proxy never wait for each other, both with an incomplete *)
(* message: a handshake that stops has been stopped by the peer (proxy.go, *)
(* lines 122-260; socks5.go, lines 54-145).                                *)
NeverBothWait == ~(DialWaits /\ PeerWaits)

(* A dial that fails closes the socket it has opened, at every early       *)
(* return (proxy.go, lines 111-121; dialer.go, lines 77-91), and a TLS     *)
(* session does not inherit the deadline of its dial, be it that of        *)
(* dialSOCKS5 or of the handshake (dialer.go, line 92).                    *)
SocketSettled ==
    /\ pc = "failed" => sock # "open"
    /\ pc = "session" => ~armed

(* Every dial comes to an end although nothing is assumed of the proxy     *)
(* ("Timeout bounds both the TCP connection and the TLS handshake",        *)
(* dialer.go, line 27).                                                    *)
DialEnds == <>(pc \in {"tunnel", "session", "failed"})

=============================================================================

-------------------------- MODULE UpstreamDialProofs --------------------------
(***************************************************************************)
(* Proofs about one outgoing connection, for names, addresses and          *)
(* credentials of any length and any bypass list.                          *)
(***************************************************************************)
EXTENDS UpstreamDial, SequenceTheorems, TLAPS

Bytes == 0..Payload

\* k bytes of the handshake are still to be read, and then comes what the
\* target has sent.
Left(k) ==
    /\ Len(down) = IF answered THEN k + 1 ELSE k
    /\ answered => down[k + 1] = Payload

\* Somebody may still listen to the proxy.
Handshaking == Reading \cup {"greet"}

\* What is fixed for the connection, and the fields of the two records.
ShapeOK ==
    /\ conf.use \in {"tls", "tunnel"}
    /\ bound \in [status : 0..255, n : 0..255]
    /\ heard = [auth |-> heard.auth, target |-> heard.target]

\* The proxy is asked only for what is not on the bypass list.
ViaOK ==
    \/ pc \in Handshaking \/ sp \in {"auth", "request"}
    \/ (sp = "greeting" /\ up # <<>>) \/ heard.target # None
    => Via

HeardOK ==
    /\ heard.auth \in {None, conf.auth}
    /\ heard.target \in
          {None, [kind |-> conf.target.kind, bytes |-> conf.target.bytes, port |-> Port]}

\* What Doppel has sent and the proxy not read: nothing, or one whole message.
UpOK ==
    /\ sp = "greeting" => up = Greeting \/ (up = <<>> /\ pc \in {"route", "greet", "failed"})
    /\ sp = "auth" => up = <<>> \/ (up = UsernamePassword /\ conf.auth # NoAuth /\ CredentialsFit)
    /\ sp = "request" => up = <<>> \/ (up = ConnectRequest /\ NameFits)

\* The connect reply.
ReplyOK ==
    /\ Len(down) >= 5 /\ down[2] \in 0..255
    /\ down[4] = 1 => Left(6 + IPv4len)
    /\ down[4] = 4 => Left(6 + IPv6len)
    /\ down[4] = 3 => down[5] \in 0..255 /\ Left(7 + down[5])

\* Where the two ends are, and what is on its way to Doppel.
PlaceOK ==
    /\ pc \in {"route", "greet", "method", "authReply"} => ~answered
    /\ pc = "route" => sp = "greeting" /\ up = <<>> /\ down = <<>> /\ sock = "none"
    /\ pc = "greet" => sp \in {"greeting", "closed"} /\ up = <<>> /\ down = <<>>
    /\ pc = "method" =>
          \/ sp = "greeting" /\ down = <<>>
          \/ sp = "auth" /\ up = <<>> /\ down = <<5, 2>>
          \/ sp = "request" /\ up = <<>> /\ down = <<5, 0>>
          \/ sp = "closed" /\ Len(down) \in {0, 2}
    /\ pc = "authReply" =>
          \/ sp = "auth" /\ up = UsernamePassword /\ down = <<>>
          \/ sp = "request" /\ up = <<>> /\ down = <<1, 0>>
          \/ sp = "closed" /\ Len(down) \in {0, 2}
    /\ pc = "reply" =>
          \/ sp = "request" /\ up = ConnectRequest /\ down = <<>> /\ ~answered
          \/ sp = "closed" /\ down = <<>> /\ ~answered
          \/ sp \in {"tunnel", "closed"} /\ ReplyOK
    /\ pc = "boundLen" => Len(down) >= 1 /\ down[1] \in 0..255 /\ Left(3 + down[1])
    /\ pc = "bound" => Left(bound.n + 2)
    /\ pc \in {"tls", "tunnel"} => Left(0)
    /\ pc = "session" => down = <<>> /\ answered
    /\ pc \in {"boundLen", "bound"} \cup Connected => sp \in {"tunnel", "closed"}
    /\ pc \in {"reply", "boundLen", "bound"} /\ sp = "tunnel" => up = <<>>
    /\ pc \in Connected /\ sp = "tunnel" => up = <<Payload>>
    /\ pc \notin {"route", "failed"} => sock = "open"

IndInv == TypeOK /\ ShapeOK /\ ViaOK /\ HeardOK /\ UpOK /\ PlaceOK /\ SocketSettled

-----------------------------------------------------------------------------
(* The messages Doppel sends, byte by byte.                                *)

LEMMA MessagesFixed ==
    ASSUME conf' = conf
    PROVE  /\ Greeting' = Greeting /\ UsernamePassword' = UsernamePassword
           /\ ConnectRequest' = ConnectRequest /\ Replies' = Replies
           /\ CredentialsFit' = CredentialsFit /\ NameFits' = NameFits /\ Via' = Via
BY DEF Greeting, Methods, UsernamePassword, ConnectRequest, Replies, CredentialsFit,
       NameFits, Via

\* Two pieces of a message.
LEMMA Joined ==
    ASSUME NEW s \in Seq(Bytes), NEW t \in Seq(Bytes)
    PROVE  /\ s \o t \in Seq(Bytes) /\ Len(s) \in Nat /\ Len(t) \in Nat
           /\ Len(s \o t) = Len(s) + Len(t)
           /\ \A i \in 1..Len(s) : (s \o t)[i] = s[i]
           /\ \A i \in 1..Len(t) : (s \o t)[Len(s) + i] = t[i]
<1>1. /\ s \o t \in Seq(Bytes) /\ Len(s \o t) = Len(s) + Len(t)
      /\ \A i \in 1..Len(s) + Len(t) :
            (s \o t)[i] = IF i <= Len(s) THEN s[i] ELSE t[i - Len(s)]
  BY ConcatProperties, Zenon
<1>2. Len(s) \in Nat /\ Len(t) \in Nat OBVIOUS
<1>3. ASSUME NEW i \in 1..Len(s) PROVE (s \o t)[i] = s[i]
  <2>1. i \in 1..Len(s) + Len(t) /\ i <= Len(s) BY <1>2
  <2> QED BY <1>1, <2>1
<1>4. ASSUME NEW i \in 1..Len(t) PROVE (s \o t)[Len(s) + i] = t[i]
  <2>1. /\ Len(s) + i \in 1..Len(s) + Len(t) /\ ~(Len(s) + i <= Len(s))
        /\ (Len(s) + i) - Len(s) = i
    BY <1>2
  <2> QED BY <1>1, <2>1
<1> QED BY <1>1, <1>2, <1>3, <1>4

LEMMA FillBytes ==
    ASSUME NEW n \in Nat PROVE Fill(n) \in Seq(Bytes) /\ Len(Fill(n)) = n
<1>1. Fill(n) = [i \in 1..n |-> 97] BY DEF Fill
<1>2. \A i \in 1..n : 97 \in Bytes BY DEF Bytes, Payload
<1> QED BY <1>1, <1>2

\* The greeting says how many methods follow, and they do.
LEMMA GreetingBytes ==
    /\ Greeting \in Seq(Bytes) /\ Len(Greeting) >= 2
    /\ Len(Greeting) = 2 + Greeting[2]
<1>1. CASE conf.auth = NoAuth
  BY <1>1, SMT DEF Greeting, Methods, Byte, Bytes, Payload
<1>2. CASE conf.auth # NoAuth
  BY <1>2, SMT DEF Greeting, Methods, Byte, Bytes, Payload
<1> QED BY <1>1, <1>2

\* The two length bytes of the credentials are where their reader looks.
LEMMA CredentialBytes ==
    ASSUME conf.auth \in [user : Nat, pass : Nat], CredentialsFit
    PROVE  /\ UsernamePassword \in Seq(Bytes)
           /\ UsernamePassword[2] = conf.auth.user
           /\ UsernamePassword[3 + conf.auth.user] = conf.auth.pass
           /\ Len(UsernamePassword) = 3 + conf.auth.user + conf.auth.pass
<1> DEFINE u == conf.auth.user
           p == conf.auth.pass
           a == <<1, Byte(u)>>
           b == a \o Fill(u)
           c == b \o <<Byte(p)>>
           d == c \o Fill(p)
<1>1. u \in 0..255 /\ p \in 0..255 BY DEF CredentialsFit
<1>2. Byte(u) = u /\ Byte(p) = p BY <1>1 DEF Byte
<1>3. a \in Seq(Bytes) /\ Len(a) = 2 /\ a[2] = u
  BY <1>1, <1>2 DEF Bytes, Payload
<1>4. <<Byte(p)>> \in Seq(Bytes) /\ Len(<<Byte(p)>>) = 1 /\ <<Byte(p)>>[1] = p
  BY <1>1, <1>2 DEF Bytes, Payload
<1>5. /\ Fill(u) \in Seq(Bytes) /\ Len(Fill(u)) = u
      /\ Fill(p) \in Seq(Bytes) /\ Len(Fill(p)) = p
  BY <1>1, FillBytes
<1> HIDE DEF a
<1>6. b \in Seq(Bytes) /\ Len(b) = 2 + u /\ b[2] = u
  <2>1. /\ b \in Seq(Bytes) /\ Len(b) = Len(a) + Len(Fill(u))
        /\ \A i \in 1..Len(a) : b[i] = a[i]
    BY <1>3, <1>5, Joined, Zenon
  <2> QED BY <1>3, <1>5, <2>1
<1> HIDE DEF b
<1>7. c \in Seq(Bytes) /\ Len(c) = 3 + u /\ c[2] = u /\ c[3 + u] = p
  <2>1. /\ c \in Seq(Bytes) /\ Len(c) = Len(b) + Len(<<Byte(p)>>)
        /\ \A i \in 1..Len(b) : c[i] = b[i]
        /\ \A i \in 1..Len(<<Byte(p)>>) : c[Len(b) + i] = <<Byte(p)>>[i]
    BY <1>4, <1>6, Joined, Zenon
  <2>2. 2 \in 1..Len(b) /\ 1 \in 1..Len(<<Byte(p)>>) /\ Len(b) + 1 = 3 + u
    BY <1>1, <1>4, <1>6
  <2> QED BY <1>4, <1>6, <2>1, <2>2
<1> HIDE DEF c
<1>8. d \in Seq(Bytes) /\ Len(d) = 3 + u + p /\ d[2] = u /\ d[3 + u] = p
  <2>1. /\ d \in Seq(Bytes) /\ Len(d) = Len(c) + Len(Fill(p))
        /\ \A i \in 1..Len(c) : d[i] = c[i]
    BY <1>5, <1>7, Joined, Zenon
  <2>2. 2 \in 1..Len(c) /\ 3 + u \in 1..Len(c) BY <1>1, <1>7
  <2> QED BY <1>5, <1>7, <2>1, <2>2
<1>9. UsernamePassword = d BY DEF UsernamePassword, a, b, c
<1> QED BY <1>8, <1>9

\* Where the address of a request begins, and how long it is, by its bytes.
AddrStart(m) == IF m[4] = 3 THEN 5 ELSE 4
AddrSize(m)  == CASE m[4] = 1 -> IPv4len [] m[4] = 4 -> IPv6len [] m[4] = 3 -> m[5]

\* A reader of the request finds the address and the port, and no byte more.
LEMMA RequestBytes ==
    ASSUME conf.target \in Targets, NameFits
    PROVE  LET m == ConnectRequest
               n == AddrStart(m) + AddrSize(m)
           IN  /\ m \in Seq(Bytes) /\ Len(m) >= 5 /\ m[1] = 5 /\ m[2] = 1
               /\ m[4] \in {1, 3, 4} /\ KindOf(m[4]) = conf.target.kind
               /\ n \in Nat /\ Len(m) = n + 2
               /\ SubSeq(m, AddrStart(m) + 1, n) = conf.target.bytes
               /\ SubSeq(m, n + 1, n + 2) = Port
<1> DEFINE t == conf.target
           h == <<5, 1, 0>>
           w == CASE t.kind = "v4" -> <<1>>
                  [] t.kind = "v6" -> <<4>>
                  [] t.kind = "name" -> <<3, Byte(Len(t.bytes))>>
           a == h \o w
           b == a \o t.bytes
           m == b \o Port
           n == AddrStart(m) + AddrSize(m)
<1>1. /\ t.kind \in {"v4", "v6", "name"} /\ t.bytes \in Seq(0..255)
      /\ t.kind = "v4" => Len(t.bytes) = 4
      /\ t.kind = "v6" => Len(t.bytes) = 16
      /\ t.kind = "name" => Len(t.bytes) <= 255
  BY DialAssumption DEF IPv4len, IPv6len, NameFits
<1>2. t.bytes \in Seq(Bytes) /\ Len(t.bytes) \in Nat
  <2>1. 0..255 \subseteq Bytes BY DEF Bytes, Payload
  <2>2. t.bytes \in Seq(Bytes) BY <1>1, <2>1, SeqMonotonic, Zenon
  <2>3. Len(t.bytes) \in Nat BY <1>1
  <2> QED BY <2>2, <2>3
<1>3. t.kind = "name" => Len(t.bytes) \in 0..255 /\ Byte(Len(t.bytes)) = Len(t.bytes)
  <2>1. ASSUME NEW k \in Nat, k <= 255 PROVE k \in 0..255 /\ Byte(k) = k
    BY <2>1 DEF Byte
  <2>2. t.kind = "name" => Len(t.bytes) <= 255 BY <1>1, Zenon
  <2> QED BY <1>2, <2>1, <2>2, Zenon
<1>4. h \in Seq(Bytes) /\ Len(h) = 3 /\ h[1] = 5 /\ h[2] = 1
  BY DEF Bytes, Payload
<1>5. /\ w \in Seq(Bytes) /\ w[1] \in {1, 3, 4} /\ KindOf(w[1]) = t.kind
      /\ Len(w) = IF w[1] = 3 THEN 2 ELSE 1
      /\ w[1] = 3 => w[2] = Len(t.bytes)
      /\ w[1] = 1 => Len(t.bytes) = 4
      /\ w[1] = 4 => Len(t.bytes) = 16
  <2>1. CASE t.kind = "v4" BY <1>1, <2>1 DEF Bytes, Payload, KindOf
  <2>2. CASE t.kind = "v6" BY <1>1, <2>2 DEF Bytes, Payload, KindOf
  <2>3. CASE t.kind = "name"
    <3>1. w = <<3, Byte(Len(t.bytes))>> BY <2>3
    <3>2. Len(t.bytes) \in 0..255 /\ Byte(Len(t.bytes)) = Len(t.bytes) BY <1>3, <2>3
    <3>3. w = <<3, Len(t.bytes)>> /\ Len(t.bytes) \in 0..255
      <4> HIDE DEF t, w
      <4> QED BY <3>1, <3>2, Zenon
    <3>4. Len(t.bytes) \in Bytes /\ 3 \in Bytes
      <4>1. 0..255 \subseteq Bytes /\ 3 \in Bytes BY DEF Bytes, Payload
      <4> QED BY <3>2, <4>1, Zenon
    <3> HIDE DEF t, w
    <3> QED BY <2>3, <3>3, <3>4 DEF KindOf
  <2> QED BY <1>1, <2>1, <2>2, <2>3
<1>6. Port \in Seq(Bytes) /\ Len(Port) = 2 BY DEF Port, Bytes, Payload
<1>7. ConnectRequest = m BY DEF ConnectRequest
<1> HIDE DEF t, h, w
<1>8. /\ a \in Seq(Bytes) /\ Len(a) = (IF w[1] = 3 THEN 5 ELSE 4)
      /\ a[1] = 5 /\ a[2] = 1 /\ a[4] = w[1] /\ (w[1] = 3 => a[5] = Len(t.bytes))
  <2>1. /\ a \in Seq(Bytes) /\ Len(a) = Len(h) + Len(w)
        /\ \A i \in 1..Len(h) : a[i] = h[i]
        /\ \A i \in 1..Len(w) : a[Len(h) + i] = w[i]
    BY <1>4, <1>5, Joined, Zenon
  <2>2. /\ 1 \in 1..Len(h) /\ 2 \in 1..Len(h) /\ 1 \in 1..Len(w) /\ Len(h) + 1 = 4
        /\ w[1] = 3 => 2 \in 1..Len(w) /\ Len(h) + 2 = 5
    BY <1>4, <1>5
  <2> QED BY <1>4, <1>5, <2>1, <2>2
<1> HIDE DEF a
<1>9. /\ b \in Seq(Bytes) /\ Len(b) = Len(a) + Len(t.bytes)
      /\ \A i \in 1..Len(a) : b[i] = a[i]
      /\ \A i \in 1..Len(t.bytes) : b[Len(a) + i] = t.bytes[i]
  BY <1>2, <1>8, Joined, Zenon
<1> HIDE DEF b
<1>10. /\ m \in Seq(Bytes) /\ Len(m) = Len(b) + 2
       /\ \A i \in 1..Len(b) : m[i] = b[i]
       /\ \A i \in 1..2 : m[Len(b) + i] = Port[i]
  <2>1. /\ m \in Seq(Bytes) /\ Len(m) = Len(b) + Len(Port)
        /\ \A i \in 1..Len(b) : m[i] = b[i]
        /\ \A i \in 1..Len(Port) : m[Len(b) + i] = Port[i]
    BY <1>6, <1>9, Joined, Zenon
  <2> QED BY <1>6, <2>1
<1> HIDE DEF m
<1>11. Len(a) \in 4..5 /\ Len(b) \in Nat /\ Len(a) <= Len(b)
  <2>1. Len(a) \in 4..5 /\ Len(t.bytes) \in Nat /\ Len(b) = Len(a) + Len(t.bytes)
    BY <1>2, <1>8, <1>9
  <2> QED BY <2>1
<1>12. \A i \in 1..Len(a) : m[i] = a[i]
  BY <1>9, <1>10, <1>11
<1>13. /\ m[1] = 5 /\ m[2] = 1 /\ m[4] = w[1] /\ (w[1] = 3 => m[5] = Len(t.bytes))
  BY <1>8, <1>11, <1>12
<1>14. AddrStart(m) = Len(a) /\ AddrSize(m) = Len(t.bytes) /\ n = Len(b)
  BY <1>5, <1>8, <1>9, <1>13 DEF AddrStart, AddrSize, IPv4len, IPv6len
<1>15. SubSeq(m, Len(a) + 1, Len(b)) = t.bytes
  <2>1. \A i \in Len(a) + 1 .. Len(b) : m[i] \in Bytes
    BY <1>10, <1>11
  <2>2. /\ SubSeq(m, Len(a) + 1, Len(b)) \in Seq(Bytes)
        /\ Len(SubSeq(m, Len(a) + 1, Len(b))) = Len(t.bytes)
        /\ \A i \in 1..Len(t.bytes) : SubSeq(m, Len(a) + 1, Len(b))[i] = m[Len(a) + i]
    BY <1>2, <1>9, <1>11, <2>1
  <2>3. \A i \in 1..Len(t.bytes) : m[Len(a) + i] = t.bytes[i]
    BY <1>2, <1>9, <1>10, <1>11
  <2> QED BY <1>2, <2>2, <2>3, SeqEqual
<1>16. SubSeq(m, Len(b) + 1, Len(b) + 2) = Port
  <2>1. \A i \in Len(b) + 1 .. Len(b) + 2 : m[i] \in Bytes
    BY <1>10, <1>11
  <2>2. /\ SubSeq(m, Len(b) + 1, Len(b) + 2) \in Seq(Bytes)
        /\ Len(SubSeq(m, Len(b) + 1, Len(b) + 2)) = 2
        /\ \A i \in 1..2 : SubSeq(m, Len(b) + 1, Len(b) + 2)[i] = m[Len(b) + i]
    BY <1>11, <2>1
  <2> QED BY <1>6, <1>10, <2>2, SeqEqual
<1>17. /\ Len(m) >= 5 /\ m[4] \in {1, 3, 4} /\ KindOf(m[4]) = t.kind
       /\ n \in Nat /\ Len(m) = n + 2
  <2>1. Len(m) >= 5
    <3>1. Len(m) = Len(b) + 2 /\ Len(b) \in Nat /\ Len(a) \in 4..5 /\ Len(a) <= Len(b)
      BY <1>10, <1>11
    <3> QED BY <3>1
  <2> QED BY <1>5, <1>10, <1>11, <1>13, <1>14, <2>1
<1>18. SubSeq(m, AddrStart(m) + 1, n) = t.bytes /\ SubSeq(m, n + 1, n + 2) = Port
  BY <1>14, <1>15, <1>16
<1> QED BY <1>7, <1>10, <1>13, <1>17, <1>18 DEF t

\* A byte before the rest.
LEMMA Prefixed ==
    ASSUME NEW b \in Bytes, NEW s \in Seq(Bytes)
    PROVE  <<b>> \o s \in Seq(Bytes) /\ Len(<<b>> \o s) = 1 + Len(s) /\ (<<b>> \o s)[1] = b
<1>1. <<b>> \in Seq(Bytes) /\ Len(<<b>>) = 1 /\ <<b>>[1] = b /\ 1 \in 1..1 OBVIOUS
<1> QED BY <1>1, Joined, Zenon

\* What a reply of the proxy says of its own length.
LEMMA ReplyBytes ==
    ASSUME NEW r \in Replies
    PROVE  /\ r \in Seq(Bytes) /\ Len(r) >= 5 /\ r[2] \in 0..255
           /\ r[4] = 1 => Len(r) = 6 + IPv4len
           /\ r[4] = 4 => Len(r) = 6 + IPv6len
           /\ r[4] = 3 => r[5] \in 0..255 /\ Len(r) = 7 + r[5]
<1>0. IPv4len = 4 /\ IPv6len = 16 BY DEF IPv4len, IPv6len
<1>1. CASE conf.peer = "doppel"
  <2> DEFINE reply == <<5, 0, 0, 1, 0, 0, 0, 0, 0, 0>>
  <2>1. r = reply BY <1>1 DEF Replies, DoppelReply
  <2>2. 0 \in Bytes /\ 1 \in Bytes /\ 5 \in Bytes BY DEF Bytes, Payload
  <2>3. reply \in Seq(Bytes) BY <2>2
  <2>4. Len(reply) = 10 /\ reply[2] = 0 /\ reply[4] = 1 OBVIOUS
  <2> QED BY <1>0, <2>1, <2>3, <2>4
<1>2. CASE conf.peer # "doppel"
  <2> DEFINE h(st) == <<5, st, 0>>
             z == <<0, 0>>
  <2>0. PICK st \in {0, 5}, a \in BoundAddrs : r = OtherReply(st, a)
    BY <1>2 DEF Replies
  <2>1. r = (h(st) \o a) \o z BY <2>0 DEF OtherReply
  <2>2. /\ a \in Seq(Bytes) /\ Len(a) >= 1
        /\ a[1] = 1 => Len(a) = 1 + IPv4len
        /\ a[1] = 4 => Len(a) = 1 + IPv6len
        /\ a[1] = 3 => Len(a) = 2 + a[2] /\ a[2] \in {0, 2}
    <3>1. Fill(2) \in Seq(Bytes) /\ Len(Fill(2)) = 2 BY FillBytes
    <3>2. Fill(IPv4len) \in Seq(Bytes) /\ Len(Fill(IPv4len)) = IPv4len
      BY FillBytes DEF IPv4len
    <3>3. Fill(IPv6len) \in Seq(Bytes) /\ Len(Fill(IPv6len)) = IPv6len
      BY FillBytes DEF IPv6len
    <3>4. 1 \in Bytes /\ 4 \in Bytes /\ <<3, 2>> \in Seq(Bytes)
      BY DEF Bytes, Payload
    <3>5. CASE a = <<1>> \o Fill(IPv4len)
      <4>1. a \in Seq(Bytes) /\ Len(a) = 1 + IPv4len /\ a[1] = 1
        BY <3>2, <3>4, <3>5, Prefixed, Zenon
      <4> QED BY <1>0, <4>1
    <3>6. CASE a = <<4>> \o Fill(IPv6len)
      <4>1. a \in Seq(Bytes) /\ Len(a) = 1 + IPv6len /\ a[1] = 4
        BY <3>3, <3>4, <3>6, Prefixed, Zenon
      <4> QED BY <1>0, <4>1
    <3>7. CASE a = <<3, 2>> \o Fill(2)
      <4>1. /\ a \in Seq(Bytes) /\ Len(a) = Len(<<3, 2>>) + Len(Fill(2))
            /\ \A i \in 1..Len(<<3, 2>>) : a[i] = <<3, 2>>[i]
        BY <3>1, <3>4, <3>7, Joined, Zenon
      <4>2. Len(<<3, 2>>) = 2 /\ <<3, 2>>[1] = 3 /\ <<3, 2>>[2] = 2 OBVIOUS
      <4>3. /\ 1 \in 1..2 /\ 2 \in 1..2 /\ 2 + 2 = 4
            /\ 4 >= 1 /\ 3 # 1 /\ 3 # 4 /\ 2 \in {0, 2}
        OBVIOUS
      <4>4. a[1] = 3 /\ a[2] = 2 /\ Len(a) = 4 BY <3>1, <4>1, <4>2, <4>3, Zenon
      <4> QED BY <4>1, <4>3, <4>4, Zenon
    <3>8. CASE a = <<3, 0>>
      BY <3>8 DEF Bytes, Payload
    <3>9. CASE a = <<9>>
      BY <3>9 DEF Bytes, Payload
    <3> QED BY <3>5, <3>6, <3>7, <3>8, <3>9 DEF BoundAddrs
  <2>3. /\ h(st) \in Seq(Bytes) /\ Len(h(st)) = 3 /\ h(st)[2] \in {0, 5}
        /\ z \in Seq(Bytes) /\ Len(z) = 2
    BY DEF Bytes, Payload
  <2> HIDE DEF h, z
  <2> DEFINE b == h(st) \o a
  <2>4. /\ b \in Seq(Bytes) /\ Len(b) = Len(h(st)) + Len(a)
        /\ \A i \in 1..Len(h(st)) : b[i] = h(st)[i]
        /\ \A i \in 1..Len(a) : b[Len(h(st)) + i] = a[i]
    BY <2>2, <2>3, Joined, Zenon
  <2> HIDE DEF b
  <2>5. /\ b \o z \in Seq(Bytes) /\ Len(b \o z) = Len(b) + Len(z)
        /\ \A i \in 1..Len(b) : (b \o z)[i] = b[i]
    BY <2>3, <2>4, Joined, Zenon
  <2>6. r = b \o z BY <2>1 DEF b
  <2>7. /\ Len(r) = 5 + Len(a) /\ Len(b) = 3 + Len(a) /\ Len(a) \in Nat
        /\ \A i \in 1..Len(b) : r[i] = b[i]
    BY <2>2, <2>3, <2>4, <2>5, <2>6
  <2>8. r[2] = h(st)[2] /\ r[4] = a[1] /\ (a[1] = 3 => r[5] = a[2])
    <3>1. b[2] = h(st)[2] /\ b[3 + 1] = a[1] /\ (a[1] = 3 => b[3 + 2] = a[2])
      BY <2>2, <2>3, <2>4
    <3> QED BY <2>2, <2>7, <3>1
  <2>9. r \in Seq(Bytes) BY <2>5, <2>6
  <2>10. Len(r) >= 5 /\ r[2] \in 0..255 BY <2>2, <2>3, <2>7, <2>8
  <2>11. /\ r[4] = 1 => Len(r) = 6 + IPv4len
         /\ r[4] = 4 => Len(r) = 6 + IPv6len
    <3>1. Len(r) = 5 + Len(a) /\ r[4] = a[1] BY <2>7, <2>8
    <3>2. 5 + (1 + IPv4len) = 6 + IPv4len /\ 5 + (1 + IPv6len) = 6 + IPv6len BY <1>0
    <3> QED BY <2>2, <3>1, <3>2, Zenon
  <2>12. r[4] = 3 => r[5] \in 0..255 /\ Len(r) = 7 + r[5]
    BY <2>2, <2>7, <2>8
  <2> QED BY <2>9, <2>10, <2>11, <2>12
<1> QED BY <1>1, <1>2

-----------------------------------------------------------------------------
(* Reading n bytes, and reading a message to its end.                      *)

LEMMA TakeEffect ==
    ASSUME down \in Seq(Bytes), NEW n \in Nat, Take(n)
    PROVE  /\ down' \in Seq(Bytes) /\ Len(down) \in Nat /\ Len(down) >= n
           /\ Len(down') = Len(down) - n
           /\ \A i \in 1..(Len(down) - n) : down'[i] = down[i + n]
           /\ Len(down) = n => down' = <<>>
<1>1. Len(down) \in Nat /\ Len(down) >= n /\ down' = SubSeq(down, n + 1, Len(down))
  BY DEF Take
<1>2. \A i \in (n + 1)..Len(down) : down[i] \in Bytes BY <1>1
<1>3. /\ down' \in Seq(Bytes)
      /\ Len(down') = IF n + 1 <= Len(down) THEN Len(down) - (n + 1) + 1 ELSE 0
      /\ \A i \in 1..(Len(down) - (n + 1) + 1) : down'[i] = down[(n + 1) + i - 1]
  BY <1>1, <1>2, SubSeqProperties
<1>4. Len(down') = Len(down) - n BY <1>1, <1>3
<1>5. \A i \in 1..(Len(down) - n) : down'[i] = down[i + n]
  <2>1. ASSUME NEW i \in 1..(Len(down) - n) PROVE down'[i] = down[i + n]
    <3>1. i \in 1..(Len(down) - (n + 1) + 1) /\ (n + 1) + i - 1 = i + n BY <1>1
    <3> QED BY <1>3, <3>1
  <2> QED BY <2>1
<1>6. Len(down) = n => down' = <<>> BY <1>3, <1>4
<1> QED BY <1>1, <1>3, <1>4, <1>5, <1>6

LEMMA LeftTake ==
    ASSUME down \in Seq(Bytes), UNCHANGED answered,
           NEW n \in Nat, NEW k \in Nat, n <= k, Left(k), Take(n)
    PROVE  Left(k - n)'
<1>1. /\ Len(down) \in Nat /\ Len(down') = Len(down) - n
      /\ \A i \in 1..(Len(down) - n) : down'[i] = down[i + n]
  BY TakeEffect
<1>2. CASE answered
  <2>1. Len(down) = k + 1 /\ down[k + 1] = Payload BY <1>2 DEF Left
  <2>2. (k - n) + 1 \in 1..(Len(down) - n) /\ ((k - n) + 1) + n = k + 1 BY <2>1
  <2>3. down'[(k - n) + 1] = Payload BY <1>1, <2>1, <2>2
  <2>4. Len(down') = (k - n) + 1 BY <1>1, <2>1
  <2> QED BY <1>2, <2>3, <2>4 DEF Left
<1>3. CASE ~answered
  <2>1. Len(down') = k - n BY <1>1, <1>3 DEF Left
  <2> QED BY <1>3, <2>1 DEF Left
<1> QED BY <1>2, <1>3

LEMMA ConsumeAll ==
    ASSUME up \in Seq(Bytes), NEW n, n = Len(up), Consume(n) PROVE up' = <<>>
<1>1. Len(up) \in Nat /\ up' = SubSeq(up, n + 1, Len(up)) BY DEF Consume
<1> QED BY <1>1, SubSeqEmpty

LEMMA Queued ==
    ASSUME NEW s \in Seq(Bytes) PROVE <<>> \o s = s
BY ConcatEmptySeq

\* What is put behind the bytes in flight moves none of them.
LEMMA Appended ==
    ASSUME NEW s \in Seq(Bytes)
    PROVE  /\ s \o <<Payload>> \in Seq(Bytes) /\ Len(s) \in Nat
           /\ Len(s \o <<Payload>>) = Len(s) + 1
           /\ \A i \in 1..Len(s) : (s \o <<Payload>>)[i] = s[i]
           /\ (s \o <<Payload>>)[Len(s) + 1] = Payload
<1>1. /\ <<Payload>> \in Seq(Bytes) /\ Len(<<Payload>>) = 1 /\ <<Payload>>[1] = Payload
      /\ 1 \in 1..1
  BY DEF Bytes, Payload
<1> QED BY <1>1, Joined, Zenon

\* The target sends its byte while Doppel has still k bytes to read.
LEMMA LeftAnswered ==
    ASSUME down \in Seq(Bytes), ~answered, answered', down' = down \o <<Payload>>,
           NEW k \in Nat, Left(k)
    PROVE  Left(k)'
<1>1. Len(down) = k BY DEF Left
<1>2. Len(down') = k + 1 /\ down'[k + 1] = Payload BY <1>1, Appended
<1> QED BY <1>2 DEF Left

\* The proxy sends its reply.
LEMMA ReplySent ==
    ASSUME NEW r \in Replies, down = <<>>, ~answered, UNCHANGED answered,
           down' = down \o r
    PROVE  down' \in Seq(Bytes) /\ ReplyOK'
<1>1. /\ r \in Seq(Bytes) /\ Len(r) >= 5 /\ r[2] \in 0..255
      /\ r[4] = 1 => Len(r) = 6 + IPv4len
      /\ r[4] = 4 => Len(r) = 6 + IPv6len
      /\ r[4] = 3 => r[5] \in 0..255 /\ Len(r) = 7 + r[5]
  BY ReplyBytes, Zenon
<1>2. down' = r BY <1>1, Queued, Zenon
<1> QED BY <1>1, <1>2, Zenon DEF ReplyOK, Left

-----------------------------------------------------------------------------
(* The bypass list.                                                        *)

\* The end of a sequence, by position.
LEMMA EndIsSuffix ==
    ASSUME NEW S, NEW s \in Seq(S), NEW t \in Seq(S), NEW i \in Nat,
           Len(t) = i + Len(s), \A j \in 1..Len(s) : s[j] = t[i + j]
    PROVE  IsSuffix(s, t)
<1> DEFINE n == Len(s)
           rs == Reverse(s)
           rt == Reverse(t)
<1>1. n \in Nat /\ Len(t) = i + n OBVIOUS
<1>2. /\ rs \in Seq(S) /\ Len(rs) = n
      /\ \A j \in 1..n : rs[j] = s[(n - j) + 1]
  BY <1>1 DEF Reverse
<1>3. /\ rt \in Seq(S) /\ Len(rt) = i + n
      /\ \A j \in 1..(i + n) : rt[j] = t[((i + n) - j) + 1]
  BY <1>1 DEF Reverse
<1> HIDE DEF rs, rt, n
<1>4. ASSUME NEW j \in 1..n PROVE rs[j] = rt[j]
  <2>1. (n - j) + 1 \in 1..n /\ i + ((n - j) + 1) = ((i + n) - j) + 1 /\ j \in 1..(i + n)
    BY <1>1
  <2>2. s[(n - j) + 1] = t[i + ((n - j) + 1)] BY <2>1, Zenon DEF n
  <2> QED BY <1>2, <1>3, <2>1, <2>2, Zenon
<1>5. SubSeq(rs, 1, n) = rs BY <1>2, SubSeqFull, Zenon
<1>6. SubSeq(rt, 1, n) = rs
  <2>1. \A j \in 1..n : rt[j] \in S BY <1>2, <1>4
  <2>2. /\ SubSeq(rt, 1, n) \in Seq(S) /\ Len(SubSeq(rt, 1, n)) = n
        /\ \A j \in 1..n : SubSeq(rt, 1, n)[j] = rt[j]
    BY <1>1, <2>1, SubSeqProperties
  <2> QED BY <1>2, <1>4, <2>2, SeqEqual
<1>7. Len(rs) <= Len(rt) BY <1>1, <1>2, <1>3
<1> QED BY <1>2, <1>5, <1>6, <1>7 DEF IsSuffix, IsPrefix, rs, rt

\* A host the documentation says is on the list matches a pattern of it.
LEMMA BypassComplete ==
    ASSUME conf.target \in Targets, OnBypassList
    PROVE  MatchesBypass(conf.target.labels)
<1> DEFINE L == conf.target.labels
           D == DOMAIN Lower
           S == {Lower[x] : x \in D}
<1>1. L \in Seq(D) BY DialAssumption
<1> HIDE DEF L, D
<1>2. PICK p \in BypassList :
          /\ p.form # "local"
          /\ \E i \in 0..Len(L) :
                /\ Folded(SubSeq(L, i + 1, Len(L))) = Folded(p.labels)
                /\ p.form = "exact" => i = 0
  BY Zenon DEF OnBypassList, L
<1>3. PICK i \in 0..Len(L) :
          /\ Folded(SubSeq(L, i + 1, Len(L))) = Folded(p.labels)
          /\ p.form = "exact" => i = 0
  BY <1>2, Zenon
<1>4. Len(L) \in Nat /\ i \in Nat BY <1>1
<1>5. CASE p.form = "exact"
  <2>1. SubSeq(L, i + 1, Len(L)) = L BY <1>1, <1>3, <1>5, SubSeqFull
  <2>2. Folded(p.labels) = Folded(L) BY <1>3, <2>1
  <2> QED BY <1>5, <2>2, Zenon DEF MatchesBypass, MatchesPattern, L
<1>6. CASE p.form = "suffix"
  <2> DEFINE e == SubSeq(L, i + 1, Len(L))
  <2>1. \A j \in (i + 1)..Len(L) : L[j] \in D BY <1>1, <1>4
  <2>2. /\ e \in Seq(D)
        /\ Len(e) = Len(L) - i
        /\ \A j \in 1..(Len(L) - i) : e[j] = L[i + j]
    <3>1. /\ e \in Seq(D)
          /\ Len(e) = IF i + 1 <= Len(L) THEN Len(L) - (i + 1) + 1 ELSE 0
          /\ \A j \in 1..(Len(L) - (i + 1) + 1) : e[j] = L[(i + 1) + j - 1]
      BY <1>4, <2>1, SubSeqProperties
    <3>2. Len(e) = Len(L) - i BY <1>4, <3>1
    <3>3. ASSUME NEW j \in 1..(Len(L) - i) PROVE e[j] = L[i + j]
      <4>1. j \in 1..(Len(L) - (i + 1) + 1) /\ (i + 1) + j - 1 = i + j BY <1>4
      <4> QED BY <3>1, <4>1
    <3> QED BY <3>1, <3>2, <3>3
  <2> HIDE DEF e
  <2>3. /\ Folded(L) \in Seq(S) /\ Len(Folded(L)) = Len(L)
        /\ \A j \in 1..Len(L) : Folded(L)[j] = Lower[L[j]]
    BY <1>1 DEF Folded
  <2>4. /\ Folded(e) \in Seq(S) /\ Len(Folded(e)) = Len(e)
        /\ \A j \in 1..Len(e) : Folded(e)[j] = Lower[e[j]]
    BY <2>2 DEF Folded
  <2> HIDE DEF S
  <2>5. ASSUME NEW j \in 1..Len(Folded(e)) PROVE Folded(e)[j] = Folded(L)[i + j]
    <3>1. j \in 1..(Len(L) - i) /\ j \in 1..Len(e) /\ i + j \in 1..Len(L)
      BY <1>4, <2>2, <2>4
    <3>2. Folded(L)[i + j] = Lower[L[i + j]] BY <2>3, <3>1, Zenon
    <3>3. Folded(e)[j] = Lower[e[j]] BY <2>4, <3>1, Zenon
    <3>4. e[j] = L[i + j] BY <2>2, <3>1, Zenon
    <3> QED BY <3>2, <3>3, <3>4, Zenon
  <2>6. Len(Folded(L)) = i + Len(Folded(e)) BY <1>4, <2>2, <2>3, <2>4
  <2>7. IsSuffix(Folded(e), Folded(L))
    BY <1>4, <2>3, <2>4, <2>5, <2>6, EndIsSuffix
  <2> QED BY <1>3, <1>6, <2>7, Zenon DEF MatchesBypass, MatchesPattern, L, e
<1> QED BY <1>2, <1>5, <1>6, DialAssumption

-----------------------------------------------------------------------------
(* The inductive invariant.                                                *)

LEMMA InitInv == Init => IndInv
<1> SUFFICES ASSUME Init PROVE IndInv OBVIOUS
<1>1. TypeOK
  <2>1. conf.target \in Targets /\ conf.auth \in Credentials BY DEF Init
  <2>2. bound.status \in 0..255 /\ bound.n \in 0..255 BY DEF Init
  <2>3. up \in Seq(0..Payload) /\ down \in Seq(0..Payload) BY EmptySeq, Zenon DEF Init
  <2>4. pc = "route" /\ sock = "none" /\ armed = FALSE /\ sp = "greeting" BY DEF Init
  <2> QED BY <2>1, <2>2, <2>3, <2>4, Zenon DEF TypeOK
<1>2. ShapeOK /\ HeardOK
  BY DEF Init, ShapeOK, HeardOK
<1>3. ViaOK
  BY DEF Init, ViaOK, Handshaking, Reading
<1>4. UpOK /\ SocketSettled
  BY DEF Init, UpOK, SocketSettled
<1>5. PlaceOK
  BY DEF Init, PlaceOK, Connected
<1> QED BY <1>1, <1>2, <1>3, <1>4, <1>5 DEF IndInv

\* Whatever gives up, at any point.
LEMMA FailKeeps ==
    ASSUME IndInv, Fail, UNCHANGED <<conf, up, sp, heard, answered>>, armed' = armed,
           down' \in Seq(Bytes), bound' \in [status : 0..255, n : 0..255]
    PROVE  IndInv'
<1>1. TypeOK'
  BY DEF IndInv, Fail, TypeOK, Bytes, Reading, Connected
<1>2. ShapeOK' /\ HeardOK'
  BY DEF IndInv, ShapeOK, HeardOK
<1>3. ViaOK'
  BY MessagesFixed DEF IndInv, Fail, ViaOK, Handshaking, Reading
<1>4. UpOK' /\ SocketSettled'
  BY MessagesFixed DEF IndInv, Fail, UpOK, SocketSettled
<1>5. PlaceOK'
  BY DEF Fail, PlaceOK, Connected
<1> QED BY <1>1, <1>2, <1>3, <1>4, <1>5 DEF IndInv

\* The goroutine sends the connect request.
LEMMA ConnectKeeps ==
    ASSUME IndInv, Connect, pc \in {"method", "authReply"}, down' = <<>>,
           sp = "closed" \/ (sp = "request" /\ up = <<>>),
           UNCHANGED <<conf, armed, bound, sp, heard, answered>>
    PROVE  IndInv'
<1>0. down' \in Seq(Bytes) /\ bound' \in [status : 0..255, n : 0..255]
  BY DEF IndInv, ShapeOK
<1>1. CASE ~NameFits
  BY <1>0, <1>1, FailKeeps, Zenon DEF Connect
<1>2. CASE NameFits
  <2>1. up' = up \o ConnectRequest /\ pc' = "reply" /\ sock' = sock
    BY <1>2, Zenon DEF Connect
  <2>2. ConnectRequest \in Seq(Bytes)
    BY <1>2, RequestBytes, Zenon DEF IndInv, TypeOK
  <2>3. up' \in Seq(Bytes)
    <3>1. up \in Seq(Bytes) BY Zenon DEF IndInv, TypeOK, Bytes
    <3> QED BY <2>1, <2>2, <3>1, Joined, Zenon
  <2>4. sp = "request" => up' = ConnectRequest
    BY <2>1, <2>2, Queued, Zenon
  <2>5. TypeOK'
    BY <1>0, <2>1, <2>3, Zenon DEF IndInv, TypeOK, Bytes, Reading, Connected
  <2>6. ShapeOK' /\ HeardOK'
    BY DEF IndInv, ShapeOK, HeardOK
  <2>7. ViaOK'
    BY <2>1, MessagesFixed DEF IndInv, ViaOK, Handshaking, Reading
  <2>8. UpOK' /\ SocketSettled'
    BY <1>2, <2>1, <2>4, MessagesFixed DEF IndInv, UpOK, SocketSettled
  <2>9. PlaceOK'
    BY <2>1, <2>4, MessagesFixed DEF IndInv, PlaceOK, Connected
  <2> QED BY <2>5, <2>6, <2>7, <2>8, <2>9 DEF IndInv
<1> QED BY <1>1, <1>2

LEMMA DialDirectKeeps == IndInv /\ DialDirect => IndInv'
<1> SUFFICES ASSUME IndInv, DialDirect PROVE IndInv' OBVIOUS
<1>0. /\ pc = "route" /\ sp = "greeting" /\ up = <<>> /\ down = <<>> /\ sock = "none"
      /\ ~answered
      /\ UNCHANGED <<conf, bound, down, heard, answered>>
  BY DEF IndInv, PlaceOK, DialDirect
<1>1. CASE sock' = "open" /\ Begin /\ sp' = "tunnel"
  <2>1. /\ pc' = conf.use /\ conf.use \in {"tls", "tunnel"}
        /\ armed' = (armed \/ conf.use = "tls")
    BY <1>1 DEF IndInv, ShapeOK, Begin
  <2>2. up' = <<Payload>> /\ up' \in Seq(Bytes)
    <3>1. <<Payload>> \in Seq(Bytes) BY DEF Bytes, Payload
    <3> QED BY <1>0, <1>1, <3>1, Queued, Zenon DEF Begin, Behind
  <2>3. TypeOK'
    <3>1. armed' \in BOOLEAN BY <2>1 DEF IndInv, TypeOK
    <3> QED BY <1>0, <1>1, <2>1, <2>2, <3>1, Zenon DEF IndInv, TypeOK, Bytes, Connected
  <2>4. ShapeOK' /\ HeardOK'
    BY <1>0 DEF IndInv, ShapeOK, HeardOK
  <2>5. ViaOK'
    BY <1>0, <1>1, <2>1, MessagesFixed DEF IndInv, ViaOK, Handshaking, Reading
  <2>6. UpOK' /\ SocketSettled'
    BY <1>1, <2>1 DEF UpOK, SocketSettled
  <2>7. PlaceOK'
    BY <1>0, <1>1, <2>1, <2>2 DEF PlaceOK, Connected, Left
  <2> QED BY <2>3, <2>4, <2>5, <2>6, <2>7 DEF IndInv
<1>2. CASE pc' = "failed" /\ UNCHANGED <<sock, armed, up, sp>>
  <2>1. TypeOK'
    BY <1>0, <1>2, Zenon DEF IndInv, TypeOK
  <2>2. ShapeOK' /\ HeardOK'
    BY <1>0 DEF IndInv, ShapeOK, HeardOK
  <2>3. ViaOK'
    BY <1>0, <1>2, MessagesFixed DEF IndInv, ViaOK, Handshaking, Reading
  <2>4. UpOK' /\ SocketSettled'
    BY <1>0, <1>2 DEF UpOK, SocketSettled
  <2>5. PlaceOK'
    BY <1>2 DEF PlaceOK, Connected
  <2> QED BY <2>1, <2>2, <2>3, <2>4, <2>5 DEF IndInv
<1> QED BY <1>1, <1>2, Zenon DEF DialDirect

LEMMA DialProxyKeeps == IndInv /\ DialProxy => IndInv'
<1> SUFFICES ASSUME IndInv, DialProxy PROVE IndInv' OBVIOUS
<1>0. /\ pc = "route" /\ sp = "greeting" /\ up = <<>> /\ down = <<>> /\ sock = "none"
      /\ ~answered /\ Via
      /\ UNCHANGED <<conf, bound, up, down, sp, heard, answered>>
      /\ \/ sock' = "open" /\ armed' = TRUE /\ pc' = "greet"
         \/ pc' = "failed" /\ UNCHANGED <<sock, armed>>
  BY DEF IndInv, PlaceOK, DialProxy
<1>1. TypeOK'
  <2>0. armed \in BOOLEAN /\ ~armed BY <1>0, Zenon DEF IndInv, TypeOK
  <2>1. armed' \in BOOLEAN /\ (armed' => sock' # "none")
    <3>1. CASE sock' = "open" /\ armed' = TRUE BY <3>1
    <3>2. CASE UNCHANGED <<sock, armed>> BY <2>0, <3>2, Zenon
    <3> QED BY <1>0, <3>1, <3>2, Zenon
  <2>2. sock' \in {"none", "open"} /\ pc' \in {"greet", "failed"} BY <1>0
  <2> QED BY <1>0, <2>1, <2>2 DEF IndInv, TypeOK
<1>2. ShapeOK' /\ HeardOK'
  BY <1>0 DEF IndInv, ShapeOK, HeardOK
<1>3. ViaOK'
  BY <1>0, MessagesFixed, Zenon DEF ViaOK
<1>4. UpOK' /\ SocketSettled'
  BY <1>0 DEF UpOK, SocketSettled
<1>5. PlaceOK'
  BY <1>0 DEF PlaceOK, Connected
<1> QED BY <1>1, <1>2, <1>3, <1>4, <1>5 DEF IndInv

LEMMA GreetKeeps == IndInv /\ Greet => IndInv'
<1> SUFFICES ASSUME IndInv, Greet PROVE IndInv' OBVIOUS
<1>0. /\ pc = "greet" /\ sp \in {"greeting", "closed"} /\ up = <<>> /\ down = <<>>
      /\ ~answered /\ pc' = "method" /\ up' = up \o Greeting
      /\ UNCHANGED <<conf, sock, armed, bound, down, sp, heard, answered>>
  BY DEF IndInv, PlaceOK, Greet
<1>1. up' = Greeting /\ up' \in Seq(Bytes) /\ Greeting' = Greeting
  BY <1>0, GreetingBytes, Queued, MessagesFixed, Zenon
<1>2. TypeOK'
  BY <1>0, <1>1, Zenon DEF IndInv, TypeOK, Bytes, Reading
<1>3. ShapeOK' /\ HeardOK'
  BY <1>0 DEF IndInv, ShapeOK, HeardOK
<1>4. ViaOK'
  BY <1>0, MessagesFixed, Zenon DEF IndInv, ViaOK, Handshaking
<1>5. UpOK' /\ SocketSettled'
  BY <1>0, <1>1 DEF UpOK, SocketSettled
<1>6. PlaceOK'
  BY <1>0 DEF IndInv, PlaceOK, Connected
<1> QED BY <1>2, <1>3, <1>4, <1>5, <1>6 DEF IndInv

LEMMA MethodSelectedKeeps == IndInv /\ MethodSelected => IndInv'
<1> SUFFICES ASSUME IndInv, MethodSelected PROVE IndInv' OBVIOUS
<1>0. /\ pc = "method" /\ Take(2) /\ ~answered /\ down \in Seq(Bytes)
      /\ UNCHANGED <<conf, armed, bound, sp, heard, answered>>
  BY Zenon DEF IndInv, PlaceOK, MethodSelected, TypeOK, Bytes
<1>1. down' \in Seq(Bytes) /\ Len(down) >= 2 /\ (Len(down) = 2 => down' = <<>>)
  BY <1>0, TakeEffect
<1>2. \/ sp = "auth" /\ up = <<>> /\ down = <<5, 2>>
      \/ sp = "request" /\ up = <<>> /\ down = <<5, 0>>
      \/ sp = "closed" /\ Len(down) \in {0, 2}
  BY <1>0, <1>1 DEF IndInv, PlaceOK
<1>3. down' = <<>>
  BY <1>1, <1>2
<1>4. bound' \in [status : 0..255, n : 0..255]
  BY <1>0 DEF IndInv, ShapeOK
<1>5. CASE down[1] = 5 /\ down[2] = 2
  <2>1. Authenticate
    BY <1>5 DEF MethodSelected
  <2>2. (sp = "auth" /\ up = <<>>) \/ sp = "closed"
    BY <1>2, <1>5
  <2>3. CASE ~(conf.auth # NoAuth /\ CredentialsFit)
    BY <1>0, <1>1, <1>4, <2>1, <2>3, FailKeeps, Zenon DEF Authenticate
  <2>4. CASE conf.auth # NoAuth /\ CredentialsFit
    <3>1. up' = up \o UsernamePassword /\ pc' = "authReply" /\ sock' = sock
      BY <2>1, <2>4, Zenon DEF Authenticate
    <3>2. conf.auth \in [user : Nat, pass : Nat]
      BY <2>4, DialAssumption DEF IndInv, TypeOK
    <3>3. UsernamePassword \in Seq(Bytes) /\ UsernamePassword' = UsernamePassword
      BY <1>0, <2>4, <3>2, CredentialBytes, MessagesFixed, Zenon
    <3>4. up' \in Seq(Bytes)
      <4>1. up \in Seq(Bytes) BY Zenon DEF IndInv, TypeOK, Bytes
      <4> QED BY <3>1, <3>3, <4>1, Joined, Zenon
    <3>5. sp = "auth" => up' = UsernamePassword
      BY <2>2, <3>1, <3>3, Queued, Zenon
    <3>6. TypeOK'
      BY <1>0, <1>1, <3>1, <3>4, Zenon DEF IndInv, TypeOK, Bytes, Reading
    <3>7. ShapeOK' /\ HeardOK'
      BY <1>0 DEF IndInv, ShapeOK, HeardOK
    <3>8. ViaOK'
      BY <1>0, <3>1, MessagesFixed DEF IndInv, ViaOK, Handshaking, Reading
    <3>9. UpOK' /\ SocketSettled'
      BY <1>0, <2>2, <2>4, <3>1, <3>3, <3>5, MessagesFixed DEF UpOK, SocketSettled
    <3>10. PlaceOK'
      BY <1>0, <1>3, <2>2, <3>1, <3>3, <3>5 DEF IndInv, PlaceOK, Connected
    <3> QED BY <3>6, <3>7, <3>8, <3>9, <3>10 DEF IndInv
  <2> QED BY <2>3, <2>4
<1>6. CASE down[1] = 5 /\ down[2] = 0
  <2>1. Connect
    BY <1>6 DEF MethodSelected
  <2>2. sp = "closed" \/ (sp = "request" /\ up = <<>>)
    BY <1>2, <1>6
  <2> QED BY <1>0, <1>3, <2>1, <2>2, ConnectKeeps
<1>7. CASE ~(down[1] = 5 /\ down[2] = 2) /\ ~(down[1] = 5 /\ down[2] = 0)
  <2>1. Fail /\ UNCHANGED up
    BY <1>7 DEF MethodSelected
  <2> QED BY <1>0, <1>1, <1>4, <2>1, FailKeeps, Zenon
<1> QED BY <1>5, <1>6, <1>7

LEMMA AuthReplyKeeps == IndInv /\ AuthReply => IndInv'
<1> SUFFICES ASSUME IndInv, AuthReply PROVE IndInv' OBVIOUS
<1>0. /\ pc = "authReply" /\ Take(2) /\ down \in Seq(Bytes)
      /\ UNCHANGED <<conf, armed, bound, sp, heard, answered>>
  BY Zenon DEF IndInv, AuthReply, TypeOK, Bytes
<1>1. down' \in Seq(Bytes) /\ Len(down) >= 2 /\ (Len(down) = 2 => down' = <<>>)
  BY <1>0, TakeEffect
<1>2. \/ sp = "request" /\ up = <<>> /\ down = <<1, 0>>
      \/ sp = "closed" /\ Len(down) \in {0, 2}
  BY <1>0, <1>1 DEF IndInv, PlaceOK
<1>3. down' = <<>>
  BY <1>1, <1>2
<1>4. bound' \in [status : 0..255, n : 0..255]
  BY <1>0 DEF IndInv, ShapeOK
<1>5. CASE down[2] = 0
  <2>1. Connect
    BY <1>5 DEF AuthReply
  <2> QED BY <1>0, <1>2, <1>3, <2>1, ConnectKeeps
<1>6. CASE down[2] # 0
  <2>1. Fail /\ UNCHANGED up
    BY <1>6 DEF AuthReply
  <2> QED BY <1>0, <1>1, <1>4, <2>1, FailKeeps, Zenon
<1> QED BY <1>5, <1>6

LEMMA ReplyHeaderKeeps == IndInv /\ ReplyHeader => IndInv'
<1> SUFFICES ASSUME IndInv, ReplyHeader PROVE IndInv' OBVIOUS
<1>0. /\ pc = "reply" /\ Take(4) /\ down \in Seq(Bytes)
      /\ UNCHANGED <<conf, armed, up, sp, heard, answered>>
  BY Zenon DEF IndInv, ReplyHeader, TypeOK, Bytes
<1>1. /\ down' \in Seq(Bytes) /\ Len(down) >= 4 /\ Len(down) \in Nat
      /\ Len(down') = Len(down) - 4
      /\ \A i \in 1..(Len(down) - 4) : down'[i] = down[i + 4]
  BY <1>0, TakeEffect
<1>2. sp \in {"tunnel", "closed"} /\ ReplyOK /\ (sp = "tunnel" => up = <<>>)
  BY <1>0, <1>1 DEF IndInv, PlaceOK
<1>3. IPv4len = 4 /\ IPv6len = 16 BY DEF IPv4len, IPv6len
<1>4. /\ bound' = [status |-> down[2], n |-> bound'.n]
      /\ down[4] = 1 => bound'.n = 4
      /\ down[4] = 4 => bound'.n = 16
      /\ bound'.n \in {0, 4, 16}
  BY <1>3 DEF ReplyHeader
<1>5. bound' \in [status : 0..255, n : 0..255]
  <2>1. down[2] \in 0..255 BY <1>2, Zenon DEF ReplyOK
  <2> QED BY <1>4, <2>1
<1>6. CASE down[1] # 5 \/ down[4] \notin {1, 3, 4}
  <2>1. Fail BY <1>6 DEF ReplyHeader
  <2> QED BY <1>0, <1>1, <1>5, <2>1, FailKeeps, Zenon
<1>7. CASE down[1] = 5 /\ down[4] \in {1, 3, 4}
  <2>1. /\ sock' = sock
        /\ down[4] = 3 => pc' = "boundLen"
        /\ down[4] # 3 => pc' = "bound"
    BY <1>7 DEF ReplyHeader
  <2>2. pc' \in {"boundLen", "bound"} BY <2>1
  <2>3. down[4] = 3 => Len(down') >= 1 /\ down'[1] \in 0..255 /\ Left(3 + down[1])'
    <3> SUFFICES ASSUME down[4] = 3
                 PROVE  Len(down') >= 1 /\ down'[1] \in 0..255 /\ Left(3 + down[1])'
      OBVIOUS
    <3>1. down[5] \in 0..255 /\ Left(7 + down[5]) /\ Len(down) >= 5
      BY <1>2, Zenon DEF ReplyOK
    <3>2. PICK k \in 0..255 : k = down[5] BY <3>1, Zenon
    <3>3. Len(down') >= 1 /\ 1 \in 1..(Len(down) - 4) /\ 1 + 4 = 5 BY <1>1, <3>1
    <3>4. down'[1] = k BY <1>1, <3>2, <3>3, Zenon
    <3>5. 7 + k \in Nat /\ 4 <= 7 + k /\ 4 \in Nat /\ (7 + k) - 4 = 3 + k
      OBVIOUS
    <3>6. Left(7 + k) BY <3>1, <3>2, Zenon
    <3>7. Left((7 + k) - 4)' BY <1>0, <3>5, <3>6, LeftTake, Zenon
    <3>8. Left(3 + k)' BY <3>5, <3>7, Zenon
    <3> QED BY <3>2, <3>3, <3>4, <3>8, Zenon DEF Left
  <2>4. down[4] # 3 => Left(bound.n + 2)'
    <3> SUFFICES ASSUME down[4] # 3 PROVE Left(bound.n + 2)'
      OBVIOUS
    <3>1. PICK k \in {4, 16} : k = bound'.n /\ Left(6 + k)
      BY <1>2, <1>3, <1>4, <1>7 DEF ReplyOK
    <3>2. 6 + k \in Nat /\ 4 <= 6 + k /\ 4 \in Nat /\ (6 + k) - 4 = k + 2
      OBVIOUS
    <3>3. Left((6 + k) - 4)' BY <1>0, <3>1, <3>2, LeftTake, Zenon
    <3>4. Left(k + 2)' BY <3>2, <3>3, Zenon
    <3> QED BY <3>1, <3>4, Zenon DEF Left
  <2>5. TypeOK'
    BY <1>0, <1>1, <1>5, <2>1, <2>2 DEF IndInv, TypeOK, Bytes, Reading
  <2>6. ShapeOK' /\ HeardOK'
    BY <1>0, <1>5 DEF IndInv, ShapeOK, HeardOK
  <2>7. ViaOK'
    BY <1>0, <2>2, MessagesFixed DEF IndInv, ViaOK, Handshaking, Reading
  <2>8. UpOK' /\ SocketSettled'
    BY <1>0, <1>2, <2>2 DEF UpOK, SocketSettled
  <2>9. PlaceOK'
    BY <1>0, <1>2, <2>1, <2>2, <2>3, <2>4 DEF IndInv, PlaceOK, Connected
  <2> QED BY <2>5, <2>6, <2>7, <2>8, <2>9 DEF IndInv
<1> QED BY <1>6, <1>7

LEMMA BoundLenKeeps == IndInv /\ BoundLen => IndInv'
<1> SUFFICES ASSUME IndInv, BoundLen PROVE IndInv' OBVIOUS
<1>0. /\ pc = "boundLen" /\ Take(1) /\ down \in Seq(Bytes)
      /\ pc' = "bound" /\ bound' = [bound EXCEPT !.n = down[1]]
      /\ UNCHANGED <<conf, sock, armed, up, sp, heard, answered>>
  BY Zenon DEF IndInv, BoundLen, TypeOK, Bytes
<1>1. down' \in Seq(Bytes)
  BY <1>0, TakeEffect
<1>2. /\ sp \in {"tunnel", "closed"} /\ (sp = "tunnel" => up = <<>>)
      /\ down[1] \in 0..255 /\ Left(3 + down[1])
  BY <1>0, Zenon DEF IndInv, PlaceOK
<1>3. bound' \in [status : 0..255, n : 0..255] /\ bound'.n = down[1]
  BY <1>0, <1>2 DEF IndInv, ShapeOK
<1>4. Left(bound.n + 2)'
  <2>1. PICK k \in 0..255 : k = down[1] /\ k = bound'.n BY <1>2, <1>3, Zenon
  <2>2. 3 + k \in Nat /\ 1 <= 3 + k /\ 1 \in Nat /\ (3 + k) - 1 = k + 2
    OBVIOUS
  <2>3. Left(3 + k) BY <1>2, <2>1, Zenon
  <2>4. Left((3 + k) - 1)' BY <1>0, <2>2, <2>3, LeftTake, Zenon
  <2>5. Left(k + 2)' BY <2>2, <2>4, Zenon
  <2> QED BY <2>1, <2>5, Zenon DEF Left
<1>5. TypeOK'
  BY <1>0, <1>1, <1>3 DEF IndInv, TypeOK, Bytes, Reading
<1>6. ShapeOK' /\ HeardOK'
  BY <1>0, <1>3 DEF IndInv, ShapeOK, HeardOK
<1>7. ViaOK'
  BY <1>0, MessagesFixed DEF IndInv, ViaOK, Handshaking, Reading
<1>8. UpOK' /\ SocketSettled'
  BY <1>0, <1>2 DEF UpOK, SocketSettled
<1>9. PlaceOK'
  BY <1>0, <1>2, <1>4 DEF IndInv, PlaceOK, Connected
<1> QED BY <1>5, <1>6, <1>7, <1>8, <1>9 DEF IndInv

LEMMA BoundKeeps == IndInv /\ Bound => IndInv'
<1> SUFFICES ASSUME IndInv, Bound PROVE IndInv' OBVIOUS
<1>0. /\ pc = "bound" /\ Take(bound.n + 2) /\ down \in Seq(Bytes)
      /\ UNCHANGED <<conf, bound, sp, heard, answered>>
  BY Zenon DEF IndInv, Bound, BoundBytes, TypeOK, Bytes
<1>1. /\ sp \in {"tunnel", "closed"} /\ (sp = "tunnel" => up = <<>>)
      /\ Left(bound.n + 2)
  BY <1>0, Zenon DEF IndInv, PlaceOK
<1>2. PICK k \in Nat : k = bound.n + 2
  BY DEF IndInv, ShapeOK
<1>3. down' \in Seq(Bytes)
  BY <1>0, <1>2, TakeEffect, Zenon
<1>4. Left(0)'
  <2>1. k <= k /\ k - k = 0 OBVIOUS
  <2>2. Left(k - k)' BY <1>0, <1>1, <1>2, <2>1, LeftTake, Zenon
  <2> QED BY <2>1, <2>2, Zenon
<1>5. bound' \in [status : 0..255, n : 0..255]
  BY <1>0 DEF IndInv, ShapeOK
<1>6. CASE bound.status # 0
  <2>1. Fail /\ UNCHANGED <<armed, up>> BY <1>6 DEF Bound
  <2> QED BY <1>0, <1>3, <1>5, <2>1, FailKeeps, Zenon
<1>7. CASE bound.status = 0
  <2>1. /\ pc' = conf.use /\ conf.use \in {"tls", "tunnel"} /\ sock' = sock
        /\ armed' = (armed \/ conf.use = "tls") /\ up' = up \o <<Payload>>
    BY <1>7 DEF Bound, IndInv, ShapeOK, Begin, Behind
  <2>2. up' \in Seq(Bytes) /\ (sp = "tunnel" => up' = <<Payload>>)
    <3>1. <<Payload>> \in Seq(Bytes) BY DEF Bytes, Payload
    <3>2. up \in Seq(Bytes) BY Zenon DEF IndInv, TypeOK, Bytes
    <3>3. up' \in Seq(Bytes) BY <2>1, <3>2, Appended, Zenon
    <3> QED BY <1>1, <2>1, <3>1, <3>3, Queued, Zenon
  <2>3. sock = "open"
    BY <1>0 DEF IndInv, PlaceOK
  <2>4. TypeOK'
    <3>1. armed' \in BOOLEAN BY <2>1 DEF IndInv, TypeOK
    <3> QED BY <1>0, <1>3, <1>5, <2>1, <2>2, <2>3, <3>1, Zenon
            DEF IndInv, TypeOK, Bytes, Connected
  <2>5. ShapeOK' /\ HeardOK'
    BY <1>0, <1>5 DEF IndInv, ShapeOK, HeardOK
  <2>6. ViaOK'
    BY <1>0, <2>1, MessagesFixed DEF IndInv, ViaOK, Handshaking, Reading
  <2>7. UpOK' /\ SocketSettled'
    BY <1>0, <1>1, <2>1 DEF UpOK, SocketSettled
  <2>8. PlaceOK'
    BY <1>0, <1>1, <1>4, <2>1, <2>2, <2>3 DEF PlaceOK, Connected
  <2> QED BY <2>4, <2>5, <2>6, <2>7, <2>8 DEF IndInv
<1> QED BY <1>6, <1>7

LEMMA TLSHandshakeKeeps == IndInv /\ TLSHandshake => IndInv'
<1> SUFFICES ASSUME IndInv, TLSHandshake PROVE IndInv' OBVIOUS
<1>0. /\ pc = "tls" /\ Take(1) /\ down \in Seq(Bytes) /\ sock = "open" /\ Left(0)
      /\ UNCHANGED <<conf, bound, up, sp, heard, answered>>
      /\ sp \in {"tunnel", "closed"} /\ (sp = "tunnel" => up = <<Payload>>)
  <2>1. pc = "tls" /\ Take(1) /\ UNCHANGED <<conf, bound, up, sp, heard, answered>>
    BY Zenon DEF TLSHandshake
  <2>2. down \in Seq(Bytes) BY Zenon DEF IndInv, TypeOK, Bytes
  <2>3. /\ sock = "open" /\ Left(0)
        /\ sp \in {"tunnel", "closed"} /\ (sp = "tunnel" => up = <<Payload>>)
    BY <2>1 DEF IndInv, PlaceOK, Connected
  <2> QED BY <2>1, <2>2, <2>3
<1>1. /\ down' \in Seq(Bytes) /\ Len(down) >= 1 /\ Len(down) \in Nat
      /\ Len(down) = 1 => down' = <<>>
  BY <1>0, TakeEffect
<1>2. answered /\ Len(down) = 1
  BY <1>0, <1>1 DEF Left
<1>3. bound' \in [status : 0..255, n : 0..255]
  BY <1>0 DEF IndInv, ShapeOK
<1>4. CASE Fail /\ UNCHANGED armed
  BY <1>0, <1>1, <1>3, <1>4, FailKeeps, Zenon
<1>5. CASE pc' = "session" /\ ClearDeadline /\ UNCHANGED sock
  <2>1. armed' = FALSE BY <1>5 DEF ClearDeadline
  <2>2. TypeOK'
    BY <1>0, <1>1, <1>3, <1>5, <2>1, Zenon DEF IndInv, TypeOK, Bytes, Connected
  <2>3. ShapeOK' /\ HeardOK'
    BY <1>0, <1>3 DEF IndInv, ShapeOK, HeardOK
  <2>4. ViaOK'
    BY <1>0, <1>5, MessagesFixed DEF IndInv, ViaOK, Handshaking, Reading
  <2>5. UpOK' /\ SocketSettled'
    BY <1>0, <1>5, <2>1 DEF UpOK, SocketSettled
  <2>6. PlaceOK'
    BY <1>0, <1>1, <1>2, <1>5 DEF PlaceOK, Connected
  <2> QED BY <2>2, <2>3, <2>4, <2>5, <2>6 DEF IndInv
<1> QED BY <1>4, <1>5, Zenon DEF TLSHandshake

LEMMA GivesUpKeeps == IndInv /\ (PeerGone \/ Timeout \/ TLSPeerGone) => IndInv'
<1> SUFFICES ASSUME IndInv, PeerGone \/ Timeout \/ TLSPeerGone PROVE IndInv' OBVIOUS
<1>1. Fail /\ UNCHANGED <<conf, armed, bound, up, down, sp, heard, answered>>
  BY Zenon DEF PeerGone, Timeout, TLSPeerGone
<1>2. down' \in Seq(Bytes) /\ bound' \in [status : 0..255, n : 0..255]
  BY <1>1, Zenon DEF IndInv, TypeOK, ShapeOK, Bytes
<1> QED BY <1>1, <1>2, FailKeeps, Zenon

LEMMA PeerGreetingKeeps == IndInv /\ PeerGreeting => IndInv'
<1> SUFFICES ASSUME IndInv, PeerGreeting PROVE IndInv' OBVIOUS
<1>0. /\ sp = "greeting" /\ Consume(2 + up[2])
      /\ UNCHANGED <<conf, pc, sock, armed, bound, heard, answered>>
  BY DEF PeerGreeting
<1>1. up = Greeting
  <2>1. up # <<>> BY DEF PeerGreeting
  <2> QED BY <1>0, <2>1, Zenon DEF IndInv, UpOK
<1>2. up' = <<>>
  <2>1. up \in Seq(Bytes) /\ 2 + up[2] = Len(up) BY <1>1, GreetingBytes, Zenon
  <2> QED BY <1>0, <2>1, ConsumeAll, Zenon
<1>3. Via
  <2>1. up # <<>> BY DEF PeerGreeting
  <2> QED BY <1>0, <2>1, Zenon DEF IndInv, ViaOK
<1>4. PICK m \in {0, 1, 2, 255} :
          /\ down' = down \o <<5, m>>
          /\ sp' = CASE m = 0 -> "request" [] m = 2 -> "auth" [] OTHER -> "closed"
  <2>1. PICK m \in IF conf.peer = "doppel" THEN {0} ELSE {0, 1, 2, 255} :
          /\ down' = down \o <<5, m>>
          /\ sp' = CASE m = 0 -> "request" [] m = 2 -> "auth" [] OTHER -> "closed"
    BY Zenon DEF PeerGreeting
  <2>2. m \in {0, 1, 2, 255} BY <2>1
  <2> QED BY <2>1, <2>2, Zenon
<1>5. /\ sp' \in {"request", "auth", "closed"}
      /\ sp' = "request" => m = 0
      /\ sp' = "auth" => m = 2
  BY <1>4
<1>6. /\ <<5, m>> \in Seq(Bytes) /\ Len(<<5, m>>) = 2
  BY DEF Bytes, Payload
<1>7. /\ down' \in Seq(Bytes)
      /\ pc = "method" => down' = <<5, m>>
  <2>1. down \in Seq(Bytes) BY Zenon DEF IndInv, TypeOK, Bytes
  <2>2. pc = "method" => down = <<>> BY <1>0 DEF IndInv, PlaceOK
  <2> QED BY <1>4, <1>6, <2>1, <2>2, Joined, Queued, Zenon
<1>8. pc \in {"method", "failed"}
  <2>1. up # <<>> BY DEF PeerGreeting
  <2> QED BY <1>0, <2>1 DEF IndInv, PlaceOK, TypeOK, Reading, Connected
<1>9. TypeOK'
  <2>1. up' \in Seq(Bytes) BY <1>2, EmptySeq, Zenon
  <2> QED BY <1>0, <1>5, <1>7, <2>1 DEF IndInv, TypeOK, Bytes
<1>10. ShapeOK' /\ HeardOK'
  BY <1>0 DEF IndInv, ShapeOK, HeardOK
<1>11. ViaOK'
  BY <1>0, <1>3, MessagesFixed, Zenon DEF ViaOK
<1>12. UpOK' /\ SocketSettled'
  BY <1>0, <1>2, <1>5 DEF IndInv, UpOK, SocketSettled
<1>13. PlaceOK'
  BY <1>0, <1>2, <1>5, <1>6, <1>7, <1>8 DEF IndInv, PlaceOK, Connected
<1> QED BY <1>9, <1>10, <1>11, <1>12, <1>13 DEF IndInv

LEMMA PeerAuthKeeps == IndInv /\ PeerAuth => IndInv'
<1> SUFFICES ASSUME IndInv, PeerAuth PROVE IndInv' OBVIOUS
<1>0. /\ sp = "auth" /\ Consume(3 + up[2] + up[3 + up[2]])
      /\ heard' = [heard EXCEPT !.auth = [user |-> up[2], pass |-> up[3 + up[2]]]]
      /\ UNCHANGED <<conf, pc, sock, armed, bound, answered>>
  BY DEF PeerAuth
<1>1. up # <<>> BY DEF PeerAuth
<1>2. up = UsernamePassword /\ conf.auth # NoAuth /\ CredentialsFit
  BY <1>0, <1>1, Zenon DEF IndInv, UpOK
<1>3. conf.auth \in [user : Nat, pass : Nat]
  BY <1>2, DialAssumption DEF IndInv, TypeOK
<1>4. /\ up \in Seq(Bytes) /\ up[2] = conf.auth.user /\ up[3 + up[2]] = conf.auth.pass
      /\ Len(up) = 3 + up[2] + up[3 + up[2]]
  BY <1>2, <1>3, CredentialBytes, Zenon
<1>5. up' = <<>>
  BY <1>0, <1>4, ConsumeAll, Zenon
<1>6. heard' = [auth |-> conf.auth, target |-> heard.target]
  <2>1. [user |-> up[2], pass |-> up[3 + up[2]]] = conf.auth BY <1>3, <1>4
  <2>2. heard = [auth |-> heard.auth, target |-> heard.target] BY DEF IndInv, ShapeOK
  <2>3. heard' = [heard EXCEPT !.auth = conf.auth] BY <1>0, <2>1, Zenon
  <2> QED BY <2>2, <2>3
<1>7. PICK status \in {0, 1} :
          /\ down' = down \o <<1, status>>
          /\ sp' = IF status = 0 THEN "request" ELSE "closed"
  BY DEF PeerAuth
<1>8. sp' \in {"request", "closed"} /\ (sp' = "request" => status = 0)
  BY <1>7
<1>9. <<1, status>> \in Seq(Bytes) /\ Len(<<1, status>>) = 2
  BY DEF Bytes, Payload
<1>10. pc \in {"authReply", "failed"}
  BY <1>0, <1>1 DEF IndInv, PlaceOK, TypeOK, Reading, Connected
<1>11. /\ down' \in Seq(Bytes)
       /\ pc = "authReply" => down' = <<1, status>>
  <2>1. down \in Seq(Bytes) BY Zenon DEF IndInv, TypeOK, Bytes
  <2>2. pc = "authReply" => down = <<>> BY <1>0 DEF IndInv, PlaceOK
  <2> QED BY <1>7, <1>9, <2>1, <2>2, Joined, Queued, Zenon
<1>12. TypeOK'
  <2>1. up' \in Seq(Bytes) BY <1>5, EmptySeq, Zenon
  <2> QED BY <1>0, <1>8, <1>11, <2>1 DEF IndInv, TypeOK, Bytes
<1>13. ShapeOK' /\ HeardOK'
  BY <1>0, <1>6 DEF IndInv, ShapeOK, HeardOK
<1>14. ViaOK'
  BY <1>0, MessagesFixed, Zenon DEF IndInv, ViaOK
<1>15. UpOK' /\ SocketSettled'
  BY <1>0, <1>5, <1>8 DEF IndInv, UpOK, SocketSettled
<1>16. PlaceOK'
  BY <1>0, <1>5, <1>8, <1>9, <1>10, <1>11 DEF IndInv, PlaceOK, Connected
<1> QED BY <1>12, <1>13, <1>14, <1>15, <1>16 DEF IndInv

LEMMA PeerRequestKeeps == IndInv /\ PeerRequest => IndInv'
<1> SUFFICES ASSUME IndInv, PeerRequest PROVE IndInv' OBVIOUS
<1>0. /\ sp = "request" /\ UNCHANGED <<conf, pc, sock, armed, bound, answered>>
  BY DEF PeerRequest
<1>1. up # <<>> BY DEF PeerRequest
<1>2. up = ConnectRequest /\ NameFits
  BY <1>0, <1>1, Zenon DEF IndInv, UpOK
<1> DEFINE n == AddrStart(up) + AddrSize(up)
<1>3. /\ up \in Seq(Bytes) /\ Len(up) >= 5 /\ up[1] = 5 /\ up[2] = 1
      /\ up[4] \in {1, 3, 4} /\ KindOf(up[4]) = conf.target.kind
      /\ n \in Nat /\ Len(up) = n + 2
      /\ SubSeq(up, AddrStart(up) + 1, n) = conf.target.bytes
      /\ SubSeq(up, n + 1, n + 2) = Port
  BY <1>2, RequestBytes, Zenon DEF IndInv, TypeOK
<1>4. AddrFrom = AddrStart(up) /\ AddrLen = AddrSize(up)
  BY DEF AddrFrom, AddrLen, AddrStart, AddrSize
<1> DEFINE right == [kind |-> conf.target.kind, bytes |-> conf.target.bytes, port |-> Port]
<1>5. /\ Consume(n + 2) /\ heard' = [heard EXCEPT !.target = right]
      /\ \E r \in Replies :
            /\ down' = down \o r
            /\ sp' = IF r[2] = 0 THEN "tunnel" ELSE "closed"
  BY <1>3, <1>4, Zenon DEF PeerRequest
<1>6. up' = <<>>
  BY <1>3, <1>5, ConsumeAll, Zenon
<1>7. heard' = [auth |-> heard.auth, target |-> right]
  <2>1. heard = [auth |-> heard.auth, target |-> heard.target] BY DEF IndInv, ShapeOK
  <2> HIDE DEF right
  <2> QED BY <1>5, <2>1
<1>8. PICK r \in Replies :
          /\ down' = down \o r
          /\ sp' = IF r[2] = 0 THEN "tunnel" ELSE "closed"
  BY <1>5, Zenon
<1>9. sp' \in {"tunnel", "closed"} BY <1>8
<1>10. pc \in {"reply", "failed"}
  BY <1>0, <1>1 DEF IndInv, PlaceOK, TypeOK, Reading, Connected
<1>11. down' \in Seq(Bytes)
  <2>1. down \in Seq(Bytes) BY Zenon DEF IndInv, TypeOK, Bytes
  <2>2. r \in Seq(Bytes) BY ReplyBytes, Zenon
  <2> QED BY <1>8, <2>1, <2>2, Joined, Zenon
<1>12. pc = "reply" => ReplyOK'
  <2>1. pc = "reply" => down = <<>> /\ ~answered
    BY <1>0 DEF IndInv, PlaceOK
  <2> QED BY <1>0, <1>8, <2>1, ReplySent, Zenon
<1>13. TypeOK'
  <2>1. up' \in Seq(Bytes) BY <1>6, EmptySeq, Zenon
  <2> QED BY <1>0, <1>9, <1>11, <2>1 DEF IndInv, TypeOK, Bytes
<1>14. ShapeOK' /\ HeardOK'
  <2>1. ShapeOK' BY <1>0, <1>7 DEF IndInv, ShapeOK
  <2>2. heard'.auth = heard.auth /\ heard'.target = right
    <3> HIDE DEF right
    <3> QED BY <1>7
  <2> QED BY <1>0, <2>1, <2>2, Zenon DEF IndInv, HeardOK
<1>15. ViaOK'
  BY <1>0, MessagesFixed, Zenon DEF IndInv, ViaOK
<1>16. UpOK' /\ SocketSettled'
  BY <1>0, <1>9 DEF IndInv, UpOK, SocketSettled
<1>17. PlaceOK'
  BY <1>0, <1>6, <1>9, <1>10, <1>12 DEF IndInv, PlaceOK, Connected
<1> QED BY <1>13, <1>14, <1>15, <1>16, <1>17 DEF IndInv

LEMMA TargetSendsKeeps == IndInv /\ TargetSends => IndInv'
<1> SUFFICES ASSUME IndInv, TargetSends PROVE IndInv' OBVIOUS
<1>0. /\ sp = "tunnel" /\ ~answered /\ answered' /\ down' = down \o <<Payload>>
      /\ UNCHANGED <<conf, pc, sock, armed, bound, up, sp, heard>>
  BY DEF TargetSends
<1>1. down \in Seq(Bytes) BY Zenon DEF IndInv, TypeOK, Bytes
<1>2. /\ down' \in Seq(Bytes) /\ Len(down) \in Nat /\ Len(down') = Len(down) + 1
      /\ \A i \in 1..Len(down) : down'[i] = down[i]
  BY <1>0, <1>1, Appended, Zenon
<1>3. \A k \in Nat : Left(k) => Left(k)'
  <2>1. ASSUME NEW k \in Nat, Left(k) PROVE Left(k)'
    BY <1>0, <1>1, <2>1, LeftAnswered, Zenon
  <2> QED BY <2>1
<1>4. pc = "reply" => ReplyOK'
  <2> SUFFICES ASSUME pc = "reply" PROVE ReplyOK' OBVIOUS
  <2>1. ReplyOK BY <1>0 DEF IndInv, PlaceOK
  <2>2. Len(down) >= 5 /\ down[2] \in 0..255 BY <2>1, Zenon DEF ReplyOK
  <2>3. /\ Len(down') >= 5 /\ 2 \in 1..Len(down) /\ 4 \in 1..Len(down) /\ 5 \in 1..Len(down)
    BY <1>2, <2>2
  <2>4. down'[2] = down[2] /\ down'[4] = down[4] /\ down'[5] = down[5]
    BY <1>2, <2>3, Zenon
  <2>5. down[4] = 1 => Left(6 + IPv4len)'
    <3>1. PICK k \in Nat : k = 6 + IPv4len BY DEF IPv4len
    <3> QED BY <1>3, <2>1, <3>1, Zenon DEF ReplyOK
  <2>6. down[4] = 4 => Left(6 + IPv6len)'
    <3>1. PICK k \in Nat : k = 6 + IPv6len BY DEF IPv6len
    <3> QED BY <1>3, <2>1, <3>1, Zenon DEF ReplyOK
  <2>7. down[4] = 3 => down[5] \in 0..255 /\ Left(7 + down[5])'
    <3> SUFFICES ASSUME down[4] = 3 PROVE down[5] \in 0..255 /\ Left(7 + down[5])'
      OBVIOUS
    <3>1. down[5] \in 0..255 /\ Left(7 + down[5]) BY <2>1, Zenon DEF ReplyOK
    <3>2. PICK k \in Nat : k = 7 + down[5] BY <3>1
    <3>3. Left(k)' BY <1>3, <3>1, <3>2, Zenon
    <3> QED BY <2>4, <3>1, <3>2, <3>3, Zenon DEF Left
  <2> QED BY <2>2, <2>3, <2>4, <2>5, <2>6, <2>7, Zenon DEF ReplyOK
<1>5. pc = "boundLen" => Len(down') >= 1 /\ down'[1] \in 0..255 /\ Left(3 + down[1])'
  <2> SUFFICES ASSUME pc = "boundLen"
               PROVE  Len(down') >= 1 /\ down'[1] \in 0..255 /\ Left(3 + down[1])'
    OBVIOUS
  <2>1. Len(down) >= 1 /\ down[1] \in 0..255 /\ Left(3 + down[1])
    BY Zenon DEF IndInv, PlaceOK
  <2>2. PICK k \in Nat : k = 3 + down[1]
    <3>1. PICK b \in 0..255 : b = down[1] BY <2>1, Zenon
    <3>2. 3 + b \in Nat OBVIOUS
    <3> QED BY <3>1, <3>2, Zenon
  <2>3. Left(k)' BY <1>3, <2>1, <2>2, Zenon
  <2>4. down'[1] = down[1] /\ Len(down') >= 1
    <3>1. 1 \in 1..Len(down) /\ Len(down') >= 1 BY <1>2, <2>1
    <3> QED BY <1>2, <3>1, Zenon
  <2> QED BY <2>1, <2>2, <2>3, <2>4, Zenon DEF Left
<1>6. pc = "bound" => Left(bound.n + 2)'
  <2> SUFFICES ASSUME pc = "bound" PROVE Left(bound.n + 2)' OBVIOUS
  <2>1. Left(bound.n + 2) BY DEF IndInv, PlaceOK
  <2>2. PICK k \in Nat : k = bound.n + 2 BY DEF IndInv, ShapeOK
  <2>3. Left(k)' BY <1>3, <2>1, <2>2, Zenon
  <2> QED BY <1>0, <2>2, <2>3, Zenon DEF Left
<1>7. pc \in {"tls", "tunnel"} => Left(0)'
  <2>1. 0 \in Nat OBVIOUS
  <2> QED BY <1>3, <2>1, Zenon DEF IndInv, PlaceOK
<1>8. pc \notin {"route", "greet", "method", "authReply", "session"}
  BY <1>0 DEF IndInv, PlaceOK
<1>9. TypeOK'
  BY <1>0, <1>2, Zenon DEF IndInv, TypeOK, Bytes
<1>10. ShapeOK' /\ HeardOK'
  BY <1>0 DEF IndInv, ShapeOK, HeardOK
<1>11. ViaOK'
  BY <1>0, MessagesFixed, Zenon DEF IndInv, ViaOK
<1>12. UpOK' /\ SocketSettled'
  BY <1>0 DEF IndInv, UpOK, SocketSettled
<1>13. PlaceOK'
  BY <1>0, <1>4, <1>5, <1>6, <1>7, <1>8 DEF IndInv, PlaceOK, Connected
<1> QED BY <1>9, <1>10, <1>11, <1>12, <1>13 DEF IndInv

LEMMA PeerClosesKeeps == IndInv /\ PeerCloses => IndInv'
<1> SUFFICES ASSUME IndInv, PeerCloses PROVE IndInv' OBVIOUS
<1>0. /\ pc # "route" /\ sp' = "closed"
      /\ UNCHANGED <<conf, pc, sock, armed, bound, up, down, heard, answered>>
  BY DEF PeerCloses
<1>1. TypeOK'
  BY <1>0, Zenon DEF IndInv, TypeOK
<1>2. ShapeOK' /\ HeardOK'
  BY <1>0 DEF IndInv, ShapeOK, HeardOK
<1>3. ViaOK'
  BY <1>0, MessagesFixed DEF IndInv, ViaOK
<1>4. UpOK' /\ SocketSettled'
  BY <1>0 DEF IndInv, UpOK, SocketSettled
<1>5. ReplyOK => ReplyOK'
  <2>1. down' = down /\ answered' = answered BY <1>0
  <2> QED BY <2>1 DEF ReplyOK, Left
<1>6. /\ pc = "boundLen" => Left(3 + down[1])'
      /\ pc = "bound" => Left(bound.n + 2)'
      /\ pc \in {"tls", "tunnel"} => Left(0)'
  BY <1>0, Zenon DEF IndInv, PlaceOK, Left
<1>7. Len(down) \in {0, 2} \/ pc \notin {"method", "authReply"}
  BY DEF IndInv, PlaceOK
<1>8. pc = "reply" => (down = <<>> /\ ~answered) \/ ReplyOK
  BY DEF IndInv, PlaceOK
<1>9. PlaceOK'
  BY <1>0, <1>5, <1>6, <1>7, <1>8 DEF IndInv, PlaceOK, Connected
<1> QED BY <1>1, <1>2, <1>3, <1>4, <1>9 DEF IndInv

LEMMA StutterKeeps == IndInv /\ UNCHANGED vars => IndInv'
<1> SUFFICES ASSUME IndInv, UNCHANGED vars PROVE IndInv' OBVIOUS
<1>0. UNCHANGED <<conf, pc, sock, armed, bound, up, down, sp, heard, answered>>
  BY DEF vars
<1>1. TypeOK' /\ ShapeOK' /\ HeardOK'
  <2>1. TypeOK' BY <1>0, Zenon DEF IndInv, TypeOK
  <2>2. ShapeOK' /\ HeardOK' BY <1>0 DEF IndInv, ShapeOK, HeardOK
  <2> QED BY <2>1, <2>2
<1>2. ViaOK'
  BY <1>0, MessagesFixed, Zenon DEF IndInv, ViaOK
<1>3. UpOK' /\ SocketSettled'
  BY <1>0, MessagesFixed, Zenon DEF IndInv, UpOK, SocketSettled
<1>4. ReplyOK => ReplyOK'
  <2>1. down' = down /\ answered' = answered BY <1>0
  <2> QED BY <2>1 DEF ReplyOK, Left
<1>5. /\ pc = "boundLen" => Left(3 + down[1])'
      /\ pc = "bound" => Left(bound.n + 2)'
      /\ pc \in {"tls", "tunnel"} => Left(0)'
  BY <1>0, Zenon DEF IndInv, PlaceOK, Left
<1>6. UsernamePassword' = UsernamePassword /\ ConnectRequest' = ConnectRequest
  BY <1>0, MessagesFixed, Zenon
<1>7. PlaceOK'
  BY <1>0, <1>4, <1>5, <1>6 DEF IndInv, PlaceOK, Connected
<1> QED BY <1>1, <1>2, <1>3, <1>7 DEF IndInv

THEOREM DialInv == Spec => []IndInv
<1>1. IndInv /\ [Next]_vars => IndInv'
  BY DialDirectKeeps, DialProxyKeeps, GreetKeeps, MethodSelectedKeeps, AuthReplyKeeps,
     ReplyHeaderKeeps, BoundLenKeeps, BoundKeeps, TLSHandshakeKeeps, GivesUpKeeps,
     PeerGreetingKeeps, PeerAuthKeeps, PeerRequestKeeps, TargetSendsKeeps,
     PeerClosesKeeps, StutterKeeps, Zenon
     DEF Next, DialStep, DialReads, PeerStep, PeerReads, Done
<1> QED BY InitInv, <1>1, PTL DEF Spec

-----------------------------------------------------------------------------
(* The types of one dial and of its handshake; every byte on the wire is a *)
(* byte, whatever is asked for and answered.                               *)
THEOREM DialTypes == Spec => []TypeOK
<1>1. IndInv => TypeOK BY DEF IndInv
<1> QED BY <1>1, DialInv, PTL

(* A dial that fails leaves no socket open, and a TLS session starts with  *)
(* no deadline (dialer.go, lines 77-92; proxy.go, lines 111-121).          *)
THEOREM DialSettles == Spec => []SocketSettled
<1>1. IndInv => SocketSettled BY DEF IndInv
<1> QED BY <1>1, DialInv, PTL

(* Behind the handshake both streams hold what the far end sent and no     *)
(* more or less, for a name, credentials and a bound address of any length *)
(* and whether or not the target spoke before it was spoken to (proxy.go,  *)
(* lines 161-260).                                                         *)
THEOREM StreamsAligned == Spec => []StreamAligned
<1>1. ASSUME IndInv PROVE StreamAligned
  <2>1. pc \in {"tls", "tunnel"} => Left(0)
    BY <1>1 DEF IndInv, PlaceOK
  <2>2. pc = "session" => down = <<>> /\ answered
    BY <1>1 DEF IndInv, PlaceOK
  <2>3. pc \in Connected => \A i \in DOMAIN down : down[i] = Payload
    <3>1. down \in Seq(Bytes) BY <1>1, Zenon DEF IndInv, TypeOK, Bytes
    <3>2. DOMAIN down = 1..Len(down) BY <3>1
    <3>3. CASE pc = "session" BY <2>2, <3>2, <3>3
    <3>4. CASE pc \in {"tls", "tunnel"}
      <4>1. /\ Len(down) = IF answered THEN 1 ELSE 0
            /\ answered => down[1] = Payload
        BY <2>1, <3>4 DEF Left
      <4> QED BY <3>2, <4>1
    <3> QED BY <3>3, <3>4 DEF Connected
  <2>4. (pc \in Connected /\ answered /\ sp = "tunnel") =>
            Len(down) = (IF pc = "session" THEN 0 ELSE 1)
    BY <2>1, <2>2 DEF Connected, Left
  <2>5. (pc \in Connected /\ sp = "tunnel") => up = <<Payload>>
    BY <1>1 DEF IndInv, PlaceOK
  <2> QED BY <2>3, <2>4, <2>5 DEF StreamAligned
<1> QED BY <1>1, DialInv, PTL

(* The proxy understands exactly the target and the credentials it was     *)
(* meant to, of every length that can be said, and hears nothing at all of *)
(* a host that the bypass list names in any spelling (proxy.go, lines      *)
(* 161-220; dialer.go, lines 37-41).                                       *)
THEOREM TargetHeard == Spec => []ProxyHearsRight
<1>1. ASSUME IndInv PROVE ProxyHearsRight
  <2>1. HeardOK BY <1>1 DEF IndInv
  <2>2. OnBypassList => ~Via
    BY <1>1, BypassComplete, Zenon DEF IndInv, TypeOK, Via
  <2>3. OnBypassList => pc \notin Handshaking /\ heard.target = None
    BY <1>1, <2>2, Zenon DEF IndInv, ViaOK
  <2> QED BY <2>1, <2>3, Zenon DEF ProxyHearsRight, HeardOK, Handshaking
<1> QED BY <1>1, DialInv, PTL

(* Whoever waits in the handshake is not waited for: of the two ends one   *)
(* has a whole message before it, unless the proxy has closed or is done,  *)
(* whatever the lengths of name and credentials (proxy.go, lines 122-260;  *)
(* socks5.go, lines 54-145).                                               *)
THEOREM NoMutualWait == Spec => []NeverBothWait
<1>1. ASSUME IndInv, DialWaits, PeerWaits PROVE FALSE
  <2>1. sp \in {"greeting", "auth", "request"}  BY <1>1 DEF PeerWaits
  <2>2. pc \in {"method", "authReply", "reply"}
    BY <1>1, <2>1 DEF DialWaits, IndInv, PlaceOK
  <2>3. \/ pc = "method" /\ sp = "greeting"
        \/ pc = "authReply" /\ sp = "auth" /\ up = UsernamePassword
        \/ pc = "reply" /\ sp = "request" /\ up = ConnectRequest
    BY <1>1, <2>1, <2>2 DEF DialWaits, IndInv, PlaceOK
  <2>4. CASE pc = "method" /\ sp = "greeting"
    <3>1. up = Greeting  BY <1>1, <2>4, Zenon DEF IndInv, UpOK
    <3>2. up \in Seq(Bytes) /\ Len(up) >= 2 /\ Len(up) = 2 + up[2]
      BY <3>1, GreetingBytes, Zenon
    <3> QED BY <1>1, <2>4, <3>2 DEF PeerWaits
  <2>5. CASE pc = "authReply" /\ sp = "auth" /\ up = UsernamePassword
    <3>1. up \in Seq(Bytes) /\ conf.auth \in [user : Nat, pass : Nat] /\ CredentialsFit
      <4>1. up # <<>>  BY <2>5 DEF UsernamePassword
      <4>2. conf.auth # NoAuth /\ CredentialsFit
        BY <1>1, <2>5, <4>1, Zenon DEF IndInv, UpOK
      <4> QED BY <1>1, <4>2, DialAssumption DEF IndInv, TypeOK, Bytes
    <3>2. /\ up[2] = conf.auth.user /\ up[3 + conf.auth.user] = conf.auth.pass
          /\ Len(up) = 3 + conf.auth.user + conf.auth.pass
      BY <2>5, <3>1, CredentialBytes, Zenon
    <3>3. up[2] \in Nat /\ up[3 + up[2]] \in Nat /\ Len(up) = 3 + up[2] + up[3 + up[2]]
      BY <3>1, <3>2
    <3>4. ~(Len(up) < 2) /\ ~(Len(up) < 3 + up[2]) /\ ~(Len(up) < 3 + up[2] + up[3 + up[2]])
      BY ONLY <3>3
    <3> QED BY <1>1, <2>5, <3>4, Zenon DEF PeerWaits
  <2>6. CASE pc = "reply" /\ sp = "request" /\ up = ConnectRequest
    <3>1. NameFits /\ conf.target \in Targets
      <4>1. up # <<>>  BY <2>6 DEF ConnectRequest
      <4> QED BY <1>1, <2>6, <4>1, Zenon DEF IndInv, UpOK, TypeOK
    <3> DEFINE n == AddrStart(up) + AddrSize(up)
    <3>2. Len(up) >= 5 /\ n \in Nat /\ Len(up) = n + 2
      BY <2>6, <3>1, RequestBytes, Zenon
    <3>3. AddrFrom + AddrLen = n  BY DEF AddrFrom, AddrLen, AddrStart, AddrSize
    <3> HIDE DEF n
    <3> QED BY <1>1, <2>6, <3>2, <3>3 DEF PeerWaits
  <2> QED BY <2>3, <2>4, <2>5, <2>6
<1> QED BY <1>1, DialInv, PTL DEF NeverBothWait
=============================================================================

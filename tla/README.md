# A TLA+ model of Doppel

Doppel is a local intercepting proxy. A client connects over SOCKS5 or HTTP
CONNECT; Doppel answers the client's TLS handshake with a certificate minted by
its own CA, decrypts the requests, and re-issues them upstream over connections
whose TLS and HTTP/2 fingerprint is that of a chosen browser profile. This
directory models that program from the client's first byte to the upstream
server's last, with the CA and the profiles it reads from disk, checks it with
TLC on small instances, and proves every safety property of its parts with
TLAPS for every size.

    tlc -workers 2 -config H2Client_safety.cfg MCH2Client
    tlapm H2ClientProofs.tla

`PROJECT.json` holds, for every definition, the source lines it stands for, and
for every checked property a mutant: a plausible bug in the code under which
TLC finds the property violated. Mutated definitions are named `Mut...` and
stand directly before the definition they replace; no specification uses them.

## Inventory

| Component | Source | State | Operations |
|---|---|---|---|
| HTTP/2 client connection | `upstream/h2client.go`, `h2client_response.go` | `closed`, `nextID`, the stream map, per stream the channels `headers` and `errs` and the body pipe, flow-control windows | `RoundTrip`, `writeRequest`, `Close`, `readLoop` and its frame handlers, `h2Body.Close` |
| Upstream transport | `upstream/roundtripper.go` | `pool` (one HTTP/2 connection per host) under `rt.mu` | `RoundTrip`, `cachedH2`, `adoptH2`, `evict`, `Close`, `roundTripHTTP1` |
| Dialer | `upstream/dialer.go`, `clienthello.go` | sockets being set up | `Dial`, `DialTCP`, bypass patterns, ClientHello choice |
| Upstream SOCKS5 client | `upstream/proxy.go` | a socket, its deadline, a position in the byte stream | URL parsing, handshake |
| Response decoding | `upstream/decompress.go` | the decoder around a body | decoder choice, header and length rewriting |
| Leaf certificates | `ca/ca.go` | `cache` under an RWMutex | `LeafFor`, `mint`, the `GetCertificate` callback |
| CA on disk | `ca/ca.go`, `config/config.go`, `cmd/doppel/main.go` | `ca.pem`, `ca.key` | `CAExists`, `Generate`, `Save`, `Load` |
| Proxy server | `proxy/server.go`, `http.go`, `socks5.go` | listener, WaitGroup, client sockets and deadlines | `Serve`, `handle`, `handleHTTP`, `handleSOCKS5` |
| Interceptor | `mitm/mitm.go`, `errors.go` | a TLS session per client, its reader, two copies per tunnel | `Intercept`, `forward`, `forwardWebSocket`, `Passthrough`, `tunnel` |
| Profiles | `profile/*.go` | table of names and aliases | loading, validation, merging, lookup, `Apply`, `OrderHeaders` |
| HTTP/2 fingerprint | `upstream/h2profile.go` | none | SETTINGS, pseudo-header order |
| Launcher | `launch/launch.go`, `cmd/doppel/main.go` | child process beside the server | start, interrupt, kill, bounded wait |
| Command line, wizard | `cmd/doppel/main.go`, `wizard/wizard.go` | none of their own | parsing, printing |

How they interact. `cmdRun` loads the CA, builds one `RoundTripper` and one
server, and closes the transport when `Serve` has returned; `cmdLaunch` does
the same around a child process and waits five seconds at most. `Serve` starts a
handler goroutine per client. A handler negotiates under a deadline, then
either tunnels bytes (`Passthrough`) or terminates TLS (`Intercept`), which
calls back into the leaf cache during the handshake and calls
`RoundTripper.RoundTrip` for every request. Handlers share the pool; requests
to one host share one HTTP/2 connection, whose `readLoop` goroutine feeds all
their response bodies through unbuffered pipes.

What is hard, and what makes each part correct:

* **HTTP/2 connection.** Callers, `readLoop` and `Close` meet in the stream map
  and drop the lock between looking a stream up and using it. Correct means:
  nobody waits for an answer no one will give, a caller that has gone does not
  stop the loop, responses go to the right caller, EOF means the whole body, what
  a caller has read is credited once, closing releases everyone. A caller that
  stays and does not read does stop the loop, for as long as it likes: it is
  `resp.Write` to a client socket that has no deadline.
* **Transport.** Look-up, dialling and adoption are separate critical sections;
  a failure may be noticed long after the pool has moved on; one lock is held
  while waiting for another. Correct means: no socket leaks, no request with a
  body is sent twice, no request hangs, hosts do not disturb each other.
* **Leaf cache.** Check, mint and store are three steps. Correct means one
  certificate per host, made for the name the client asked for.
* **CA on disk.** Two files, no atomic replacement, no lock, any process may
  die. Correct means a loaded key belongs to the loaded certificate and an
  installed CA is not overwritten unasked.
* **Proxy server and launcher.** Deadlines are armed and cleared along several
  paths; shutdown races with accepting, with the child's exit and with the
  five-second wait. Correct means silent clients do not pin goroutines, sessions
  carry no stale deadline, sockets are closed, the transport is closed after its
  last user, a child has its proxy, and the command ends.
* **Interceptor.** One reader serves all requests of a client, so a body left
  unread is taken for the next request; a response changes its framing on the
  way; a failure may come after half a response; a tunnel starts with bytes that
  a buffered reader may already hold. Correct means one answer per request, the
  upstream's own answer where it gave one, no truncated response whose end the
  client was told, no byte of a tunnel lost, no socket left, and an end when the
  client leaves.
* **Dialer and SOCKS5 client.** Two byte-level state machines must agree on the
  length of every field, at the edges of a length byte too, with a peer that may
  fall silent. Correct means both keep their place in the stream, the right
  target is asked for, nothing waits for ever, failures close the socket.
* **Profiles and fingerprint.** Names come from several files, orders from Go
  maps, headers pass through three functions. Correct means the profile asked
  for, its settings and headers in its order, and of the client's headers what
  is neither connection-scoped nor the profile's to set.

## Modules

Each component module declares its parameters as CONSTANTS with a named
assumption, has one action per critical section or blocking point of the code,
and states its properties at its end. `MC...` modules only name model values
and small functions for the `.cfg` files.

### H2Client

One connection, its callers `Reqs`, `readLoop`, one effective `Close`, and a
server that is external: it sends what HTTP/2 allows within both windows, plus
whatever `PeerMay` enables (trailers, padding, RST_STREAM, GOAWAY, a broken
network, failing writes). The requests in `Hinted` may get interim headers first.

* A section under `cc.mu` is one step. `Send` is `writeRequest` with its lock
  held; `TakeHeaders`, `TakeErr` and `Cancel` are the branches of `RoundTrip`'s
  select; `Leave` is `removeStream`, on the error branches and in
  `h2Body.Close`.
* A frame is sent by the server, read by `readLoop` and looked up in the map in
  one step: a frame in flight is one not yet sent, and TCP keeps the order.
  After the look-up the handler holds the stream (`cur`, `frame`) without the
  lock, so everything else may happen before `HandleHeaders`, `ReadChunk` /
  `WriteFails`, `CreditWindow` and `EndStream`.
* The pipe is unbuffered, so a write and the read that takes it are one step,
  and `readLoop` blocks at `"write"` until a reader comes or a half is closed.
* `TakeAll` is the critical section `Close` and `failAll` share; the streams
  are then failed one by one (`FailOne`), outside the lock, as in the code.
* The reader of a body (`ReaderStep`) is `resp.Write` in `forward`, which waits
  for its client without a deadline, so nothing makes it go on.
* DATA is counted in units, of body or of padding. `CreditWindow` gives back the
  body of a frame and no padding, as `len(f.Data())` does, and nothing at all
  when the write fails, which `writeControl` ignores. `unread` counts what the
  connection window has been charged and nobody has read. SETTINGS and PING acknowledgements change no state
  kept here; running out of stream ids is the outcome of `SendFails`.

### RoundTripper

Calls of `RoundTrip` by program counter, with `rt.mu` and each `cc.mu` as
variables that hold their owner, because it matters who waits for which. An
HTTP/2 connection is reduced to the interface `H2Client` provides: its lock, is
it usable, does a request on it get an answer or an error. A connection is
named by the request that dialled it, as a request dials at most once.
`rt.Close` is enabled only when no request runs: this is the caller's duty, and
`ProxyServer` checks that it is met (`NoUseAfterClose`).

### LeafCache

Handshakes, each in `Lookup` (read lock), `Mint` (no lock) and `Store` (write
lock). `normalizeHost` is a function from spellings to hosts. The validity of
a leaf is left out, as no code reads it.

### CAFiles

Invocations of the program on one data directory. `os.WriteFile` truncates and
then writes, so a file is absent, partial or holds somebody's CA. An invocation
may be killed, or its write may fail, at every step. `Serial` says whether the
user waits for one invocation to finish before starting the next.

### Authority

Composes the two: one invocation is a proxy that loads the CA and then serves
handshakes from its cache, while the others go on with the files. It mints only
if the certificate and the key it has loaded belong together, as
`x509.CreateCertificate` refuses others.

### Exchanges

The abstract specification of a connection as its callers see it: a request is
issued while the connection is open, gets one answer or one failure, its body
is handed out unit by unit in order, and its end is announced as EOF after the
last unit only. `H2Client` implements it under the mapping `Contract` at its
end: `open` is `~closed`, the phase of an exchange is its caller's program
counter, and `read`, `length`, `outcome` are what the caller has seen.

### ProxyServer

`Serve`, the goroutine that closes the listener, and one handler per client
through peek, HTTP CONNECT or SOCKS5, then tunnel or intercepted session, with
the deadline of each client socket. Message contents are reduced to accepted or
refused. `mode` says which command drives it. Under `launch` the main goroutine
starts the child (`StartChild`), whose exit or kill (`ChildExits`, `KillChild`)
lets it call `stop` (`StopOnExit`) and then return when `Serve` has or when five
seconds are over (`LaunchReturn`), also with handlers still running.

### Tunnel and Session

`Session` is one client connection behind the negotiation. The client's input
is a queue of request heads and body units, the handler has a program counter
with one action per blocking point of `Intercept`, `forward`,
`forwardWebSocket` and `Passthrough`, and the client reads what is written by
the framing it was given: a length, chunks, the end of the connection, or none.
The transport is reduced to what `Exchanges` and `RoundTripper` show of it: an
answer or an error, and a body that may break. The handler writes what
`decodeResponse` makes of the answer: a decoder that wants its first bytes at
once (gzip) or later, and no length. `Tunnel` has the two `io.Copy` goroutines
that `Passthrough` and `tunnel` start, over numbered units, with the bytes a
buffered reader already holds. A copy ends at EOF, when its receiver has gone,
by a reset, and by the deadline that `dialSOCKS5` leaves on a socket and that a
passthrough tunnel never clears (`DeadlineFires`). `Session` extends it and
composes its actions. A 1xx answer is what the transport returns for it, the one
response to its request (`RespondInterim`). `Framed`, `Coded` and `Interim` say
which framings, codings and 1xx answers an instance has; the decoders are the
one that needs bytes to start (gzip), those that do not (`"late"`: br, zstd,
deflate, which peeks but falls back to raw DEFLATE), and none.

### UpstreamDial

One outgoing connection, with the SOCKS5 handshake as bytes of their real
values and lengths in the two directions. `socks5Handshake` reads with
`io.ReadFull`, so a reading step waits for its number of bytes. The proxy at the
other end is Doppel's own `socks5Negotiate`, translated from
`proxy/socks5.go`, or some other proxy that may choose any method, any reply,
any bound address, silence or a hangup. Host names are sequences of labels for
the bypass list and bytes for the wire; bytes of names and credentials are all
alike, as only their number matters.

### Identity

A build, a profiles directory, the command's flags and one request, taken
through loading, merging, selection, connecting and sending. Header values say
who supplied them, which is what the properties ask about; lower case, upper
case, trimming and `http.CanonicalHeaderKey` are tables given by the instance.
`Header.Set` puts a profile's header under its canonical name (`Given`); on a
WebSocket upgrade it sets the User-Agent alone. Where Go iterates over a
map, the model chooses any order. A sort is the sequence that lists a set along
a relation (`Arranged`) and a loop that skips elements keeps a set of places
(`Keep`), so what they compute is stated without recursion.

### ...Proofs

The TLAPS proofs, one module per component, described below.

## Runs

"Holds" means TLC explored the whole state space of the instance; "violated"
means the run exists to show a disagreement between the code and what the
repository says of it.

| Run | Question | Result |
|---|---|---|
| `h2_safety` | Two callers, one of whom may cancel and abandon its body, neither of whom need read; `readLoop` and `Close`; resets, trailers, padding, failing writes: `TypeOK`, `NoOrphanWaiter`, `WriteCanEnd`, `ClosedMapEmpty`, `NoCrossTalk`, `CleanEOFIsComplete`, `WindowConserved`, `CompleteResponseDelivered`, and the refinement `ImplementsExchanges` | holds |
| `h2_live` | With 1xx answers, GOAWAY and a network that breaks: after `Close`, GOAWAY or a broken network everyone is released with no help from the server or from readers (`CloseReleases`); with a server that answers without padding and readers that read, every request ends (`EveryRequestEnds`) | holds |
| `h2_window_leak` | `EveryRequestEnds` when one body is closed early | violated |
| `rt_pool` | Three requests to one host: `NoReplay`, `NoConnLeak`, `RequestsEnd` | holds |
| `rt_evict` | A failed request evicts the connection it failed on | violated |
| `authority` | A proxy with four handshakes beside other invocations, one at a time, each killed anywhere: `OneLeafPerHost`, `LeafNamesClientsHost`, `OnlyForceTears`, `NoSilentOverwrite` | holds |
| `server` | `run` and `launch`, interrupted at any moment, nothing assumed of clients: `SocketsSettled`, `NoUseAfterClose`, `ChildHasProxy`, `NegotiationEnds`, `LaunchEnds`; once clients leave, `ServeReturns` | holds |
| `session` | A pipelining client, every framing and coding, 1xx answers, WebSocket and passthrough tunnels, failures anywhere: `ReaderAligned`, `OneAnswerEach`, `CompleteIsWhole`, `NoSocketLeft`, `TunnelIntact`, `ClosingSideHeard`, `LeavingEnds` | holds |
| `session_hang` | While the session waits for a request, no client waits for the end of a decoded response (`NoMutualWait`) | violated |
| `session_empty` | An answer with nothing wrong is not replaced by a status of Doppel's own (`GoodAnswerRelayed`) | violated |
| `dial` | The handshake with Doppel or any other proxy: `StreamAligned`, `ProxyHearsRight`, `NeverBothWait`, `SocketSettled`, `DialEnds` | holds |
| `identity` | From files to the wire: `TableIsOverlay`, `HeadersExact`, `WireInOrder`, `SettingsInOrder` | holds |

What the violated runs show, briefly (`PROJECT.json` quotes the lines):

1. DATA for a stream whose body was closed early is dropped without a
   connection WINDOW_UPDATE, and no RST_STREAM is sent; the pooled connection
   loses that window for good and in the end the next request hangs.
2. `evict` removes whatever the pool holds for the host, also a healthy
   connection that has replaced the failed one.
3. A response whose length was dropped by decoding is written without a length
   or chunks, so the client waits for the connection to close, while the session
   waits for the client's next request. The instance has decoded responses only;
   the same happens behind an HTTP/2 answer or a WebSocket rejection that never
   had a length, and behind a 1xx answer, which is relayed as the one response.
4. A gzip response without a body, such as the answer to HEAD or a 304, becomes a
   502, as `gzip.NewReader` wants its header at once.

The modules show more that a reader of the code should know. No run is spent on
these. Where the repository says otherwise the line is given; the others
contradict no statement of it.

* `Serve`: "ln is closed on return" (`server.go:58`). An accept error between the
  interrupt and the closing of the listener lets it return before (`AcceptFails`).
* A WebSocket upgrade keeps the client's Accept, Sec-Fetch-* and other headers of
  the profile, and its connection-scoped ones: only the User-Agent is rewritten
  (`mitm.go:169-171`, against what `mitm.go:50-54` says of `RewriteHeaders`).
  `HeadersExact` states the exception.
* Settings of the older object form whose names are not spelt as the protocol
  spells them follow in Go's map order (`profile.go:113`), where
  `profile.go:57-58` has an exact order. `SettingsInOrder` orders only the others.
* A user profile "overrides the built-in profile" of its name (`README.md:222-223`
  of the repository), but the aliases of that built-in still mean the built-in
  one; `TableIsOverlay` takes the code's side.
* A body that ends with the connection, as a decoded one does, carries no mark of
  its end: when the upstream breaks it off, `forward` returns the error, the
  connection is closed in good order, and the client sees a complete body.
  `CompleteIsWhole` speaks of lengths and chunks only.
* A reader that stalls, a client that takes no bytes, holds `readLoop` in its pipe
  and with it every request on the connection. `EveryRequestEnds` has
  `ReadersRead` as a premise, `WriteCanEnd` speaks of callers that have gone.
* The padding of DATA is never credited to a window (`WindowConserved`), so a
  server that pads wears a connection out like early closes do.
* A trailing header block has no `:status` and ends a complete response in an
  error (the exception in `CompleteResponseDelivered`); a 1xx header block is
  returned as the response (`OfferHeaders`, `RespondInterim`).
* `cachedH2` waits for a connection's lock with the pool lock in hand, and a
  write under the connection's lock has no deadline, so a host that takes no
  bytes can hold up requests to all hosts. `RequestsEnd` assumes that writes
  end (`NetStep`).
* `Save` replaces two files in place. An `init -force` that is killed between
  them leaves a mixed pair, and one that runs beside another invocation lets it
  load one; two first inits that overlap overwrite each other. `OnlyForceTears`
  and `NoSilentOverwrite` are about invocations run one at a time.
* A passthrough tunnel through an upstream proxy keeps the deadline that
  `dialSOCKS5` has set and is cut by it. `SocketSettled` speaks of TLS sessions,
  which clear it, `ClosingSideHeard` of tunnels that it has not cut.
* At the first EOF a tunnel is closed both ways. `ClosingSideHeard` says that
  what the closing side has sent arrives; what was on its way to it may be cut.
* A cached leaf is served however old it is (`Lookup`), and a running proxy goes
  on with the CA it has loaded when the files are replaced.

### Bounds

* `H2Client`: two callers. The callers interact only through the map,
  `readLoop` and the connection window, so two exhibit every pairwise race; the
  proofs cover any number. `h2_safety` has one unit of body and windows of two,
  so that a unit and its padding fill a window, and what is lost of it is seen;
  `h2_live` has one unit and windows of one, so that one stream uses up the
  window of the other. Between them they enable everything a peer may do
  (`PeerMay`); what each leaves out keeps it within minutes.
* `RoundTripper`: three requests are what the stale eviction needs (one that
  fails late, one that replaces the connection, one that uses the replacement),
  and allow two dials to race while a third connection is in the pool. The
  counter of attempts is capped at `MaxAttempts` = 3, one more than the code
  allows, so exceeding it would be seen.
* `Authority`: four invocations, two inits, a forced one and a proxy, in any
  order; four handshakes, two hosts, two spellings of one of them, and an SNI
  that differs from the CONNECT host.
* `ProxyServer`: three clients, one of them tunnelled, under both commands:
  one in each kind of service and one still negotiating at shutdown.
* `Session`: three requests of up to two units on a connection, so that one is
  answered, one in hand and one pipelined behind it, and a failure can strike
  between two units; two units per direction of a tunnel, one of which may be in
  a reader's buffer.
* `UpstreamDial`: IPv4, IPv6, short names and names of 255 and 256 bytes;
  user names of 1, 255 and 256 bytes and passwords of 0, 2 and 256, with and
  without credentials; bypass
  patterns of each form, and hosts at, below and beside them in another case.
* `Identity`: two built-in profiles and eight directories (empty, overriding a
  name and taking an alias, colliding, repeating itself, with unknown settings,
  with an older settings object that is empty or names one setting twice);
  profiles whose header names are not canonical; requests with single and
  repeated headers, Connection and Upgrade too, over HTTP/2, HTTP/1.1 and an
  upgrade, with and without body, authority and rewriting.

### Fairness

* `H2Client!GoFairness`: a runnable goroutine eventually runs (callers,
  `readLoop`, `Close`). The Go scheduler gives this. Nothing forces a caller to
  start, cancel or abandon, the server to answer, or a client to take what is
  written to it, so the readers of bodies are not fair. `CloseReleases` needs no
  more. `EveryRequestEnds` has two premises: a server that answers as far as flow
  control lets it (`ServerAnswers`), and readers that read on or give up
  (`ReadersRead`).
* `RoundTripper!Fairness`: goroutines run and peers answer or fail;
  dialling has a deadline. Weak fairness of the steps that take a mutex is
  enough here as each request takes it finitely often. New requests, `Close`
  and failing peers are never forced.
* `ProxyServer!ServerFairness`: the server's goroutines run and an armed
  deadline fires. `ClientsLeave`, that upstreams answer and clients leave in
  the end, is the premise of `ServeReturns` alone: `Serve` waits for its handlers
  without a limit, so it cannot hold otherwise. Leaving has strong fairness
  because a session alternates between reading and forwarding.
  The command's own steps and the kill of an interrupted child are fair as
  well; `LaunchEnds` needs nothing of clients, as the wait is bounded.
* `Session!Spec`: the handler's goroutines run (`HandlerStep`) and an upstream
  that was asked answers or fails (`UpstreamStep`). The client is never forced
  to send, read or leave: `LeavingEnds` starts from its having left.
* `UpstreamDial!Spec`: the dialling goroutine runs and a deadline fires
  (`DialStep`); nothing is assumed of the proxy.

Deadlock is checked in every run. Each module has a stuttering step for the
states in which the program has done its work.

## Proofs

The theorems hold for every value of the constants that the `ASSUME` of each
module admits: windows, bodies and bounds are naturals, option sets are subsets
of the callers, `None` is not one of them. No set is assumed finite but the
headers of one request, those a profile sets and the settings of one older
object. Each invariant of a proof was checked with TLC as an invariant of a run
before it was proved, and where TLC or the prover found a step that did not keep
it, it was strengthened to what is listed here. A proof has one lemma per actor
or action, in it one step per action or conjunct, and ends in a lemma that the
invariant is inductive, from which the theorems follow. Every invariant that a
run checks is a theorem.

| Module | Theorems (with the property each states) |
|---|---|
| `H2ClientProofs` | `TypeCorrect` (`TypeOK`), `CrossTalkFree` (`NoCrossTalk`), `ClosedIsEmpty` (`ClosedMapEmpty`), `NoWaiterOrphaned` (`NoOrphanWaiter`), `OnlyLiveReadersHoldLoop` (`WriteCanEnd`), `EOFMeansComplete` (`CleanEOFIsComplete`), `BreaksForCause` (`CompleteResponseDelivered`), `WindowsConserved` (`WindowConserved`), `ContractKept` (`ImplementsExchanges`) |
| `RoundTripperProofs` | `SocketsAccounted` (`NoConnLeak`), `BodiesSentOnce` (`NoReplay`), `LocksAreOrdered`, `HostsNeverMixed` |
| `LeafCacheProofs` | `LeafTypes`, `SameLeaf` (`OneLeafPerHost`), `LeafForRightHost` (`LeafNamesClientsHost`) |
| `AuthorityProofs` | `OnlyForceTearsAPair` (`OnlyForceTears`), `NeverOverwrites` (`NoSilentOverwrite`), `AuthorityImplements` |
| `ProxyServerProofs` | `SocketsAreSettled` (`SocketsSettled`), `NegotiationsAreArmed`, `TransportOutlivesUse` (`NoUseAfterClose`), `ChildIsServed` (`ChildHasProxy`) |
| `SessionProofs` | `SessionTypes`, `RequestsInStep` (`ReaderAligned`), `AnswersExact` (`OneAnswerEach`), `NoTruncation` (`CompleteIsWhole`), `SocketsClosed` (`NoSocketLeft`), `BytesUnmodified` (`TunnelIntact`), `LastBytesArrive` (`ClosingSideHeard`) |
| `UpstreamDialProofs` | `DialTypes`, `DialSettles` (`SocketSettled`), `StreamsAligned` (`StreamAligned`), `TargetHeard` (`ProxyHearsRight`), `NoMutualWait` (`NeverBothWait`) |
| `IdentityProofs` | `OverlayIsRight` (`TableIsOverlay`), `SettingsAsInFile` (`SettingsInOrder`), `HeadersAreExact` (`HeadersExact`), `WireKeepsOrder` (`WireInOrder`) |

**H2ClientProofs**, for any callers, windows, bodies and peers. None of
`NoOrphanWaiter`, `NoCrossTalk`, `WriteCanEnd` is inductive alone; the invariant
`IndInv` adds

* `IdsOK`: the ids in use are distinct and below `nextID`, so a look-up by id
  finds the request's own stream (lemma `OneStreamPerId`) and removing one
  stream cannot orphan the caller of another;
* `MapOK`: who is in the map is a request that has been written and has not
  left, and whoever the server has seen has an id;
* `LoopOK`: the stream in `readLoop`'s hand is that of the frame, and while its
  pipe is open it is still in the map or held for failing;
* `HeldOK`: `Close` and `failAll` hold streams only while they are failing them;
* `AnswerKept`: a caller that waits although the server has sent its headers
  has them or an error in a channel, or is held for failing, or `readLoop` is
  about to offer them;
* `WindowsOK`: while a unit of DATA is in hand both windows are below what was
  announced, so `CreditWindow` never exceeds them.

`OnlyLiveReadersHoldLoop` is about callers that have gone; nothing bounds how
long one that stays may keep `readLoop` waiting.

`readLoop` removes a stream from the map in `EndStream` and `WriteFails` while
its caller may still be in `RoundTrip`'s select; the argument that the caller
is not orphaned is that DATA and END_STREAM come after headers were offered,
which is why the invariant carries `AnswerKept`.

Its second part adds `BodyInv`: how far the reader is behind the
server while the stream is in the map (`ReadOK`: the pipe is unbuffered, so by
the one unit that `readLoop` is writing), what a frame with END_STREAM says of
the server (`FrameOK`), what the two ends of the pipe say of the body (`EndOK`),
that the server's frames find the stream of a caller that has not turned away
(`FoundOK`), and the two windows as ledgers: what is missing from them is what
was charged and not read (`ConservedOK`; lemma `FrameEffect` gives what one
frame charges). The refinement of
`Exchanges` takes each action of `H2Client` to an action of the contract:
`SendClosed`, `ReadBodyFails`, `SendFails` to `Refuse`, `Send` to `Issue`,
`TakeHeaders` to `Answer`, `TakeErr`, `Cancel` to `NoAnswer`, `ReadChunk` to
`Read`, `ReadEnd` to `Finish` or `Break`, `TakeAll` to `Shut`, everything else
to a stutter (`CallerRefines`, `OthersRefine`). Where the invariant is needed is `ReadChunk`,
which must not read past the length, and `ReadEnd`, whose EOF must come after
the last unit.

**RoundTripperProofs**, for any number of requests and hosts. `LocksOK` says who
holds which lock, `HostsOK` that a connection is used for the host it was
dialled for, `VictimOK` that what `evict` took out of the pool is held until it
is closed, `DownOK` that `rt.Close` finds nobody, and `AttemptsOK` counts how
many connections a request may have reached at each point of `roundTrip`. The
last is what makes `NoReplay` inductive: a retry is possible only with `fresh`
still false, and dialling makes it true.

**AuthorityProofs**, for any number of invocations and commands. `FilesOK` relates
the two files to the invocation that last truncated the certificate (`writer`)
and to where it stopped, `LoadOK` says that what a load has read is still on
disk. They hold when invocations do not overlap (`AloneOK`); the theorems say
so in their properties: the code has no lock. They are theorems of `CASpec`, as
those of `LeafCacheProofs` are of `LeafCache`'s `Spec`; `AuthorityImplements`
says that the composed system implements both.

**LeafCacheProofs**, for any number of handshakes. The invariant says that a
cached certificate was minted for its host, that a call about to store has
minted one for its host, that whoever has returned returned the present cache
entry of its host, and that a certificate not minted yet is in no cache entry.
The crux is that an entry, once set, never changes: `Store` looks again under
the write lock.

**ProxyServerProofs**, for any number of clients. `HandsOK` says at which points
of a handler a socket may be open and a deadline armed, `OrderOK` the order of
shutdown: cancel, listener, handlers, `Serve`, transport. `NegotiationsAreArmed`
is the part of `NegotiationEnds` that is up to the code; that a deadline fires
is up to the runtime.

**SessionProofs**, for any number of requests, any bodies and any length of a
tunnel. Three invariants, each with its own induction:

* `TunnelInv`: in each direction what has arrived and what has not are together
  the numbers from 1 to what was written (`InOrder`; lemmas `AddUnit`,
  `MoveUnit`), and an ended copy has a receiver that left or nothing pending;
* `QueueInv`: the heads and body units between client and reader are in order,
  no head of a request is missing, none of a served request is left, and the
  body of the request in hand is over at every point behind `readRequestBody`
  (`DrainedOK`). `NextIsHead` concludes what the next token is. `OtherMoves` says
  that all but four actions leave the queue alone;
* `ExchangeInv`: every request before the one in hand has exactly one relayed
  response, none behind it has any, and the one in hand has one exactly while it
  is relayed; a body behind which the session has read on is whole, and so is one
  that the client takes for complete by its length or its chunks.

**UpstreamDialProofs**, for any host, any credentials, any bypass list and any
proxy of the two kinds. Two groups of lemmas carry it:

* messages: `RequestBytes` and `CredentialBytes` say that a reader who follows
  the length bytes finds the address, the port and the credentials, and nothing
  behind them, as long as `NameFits` and `CredentialsFit`, the two checks of the
  code, hold; `ReplyBytes` says the same of the replies, from the address type
  alone. `DialAssumption` gives what Go's types give: 4 or 16 bytes of an
  address;
* streams: `Left(k)` is "k bytes of the handshake and then what the target has
  sent", `LeftTake` that reading n of them leaves k - n, `LeftAnswered` that the
  target may speak at any moment.

`PlaceOK` then says for each pair of positions of the two ends what is in
flight: between messages nothing, otherwise exactly the one just sent; `UpOK`
that what the proxy has yet to read is one whole message. `ViaOK` says that
whoever is told of a target was asked through `Via`; `BypassComplete` derives
from the documented meaning of the list (`OnBypassList`) that the code's suffix
comparison matches. The proof of `ReplyHeader` showed that the model's CASE had
two overlapping guards, whose choice TLA+ leaves open (TLC takes the first, as
the code does); it is an IF now.

`NeverBothWait` is read off `PlaceOK`, `UpOK` and the message lemmas: where Doppel
waits for a reply, the proxy has the whole message the reply is to. The property
spells out when a read is incomplete (`DialWaits`, `PeerWaits`) instead of using
ENABLED, which the prover does not know; on the instance of `dial` TLC finds
the two to agree in every state.

**IdentityProofs**, for any files, directories, orders, requests and
spellings. The assumptions say what the code gives: `FileAssumption` what JSON
decoding makes of a file, `RequestAssumption` that header keys are canonical, as
`http.ReadRequest` makes them, so that two of them differ in more than case, and
`SpellingAssumption` that the
names of the settings are in upper case.

* Sorting: `Orders(R, S)` says that R orders S strictly and leaves no tie. The
  rank of an element, the number of those before it, is then an injection into
  the numbers below the size of S, hence onto them (`ArrangedOnto`, from the
  library's facts about cardinality), so `Arranged` lists every element once in
  the order of R (`ArrangedIs`): no induction is needed. `AscendingIs` and
  `KeepIs` follow for loops. `LessOrders` shows that the comparison of
  `OrderHeaders` leaves no tie whatever the profile repeats, omits or spells
  otherwise, and `FieldsAre` what the sorted fields are.
* Loading: `FileInv` says how many files have been read and that the map under
  construction has exactly their names (`LoadOK`, `Stands`), what the table holds
  at each phase (`TableOK`), and that the selected profile is a file but for the
  template of its ClientHello and the order its settings were decoded in
  (`SelectedOK`). `OneMoreStands` is the step of `registerProfile`.
* Settings: `ObjectDecoded` says what the older form becomes, `SettingsOK` what
  `Connect` sends.
* The request: `OutgoingIs` and `FramedIs` say of every key where its value came
  from, `SentOnce` that its values are sent in order, `KeysInOrder` and `PseudoIs`
  in which order keys and pseudo-headers go out.

Proving `SettingsInOrder` showed two cases in which an earlier form of it was
false and no instance had them: an older settings object that is empty, for
which the code sends its defaults, and one that names a setting in two spellings,
which is sent twice. The property now states the first as it is; of the second it
asks that every name is sent once and that the exactly spelt ones come first, in
the protocol's order. Both are in the instance.

**Model-checked only.** Liveness (`CloseReleases`, `EveryRequestEnds`,
`RequestsEnd`, `NegotiationEnds`, `ServeReturns`, `LaunchEnds`, `LeavingEnds`,
`DialEnds`): its proof needs ENABLED, which the prover does not support.

## Not modelled

* Wording and layout of messages, logging, flag parsing, `verify`, the listing
  of profiles, the wizard: printing, no state.
* `ParseProxy`, `ProxyEnv` and `AppendChromiumArgs`: each turns one string or
  list into another in one call, without state or an order of events. The error
  classes of `mitm/errors.go` only choose a log level.
* X.509, TLS and gzip/brotli/zstd encodings: library code; the model keeps whom
  a certificate names, when a decoder reads and whether a step succeeded.
* The peer's own flow-control windows and stream limit, which the client does
  not look at: an upload beyond them is a reset, which `H2Client` has.
* A doppel that is killed or gets a SIGTERM, which `signal.NotifyContext` is not
  asked for: the process ends with its sockets, and a launched child stays.
* The numbers of SETTINGS, WINDOW_UPDATE and PRIORITY, which are copied from the
  profile as they are.

## Plan

The models cover what the code does, and every safety property that a run
checks is proved. What is left is liveness, when the prover can reason about
ENABLED: the steps to follow are in the invariants (`AnswerKept` for
`EveryRequestEnds`, `NegotiationsAreArmed` for `NegotiationEnds`).

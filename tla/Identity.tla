------------------------------ MODULE Identity ------------------------------
(***************************************************************************)
(* From profile files to the bytes a server sees.  Profiles are loaded and *)
(* registered (internal/profile/profile.go, embed.go), merged and selected *)
(* (allProfiles and loadProfile of cmd/doppel/main.go); the selected one   *)
(* gives the SETTINGS of a connection (internal/upstream/h2profile.go) and *)
(* the header fields of a request (forward and forwardWebSocket of         *)
(* internal/mitm/mitm.go, Apply and OrderHeaders, pseudoHeaders and        *)
(* regularHeaders of h2client_response.go, WriteRequestHTTP1).             *)
(*                                                                         *)
(* A header value is "client" or "profile", by who supplied it, or "proxy" *)
(* for what Doppel computes.  Spelling matters only to Trim, Lower, Upper  *)
(* and Canonical, which are tables.                                        *)
(***************************************************************************)
EXTENDS Integers, Sequences, FiniteSets, SequencesExt

CONSTANTS Files,       \* sequences of built-in profile files a build may embed
          UserDirs,    \* sequences of files a profiles directory may hold
          Asked,       \* names given to -profile
          TLSFlags,    \* values given to -tls-profile, None when there is none
          Requests,    \* [headers, path, body, authority]: requests of a client
          Hellos,      \* keys of clientHelloIDs
          Trim, Lower,  \* spellings; Lower maps header names too
          Upper,        \* h2SettingID's: trimmed and in upper case
          Canonical,    \* http.CanonicalHeaderKey
          Alphabet,    \* position of a header key in sort order
          None

HopByHop == {"Connection", "Proxy-Connection", "Keep-Alive", "Te", "Trailer",
             "Transfer-Encoding", "Upgrade", "Proxy-Authenticate", "Proxy-Authorization"}
ProxyOnly == {"Proxy-Connection", "Proxy-Authenticate", "Proxy-Authorization"}

KnownSettings == <<"HEADER_TABLE_SIZE", "ENABLE_PUSH", "MAX_CONCURRENT_STREAMS",
                   "INITIAL_WINDOW_SIZE", "MAX_FRAME_SIZE", "MAX_HEADER_LIST_SIZE">>
DefaultSettings == <<"ENABLE_PUSH", "INITIAL_WINDOW_SIZE", "MAX_FRAME_SIZE",
                     "MAX_HEADER_LIST_SIZE">>
DefaultPseudo == <<":method", ":authority", ":scheme", ":path">>

AllFiles == UNION {ToSet(fs) : fs \in Files \cup UserDirs}

HeaderKeys == {"User-Agent", "Host", "Content-Length"}
              \cup (UNION {{Canonical[n] : n \in f.set} : f \in AllFiles})
              \cup (UNION {DOMAIN r.headers : r \in Requests})

\* What JSON decoding into a Profile gives; an id stands for one file.
ASSUME FileAssumption ==
    /\ \A fs \in Files \cup UserDirs : fs \in Seq(AllFiles)
    /\ \A f \in AllFiles :
          /\ DOMAIN f = {"id", "name", "aliases", "complete", "hello", "set", "order",
                         "pseudo", "settings"}
          /\ f.aliases \in Seq(STRING) /\ f.order \in Seq(DOMAIN Lower)
          /\ f.pseudo \in Seq(STRING) /\ IsFiniteSet(f.set)
          /\ \A n \in f.set : Lower[Canonical[n]] = Lower[n]
          /\ IF f.settings.form = "object" THEN IsFiniteSet(f.settings.names)
                                           ELSE f.settings.names \in Seq(STRING)
          /\ \A g \in AllFiles : f.id = g.id => f = g

\* net/http keeps header keys in canonical form, those that Header.Set is given
\* included, so two of them differ in more than case, and their bytes differ.
ASSUME RequestAssumption ==
    /\ \A r \in Requests : /\ IsFiniteSet(DOMAIN r.headers)
                           /\ \A k \in DOMAIN r.headers : r.headers[k] \in Seq({"client"})
    /\ \A k \in HeaderKeys : Alphabet[k] \in Int
    /\ \A k, l \in HeaderKeys : Lower[k] = Lower[l] \/ Alphabet[k] = Alphabet[l] => k = l

ASSUME SpellingAssumption == \A i \in DOMAIN KnownSettings : Upper[KnownSettings[i]] = KnownSettings[i]

\* f, and g for the keys that f does not have.
Over(f, g) == [k \in DOMAIN f \cup DOMAIN g |-> IF k \in DOMAIN f THEN f[k] ELSE g[k]]

\* The elements of S, each behind those that R, a set of pairs, puts before it.
Arranged(S, R) ==
    [i \in 1..Cardinality(S) |-> CHOOSE x \in S : Cardinality({y \in S : <<y, x>> \in R}) = i - 1]
Ascending(S) == Arranged(S, {r \in S \X S : r[1] < r[2]})

\* What a loop over seq keeps when it skips all places but those in I.
Keep(seq, I) == [i \in 1..Cardinality(I) |-> seq[Ascending(I)[i]]]

VARIABLES
    input,     \* [builtin, user, asked, tls, rewrite, request]: fixed for a run
    phase,     \* "builtin", "user", "select", "connect", "request", "sent", "error"
    todo,      \* files still to load
    out,       \* the map LoadDir or Builtin is building: key -> profile
    table,     \* profiles of allProfiles
    selected,  \* the profile in use
    settings,  \* the names in the SETTINGS frame of the connection
    wire       \* [pseudo, fields]: the request as written

vars == <<input, phase, todo, out, table, selected, settings, wire>>

Init ==
    /\ input \in [builtin : Files, user : UserDirs, asked : Asked, tls : TLSFlags,
                  rewrite : BOOLEAN, request : Requests]
    /\ phase = "builtin" /\ todo = input.builtin
    /\ out = <<>> /\ table = <<>>
    /\ selected = None /\ settings = <<>> /\ wire = [pseudo |-> <<>>, fields |-> <<>>]

Error == phase' = "error" /\ UNCHANGED <<todo, out, table, selected, settings, wire>>

-----------------------------------------------------------------------------
(* Loading.                                                                *)

Names(p) == <<p.name>> \o p.aliases
Keys(p) == {Trim[n] : n \in ToSet(Names(p))}

\* Validate: a name, no empty alias, none twice, and the required fields.
Validate(p) ==
    /\ "" \notin Keys(p)
    /\ Cardinality(Keys(p)) = Len(Names(p))
    /\ p.complete

\* HTTP2Profile.UnmarshalJSON.  The older object form is put in a fixed
\* order; names it does not know follow in the order of Go's map iteration.
MutKeysAsRead(s) == IF s.form = "object" THEN SetToSeqs(s.names) ELSE {s.names}
UnmarshalSettings(s) ==
    IF s.form # "object" THEN {s.names}
    ELSE LET known == Keep(KnownSettings, {i \in DOMAIN KnownSettings : KnownSettings[i] \in s.names})
         IN  {known \o rest : rest \in SetToSeqs(s.names \ ToSet(KnownSettings))}

\* registerProfile.
Unclaimed(p) == Keys(p) \cap DOMAIN out = {}

LoadFile ==
    /\ phase \in {"builtin", "user"} /\ todo # <<>>
    /\ LET p == Head(todo)
       IN  \/ /\ Validate(p) /\ Unclaimed(p)
              /\ \E s \in UnmarshalSettings(p.settings) :
                    out' = Over([k \in Keys(p) |-> [p EXCEPT !.settings = s]], out)
              /\ todo' = Tail(todo)
              /\ UNCHANGED <<phase, table, selected, settings, wire>>
           \/ ~(Validate(p) /\ Unclaimed(p)) /\ Error
    /\ UNCHANGED input

\* allProfiles: the built-in map, overlaid with the user's when there is one.
MutBuiltinWins == Over(table, out)
Overlay == Over(out, table)

Loaded ==
    /\ phase \in {"builtin", "user"} /\ todo = <<>>
    /\ table' = Overlay
    /\ out' = <<>>
    /\ IF phase = "builtin" THEN phase' = "user" /\ todo' = input.user
                            ELSE phase' = "select" /\ UNCHANGED todo
    /\ UNCHANGED <<input, selected, settings, wire>>

\* loadProfile, with the name as it was typed; -tls-profile is checked and
\* then replaces the profile's own.
ValidateClientHello == input.tls = None \/ Lower[input.tls] \in Hellos

Select ==
    /\ phase = "select"
    /\ IF input.asked \in DOMAIN table /\ ValidateClientHello
       THEN /\ selected' = IF input.tls = None THEN table[input.asked]
                           ELSE [table[input.asked] EXCEPT !.hello = input.tls]
            /\ phase' = "connect"
            /\ UNCHANGED <<todo, out, table, settings, wire>>
       ELSE Error
    /\ UNCHANGED input

-----------------------------------------------------------------------------
(* The connection: resolveClientHello, and for HTTP/2 the SETTINGS.        *)

\* h2Settings; an unknown name is an error before anything is written.
SettingsOf(p) == IF p.settings = <<>> THEN DefaultSettings ELSE p.settings
Known(p) == \A i \in DOMAIN SettingsOf(p) : Upper[SettingsOf(p)[i]] \in ToSet(KnownSettings)

Connect ==
    /\ phase = "connect"
    /\ IF Lower[Trim[selected.hello]] \in Hellos /\ (input.request.path # "h2" \/ Known(selected))
       THEN /\ phase' = "request"
            /\ settings' = IF input.request.path # "h2" THEN <<>>
                           ELSE [i \in DOMAIN SettingsOf(selected) |-> Upper[SettingsOf(selected)[i]]]
            /\ UNCHANGED <<todo, out, table, selected, wire>>
       ELSE Error
    /\ UNCHANGED input

-----------------------------------------------------------------------------
(* The request.                                                            *)

SetAll(h, names, value) == Over([k \in names |-> value], h)
Del(h, names) == [k \in DOMAIN h \ names |-> h[k]]

\* Apply sets the profile's headers under their canonical names; on the
\* WebSocket path the User-Agent alone is set.
Given ==
    {"User-Agent"} \cup (IF input.request.path = "websocket" THEN {}
                        ELSE {Canonical[n] : n \in selected.set})
Apply(h) == IF input.rewrite THEN SetAll(h, Given, <<"profile">>) ELSE h

\* forward and forwardWebSocket: what is not to be forwarded goes first.
MutNoDel(h) == Apply(h)
Outgoing(h) ==
    Apply(Del(h, IF input.request.path = "websocket" THEN ProxyOnly ELSE HopByHop))

\* What the two writers add and leave out.
Framed(h) ==
    IF input.request.path = "h2"
    THEN LET kept == Del(h, {"Host", "Connection"})
         IN  IF input.request.body THEN SetAll(kept, {"Content-Length"}, <<"proxy">>) ELSE kept
    ELSE SetAll(h, {"Host"} \cup (IF input.request.body THEN {"Content-Length"} ELSE {}), <<"proxy">>)

\* OrderHeaders: rank[name] is the last place of name in the profile's order.
Ranks(k) == {i \in DOMAIN selected.order : Lower[selected.order[i]] = Lower[k]}
Ranked(k) == Ranks(k) # {}
Rank(k) == CHOOSE i \in Ranks(k) : \A j \in Ranks(k) : j <= i

MutExactCase(a, b) ==
    LET at(k) == {i \in DOMAIN selected.order : selected.order[i] = k}
    IN  IF at(a) # {} /\ at(b) # {} THEN Rank(a) < Rank(b)
        ELSE IF at(a) # {} \/ at(b) # {} THEN at(a) # {}
        ELSE Alphabet[a] < Alphabet[b]
Less(a, b) ==
    CASE Ranked(a) /\ Ranked(b) -> Rank(a) < Rank(b)
      [] Ranked(a) /\ ~Ranked(b) -> TRUE
      [] ~Ranked(a) /\ Ranked(b) -> FALSE
      [] OTHER -> Alphabet[a] < Alphabet[b]

\* Each value of a header is a field of its own: the keys as OrderHeaders sorts
\* them, the values of a key as they came.
Places(h) == UNION {{k} \X DOMAIN h[k] : k \in DOMAIN h}
OrderHeaders(h) ==
    {r \in Places(h) \X Places(h) :
        Less(r[1][1], r[2][1]) \/ (r[1][1] = r[2][1] /\ r[1][2] < r[2][2])}
Fields(h) ==
    LET at == Arranged(Places(h), OrderHeaders(h))
    IN  [i \in DOMAIN at |-> [key |-> at[i][1], value |-> h[at[i][1]][at[i][2]]]]

\* pseudoHeaders: the profile's order, then what it has left out.
Valued == {":method", ":scheme", ":path"} \cup
          (IF input.request.authority THEN {":authority"} ELSE {})
Once(order) ==
    Keep(order, {i \in DOMAIN order :
                    order[i] \in Valued /\ \A j \in 1..(i - 1) : order[j] # order[i]})

PseudoHeaders ==
    LET asked == Once(IF selected.pseudo = <<>> THEN DefaultPseudo ELSE selected.pseudo)
    IN  asked \o Keep(DefaultPseudo, {i \in DOMAIN DefaultPseudo :
                                        DefaultPseudo[i] \in Valued \ ToSet(asked)})

WriteRequest ==
    /\ phase = "request"
    /\ wire' = [pseudo |-> IF input.request.path = "h2" THEN PseudoHeaders ELSE <<>>,
                fields |-> Fields(Framed(Outgoing(input.request.headers)))]
    /\ phase' = "sent"
    /\ UNCHANGED <<input, todo, out, table, selected, settings>>

-----------------------------------------------------------------------------
Done == phase \in {"sent", "error"} /\ UNCHANGED vars

Next == LoadFile \/ Loaded \/ Select \/ Connect \/ WriteRequest \/ Done

Spec == Init /\ [][Next]_vars

-----------------------------------------------------------------------------
Claimants(files, k) == {i \in DOMAIN files : k \in Keys(files[i])}

(* A table that has been loaded is the overlay of the two directories: it  *)
(* has every name and alias once, a user's profile takes a name from the   *)
(* built-in one, and the other names of that built-in profile stay with it *)
(* (profile.go, lines 221-230; main.go, lines 428-450).  A name claimed    *)
(* twice in one directory never gets this far.                             *)
TableIsOverlay ==
    phase \in {"select", "connect", "request", "sent"} =>
        /\ DOMAIN table = UNION {Keys(p) : p \in ToSet(input.builtin) \cup ToSet(input.user)}
        /\ \A k \in DOMAIN table :
              LET files == IF Claimants(input.user, k) # {} THEN input.user ELSE input.builtin
              IN  /\ Cardinality(Claimants(files, k)) = 1
                  /\ \A i \in Claimants(files, k) : table[k].id = files[i].id

\* The profile names header k, in whatever spelling, and k is to be rewritten.
Named(k) == \E n \in selected.set : Lower[n] = Lower[k]
Rewritten(k) ==
    input.rewrite /\ (k = "User-Agent" \/ (Named(k) /\ input.request.path # "websocket"))
Withheld == IF input.request.path = "websocket" THEN ProxyOnly ELSE HopByHop

(* No connection-scoped header of the client reaches the server (mitm.go,  *)
(* lines 28-29), and with header rewriting on, no User-Agent and no header *)
(* that the profile names, however it spells it (profile.go, lines         *)
(* 147-148).  A WebSocket upgrade is an exception twice: only the proxy's  *)
(* own headers are withheld, and of the identity only the User-Agent is    *)
(* rewritten, so that the client's Accept or Sec-Fetch-* go out in spite   *)
(* of what is said of RewriteHeaders (mitm.go, lines 50-54).               *)
NothingOfTheClient ==
    phase = "sent" =>
        \A i \in DOMAIN wire.fields :
            wire.fields[i].value = "client" =>
                wire.fields[i].key \notin Withheld /\ ~Rewritten(wire.fields[i].key)

(* Every other header of the client, the Connection and Upgrade of an      *)
(* upgrade included, is sent with all its values, in the order they came,  *)
(* and every header of the profile with the profile's value; none twice    *)
(* (profile.go, lines 147-148; h2client_response.go, lines 155-191).       *)
(* Host and Content-Length are computed; HTTP/2 has no Connection.         *)
NothingLost ==
    phase = "sent" =>
        \A k \in HeaderKeys \ ({"Host", "Content-Length"}
                               \cup (IF input.request.path = "h2" THEN {"Connection"} ELSE {})) :
            Rewritten(k) \/ k \in DOMAIN input.request.headers \ Withheld =>
                LET sent == {n \in DOMAIN wire.fields : wire.fields[n].key = k}
                    values == IF Rewritten(k) THEN <<"profile">> ELSE input.request.headers[k]
                IN  \E at \in [DOMAIN values -> sent] :
                      /\ sent = {at[j] : j \in DOMAIN values}
                      /\ \A j \in DOMAIN values : wire.fields[at[j]].value = values[j]
                      /\ \A i, j \in DOMAIN values : i < j => at[i] < at[j]

(* The server sees exactly the headers it should: nothing that is the      *)
(* client's own, and everything else.                                      *)
HeadersExact == NothingOfTheClient /\ NothingLost

(* "Keys named in Headers.Order come first in that order; any remaining    *)
(* keys follow in stable alphabetical order.  Comparison is case-          *)
(* insensitive" (profile.go, lines 158-160).                               *)
HeadersInOrder ==
    phase = "sent" =>
        LET place(i) == {n \in DOMAIN selected.order :
                            Lower[selected.order[n]] = Lower[wire.fields[i].key]}
        IN  \A i \in DOMAIN wire.fields : \A j \in 1..(i - 1) :
                \/ wire.fields[i].key = wire.fields[j].key
                \/ place(i) = {} /\ place(j) # {}
                \/ \E n \in place(i) : \A m \in place(j) : m < n
                \/ /\ place(i) = {} /\ place(j) = {}
                   /\ Alphabet[wire.fields[j].key] < Alphabet[wire.fields[i].key]

(* Each pseudo-header that has a value is sent exactly once, whatever the  *)
(* profile's order repeats, omits or misspells; those it names come in its *)
(* order (h2client_response.go, lines 133-153).                            *)
PseudoHeadersOnce ==
    (phase = "sent" /\ input.request.path = "h2") =>
        /\ ToSet(wire.pseudo) = Valued /\ Len(wire.pseudo) = Cardinality(Valued)
        /\ \A i, j \in DOMAIN wire.pseudo :
              LET firstAt(n) == {x \in DOMAIN selected.pseudo : selected.pseudo[x] = n}
              IN  (\E y \in firstAt(wire.pseudo[j]) : \A x \in firstAt(wire.pseudo[i]) : y < x)
                      => j < i

(* Pseudo-headers and headers go out in the order of the profile, which is *)
(* what the fingerprint consists of.                                       *)
WireInOrder == HeadersInOrder /\ PseudoHeadersOnce

(* The SETTINGS frame has every setting of the profile once: in the order *)
(* of its file when that is a list; when it is the older object, those     *)
(* spelt as the protocol spells them first, in the protocol's order        *)
(* (profile.go, lines 75-76 and 98-111).  The names that h2SettingID       *)
(* accepts in another spelling follow them in the order of a Go map (line  *)
(* 113): of theirs nothing is said here, although the profile is to send   *)
(* its settings in an exact order (lines 57-58).                           *)
SettingsInOrder ==
    (phase = "sent" /\ input.request.path = "h2") =>
        \A f \in ToSet(input.builtin) \cup ToSet(input.user) :
            selected.id = f.id =>
                CASE f.settings.names = IF f.settings.form = "object" THEN {} ELSE <<>> ->
                        settings = DefaultSettings
                  [] f.settings.form # "object" /\ f.settings.names # <<>> -> settings =
                        [i \in DOMAIN f.settings.names |-> Upper[f.settings.names[i]]]
                  [] f.settings.form = "object" /\ f.settings.names # {} ->
                        LET exact == {i \in DOMAIN KnownSettings : KnownSettings[i] \in f.settings.names}
                        IN  /\ DOMAIN settings = 1..Cardinality(f.settings.names)
                            /\ ToSet(settings) = {Upper[n] : n \in f.settings.names}
                            /\ \A i \in exact :
                                  settings[Cardinality({j \in exact : j < i}) + 1] = KnownSettings[i]
=============================================================================

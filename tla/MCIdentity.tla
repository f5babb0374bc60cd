----------------------------- MODULE MCIdentity -----------------------------
(* An instance of Identity for TLC: one build, user directories with       *)
(* overriding, colliding, padded and invalid files, and requests over      *)
(* HTTP/2, HTTP/1.1 and a WebSocket upgrade.                               *)
EXTENDS Identity

Base == [id |-> "b1", name |-> "chrome", aliases |-> <<"c">>, complete |-> TRUE,
         hello |-> "chrome", set |-> {"accept", "Te"},
         order |-> <<"host", "user-agent", "ACCEPT", "x-b", "host">>,
         pseudo |-> <<":method", ":path">>,
         settings |-> [form |-> "list", names |-> <<"MAX_FRAME_SIZE", "enable_push">>]]

Second == [Base EXCEPT !.id = "b2", !.name = "firefox", !.aliases = <<"f", "ff">>,
           !.set = {}, !.order = <<>>, !.pseudo = <<>>,
           !.settings = [form |-> "list", names |-> <<>>]]

\* Takes the name of a built-in profile, and an alias of the other.
Override == [Base EXCEPT !.id = "u1", !.name = " chrome", !.aliases = <<"ff">>,
             !.hello = " Chrome",
             !.pseudo = <<":path", ":path", ":bogus", ":scheme">>,
             !.settings = [form |-> "object",
                           names |-> {"MAX_FRAME_SIZE", "HEADER_TABLE_SIZE", "enable_push",
                                      "max_header_list_size"}]]
Own      == [Base EXCEPT !.id = "u2", !.name = "own", !.aliases = <<>>, !.hello = "mosaic",
             !.set = {"user-agent", "X-B", "x-b"}, !.order = <<"x-b", "accept">>]
Collides == [Own EXCEPT !.id = "u3", !.name = "other", !.aliases = <<"chrome">>]
Repeats  == [Own EXCEPT !.id = "u4", !.aliases = <<" own">>]
Unknown  == [Own EXCEPT !.id = "u5", !.name = "odd", !.hello = "chrome",
             !.settings = [form |-> "object", names |-> {"GREASE", "ENABLE_PUSH"}]]

\* The older form with one setting in two spellings, and with none.
Twice == [Own EXCEPT !.id = "u6", !.hello = "chrome",
          !.settings = [form |-> "object", names |-> {"MAX_FRAME_SIZE", "enable_push", "ENABLE_PUSH"}]]
Empty == [Twice EXCEPT !.id = "u7", !.settings = [form |-> "object", names |-> {}]]

MCFiles == {<<Base, Second>>}
MCUserDirs == {<<>>, <<Override, Own>>, <<Own, Unknown>>, <<Override, Collides>>,
               <<Repeats>>, <<Collides>>, <<Twice>>, <<Empty>>}
MCAsked == {"chrome", "c", "ff", "own", "odd", " chrome"}

All == [k \in {"Accept", "X-B", "X-A", "User-Agent", "Connection", "Upgrade", "Te",
               "Proxy-Authorization", "Content-Length"} |-> <<"client">>]
Some == [k \in {"X-A", "X-B"} |-> <<"client", "client">>]

MCRequests ==
    [headers : {All, Some}, path : {"h2", "http1", "websocket"}, body : BOOLEAN,
     authority : BOOLEAN]

MCHellos == {"chrome"}
MCTLSFlags == {None, "Chrome", "mosaic"}

Same(S) == [x \in S |-> x]
MCTrim == [x \in {" chrome"} |-> "chrome"] @@ [x \in {" own"} |-> "own"]
          @@ [x \in {" Chrome"} |-> "Chrome"]
          @@ Same({"chrome", "c", "firefox", "f", "ff", "own", "other", "odd", "mosaic", "Chrome"})
MCLower ==
    [x \in {"host", "Host"} |-> "host"] @@ [x \in {"user-agent", "User-Agent"} |-> "user-agent"]
    @@ [x \in {"ACCEPT", "accept", "Accept"} |-> "accept"] @@ [x \in {"x-b", "X-B"} |-> "x-b"]
    @@ [x \in {"chrome", "Chrome"} |-> "chrome"]
    @@ Same({"X-A", "Connection", "Upgrade", "Te", "Proxy-Authorization", "Content-Length",
              "mosaic"})
MCCanonical == [x \in {"user-agent"} |-> "User-Agent"] @@ [x \in {"x-b", "X-B"} |-> "X-B"]
               @@ [x \in {"accept"} |-> "Accept"] @@ Same({"Te"})
MCUpper == [x \in {"enable_push"} |-> "ENABLE_PUSH"]
           @@ [x \in {"max_header_list_size"} |-> "MAX_HEADER_LIST_SIZE"]
           @@ Same(ToSet(KnownSettings) \cup {"GREASE"})
Sorted == <<"Accept", "Connection", "Content-Length", "Host", "Proxy-Authorization", "Te",
            "Upgrade", "User-Agent", "X-A", "X-B">>
MCAlphabet == [k \in ToSet(Sorted) |-> CHOOSE i \in DOMAIN Sorted : Sorted[i] = k]
=============================================================================

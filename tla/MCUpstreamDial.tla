--------------------------- MODULE MCUpstreamDial ---------------------------
(* An instance of UpstreamDial for TLC: addresses of both families, names  *)
(* at the limit of a length byte and beyond it, and a bypass list.         *)
EXTENDS UpstreamDial

Text(label) == <<label, "com">>

MCTargets ==
    {[labels |-> Text("v4"), kind |-> "v4", bytes |-> <<10, 0, 0, 1>>],
     [labels |-> Text("v6"), kind |-> "v6", bytes |-> [i \in 1..16 |-> i]]}
    \cup {[labels |-> Text("other"), kind |-> "name", bytes |-> Fill(n)] : n \in {1, 255, 256}}
    \cup {[labels |-> l, kind |-> "name", bytes |-> Fill(3)] :
             l \in {<<"localhost">>, Text("host"), Text("HOST"),
                    <<"api", "HOST", "com">>, <<"api", "exact", "com">>, Text("EXACT")}}

MCCredentials ==
    {NoAuth} \cup {[user |-> u, pass |-> p] : u \in {1, 255, 256}, p \in {0, 2, 256}}

MCBypassList ==
    {[form |-> "local", labels |-> <<>>],
     [form |-> "suffix", labels |-> Text("Host")],
     [form |-> "exact", labels |-> Text("exact")]}

MCLocal == {<<"localhost">>}

MCLower ==
    [l \in {"v4", "v6", "com", "other", "localhost", "api"} |-> l]
    @@ [l \in {"host", "HOST", "Host"} |-> "host"]
    @@ [l \in {"exact", "EXACT"} |-> "exact"]
=============================================================================

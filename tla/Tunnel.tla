------------------------------- MODULE Tunnel --------------------------------
(***************************************************************************)
(* The two byte copies between a client and an upstream socket, as started *)
(* by Passthrough and by tunnel (internal/mitm/mitm.go): one goroutine per *)
(* direction; the first of them to end closes both sockets.                *)
(*                                                                         *)
(* Bytes are numbered units.  Direction "up" runs from the client to the   *)
(* server, "down" from the server to the client.  Session composes these   *)
(* actions with the rest of a session.                                     *)
(***************************************************************************)
EXTENDS Integers, Sequences

CONSTANT MaxUnits   \* bound: units one side writes into a tunnel

VARIABLES
    sock,      \* the upstream socket of the session: "none", "open", "closed"
    pending,   \* per direction: units written by its sender, not copied yet
    sent,      \* units written so far
    got,       \* the units its receiver has been given
    eof,       \* its sender has closed
    reset,     \* directions whose sender has reset its connection
    deadline,  \* of the upstream socket: "none", "armed" or "fired"
    ended      \* directions whose io.Copy has returned

ends       == <<pending, sent, got, eof, reset>>
tunnelVars == <<sock, ends, deadline, ended>>

Dirs     == {"up", "down"}
Other(d) == IF d = "up" THEN "down" ELSE "up"

TunnelTypeOK ==
    /\ sock \in {"none", "open", "closed"}
    /\ pending \in [Dirs -> Seq(Nat)] /\ sent \in [Dirs -> Nat]
    /\ got \in [Dirs -> Seq(Nat)]
    /\ eof \in [Dirs -> BOOLEAN] /\ reset \subseteq Dirs
    /\ deadline \in {"none", "armed", "fired"}
    /\ ended \subseteq Dirs

TunnelInit ==
    /\ sock = "none"
    /\ pending = [d \in Dirs |-> <<>>] /\ sent = [d \in Dirs |-> 0]
    /\ got = [d \in Dirs |-> <<>>]
    /\ eof = [d \in Dirs |-> FALSE] /\ reset = {}
    /\ deadline = "none" /\ ended = {}

-----------------------------------------------------------------------------
(* The two ends (external).                                                *)

WriteUnit(d) ==
    /\ ~eof[d] /\ sent[d] < MaxUnits
    /\ sent' = [sent EXCEPT ![d] = @ + 1]
    /\ pending' = [pending EXCEPT ![d] = Append(@, sent[d] + 1)]
    /\ UNCHANGED <<sock, got, eof, reset, deadline, ended>>

\* In good order, or by a reset that may destroy what is under way.
SenderCloses(d) ==
    /\ ~eof[d]
    /\ eof' = [eof EXCEPT ![d] = TRUE]
    /\ reset' \in {reset, reset \cup {d}}
    /\ UNCHANGED <<sock, pending, sent, got, deadline, ended>>

-----------------------------------------------------------------------------
(* The copies.                                                             *)

\* What a copy reads from a side of which a bufio.Reader has read n units
\* ahead: the copy reads through that reader, so they come first.
MutFromSocket(q, n) == SubSeq(q, n + 1, Len(q))
ThroughReader(q, n) == q

\* The goroutines start; n units of direction d were read ahead.
StartCopies(d, n) ==
    /\ pending' = [pending EXCEPT ![d] = ThroughReader(@, n)]
    /\ UNCHANGED <<sent, got, eof, reset, ended>>

\* The deadline dialSOCKS5 leaves on the socket of a passthrough tunnel: from
\* then on every read and write of the upstream socket fails.
DeadlineFires ==
    /\ deadline = "armed"
    /\ deadline' = "fired"
    /\ UNCHANGED <<sock, ends, ended>>

CopyUnit(d) ==
    /\ d \notin ended /\ pending[d] # <<>> /\ deadline # "fired"
    /\ got' = [got EXCEPT ![d] = Append(@, Head(pending[d]))]
    /\ pending' = [pending EXCEPT ![d] = Tail(@)]
    /\ UNCHANGED <<sock, sent, eof, reset, deadline, ended>>

\* io.Copy returns at EOF, after it has written all it read.
MutAtClose(d) == eof[d]
AtEOF(d) == eof[d] /\ pending[d] = <<>>

CopyEnds(d) ==
    /\ d \notin ended /\ AtEOF(d)
    /\ ended' = ended \cup {d}
    /\ UNCHANGED <<sock, ends, deadline>>

\* io.Copy returns on a write error: the receiver, which is the sender of the
\* other direction, has closed its socket, or the deadline has passed.
CopyFails(d) ==
    /\ d \notin ended /\ pending[d] # <<>>
    /\ eof[Other(d)] \/ (d = "up" /\ deadline = "fired")
    /\ ended' = ended \cup {d}
    /\ UNCHANGED <<sock, ends, deadline>>

\* Or on a read error: a reset, or the deadline.
CopyBreaks(d) ==
    /\ d \notin ended
    /\ d \in reset \/ (d = "down" /\ deadline = "fired")
    /\ ended' = ended \cup {d}
    /\ UNCHANGED <<sock, ends, deadline>>

CopyStep(d) == CopyUnit(d) \/ CopyEnds(d) \/ CopyFails(d) \/ CopyBreaks(d)

\* <-done: one end is enough.
MutBothEnded == ended = Dirs
OneEnded == ended # {}

CloseBoth ==
    /\ OneEnded
    /\ sock' = "closed"
    /\ UNCHANGED <<ends, deadline, ended>>

-----------------------------------------------------------------------------
(* What a receiver has been given is what the sender wrote, from its first *)
(* unit and without a gap, the units a bufio.Reader had read ahead of the  *)
(* tunnel included ("reaches the upstream server unmodified", mitm.go,     *)
(* lines 247-249; upstreamReader in tunnel, line 308).                     *)
TunnelIntact ==
    \A d \in Dirs : got[d] = [i \in 1..Len(got[d]) |-> i]

(* A side that writes and closes in good order is heard to the end: when   *)
(* the first copy to end is the one from d, the receiver is still there    *)
(* and neither a reset nor the deadline has cut the tunnel, all that d     *)
(* wrote has arrived.  The other direction is cut where it stands.         *)
ClosingSideHeard ==
    \A d \in Dirs :
        ended = {d} /\ ~eof[Other(d)] /\ reset = {} /\ deadline # "fired"
            => Len(got[d]) = sent[d]
==============================================================================

--------------------------- MODULE AuthorityProofs ---------------------------
(***************************************************************************)
(* Proofs about the CA on disk, for any number of invocations of any       *)
(* commands, any of which may be killed at any step; and about the running *)
(* proxy beside them: it is both a leaf cache and one of the invocations,  *)
(* so that what is proved of LeafCache and of CAFiles holds of it.         *)
(***************************************************************************)
EXTENDS Authority, TLAPS

\* Past the truncation of the certificate file.
Writing == {"writeCert", "truncKey", "writeKey"}

\* Invocations run one at a time.
AloneOK ==
    Serial => \A p, q \in Procs :
        step[p] \in Saving \cup Loading /\ step[q] \in Saving \cup Loading => p = q

\* Who saves, and what it saves.
WriterOK ==
    /\ writer # NoCA => Command[writer] # "load" /\ step[writer] \in Writing \cup Over
    /\ \A p \in Procs :
          step[p] \in Saving => Command[p] # "load" /\ caCert[p] = p /\ caKey[p] = p
    /\ \A p \in Procs : step[p] \in Writing => writer # NoCA
    /\ writer = NoCA <=> certFile = NoCA
    /\ certFile = NoCA => keyFile = NoCA

\* The files as the last Save has left them, whether it goes on or was cut short.
FilesOK ==
    /\ \A p \in Procs : step[p] \in Writing => writer = p
    /\ \A p \in Procs : step[p] = "truncCert" /\ Command[p] = "init" => ~CAExists
    /\ writer # NoCA =>
          /\ step[writer] \in {"truncKey", "writeKey", "ready"} => certFile = writer
          /\ step[writer] = "writeCert" => certFile = "partial"
          /\ step[writer] = "writeKey" => keyFile = "partial"
          /\ step[writer] = "ready" => keyFile = writer
          /\ Command[writer] = "init" /\ step[writer] # "ready" =>
                keyFile \in {NoCA, "partial"}

\* What a Load has read so far is still there.
LoadOK ==
    \A p \in Procs : step[p] = "readKey" => caCert[p] = certFile

ForceUncut == \A p \in Procs : Command[p] = "force" => step[p] \notin {"dead", "error"}

IndInv ==
    /\ CATypeOK /\ AloneOK /\ WriterOK
    /\ Serial => FilesOK /\ LoadOK
    /\ Serial /\ ForceUncut => LoadedPairMatches

-----------------------------------------------------------------------------
LEMMA InitInd == CAInit => IndInv
BY CAAssumption
   DEF CAInit, IndInv, CATypeOK, AloneOK, WriterOK, FilesOK, LoadOK, LoadedPairMatches,
       Saving, Loading, Over, Writing, CAExists

(* The choice between saving, loading and giving up.                       *)
LEMMA StartInd == ASSUME IndInv, NEW p \in Procs, Start(p) PROVE IndInv'
<1> USE CAAssumption
    DEF IndInv, CATypeOK, AloneOK, WriterOK, FilesOK, LoadOK, LoadedPairMatches,
        ForceUncut, Saving, Loading, Over, Writing, CAExists, Goto, Idle, Start, Generates
<1>1. CASE Goto(p, "truncCert") BY <1>1 DEF Generate
<1>2. CASE Goto(p, "readCert") BY <1>2
<1>3. CASE Goto(p, "error") BY <1>3
<1> QED BY <1>1, <1>2, <1>3

(* The four steps of Save.                                                 *)
LEMMA SaveInd ==
    ASSUME IndInv, NEW p \in Procs,
           TruncCert(p) \/ WriteCert(p) \/ TruncKey(p) \/ WriteKey(p)
    PROVE  IndInv'
<1> USE CAAssumption
    DEF IndInv, CATypeOK, AloneOK, WriterOK, FilesOK, LoadOK, LoadedPairMatches,
        ForceUncut, Saving, Loading, Over, Writing, CAExists, Goto
<1>1. CASE TruncCert(p) BY <1>1 DEF TruncCert
<1>2. CASE WriteCert(p)
  <2>1. CATypeOK' /\ AloneOK' /\ WriterOK' BY <1>2 DEF WriteCert
  <2>2. Serial => FilesOK' /\ LoadOK' BY <1>2 DEF WriteCert
  <2>3. Serial /\ ForceUncut' => LoadedPairMatches' BY <1>2 DEF WriteCert
  <2> QED BY <2>1, <2>2, <2>3
<1>3. CASE TruncKey(p)
  <2>1. CATypeOK' /\ AloneOK' /\ WriterOK' BY <1>3 DEF TruncKey
  <2>2. Serial => FilesOK' /\ LoadOK' BY <1>3 DEF TruncKey
  <2>3. Serial /\ ForceUncut' => LoadedPairMatches' BY <1>3 DEF TruncKey
  <2> QED BY <2>1, <2>2, <2>3
<1>4. CASE WriteKey(p)
  <2>1. CATypeOK' /\ AloneOK' /\ WriterOK' BY <1>4 DEF WriteKey, KeyWritten
  <2>2. Serial => FilesOK' /\ LoadOK' BY <1>4 DEF WriteKey, KeyWritten
  <2>3. Serial /\ ForceUncut' => LoadedPairMatches' BY <1>4 DEF WriteKey, KeyWritten
  <2> QED BY <2>1, <2>2, <2>3
<1> QED BY <1>1, <1>2, <1>3, <1>4

(* The two steps of Load.                                                  *)
LEMMA LoadInd ==
    ASSUME IndInv, NEW p \in Procs, ReadCert(p) \/ ReadKey(p)
    PROVE  IndInv'
<1> USE CAAssumption
    DEF IndInv, CATypeOK, AloneOK, WriterOK, FilesOK, LoadOK, LoadedPairMatches,
        ForceUncut, Saving, Loading, Over, Writing, CAExists, Goto
<1>1. CASE ReadCert(p) BY <1>1 DEF ReadCert
<1>2. CASE ReadKey(p) BY <1>2 DEF ReadKey, Parses
<1> QED BY <1>1, <1>2

(* A kill or a write error.                                                *)
LEMMA DieInd == ASSUME IndInv, NEW p \in Procs, Die(p) PROVE IndInv'
BY CAAssumption
   DEF IndInv, CATypeOK, AloneOK, WriterOK, FilesOK, LoadOK, LoadedPairMatches,
       ForceUncut, Saving, Loading, Over, Writing, CAExists, Goto, Die

LEMMA NextInd == IndInv /\ [CANext]_caVars => IndInv'
<1>1. ASSUME IndInv, UNCHANGED caVars PROVE IndInv'
  BY <1>1 DEF caVars, IndInv, CATypeOK, AloneOK, WriterOK, FilesOK, LoadOK,
              LoadedPairMatches, ForceUncut, CAExists
<1> QED BY <1>1, StartInd, SaveInd, LoadInd, DieInd DEF CANext, CATerminated

LEMMA Inductive == CASpec => []IndInv
BY InitInd, NextInd, PTL DEF CASpec

-----------------------------------------------------------------------------
(* Whatever is killed and wherever, only a cut-short init -force can leave *)
(* files that load as a mixed pair, and a Save that finishes repairs them. *)
THEOREM OnlyForceTearsAPair == CASpec => []OnlyForceTears
<1>1. IndInv => OnlyForceTears
  BY DEF IndInv, WriterOK, FilesOK, CATypeOK, OnlyForceTears, ForceUncut, Pair, Idle, Writing, Over
<1> QED BY <1>1, Inductive, PTL

(* Which files a step may touch: those of a CA that is complete are left   *)
(* alone by everything but init -force.                                    *)
LEMMA PairStable ==
    ASSUME IndInv, [CANext]_caVars, Serial, Pair,
           \A p \in Procs : step[p] \in Saving => Command[p] # "force"
    PROVE  UNCHANGED <<certFile, keyFile>>
<1>1. ASSUME NEW p \in Procs PROVE step[p] \notin Saving
  BY <1>1, CAAssumption
     DEF IndInv, CATypeOK, WriterOK, FilesOK, Pair, CAExists, Saving, Writing
<1> QED
  BY <1>1 DEF CANext, CATerminated, caVars, Start, TruncCert, WriteCert, TruncKey, WriteKey,
              ReadCert, ReadKey, Die, Saving

(* An existing CA is never overwritten without -force.                     *)
THEOREM NeverOverwrites == CASpec => NoSilentOverwrite
<1>1. IndInv /\ [CANext]_caVars =>
        [(Serial /\ Pair /\ \A p \in Procs : step[p] \in Saving => Command[p] # "force")
            => UNCHANGED <<certFile, keyFile>>]_caVars
  BY PairStable
<1> QED BY <1>1, Inductive, PTL DEF CASpec, NoSilentOverwrite

-----------------------------------------------------------------------------
(* What the proxy does with its handshakes is a step of the leaf cache, and*)
(* what any invocation does with the files is a step of CAFiles, whatever  *)
(* else happens between them.                                              *)
THEOREM AuthorityImplements == AuthoritySpec => Spec /\ CASpec
<1>1. AuthorityInit => Init /\ CAInit  BY DEF AuthorityInit
<1>2. [AuthorityNext]_allVars => [Next]_vars /\ [CANext]_caVars
  <2> SUFFICES ASSUME [AuthorityNext]_allVars PROVE [Next]_vars /\ [CANext]_caVars
    OBVIOUS
  <2>1. ASSUME NEW c \in Calls,
               AuthorityLookup(c) \/ AuthorityMint(c) \/ AuthorityStore(c)
        PROVE  Next /\ UNCHANGED caVars
    BY <2>1 DEF AuthorityLookup, AuthorityMint, AuthorityStore, Next
  <2>2. ASSUME NEW p \in Procs, Invocation(p) PROVE CANext /\ UNCHANGED vars
    BY <2>2 DEF Invocation, CANext
  <2>3. CASE UNCHANGED allVars
    BY <2>3 DEF allVars, vars, caVars
  <2> QED BY <2>1, <2>2, <2>3 DEF AuthorityNext, AuthorityDone
<1> QED BY <1>1, <1>2, PTL DEF AuthoritySpec, Spec, CASpec
=============================================================================

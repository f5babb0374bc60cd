------------------------------ MODULE CAFiles -------------------------------
(***************************************************************************)
(* The CA on disk: Save, Load (internal/ca/ca.go), CAExists                *)
(* (internal/config/config.go) and the commands init, run, launch and ca   *)
(* of cmd/doppel/main.go, as processes that share the data directory and   *)
(* may be killed at any step.  A CA is named by the process that generated *)
(* it.  os.WriteFile truncates a file and then writes it.                  *)
(***************************************************************************)
EXTENDS Integers

CONSTANTS Procs,     \* invocations of doppel
          Command,   \* "init", "force" (init -force) or "load" (run, launch, ca)
          Serial,    \* TRUE: the user runs one invocation at a time
          MayDie,    \* invocations that may be killed, or whose disk fills up
          NoCA

ASSUME CAAssumption ==
    /\ Command \in [Procs -> {"init", "force", "load"}]
    /\ Serial \in BOOLEAN /\ MayDie \subseteq Procs
    /\ NoCA \notin Procs /\ NoCA # "partial" /\ "partial" \notin Procs

VARIABLES certFile, keyFile,  \* ca.pem, ca.key: NoCA, "partial" or a CA
          step,
          caCert, caKey,      \* the certificate and key of the process's Authority
          writer              \* the last process that began to save

caVars == <<certFile, keyFile, step, caCert, caKey, writer>>

Saving  == {"truncCert", "writeCert", "truncKey", "writeKey"}
Loading == {"readCert", "readKey"}
Over    == {"ready", "error", "dead"}

\* The types.
CATypeOK ==
    /\ certFile \in Procs \cup {NoCA, "partial"}
    /\ keyFile \in Procs \cup {NoCA, "partial"}
    /\ step \in [Procs -> {"start"} \cup Saving \cup Loading \cup Over]
    /\ caCert \in [Procs -> Procs \cup {NoCA, "partial"}]
    /\ caKey \in [Procs -> Procs \cup {NoCA, "partial"}]
    /\ writer \in Procs \cup {NoCA}

CAInit ==
    /\ certFile = NoCA /\ keyFile = NoCA
    /\ step = [p \in Procs |-> "start"]
    /\ caCert = [p \in Procs |-> NoCA] /\ caKey = [p \in Procs |-> NoCA]
    /\ writer = NoCA

Idle == \A p \in Procs : step[p] \in {"start"} \cup Over

Goto(p, at) == step' = [step EXCEPT ![p] = at]

\* CAExists: both files can be stat'ed.
CAExists == certFile # NoCA /\ keyFile # NoCA

\* cmdInit reuses an existing CA unless -force; the others need one.
MutInitGenerates(p) == Command[p] # "load"
Generates(p) == Command[p] = "force" \/ (Command[p] = "init" /\ ~CAExists)

\* A new pair, in memory.
Generate(p) ==
    /\ caCert' = [caCert EXCEPT ![p] = p]
    /\ caKey' = [caKey EXCEPT ![p] = p]

Start(p) ==
    /\ step[p] = "start"
    /\ Serial => Idle
    /\ \/ Generates(p) /\ Generate(p) /\ Goto(p, "truncCert")
       \/ ~Generates(p) /\ CAExists /\ Goto(p, "readCert") /\ UNCHANGED <<caCert, caKey>>
       \/ ~Generates(p) /\ ~CAExists /\ Goto(p, "error") /\ UNCHANGED <<caCert, caKey>>
    /\ UNCHANGED <<certFile, keyFile, writer>>

-----------------------------------------------------------------------------
(* Save: the certificate file, then the key file.                         *)

TruncCert(p) ==
    /\ step[p] = "truncCert"
    /\ certFile' = "partial"
    /\ writer' = p
    /\ Goto(p, "writeCert")
    /\ UNCHANGED <<keyFile, caCert, caKey>>

WriteCert(p) ==
    /\ step[p] = "writeCert"
    /\ certFile' = p
    /\ Goto(p, "truncKey")
    /\ UNCHANGED <<keyFile, caCert, caKey, writer>>

TruncKey(p) ==
    /\ step[p] = "truncKey"
    /\ keyFile' = "partial"
    /\ Goto(p, "writeKey")
    /\ UNCHANGED <<certFile, caCert, caKey, writer>>

KeyWritten(p) == keyFile' = p

WriteKey(p) ==
    /\ step[p] = "writeKey"
    /\ KeyWritten(p)
    /\ Goto(p, "ready")
    /\ UNCHANGED <<certFile, caCert, caKey, writer>>

-----------------------------------------------------------------------------
(* Load: both files are read, then parsed; nothing compares them.          *)

ReadCert(p) ==
    /\ step[p] = "readCert"
    /\ caCert' = [caCert EXCEPT ![p] = certFile]
    /\ Goto(p, IF certFile = NoCA THEN "error" ELSE "readKey")
    /\ UNCHANGED <<certFile, keyFile, caKey, writer>>

MutNoParseCheck(c, k) == TRUE
Parses(c, k) == c # "partial" /\ k # "partial"

ReadKey(p) ==
    /\ step[p] = "readKey"
    /\ caKey' = [caKey EXCEPT ![p] = keyFile]
    /\ Goto(p, IF keyFile # NoCA /\ Parses(caCert[p], keyFile) THEN "ready" ELSE "error")
    /\ UNCHANGED <<certFile, keyFile, caCert, writer>>

-----------------------------------------------------------------------------
\* Killed, or a write error: the files stay as they are.
Die(p) ==
    /\ p \in MayDie
    /\ step[p] \in Saving \cup Loading
    /\ \E at \in {"dead", "error"} : Goto(p, at)
    /\ UNCHANGED <<certFile, keyFile, caCert, caKey, writer>>

CATerminated == (\A p \in Procs : step[p] \in Over) /\ UNCHANGED caVars

CANext ==
    \/ \E p \in Procs :
          \/ Start(p) \/ TruncCert(p) \/ WriteCert(p) \/ TruncKey(p) \/ WriteKey(p)
          \/ ReadCert(p) \/ ReadKey(p) \/ Die(p)
    \/ CATerminated

CASpec == CAInit /\ [][CANext]_caVars

-----------------------------------------------------------------------------
\* A matching pair is on disk.
Pair == certFile \in Procs /\ keyFile = certFile

(* Without -force an existing CA, which the user has installed in trust    *)
(* stores, is never overwritten by invocations run one at a time.          *)
NoSilentOverwrite ==
    [][(Serial /\ Pair /\ \A p \in Procs : step[p] \in Saving => Command[p] # "force")
          => UNCHANGED <<certFile, keyFile>>]_caVars

(* "Load reads a previously persisted CA from disk" (ca.go, line 102): no  *)
(* invocation serves with a key that does not match its certificate.             *)
LoadedPairMatches == \A p \in Procs : step[p] = "ready" => caCert[p] = caKey[p]

(* Invocations run one at a time load a matching pair unless an init       *)
(* -force was cut short: a first init killed at any step and run again     *)
(* never mixes two CAs, because CAExists asks for both files.  And a Save  *)
(* that finishes repairs whatever earlier invocations have left.           *)
OnlyForceTears ==
    /\ (Serial /\ \A p \in Procs : Command[p] = "force" => step[p] \notin {"dead", "error"})
          => LoadedPairMatches
    /\ (Serial /\ Idle /\ writer # NoCA /\ step[writer] = "ready")
          => Pair /\ certFile = writer
=============================================================================

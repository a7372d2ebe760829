------------------------------- MODULE CaStore -------------------------------
(***************************************************************************)
(* The CA on disk: mmdf-ca/ca.key and mmdf-ca/ca.crt as CaManager::open    *)
(* finds, loads or creates them (mitm.rs), called by every fronted         *)
(* connection (proxy_server.rs:212, 390) and by exportCa                   *)
(* (android_jni.rs:233), each in a task or thread of its own and without   *)
(* any lock; and `--export-ca` of the desktop program (main.rs:28-36),     *)
(* another process over the same directory.                                *)
(*                                                                         *)
(* A file is Missing, Torn (created or truncated, its content not yet      *)
(* there: std::fs::write and std::fs::copy are two steps) or holds the     *)
(* certificate or key of CA n.  The process can be killed, and a write or  *)
(* a copy can fail, between any two steps.                                 *)
(***************************************************************************)
EXTENDS Naturals, FiniteSets

CONSTANTS
    Openers,   \* tasks and threads that may be inside CaManager::open at one time
    MaxCas     \* bound: key pairs generated

ASSUME MaxCasAssumption == MaxCas \in Nat \ {0}

VARIABLES
    crt, key,   \* the two files
    exported,   \* the file the CA was exported to
    fromSettled, \* history: were the CA's files both there, and nobody creating, when
                 \* it was copied?
    nextCa,     \* CAs generated so far, plus one
    pc,         \* per opener: its next step
    purpose,    \* per opener: does it mint a leaf or export the CA?
    ca,         \* per opener: the CA whose key it read or generated
    opened,     \* the <<certificate, key>> pairs of all CaManagers ever opened
    started,    \* was a proxy ever started?
    desktop,    \* is this the desktop program?  (never changes)
    overlapped  \* history: were two openers ever inside at one time?

exportVars == <<exported, fromSettled>>
vars == <<crt, key, exportVars, nextCa, pc, purpose, ca, opened, started, desktop,
          overlapped>>

Cas      == 1..MaxCas
Missing  == 0
Torn     == MaxCas + 1
Contents == Cas \cup {Missing, Torn}

Creating == {"truncCrt", "writeCrt", "truncKey", "writeKey"}
Steps    == Creating \cup {"idle", "seeCrt", "readKey", "readCrt", "copy", "copying"}

TypeOK ==
    /\ crt \in Contents
    /\ key \in Contents
    /\ exported \in Contents
    /\ fromSettled \in BOOLEAN
    /\ nextCa \in 1..(MaxCas + 1)
    /\ pc \in [Openers -> Steps]
    /\ purpose \in [Openers -> {"mint", "export"}]
    /\ ca \in [Openers -> Cas \cup {Missing}]
    /\ \A o \in Openers : pc[o] \in Creating \cup {"readCrt"} => ca[o] \in Cas
    /\ opened \subseteq Cas \X Cas
    /\ started \in BOOLEAN
    /\ desktop \in BOOLEAN
    /\ overlapped \in BOOLEAN

Init ==
    /\ crt = Missing /\ key = Missing
    /\ exported = Missing /\ fromSettled = FALSE
    /\ nextCa = 1
    /\ pc = [o \in Openers |-> "idle"]
    /\ purpose = [o \in Openers |-> "mint"]
    /\ ca = [o \in Openers |-> Missing]
    /\ opened = {}
    /\ started = FALSE
    /\ desktop \in BOOLEAN
    /\ overlapped = FALSE

-----------------------------------------------------------------------------

GoTo(o, step) == pc' = [pc EXCEPT ![o] = step]

\* open() returns a manager: a leaf is minted and the manager dropped, or its
\* certificate file is copied next.
Return(o, certificate, signer) ==
    /\ opened' = opened \cup {<<certificate, signer>>}
    /\ GoTo(o, IF purpose[o] = "export" THEN "copy" ELSE "idle")

\* Mutants: the key is written first; the certificate is written only if missing.
GenerateKeyFirst(o) ==
    /\ nextCa \in Cas
    /\ ca' = [ca EXCEPT ![o] = nextCa]
    /\ nextCa' = nextCa + 1
    /\ GoTo(o, "truncKey")

GenerateMissing(o) ==
    /\ nextCa \in Cas
    /\ ca' = [ca EXCEPT ![o] = nextCa]
    /\ nextCa' = nextCa + 1
    /\ GoTo(o, IF crt = Missing THEN "truncCrt" ELSE "truncKey")

\* The creating branch of open_in, up to the new key pair.
Generate(o) ==
    /\ nextCa \in Cas
    /\ ca' = [ca EXCEPT ![o] = nextCa]
    /\ nextCa' = nextCa + 1
    /\ GoTo(o, "truncCrt")

\* ProxyServer::new and run: neither touches the CA.
StartProxy ==
    /\ ~started
    /\ started' = TRUE
    /\ UNCHANGED <<crt, key, exportVars, nextCa, pc, purpose, ca, opened>>

\* Mutant: what is there is not looked at.
SeeKeyNever(o) ==
    /\ pc[o] = "idle"
    /\ \E p \in {"mint", "export"} :
          /\ p = "mint" => started
          /\ p = "export" => ~desktop
          /\ purpose' = [purpose EXCEPT ![o] = p]
    /\ Generate(o)
    /\ UNCHANGED <<crt, key, exportVars, opened, started>>

\* open_in: key_p.exists() ...  (exportCa is called with or without a proxy.)
SeeKey(o) ==
    /\ pc[o] = "idle"
    /\ \E p \in {"mint", "export"} :
          /\ p = "mint" => started
          /\ p = "export" => ~desktop
          /\ purpose' = [purpose EXCEPT ![o] = p]
    /\ \/ key # Missing /\ GoTo(o, "seeCrt") /\ UNCHANGED <<ca, nextCa>>
       \/ key = Missing /\ Generate(o)
    /\ UNCHANGED <<crt, key, exportVars, opened, started>>

\* ... && crt_p.exists()
SeeCrt(o) ==
    /\ pc[o] = "seeCrt"
    /\ \/ crt # Missing /\ GoTo(o, "readKey") /\ UNCHANGED <<ca, nextCa>>
       \/ crt = Missing /\ Generate(o)
    /\ UNCHANGED <<crt, key, exportVars, purpose, opened, started>>

\* Mutant: the content of the key file is not checked.
ReadKeyUnchecked(o) ==
    /\ pc[o] = "readKey"
    /\ ca' = [ca EXCEPT ![o] = key]
    /\ GoTo(o, "readCrt")
    /\ UNCHANGED <<crt, key, exportVars, nextCa, purpose, opened, started>>

\* load: the key file is read; what is not a key ends in an error, if only after
\* the certificate file was read.
ReadKey(o) ==
    /\ pc[o] = "readKey"
    /\ \/ key \in Cas /\ ca' = [ca EXCEPT ![o] = key] /\ GoTo(o, "readCrt")
       \/ key \notin Cas /\ GoTo(o, "idle") /\ UNCHANGED ca
    /\ UNCHANGED <<crt, key, exportVars, nextCa, purpose, opened, started>>

\* load: the certificate file is read; the key signs for whatever it certifies.
ReadCrt(o) ==
    /\ pc[o] = "readCrt"
    /\ \/ crt \in Cas /\ Return(o, crt, ca[o])
       \/ crt \notin Cas /\ GoTo(o, "idle") /\ UNCHANGED opened
    /\ UNCHANGED <<crt, key, exportVars, nextCa, purpose, ca, started>>

\* create: fs::write of the certificate, then of the key, each truncating first.
TruncCrt(o) ==
    /\ pc[o] = "truncCrt"
    /\ crt' = Torn
    /\ GoTo(o, "writeCrt")
    /\ UNCHANGED <<key, exportVars, nextCa, purpose, ca, opened, started>>

WriteCrt(o) ==
    /\ pc[o] = "writeCrt"
    /\ crt' = ca[o]
    /\ GoTo(o, "truncKey")
    /\ UNCHANGED <<key, exportVars, nextCa, purpose, ca, opened, started>>

TruncKey(o) ==
    /\ pc[o] = "truncKey"
    /\ key' = Torn
    /\ GoTo(o, "writeKey")
    /\ UNCHANGED <<crt, exportVars, nextCa, purpose, ca, opened, started>>

WriteKey(o) ==
    /\ pc[o] = "writeKey"
    /\ key' = ca[o]
    /\ Return(o, ca[o], ca[o])
    /\ UNCHANGED <<crt, exportVars, nextCa, purpose, ca, started>>

\* An I/O error ends open() with Err or exportCa with false; the files stay as they are.
IoError(o) ==
    /\ pc[o] \in Creating \cup {"copy", "copying"}
    /\ GoTo(o, "idle")
    /\ UNCHANGED <<crt, key, exportVars, nextCa, purpose, ca, opened, started>>

\* exportCa after open(): fs::copy truncates the destination, whatever it held, and then
\* copies what the certificate file holds.
TruncExport(o) ==
    /\ pc[o] = "copy"
    /\ exported' = Torn /\ fromSettled' = FALSE
    /\ GoTo(o, "copying")
    /\ UNCHANGED <<crt, key, nextCa, purpose, ca, opened, started>>

\* Both files are there and nobody is creating.
Settled == key # Missing /\ \A o \in Openers : pc[o] \notin Creating

CopyCrt(o) ==
    /\ pc[o] = "copying"
    /\ exported' = crt /\ fromSettled' = Settled
    /\ GoTo(o, "idle")
    /\ UNCHANGED <<crt, key, nextCa, purpose, ca, opened, started>>

\* `--export-ca`: another process copies the certificate file, if there is one; killed
\* in between, it leaves the torn file to the next.
ExportFromShell ==
    /\ desktop /\ crt # Missing
    /\ \/ exported' = Torn /\ fromSettled' = FALSE
       \/ exported = Torn /\ exported' = crt /\ fromSettled' = Settled
    /\ UNCHANGED <<crt, key, nextCa, pc, purpose, ca, opened, started>>

\* The process is killed and started again.
Crash ==
    /\ pc' = [o \in Openers |-> "idle"]
    /\ started' = FALSE
    /\ UNCHANGED <<crt, key, exportVars, nextCa, purpose, ca, opened>>

Step(o) ==
    \/ SeeKey(o) \/ SeeCrt(o) \/ ReadKey(o) \/ ReadCrt(o) \/ TruncCrt(o) \/ WriteCrt(o)
    \/ TruncKey(o) \/ WriteKey(o) \/ IoError(o) \/ TruncExport(o) \/ CopyCrt(o)

Overlap == \E o, p \in Openers : o # p /\ pc[o] # "idle" /\ pc[p] # "idle"

Next ==
    /\ StartProxy \/ ExportFromShell \/ Crash \/ \E o \in Openers : Step(o)
    /\ overlapped' = (overlapped \/ Overlap')
    /\ UNCHANGED desktop

Spec == Init /\ [][Next]_vars

-----------------------------------------------------------------------------
(* However many open at once.                                               *)

\* The certificate is written before the key, so that a key without a certificate is
\* never found, and load() never meets a file that is not there (mitm.rs:64, 113-114).
KeyImpliesCrt ==
    /\ key # Missing => crt # Missing
    /\ \A o \in Openers :
          /\ pc[o] \in {"readKey", "readCrt"} => key # Missing /\ crt # Missing
          /\ pc[o] \in {"truncKey", "writeKey"} => crt # Missing

\* Once both files are there and nobody is creating, they stay what they are for good:
\* every later open() loads them, or fails, if one of them is torn (mitm.rs:64-72).
SettledForever == [][Settled => UNCHANGED <<crt, key>> /\ Settled']_vars

-----------------------------------------------------------------------------
(* As long as no two openers were ever inside at one time, however many there *)
(* were and whatever crashed or failed in between.                          *)

\* mitm.rs:4-5: "For every fronted host the proxy mints a short-lived leaf [...], so
\* the browser sees a valid chain": the key a manager signs with is the one its
\* certificate is for.
ValidChain == \A pair \in opened : pair[1] = pair[2]

SequentialValidChain == ~overlapped => ValidChain

\* mitm.rs:3: "The user trusts ONE self-signed CA": all managers ever opened present
\* the same one.
SequentialOneCa == ~overlapped => \A p, q \in opened : p[1] = q[1]

\* What the user was given to trust is what the proxy presents: an export that was not
\* cut short holds the certificate on disk, if the files were settled when it was made, or
\* if it is the app's and no two openers overlapped (android_jni.rs:232-237, main.rs:28).
ExportIsCurrent ==
    exported \in Cas /\ (fromSettled \/ (~overlapped /\ ~desktop)) => crt = exported

=============================================================================

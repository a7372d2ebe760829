---------------------------- MODULE CaStoreProofs ----------------------------
(***************************************************************************)
(* What the order of create()'s writes guarantees, for any number of       *)
(* openers, CAs, crashes and I/O errors; and what holds as long as no two  *)
(* of them were inside open() at one time.                                 *)
(***************************************************************************)
EXTENDS CaStore, TLAPS

USE DEF Cas, Missing, Torn, Contents, Creating, Steps

LEMMA CaFacts == MaxCas \in Nat /\ MaxCas > 0
  BY MaxCasAssumption DEF MaxCasAssumption

LEMMA InitTypeOK == Init => TypeOK
<1> SUFFICES ASSUME Init PROVE TypeOK
  OBVIOUS
<1>1. /\ started \in BOOLEAN /\ desktop \in BOOLEAN /\ overlapped \in BOOLEAN
      /\ fromSettled \in BOOLEAN
  BY DEF Init
<1> QED
  BY <1>1, CaFacts DEF Init, TypeOK

LEMMA NextTypeOK == TypeOK /\ [Next]_vars => TypeOK'
<1> SUFFICES ASSUME TypeOK, [Next]_vars PROVE TypeOK'
  OBVIOUS
<1> USE CaFacts DEF TypeOK, GoTo, Return, Generate, exportVars
<1>0. overlapped' \in BOOLEAN /\ desktop' \in BOOLEAN
  BY DEF Next, vars
<1>1. CASE StartProxy
  BY <1>0, <1>1 DEF StartProxy
<1>2. CASE ExportFromShell
  <2>1. fromSettled' \in BOOLEAN
    BY <1>2 DEF ExportFromShell, Settled
  <2> QED
    BY <1>0, <1>2, <2>1 DEF ExportFromShell
<1>3. CASE Crash
  BY <1>0, <1>3 DEF Crash
<1>4. ASSUME NEW o \in Openers, Step(o) PROVE TypeOK'
  <2>1. CASE SeeKey(o)
    BY <1>0, <2>1 DEF SeeKey
  <2>2. CASE SeeCrt(o)
    BY <1>0, <2>2 DEF SeeCrt
  <2>3. CASE ReadKey(o)
    BY <1>0, <2>3 DEF ReadKey
  <2>4. CASE ReadCrt(o)
    BY <1>0, <2>4 DEF ReadCrt
  <2>5. CASE TruncCrt(o)
    BY <1>0, <2>5 DEF TruncCrt
  <2>6. CASE WriteCrt(o)
    BY <1>0, <2>6 DEF WriteCrt
  <2>7. CASE TruncKey(o)
    BY <1>0, <2>7 DEF TruncKey
  <2>8. CASE WriteKey(o)
    BY <1>0, <2>8 DEF WriteKey
  <2>9. CASE IoError(o)
    BY <1>0, <2>9 DEF IoError
  <2>10. CASE TruncExport(o)
    BY <1>0, <2>10 DEF TruncExport
  <2>11. CASE CopyCrt(o)
    <3>1. fromSettled' \in BOOLEAN
      BY <2>11 DEF CopyCrt, Settled
    <3> QED
      BY <1>0, <2>11, <3>1 DEF CopyCrt
  <2> QED
    BY <1>4, <2>1, <2>2, <2>3, <2>4, <2>5, <2>6, <2>7, <2>8, <2>9, <2>10, <2>11 DEF Step
<1>5. CASE UNCHANGED vars
  BY <1>5 DEF vars
<1> QED
  BY <1>1, <1>2, <1>3, <1>4, <1>5 DEF Next

\* The types of the CA store's variables.
THEOREM TypeCorrect == Spec => []TypeOK
  BY InitTypeOK, NextTypeOK, PTL DEF Spec

-----------------------------------------------------------------------------

\* KeyImpliesCrt is not inductive alone: it also takes that exists() is never belied,
\* since no step removes a file.
FilesInv ==
    /\ KeyImpliesCrt
    /\ \A o \in Openers : pc[o] = "seeCrt" => key # Missing

LEMMA InitFilesInv == Init => FilesInv
  BY DEF Init, FilesInv, KeyImpliesCrt

LEMMA NextFilesInv == TypeOK /\ FilesInv /\ [Next]_vars => FilesInv'
<1> SUFFICES ASSUME TypeOK, FilesInv, [Next]_vars PROVE FilesInv'
  OBVIOUS
<1> USE CaFacts DEF TypeOK, FilesInv, KeyImpliesCrt, GoTo, Return, Generate, exportVars
<1>1. CASE StartProxy
  BY <1>1 DEF StartProxy
<1>2. CASE ExportFromShell
  BY <1>2 DEF ExportFromShell
<1>3. CASE Crash
  BY <1>3 DEF Crash
<1>4. ASSUME NEW o \in Openers, Step(o) PROVE FilesInv'
  <2>1. CASE SeeKey(o)
    BY <2>1 DEF SeeKey
  <2>2. CASE SeeCrt(o)
    BY <2>2 DEF SeeCrt
  <2>3. CASE ReadKey(o)
    BY <2>3 DEF ReadKey
  <2>4. CASE ReadCrt(o)
    BY <2>4 DEF ReadCrt
  <2>5. CASE TruncCrt(o)
    BY <2>5 DEF TruncCrt
  <2>6. CASE WriteCrt(o)
    BY <2>6 DEF WriteCrt
  <2>7. CASE TruncKey(o)
    BY <2>7 DEF TruncKey
  <2>8. CASE WriteKey(o)
    BY <2>8 DEF WriteKey
  <2>9. CASE IoError(o)
    BY <2>9 DEF IoError
  <2>10. CASE TruncExport(o)
    BY <2>10 DEF TruncExport
  <2>11. CASE CopyCrt(o)
    BY <2>11 DEF CopyCrt
  <2> QED
    BY <1>4, <2>1, <2>2, <2>3, <2>4, <2>5, <2>6, <2>7, <2>8, <2>9, <2>10, <2>11 DEF Step
<1>5. CASE UNCHANGED vars
  BY <1>5 DEF vars
<1> QED
  BY <1>1, <1>2, <1>3, <1>4, <1>5 DEF Next

LEMMA FilesInvariant == Spec => [](TypeOK /\ FilesInv)
<1>1. Init => TypeOK /\ FilesInv
  BY InitTypeOK, InitFilesInv
<1>2. TypeOK /\ FilesInv /\ [Next]_vars => (TypeOK /\ FilesInv)'
  BY NextTypeOK, NextFilesInv
<1> QED
  BY <1>1, <1>2, PTL DEF Spec

\* A key is never on disk without a certificate, and load() never meets a missing file
\* (mitm.rs:64, 113-114).
THEOREM KeyNeverAlone == Spec => []KeyImpliesCrt
<1>1. FilesInv => KeyImpliesCrt
  BY DEF FilesInv
<1> QED
  BY <1>1, FilesInvariant, PTL

LEMMA SettledStays ==
  ASSUME TypeOK, FilesInv, [Next]_vars, Settled
  PROVE  UNCHANGED <<crt, key>> /\ Settled'
<1> USE DEF TypeOK, FilesInv, KeyImpliesCrt, Settled, GoTo, Return
<1>1. ASSUME NEW o \in Openers, Step(o)
      PROVE  /\ UNCHANGED <<crt, key>>
             /\ pc'[o] \notin Creating
             /\ \A p \in Openers \ {o} : pc'[p] = pc[p]
  BY <1>1 DEF Step, SeeKey, SeeCrt, ReadKey, ReadCrt, TruncCrt, WriteCrt, TruncKey,
              WriteKey, IoError, TruncExport, CopyCrt
<1>2. CASE StartProxy \/ ExportFromShell \/ Crash \/ UNCHANGED vars
  BY <1>2 DEF StartProxy, ExportFromShell, Crash, vars
<1> QED
  BY <1>1, <1>2 DEF Next

\* A pair of files that nobody is writing is never written again (mitm.rs:64-72).
THEOREM FilesSettle == Spec => SettledForever
<1> DEFINE Kept == Settled => UNCHANGED <<crt, key>> /\ Settled'
<1>1. TypeOK /\ FilesInv /\ [Next]_vars => Kept
  BY SettledStays
<1>2. Spec => [][Kept]_vars
  BY <1>1, FilesInvariant, PTL DEF Spec
<1> QED
  BY <1>2 DEF SettledForever

\* An export that was copied from settled files holds what they still hold.
ExportInv == fromSettled /\ exported \in Cas => Settled /\ crt = exported

LEMMA NextExportInv == TypeOK /\ FilesInv /\ ExportInv /\ [Next]_vars => ExportInv'
<1> SUFFICES ASSUME TypeOK, FilesInv, ExportInv, [Next]_vars, fromSettled', exported' \in Cas
             PROVE  Settled' /\ crt' = exported'
  BY DEF ExportInv
<1>1. CASE UNCHANGED exportVars
  BY <1>1, SettledStays DEF ExportInv, exportVars
<1>2. CASE fromSettled' = Settled /\ exported' = crt
  BY <1>2, SettledStays
<1>3. CASE fromSettled' = FALSE
  BY <1>3
<1>4. \/ UNCHANGED exportVars
      \/ fromSettled' = Settled /\ exported' = crt
      \/ fromSettled' = FALSE
  BY DEF Next, Step, StartProxy, ExportFromShell, Crash, vars, SeeKey, SeeCrt, ReadKey,
         ReadCrt, TruncCrt, WriteCrt, TruncKey, WriteKey, IoError, TruncExport, CopyCrt
<1> QED
  BY <1>1, <1>2, <1>3, <1>4

-----------------------------------------------------------------------------
(* Opens that do not overlap.                                               *)

\* The files hold at most one CA between them whenever both are whole; a creator's
\* certificate is on disk by the time it writes the key; what was opened or exported is
\* the pair on disk.
PairInv ==
    /\ ~Overlap
    /\ key \in Cas => crt = key
    /\ \A o \in Openers :
          /\ pc[o] \in {"truncKey", "writeKey"} => crt = ca[o]
          /\ pc[o] \in Creating => key \notin Cas
          /\ pc[o] \in {"truncCrt", "writeCrt", "truncKey"} => key = Missing
          /\ pc[o] = "readCrt" => key = ca[o]
          /\ pc[o] \in {"copy", "copying"} => key \in Cas
    /\ \A pair \in opened : pair[1] = key /\ pair[2] = key
    /\ ~desktop /\ exported \in Cas => key \in Cas /\ exported = key

\* What Next does besides recording the overlap.
Event == StartProxy \/ ExportFromShell \/ Crash \/ \E o \in Openers : Step(o)

LEMMA NextPairInv ==
  ASSUME TypeOK, FilesInv, PairInv, Event, ~Overlap', UNCHANGED desktop
  PROVE  PairInv'
<1> USE CaFacts DEF TypeOK, FilesInv, KeyImpliesCrt, PairInv, Overlap, GoTo, Return,
                    Generate, exportVars
<1>1. CASE StartProxy
  BY <1>1 DEF StartProxy
<1>2. CASE ExportFromShell
  BY <1>2 DEF ExportFromShell
<1>3. CASE Crash
  BY <1>3 DEF Crash
<1>4. ASSUME NEW o \in Openers, Step(o) PROVE PairInv'
  <2>1. CASE SeeKey(o)
    BY <2>1 DEF SeeKey
  <2>2. CASE SeeCrt(o)
    BY <2>2 DEF SeeCrt
  <2>3. CASE ReadKey(o)
    BY <2>3 DEF ReadKey
  <2>4. CASE ReadCrt(o)
    BY <2>4 DEF ReadCrt
  <2>5. CASE TruncCrt(o)
    BY <2>5 DEF TruncCrt
  <2>6. CASE WriteCrt(o)
    BY <2>6 DEF WriteCrt
  <2>7. CASE TruncKey(o)
    BY <2>7 DEF TruncKey
  <2>8. CASE WriteKey(o)
    BY <2>8 DEF WriteKey
  <2>9. CASE IoError(o)
    BY <2>9 DEF IoError
  <2>10. CASE TruncExport(o)
    BY <2>10 DEF TruncExport
  <2>11. CASE CopyCrt(o)
    BY <2>11 DEF CopyCrt
  <2> QED
    BY <1>4, <2>1, <2>2, <2>3, <2>4, <2>5, <2>6, <2>7, <2>8, <2>9, <2>10, <2>11 DEF Step
<1> QED
  BY <1>1, <1>2, <1>3, <1>4 DEF Event

LEMMA SequentialPairInv == Spec => [](~overlapped => PairInv)
<1>1. Init => PairInv
  BY CaFacts DEF Init, PairInv, Overlap
<1>2. TypeOK /\ FilesInv /\ (~overlapped => PairInv) /\ [Next]_vars
         => (~overlapped => PairInv)'
  <2> SUFFICES ASSUME TypeOK, FilesInv, ~overlapped => PairInv, [Next]_vars, ~overlapped'
               PROVE  PairInv'
    OBVIOUS
  <2>1. CASE Next
    <3>1. ~overlapped /\ ~Overlap'
      BY <2>1 DEF Next
    <3> QED
      BY <2>1, <3>1, NextPairInv DEF Next, Event
  <2>2. CASE UNCHANGED vars
    BY <2>2 DEF vars, exportVars, PairInv, Overlap
  <2> QED
    BY <2>1, <2>2
<1> QED
  BY <1>1, <1>2, FilesInvariant, PTL DEF Spec

\* As long as opens do not overlap, no crash or I/O error makes a manager sign with a
\* key that is not its certificate's (mitm.rs:4-5, 74-94, 113-114).
THEOREM ChainsAreValid == Spec => []SequentialValidChain
<1>1. (~overlapped => PairInv) => SequentialValidChain
  BY DEF PairInv, SequentialValidChain, ValidChain
<1> QED
  BY <1>1, SequentialPairInv, PTL

\* As long as opens do not overlap, all managers present one CA (mitm.rs:3).
THEOREM CaIsOne == Spec => []SequentialOneCa
<1>1. (~overlapped => PairInv) => SequentialOneCa
  BY DEF PairInv, SequentialOneCa
<1> QED
  BY <1>1, SequentialPairInv, PTL

\* An export that was not cut short holds the certificate on disk, if it was copied from
\* settled files, or by the app while opens did not overlap (android_jni.rs:232-237,
\* main.rs:28).
THEOREM ExportStaysCurrent == Spec => []ExportIsCurrent
<1>1. Init => ExportInv
  BY DEF Init, ExportInv
<1>2. ExportInv /\ (~overlapped => PairInv) => ExportIsCurrent
  BY DEF ExportInv, PairInv, ExportIsCurrent
<1> QED
  BY <1>1, <1>2, NextExportInv, FilesInvariant, SequentialPairInv, PTL DEF Spec

=============================================================================

------------------------- MODULE Standalone_proofs --------------------------
(***************************************************************************)
(* Proofs about the components of Standalone: each is an invariant of one  *)
(* component, for every value of its constants, and of Standalone.         *)
(***************************************************************************)
EXTENDS Standalone, WellFoundedInduction, TLAPS

-----------------------------------------------------------------------------
(* TunBinary.  Who holds a process's mutex is the only one of it at work;  *)
(* what it has chosen has passed the checks its step comes after; and the  *)
(* record that is there between the renames is that of the last one who    *)
(* came, whom nobody has crossed since.                                    *)
Steps == {"idle", "release", "fetch", "extract", "meta", "bin"}
Works == [asset : Assets, garbled : BOOLEAN]

BinaryTypes ==
    /\ latest \in Assets \cup {Absent}
    /\ step \in [Callers -> Steps] /\ lock \in [B!Processes -> Callers \cup {Absent}]
    /\ work \in [Callers -> Works \cup {Absent}] /\ staged \in [Callers -> BOOLEAN]
Alone == \A c \in Callers : step[c] # "idle" => lock[Process[c]] = c
Passed ==
    \A c \in Callers :
        /\ step[c] \in {"fetch", "extract", "meta", "bin"} => work[c] \in Works
        /\ step[c] \in {"extract", "meta", "bin"} =>
              work[c].asset.size <= MaxAssetBytes /\ (work[c].garbled => ~work[c].asset.digest)
        /\ step[c] \in {"meta", "bin"} =>
              work[c].asset.entries = 1 /\ (work[c].garbled => work[c].asset.unpacked >= MaxAssetBytes)
Recorded ==
    \A c \in Callers : step[c] = "bin" =>
        /\ meta # Absent
        /\ c \notin crossed => meta = work[c].asset.version
StagedAtWork == \A c \in Callers : staged[c] => step[c] # "idle"
BinaryInv ==
    /\ BinaryTypes /\ Alone /\ Passed /\ Recorded /\ StagedAtWork
    /\ B!WholeOrNothing /\ B!RecordBelongs

(* Nobody else of the process is at work.                                  *)
LEMMA AloneFacts ==
    ASSUME BinaryInv, NEW c \in Callers, step[c] # "idle"
    PROVE  /\ Process[c] \in B!Processes /\ lock[Process[c]] = c
           /\ \A d \in Callers : d # c /\ step[d] # "idle" => Process[d] # Process[c]
BY DEF BinaryInv, Alone, B!Processes

(* A caller's step that keeps its lock and goes on.                        *)
LEMMA GoOn ==
    ASSUME BinaryInv, NEW c \in Callers, NEW s \in Steps \ {"idle"}, step[c] # "idle",
           step' = [step EXCEPT ![c] = s], UNCHANGED <<latest, lock>>
    PROVE  Alone'
BY DEF BinaryInv, BinaryTypes, Alone

(* Every return of Download, and the lock it lets go of.                   *)
LEMMA ReturnStep ==
    ASSUME BinaryInv, NEW c \in Callers, step[c] # "idle", B!Return(c), UNCHANGED latest
    PROVE  /\ BinaryTypes' /\ Alone' /\ StagedAtWork' /\ Passed'
           /\ step'[c] = "idle" /\ \A d \in Callers : d # c => step'[d] = step[d] /\ work'[d] = work[d]
<1>. USE DEF BinaryInv
<1>1. /\ step' = [step EXCEPT ![c] = "idle"] /\ lock' = [lock EXCEPT ![Process[c]] = Absent]
      /\ work' = [work EXCEPT ![c] = Absent] /\ staged' = [staged EXCEPT ![c] = FALSE]
  BY DEF B!Return, B!Goto
<1>2. Process[c] \in B!Processes
  BY AloneFacts
<1>3. \A d \in Callers : d # c /\ step[d] # "idle" => Process[d] # Process[c]
  BY AloneFacts
<1>4. BinaryTypes'
  BY <1>1, <1>2 DEF BinaryTypes, Steps
<1>5. step'[c] = "idle" /\ \A d \in Callers : d # c => step'[d] = step[d] /\ work'[d] = work[d]
  BY <1>1 DEF BinaryTypes
<1>6. Alone'
  BY <1>1, <1>2, <1>3, <1>5 DEF Alone, BinaryTypes, B!Processes
<1>7. StagedAtWork'
  BY <1>1, <1>5 DEF StagedAtWork, BinaryTypes
<1>8. Passed'
  BY <1>5 DEF Passed
<1>. QED BY <1>4, <1>5, <1>6, <1>7, <1>8

(* While nothing is installed and nobody leaves the renames, the record is *)
(* whose it was.                                                           *)
LEMMA Undisturbed ==
    ASSUME BinaryInv, UNCHANGED <<bin, meta, child, torn, crossed>>,
           \A c \in Callers : \/ step'[c] = step[c] /\ work'[c] = work[c]
                              \/ step[c] # "bin" /\ step'[c] # "bin"
    PROVE  Recorded' /\ B!WholeOrNothing' /\ B!RecordBelongs'
<1>1. Recorded'
  BY DEF BinaryInv, Recorded
<1>2. B!WholeOrNothing'
  BY DEF BinaryInv, B!WholeOrNothing, B!Extracted
<1>3. B!RecordBelongs'
  BY DEF BinaryInv, B!RecordBelongs
<1>. QED BY <1>1, <1>2, <1>3

LEMMA BinaryStep ==
    ASSUME BinaryInv, [B!Next]_binary PROVE BinaryInv'
<1>. USE DEF BinaryInv
<1>1. ASSUME NEW c \in Callers, step[c] # "idle", B!Return(c), UNCHANGED <<latest, bin, meta, child, torn, crossed>>,
             step[c] # "bin"
      PROVE  BinaryInv'
  <2>1. /\ BinaryTypes' /\ Alone' /\ StagedAtWork' /\ Passed'
        /\ step'[c] = "idle" /\ \A d \in Callers : d # c => step'[d] = step[d] /\ work'[d] = work[d]
    BY <1>1, ReturnStep
  <2>2. Recorded' /\ B!WholeOrNothing' /\ B!RecordBelongs'
    BY <1>1, <2>1, Undisturbed
  <2>. QED BY <2>1, <2>2
<1>2. ASSUME NEW c \in Callers, B!Lock(c) PROVE BinaryInv'
  <2>1. /\ step[c] = "idle" /\ lock[Process[c]] = Absent
        /\ step' = [step EXCEPT ![c] = "release"] /\ lock' = [lock EXCEPT ![Process[c]] = c]
        /\ UNCHANGED <<latest, work, staged, bin, meta, child, torn, crossed>>
    BY <1>2 DEF B!Lock, B!MayDownload, B!Goto, B!installed, B!ghosts
  <2>2. Process[c] \in B!Processes
    BY DEF B!Processes
  <2>3. BinaryTypes'
    BY <2>1, <2>2 DEF BinaryTypes, Steps
  <2>4. \A d \in Callers : d # c /\ step[d] # "idle" => Process[d] # Process[c]
    BY <2>1, BinaryAssumption DEF Alone
  <2>5. step'[c] = "release" /\ \A d \in Callers : d # c => step'[d] = step[d]
    BY <2>1 DEF BinaryTypes
  <2>6. Alone'
    BY <2>1, <2>2, <2>4, <2>5 DEF Alone, BinaryTypes, B!Processes
  <2>7. Passed' /\ StagedAtWork'
    BY <2>1, <2>5 DEF Passed, StagedAtWork
  <2>8. Recorded' /\ B!WholeOrNothing' /\ B!RecordBelongs'
    BY <2>1, <2>5, Undisturbed
  <2>. QED BY <2>3, <2>6, <2>7, <2>8
<1>3. ASSUME NEW c \in Callers, B!FetchRelease(c) PROVE BinaryInv'
  <2>1. step[c] = "release" /\ UNCHANGED <<latest, bin, meta, child, torn, crossed>>
    BY <1>3 DEF B!FetchRelease, B!installed, B!ghosts
  <2>2. CASE B!Return(c)
    BY <1>1, <2>1, <2>2
  <2>3. CASE ~B!Return(c)
    <3>1. /\ latest # Absent /\ step' = [step EXCEPT ![c] = "fetch"] /\ UNCHANGED lock
          /\ work' = [work EXCEPT ![c] = [asset |-> latest, garbled |-> FALSE]]
          /\ staged' = [staged EXCEPT ![c] = TRUE]
      BY <1>3, <2>3 DEF B!FetchRelease, B!Goto
    <3>2. [asset |-> latest, garbled |-> FALSE] \in Works
      BY <3>1 DEF BinaryTypes, Works
    <3>3. BinaryTypes'
      BY <2>1, <3>1, <3>2 DEF BinaryTypes, Steps
    <3>4. /\ step'[c] = "fetch" /\ work'[c] \in Works
          /\ \A d \in Callers : d # c => step'[d] = step[d] /\ work'[d] = work[d] /\ staged'[d] = staged[d]
      BY <3>1, <3>2 DEF BinaryTypes
    <3>5. Alone'
      BY <2>1, <3>1, GoOn DEF Steps
    <3>6. Passed' /\ StagedAtWork'
      BY <3>4 DEF Passed, StagedAtWork
    <3>7. Recorded' /\ B!WholeOrNothing' /\ B!RecordBelongs'
      BY <2>1, <3>4, Undisturbed
    <3>. QED BY <3>3, <3>5, <3>6, <3>7
  <2>. QED BY <2>2, <2>3
<1>4. ASSUME NEW c \in Callers, B!DownloadTo(c) PROVE BinaryInv'
  <2>1. step[c] = "fetch" /\ UNCHANGED <<latest, bin, meta, child, torn, crossed>>
    BY <1>4 DEF B!DownloadTo, B!installed, B!ghosts
  <2>2. CASE B!Return(c)
    BY <1>1, <2>1, <2>2
  <2>3. CASE ~B!Return(c)
    <3>1. /\ work[c].asset.size <= MaxAssetBytes /\ step' = [step EXCEPT ![c] = "extract"]
          /\ UNCHANGED <<lock, staged>>
      BY <1>4, <2>3 DEF B!DownloadTo, B!Goto
    <3>2. PICK g \in BOOLEAN : (g => ~work[c].asset.digest) /\ work' = [work EXCEPT ![c].garbled = g]
      BY <1>4, <2>3 DEF B!DownloadTo
    <3>3. work[c] \in Works
      BY <2>1 DEF Passed
    <3>4. /\ [work[c] EXCEPT !.garbled = g] \in Works /\ [work[c] EXCEPT !.garbled = g].asset = work[c].asset
          /\ [work[c] EXCEPT !.garbled = g].garbled = g
      BY <3>3 DEF Works
    <3>5. work' = [work EXCEPT ![c] = [work[c] EXCEPT !.garbled = g]]
      BY <3>2
    <3>6. BinaryTypes'
      BY <2>1, <3>1, <3>4, <3>5 DEF BinaryTypes, Steps
    <3>7. /\ step'[c] = "extract" /\ work'[c] \in Works /\ work'[c].asset = work[c].asset
          /\ work'[c].garbled = g
          /\ \A d \in Callers : d # c => step'[d] = step[d] /\ work'[d] = work[d]
      BY <3>1, <3>4, <3>5 DEF BinaryTypes
    <3>8. Alone'
      BY <2>1, <3>1, GoOn DEF Steps
    <3>9. Passed' /\ StagedAtWork'
      BY <3>1, <3>2, <3>7 DEF Passed, StagedAtWork
    <3>10. Recorded' /\ B!WholeOrNothing' /\ B!RecordBelongs'
      BY <2>1, <3>7, Undisturbed
    <3>. QED BY <3>6, <3>8, <3>9, <3>10
  <2>. QED BY <2>2, <2>3
<1>5. ASSUME NEW c \in Callers, B!ExtractBinary(c) PROVE BinaryInv'
  <2>1. step[c] = "extract" /\ UNCHANGED <<latest, bin, meta, child, torn, crossed>>
    BY <1>5 DEF B!ExtractBinary, B!installed, B!ghosts
  <2>2. CASE B!Return(c)
    BY <1>1, <2>1, <2>2
  <2>3. CASE ~B!Return(c)
    <3>1. /\ work[c].asset.entries = 1 /\ step' = [step EXCEPT ![c] = "meta"]
          /\ work[c].garbled => work[c].asset.unpacked >= MaxAssetBytes
          /\ UNCHANGED <<lock, work, staged>>
      BY <1>5, <2>3 DEF B!ExtractBinary, B!Goto
    <3>2. BinaryTypes'
      BY <2>1, <3>1 DEF BinaryTypes, Steps
    <3>3. step'[c] = "meta" /\ \A d \in Callers : d # c => step'[d] = step[d]
      BY <3>1 DEF BinaryTypes
    <3>4. Alone'
      BY <2>1, <3>1, GoOn DEF Steps
    <3>5. Passed' /\ StagedAtWork'
      BY <2>1, <3>1, <3>3 DEF Passed, StagedAtWork
    <3>6. Recorded' /\ B!WholeOrNothing' /\ B!RecordBelongs'
      BY <2>1, <3>1, <3>3, Undisturbed
    <3>. QED BY <3>2, <3>4, <3>5, <3>6
  <2>. QED BY <2>2, <2>3
<1>6. ASSUME NEW c \in Callers, B!RenameMeta(c) PROVE BinaryInv'
  <2>1. step[c] = "meta" /\ UNCHANGED <<latest, bin, child, torn>>
    BY <1>6 DEF B!RenameMeta
  <2>2. CASE B!Return(c)
    <3>1. step'[c] = "idle"
      BY <2>1, <2>2, ReturnStep
    <3>2. ~(step' = [step EXCEPT ![c] = "bin"])
      BY <3>1 DEF BinaryTypes
    <3>3. UNCHANGED <<meta, crossed>>
      BY <1>6, <3>2 DEF B!RenameMeta, B!Goto
    <3>. QED BY <1>1, <2>1, <2>2, <3>3
  <2>3. CASE ~B!Return(c)
    <3>1. /\ meta' = work[c].asset.version /\ step' = [step EXCEPT ![c] = "bin"]
          /\ crossed' = (crossed \ {c}) \cup B!Crossing(c)
          /\ UNCHANGED <<lock, work, staged>>
      BY <1>6, <2>3 DEF B!RenameMeta, B!Goto
    <3>2. BinaryTypes'
      BY <2>1, <3>1 DEF BinaryTypes, Steps
    <3>3. step'[c] = "bin" /\ \A d \in Callers : d # c => step'[d] = step[d]
      BY <3>1 DEF BinaryTypes
    <3>4. Alone'
      BY <2>1, <3>1, GoOn DEF Steps
    <3>5. Passed' /\ StagedAtWork'
      BY <2>1, <3>1, <3>3 DEF Passed, StagedAtWork
    <3>6. meta' # Absent
      BY <2>1, <3>1, BinaryAssumption DEF Passed, Works
    <3>7. \A d \in Callers : d # c /\ step[d] = "bin" => d \in crossed'
      BY <2>1, <3>1, AloneFacts DEF B!Crossing
    <3>8. Recorded'
      BY <3>1, <3>3, <3>6, <3>7 DEF Recorded
    <3>9. B!WholeOrNothing'
      BY <2>1 DEF B!WholeOrNothing, B!Extracted
    <3>10. B!RecordBelongs'
      BY <3>3, <3>6 DEF B!RecordBelongs
    <3>. QED BY <3>2, <3>4, <3>5, <3>8, <3>9, <3>10
  <2>. QED BY <2>2, <2>3
<1>7. ASSUME NEW c \in Callers, B!RenameBin(c) PROVE BinaryInv'
  <2>1. /\ step[c] = "bin" /\ B!Return(c) /\ UNCHANGED <<latest, meta, child>>
        /\ crossed' = (crossed \ {c}) \cup B!Crossing(c)
        /\ \/ bin' = B!Extracted(work[c].asset, work[c].garbled) /\ torn' = (c \in crossed)
           \/ bin' = bin /\ torn' = TRUE
    BY <1>7 DEF B!RenameBin
  <2>2. /\ BinaryTypes' /\ Alone' /\ StagedAtWork' /\ Passed'
        /\ step'[c] = "idle" /\ \A d \in Callers : d # c => step'[d] = step[d] /\ work'[d] = work[d]
    BY <2>1, ReturnStep
  <2>3. /\ work[c] \in Works /\ work[c].asset.size <= MaxAssetBytes /\ work[c].asset.entries = 1
        /\ work[c].garbled => ~work[c].asset.digest /\ work[c].asset.unpacked >= MaxAssetBytes
    BY <2>1 DEF Passed
  <2>4. work[c].asset \in Assets /\ work[c].garbled \in BOOLEAN
    BY <2>3 DEF Works
  <2>5. B!WholeOrNothing'
    BY <2>1, <2>3, <2>4 DEF B!WholeOrNothing, B!Extracted
  <2>6. Recorded'
    BY <2>1, <2>2 DEF Recorded
  <2>7. meta # Absent /\ (c \notin crossed => meta = work[c].asset.version)
    BY <2>1 DEF Recorded
  <2>8. B!Extracted(work[c].asset, work[c].garbled).version = work[c].asset.version
    BY DEF B!Extracted
  <2>9. B!RecordBelongs'
    BY <2>1, <2>7, <2>8 DEF B!RecordBelongs
  <2>. QED BY <2>2, <2>5, <2>6, <2>9
<1>8. CASE B!Launch \/ B!Exit
  <2>1. /\ UNCHANGED <<latest, step, lock, work, staged, bin, meta, torn, crossed>>
        /\ child' \in {bin, Absent}
    BY <1>8 DEF B!Launch, B!Exit, B!installed, B!ghosts
  <2>2. BinaryTypes' /\ Alone' /\ Passed' /\ Recorded' /\ StagedAtWork'
    BY <2>1 DEF BinaryTypes, Alone, Passed, Recorded, StagedAtWork
  <2>3. B!WholeOrNothing'
    BY <2>1 DEF B!WholeOrNothing, B!Extracted
  <2>4. B!RecordBelongs'
    BY <2>1 DEF B!RecordBelongs
  <2>. QED BY <2>2, <2>3, <2>4
<1>9. CASE B!Publish
  <2>1. /\ UNCHANGED <<step, lock, work, staged, bin, meta, child, torn, crossed>>
        /\ latest' \in Assets \cup {Absent}
    BY <1>9 DEF B!Publish, B!installed, B!ghosts
  <2>2. BinaryTypes' /\ Alone' /\ Passed' /\ StagedAtWork'
    BY <2>1 DEF BinaryTypes, Alone, Passed, StagedAtWork
  <2>3. Recorded' /\ B!WholeOrNothing' /\ B!RecordBelongs'
    BY <2>1, Undisturbed
  <2>. QED BY <2>2, <2>3
<1>10. ASSUME NEW p \in B!Processes, B!Kill(p) PROVE BinaryInv'
  <2>. DEFINE Dead == {c \in Callers : Process[c] = p}
  <2>1. /\ lock' = [lock EXCEPT ![p] = Absent]
        /\ step' = [c \in Callers |-> IF c \in Dead THEN "idle" ELSE step[c]]
        /\ work' = [c \in Callers |-> IF c \in Dead THEN Absent ELSE work[c]]
        /\ staged' = [c \in Callers |-> c \notin Dead /\ staged[c]]
        /\ torn' = (torn \/ \E c \in Dead : step[c] = "bin")
        /\ crossed' = crossed \ Dead /\ UNCHANGED <<latest, bin, meta, child>>
    BY <1>10 DEF B!Kill, B!installed
  <2>2. \A c \in Callers : \/ c \in Dead /\ step'[c] = "idle" /\ ~staged'[c]
                           \/ /\ c \notin Dead /\ step'[c] = step[c] /\ work'[c] = work[c]
                              /\ staged'[c] = staged[c]
    BY <2>1 DEF BinaryTypes
  <2>3. BinaryTypes'
    BY <2>1 DEF BinaryTypes, Steps
  <2>4. Alone'
    BY <2>1, <2>2 DEF Alone, BinaryTypes, B!Processes
  <2>5. Passed' /\ StagedAtWork'
    BY <2>2 DEF Passed, StagedAtWork
  <2>6. Recorded'
    BY <2>1, <2>2 DEF Recorded
  <2>7. B!WholeOrNothing'
    BY <2>1 DEF B!WholeOrNothing, B!Extracted
  <2>8. B!RecordBelongs'
    <3>1. \A c \in Callers : step[c] = "bin" => step'[c] = "bin" \/ c \in Dead
      BY <2>2
    <3>. QED BY <2>1, <3>1 DEF B!RecordBelongs
  <2>. QED BY <2>3, <2>4, <2>5, <2>6, <2>7, <2>8
<1>11. CASE UNCHANGED binary
  <2>1. UNCHANGED <<latest, step, lock, work, staged, bin, meta, child, torn, crossed>>
    BY <1>11 DEF binary
  <2>2. BinaryTypes' /\ Alone' /\ Passed' /\ StagedAtWork'
    BY <2>1 DEF BinaryTypes, Alone, Passed, StagedAtWork
  <2>3. Recorded' /\ B!WholeOrNothing' /\ B!RecordBelongs'
    BY <2>1, Undisturbed
  <2>. QED BY <2>2, <2>3
<1>. QED BY <1>2, <1>3, <1>4, <1>5, <1>6, <1>7, <1>8, <1>9, <1>10, <1>11 DEF B!Next

LEMMA BinaryStart == B!Init => BinaryInv
<1>. SUFFICES ASSUME B!Init PROVE BinaryInv
  OBVIOUS
<1>1. BinaryTypes /\ \A c \in Callers : step[c] = "idle" /\ ~staged[c]
  BY DEF B!Init, BinaryTypes, Steps
<1>2. Alone /\ Passed /\ Recorded /\ StagedAtWork
  BY <1>1 DEF Alone, Passed, Recorded, StagedAtWork
<1>3. B!WholeOrNothing /\ B!RecordBelongs
  BY DEF B!Init, B!WholeOrNothing, B!RecordBelongs
<1>. QED BY <1>1, <1>2, <1>3 DEF BinaryInv

(* Whatever is killed, fails or overlaps, in any number of processes: the  *)
(* executable that is installed or runs is the only one of a published     *)
(* archive, as far as the cap lets it be and, below the cap or where the   *)
(* checksum is published, ungarbled; its record is its own but where an    *)
(* install was torn, and an install that ended leaves nothing staged.      *)
THEOREM InstallSoundAlways == StandaloneSpec => []InstallSound
<1>. DEFINE Inv == which = "binary" => BinaryInv
<1>1. ComponentsInit => Inv
  BY BinaryStart DEF ComponentsInit
<1>2. Inv /\ [ComponentsNext]_standaloneVars => Inv'
  <2>. SUFFICES ASSUME Inv, [ComponentsNext]_standaloneVars, which' = "binary" PROVE BinaryInv'
    OBVIOUS
  <2>1. which = "binary" /\ [B!Next]_binary
    BY DEF ComponentsNext, standaloneVars
  <2>. QED BY <2>1, BinaryStep
<1>3. Inv => InstallSound
  BY DEF BinaryInv, InstallSound, B!InstallSound, B!NothingStaged, Alone, StagedAtWork
<1>. QED BY <1>1, <1>2, <1>3, PTL DEF StandaloneSpec

-----------------------------------------------------------------------------
(* Certs.  Who relies on a file that nobody has replaced since holds what  *)
(* is there.  While nothing spoils the pair, one actor at most is between  *)
(* its two writes, nobody is while another reads, and otherwise there is   *)
(* no pair, or a usable one.                                               *)
Stages == {"down", "crt", "key", "write crt", "write key", "up"}
ImportSteps == {"idle", "crt", "key", "swap", "reset", "clear"}
Imports == [pc : ImportSteps, bundle : Bundles \cup {Null}]

CertsTypes ==
    /\ crt \in Certificate \cup {Null} /\ key \in Nat \cup {Null} /\ made \in Nat /\ rooted \in Nat
    /\ stage \in [C!Parts -> Stages] /\ mem \in [C!Parts -> Certificate \cup {Null}]
ImportTypes ==
    /\ imp \in [Importers -> Imports]
    /\ \A i \in Importers : imp[i].pc # "idle" =>
          imp[i].bundle \in Bundles /\ C!Valid(imp[i].bundle) /\ stage["mgmt"] = "up"
GeneratedTypes ==
    \A p \in C!Parts : stage[p] \in {"write crt", "write key"} => mem[p] \in Certificate /\ ~mem[p].ends
LeafTypes == DOMAIN leaf = Hosts
HandChains == hand.host # Null => stage["proxy"] = "up" /\ hand.by = mem["proxy"].ca

(* Parts and imports that nobody has overtaken.                            *)
PartsHold ==
    \A p \in C!Parts \ outdated :
        /\ stage[p] \in {"key", "write key", "up"} => mem[p] = crt
        /\ stage[p] = "up" => key = crt.ca
ImportsHold ==
    \A i \in Importers \ outdated :
        /\ imp[i].pc \in {"key", "swap"} => crt = imp[i].bundle.crt
        /\ imp[i].pc = "swap" => key = imp[i].bundle.key

NobodyUp == \A p \in C!Parts : stage[p] # "up"
Bare == crt = Null /\ key = Null /\ rooted = 0 /\ NobodyUp
Good == C!Usable(crt, key) /\ rooted <= 1
Between(a) == IF a \in C!Parts THEN stage[a] = "write key" ELSE imp[a].pc = "key"
OneBetween == \A a, b \in C!Actors : Between(a) /\ Between(b) => a = b
Loaders ==
    \A p \in C!Parts :
        /\ stage[p] \in {"key", "write key"} => p \notin outdated
        /\ stage[p] = "write crt" => Bare \/ \E a \in C!Actors : Between(a)
        /\ stage[p] = "write key" => key = Null /\ rooted = 0 /\ NobodyUp
Halves == \A i \in Importers : imp[i].pc = "key" => i \notin outdated /\ rooted <= 1
PairWhole == (\A a \in C!Actors : ~Between(a)) => Bare \/ Good
Behind ==
    /\ stage["proxy"] = "up" /\ "proxy" \in outdated => imported
    /\ stage["mgmt"] = "up" /\ "mgmt" \in outdated => mixed \/ \E i \in Importers : imp[i].pc \in {"key", "swap"}
    /\ \A i \in Importers \cap outdated : imp[i].pc = "swap" => mixed

Chained == LeafTypes /\ HandChains /\ C!LeavesChain
Typed == CertsTypes /\ ImportTypes /\ GeneratedTypes
Held == PartsHold /\ ImportsHold
Paired == ~spoilt => OneBetween /\ Loaders /\ Halves /\ PairWhole /\ Behind
CertsInv == Typed /\ Chained /\ Held /\ Paired

LEMMA TwoParts ==
    /\ C!Parts = {"proxy", "mgmt"} /\ "proxy" \in C!Parts /\ "mgmt" \in C!Parts
    /\ C!Actors = C!Parts \cup Importers /\ \A i \in Importers : i \notin C!Parts
BY CertsAssumption DEF C!Parts, C!Actors

LEMMA Generated == \A n \in Nat : C!Made(n) \in Certificate /\ ~C!Made(n).ends /\ C!Made(n).ca = n
BY DEF C!Made, Certificate

LEMMA Uploaded ==
    ASSUME NEW b \in Bundles
    PROVE  b.crt \in Certificate /\ b.crt # Null /\ b.key \in Nat /\ b.crt.ca \in Nat
BY CertsAssumption DEF Certificate

(* What a write of a file does to the histories.                           *)
Overtaken(a, parts, imports) ==
    /\ \A p \in C!Parts : p # a => (p \in outdated' <=> p \in outdated \/ stage[p] \in parts)
    /\ \A i \in Importers : i # a => (i \in outdated' <=> i \in outdated \/ imp[i].pc \in imports)
Unspoilt(a, parts) ==
    ~spoilt' => /\ ~spoilt
                /\ \A p \in C!Parts : p # a => stage[p] \notin parts
                /\ \A i \in Importers : i # a => imp[i].pc # "key"

LEMMA CertWritten ==
    ASSUME Typed, NEW a \in C!Actors, NEW c, C!PutCert(a, c)
    PROVE  /\ crt' = c /\ a \notin outdated'
           /\ Overtaken(a, {"key", "write key", "up"}, {"key", "swap"})
           /\ Unspoilt(a, {"key", "write crt", "write key"})
<1>1. crt' = c /\ a \notin outdated'
  BY DEF C!PutCert
<1>2. Overtaken(a, {"key", "write key", "up"}, {"key", "swap"})
  <2>1. ASSUME NEW p \in C!Parts, p # a
        PROVE  p \in outdated' <=> p \in outdated \/ stage[p] \in {"key", "write key", "up"}
    <3>1. C!Place(p) = stage[p] /\ stage[p] \in Stages
      BY DEF C!Place, Typed, CertsTypes
    <3>. QED BY <2>1, <3>1, TwoParts DEF C!PutCert, Stages
  <2>2. ASSUME NEW i \in Importers, i # a
        PROVE  i \in outdated' <=> i \in outdated \/ imp[i].pc \in {"key", "swap"}
    <3>1. C!Place(i) = imp[i].pc /\ imp[i].pc \in ImportSteps
      BY TwoParts DEF C!Place, Typed, ImportTypes, Imports
    <3>. QED BY <2>2, <3>1, TwoParts DEF C!PutCert, ImportSteps
  <2>. QED BY <2>1, <2>2 DEF Overtaken
<1>3. Unspoilt(a, {"key", "write crt", "write key"})
  BY TwoParts DEF C!PutCert, Unspoilt, C!Half, C!Reading
<1>. QED BY <1>1, <1>2, <1>3

LEMMA KeyWritten ==
    ASSUME Typed, NEW a \in C!Actors, NEW k, C!PutKey(a, k)
    PROVE  /\ key' = k /\ (a \in outdated' <=> a \in outdated)
           /\ Overtaken(a, {"up"}, {"swap"}) /\ Unspoilt(a, {"write crt", "write key"})
           /\ ~spoilt' => ~crt.ends
<1>1. key' = k /\ (a \in outdated' <=> a \in outdated) /\ (~spoilt' => ~crt.ends)
  BY DEF C!PutKey
<1>2. Overtaken(a, {"up"}, {"swap"})
  <2>1. ASSUME NEW p \in C!Parts, p # a PROVE p \in outdated' <=> p \in outdated \/ stage[p] \in {"up"}
    <3>1. C!Place(p) = stage[p] /\ stage[p] \in Stages
      BY DEF C!Place, Typed, CertsTypes
    <3>. QED BY <2>1, <3>1, TwoParts DEF C!PutKey, Stages
  <2>2. ASSUME NEW i \in Importers, i # a PROVE i \in outdated' <=> i \in outdated \/ imp[i].pc \in {"swap"}
    <3>1. C!Place(i) = imp[i].pc /\ imp[i].pc \in ImportSteps
      BY TwoParts DEF C!Place, Typed, ImportTypes, Imports
    <3>. QED BY <2>2, <3>1, TwoParts DEF C!PutKey, ImportSteps
  <2>. QED BY <2>1, <2>2 DEF Overtaken
<1>3. Unspoilt(a, {"write crt", "write key"})
  BY TwoParts DEF C!PutKey, Unspoilt, C!Half
<1>. QED BY <1>1, <1>2, <1>3

(* What a step of an import does to it.                                    *)
LEMMA ImportMoves ==
    ASSUME Typed, NEW i \in Importers,
           C!ImportCert(i) \/ C!ImportKey(i) \/ C!SwapCA(i) \/ C!ResetTLSLeafIssuer(i)
    PROVE  /\ imp[i].pc # "idle" /\ imp'[i].pc \in ImportSteps \ {"idle"} /\ imp'[i].bundle = imp[i].bundle
           /\ imp' \in [Importers -> Imports] /\ \A j \in Importers : j # i => imp'[j] = imp[j]
           /\ imp[i].bundle \in Bundles /\ C!Valid(imp[i].bundle) /\ stage["mgmt"] = "up"
           /\ imp[i].bundle.crt \in Certificate /\ imp[i].bundle.key \in Nat /\ UNCHANGED stage
<1>1. PICK s \in ImportSteps \ {"idle"} : imp[i].pc # "idle" /\ imp' = [imp EXCEPT ![i].pc = s]
  BY DEF C!ImportCert, C!ImportKey, C!SwapCA, C!ResetTLSLeafIssuer, ImportSteps
<1>2. imp[i] \in Imports
  BY DEF Typed, ImportTypes
<1>3. /\ imp'[i] = [imp[i] EXCEPT !.pc = s] /\ imp' \in [Importers -> Imports]
      /\ \A j \in Importers : j # i => imp'[j] = imp[j]
  BY <1>1, <1>2 DEF Typed, ImportTypes, Imports
<1>4. imp[i].bundle \in Bundles /\ C!Valid(imp[i].bundle) /\ stage["mgmt"] = "up"
  BY <1>1 DEF Typed, ImportTypes
<1>5. UNCHANGED stage
  BY DEF C!ImportCert, C!ImportKey, C!SwapCA, C!ResetTLSLeafIssuer
<1>. QED BY <1>1, <1>2, <1>3, <1>4, <1>5, Uploaded DEF Imports

LEMMA ImportEnds ==
    ASSUME Typed, NEW i \in Importers, C!Clear(i) \/ C!ImportFails(i)
    PROVE  /\ imp'[i] = C!NoImport /\ imp' \in [Importers -> Imports]
           /\ \A j \in Importers : j # i => imp'[j] = imp[j]
<1>1. imp' = [imp EXCEPT ![i] = C!NoImport]
  BY DEF C!Clear, C!ImportFails
<1>2. C!NoImport \in Imports
  BY DEF C!NoImport, Imports, ImportSteps
<1>. QED BY <1>1, <1>2 DEF Typed, ImportTypes

(* What a part does as it starts, but for what it reads and writes.        *)
LEMMA PartMoves ==
    ASSUME Typed, NEW p \in C!Parts, C!Start(p) \/ C!ReadCert(p) \/ C!ReadKey(p) \/ C!WriteCert(p) \/ C!WriteKey(p)
    PROVE  /\ stage[p] # "up" /\ stage'[p] \in Stages /\ stage' \in [C!Parts -> Stages]
           /\ \A q \in C!Parts : q # p => stage'[q] = stage[q] /\ mem'[q] = mem[q]
           /\ UNCHANGED <<imp, leaf, hand>>
<1>1. PICK s \in Stages : stage[p] # "up" /\ stage' = [stage EXCEPT ![p] = s]
  BY DEF C!Start, C!ReadCert, C!ReadKey, C!WriteCert, C!WriteKey, C!Up, Stages
<1>2. \A q \in C!Parts : q # p => mem'[q] = mem[q]
  BY DEF C!Start, C!ReadCert, C!ReadKey, C!WriteCert, C!WriteKey, Typed, CertsTypes
<1>3. UNCHANGED <<imp, leaf, hand>>
  BY DEF C!Start, C!ReadCert, C!ReadKey, C!WriteCert, C!WriteKey, C!proxy
<1>. QED BY <1>1, <1>2, <1>3 DEF Typed, CertsTypes

(* Who is killed, and what goes with them.                                 *)
LEMMA Killed ==
    ASSUME Typed, NEW p \in C!Parts, C!Kill(p)
    PROVE  \E gone \in SUBSET C!Parts :
              /\ stage' = [q \in C!Parts |-> IF q \in gone THEN "down" ELSE stage[q]]
              /\ mem' = [q \in C!Parts |-> IF q \in gone THEN Null ELSE mem[q]]
              /\ leaf' = IF "proxy" \in gone THEN C!NoLeaves ELSE leaf
              /\ hand' = IF "proxy" \in gone THEN [host |-> Null, by |-> Null] ELSE hand
              /\ imp' \in [Importers -> Imports]
              /\ \A i \in Importers : imp'[i] = IF "mgmt" \in gone THEN C!NoImport ELSE imp[i]
              /\ \A q \in C!Parts : q \in outdated' <=> q \in outdated /\ q \notin gone
              /\ \A i \in Importers : i \in outdated' <=> i \in outdated /\ "mgmt" \notin gone
              /\ ~spoilt' => /\ ~spoilt /\ \A q \in gone : stage[q] # "write key"
                             /\ "mgmt" \in gone => \A i \in Importers : imp[i].pc # "key"
              /\ (mixed /\ "mgmt" \notin gone => mixed') /\ (imported /\ "proxy" \notin gone => imported')
              /\ UNCHANGED <<crt, key, made, rooted>>
<1>. DEFINE gone == IF together THEN C!Parts ELSE {p}
            lost == gone \cup IF "mgmt" \in gone THEN Importers ELSE {}
<1>0. gone \in SUBSET C!Parts /\ \A i \in Importers : i \in lost <=> "mgmt" \in gone
  BY TwoParts
<1>01. \A q \in C!Parts : q \in lost <=> q \in gone
  BY TwoParts
<1>1. /\ stage' = [q \in C!Parts |-> IF q \in gone THEN "down" ELSE stage[q]]
      /\ mem' = [q \in C!Parts |-> IF q \in gone THEN Null ELSE mem[q]]
      /\ leaf' = (IF "proxy" \in gone THEN C!NoLeaves ELSE leaf)
      /\ hand' = (IF "proxy" \in gone THEN [host |-> Null, by |-> Null] ELSE hand)
      /\ imp' = [i \in Importers |-> IF i \in lost THEN C!NoImport ELSE imp[i]]
      /\ outdated' = outdated \ lost
      /\ spoilt' = (spoilt \/ \E a \in lost : C!Place(a) = "write key" \/ (a \in Importers /\ C!Half(a)))
      /\ mixed' = (mixed /\ "mgmt" \notin gone) /\ imported' = (imported /\ "proxy" \notin gone)
      /\ UNCHANGED <<crt, key, made, rooted>>
  BY DEF C!Kill, C!files
<1>. HIDE DEF gone, lost
<1>2. C!NoImport \in Imports
  BY DEF C!NoImport, Imports, ImportSteps
<1>3. /\ imp' \in [Importers -> Imports]
      /\ \A i \in Importers : imp'[i] = IF "mgmt" \in gone THEN C!NoImport ELSE imp[i]
  BY <1>0, <1>1, <1>2 DEF Typed, ImportTypes
<1>4. /\ \A q \in C!Parts : q \in outdated' <=> q \in outdated /\ q \notin gone
      /\ \A i \in Importers : i \in outdated' <=> i \in outdated /\ "mgmt" \notin gone
  BY <1>0, <1>01, <1>1
<1>5. ~spoilt' => ~spoilt /\ \A q \in gone : stage[q] # "write key"
  BY <1>0, <1>01, <1>1 DEF C!Place
<1>6. ~spoilt' /\ "mgmt" \in gone => \A i \in Importers : imp[i].pc # "key"
  BY <1>0, <1>1, TwoParts DEF C!Half
<1>. QED BY <1>0, <1>1, <1>3, <1>4, <1>5, <1>6

LEMMA TypedStep ==
    ASSUME Typed, [C!Next]_certs PROVE Typed'
<1>. USE DEF Typed
<1>1. ASSUME NEW p \in C!Parts, C!Start(p) \/ C!ReadCert(p) \/ C!ReadKey(p) \/ C!WriteCert(p) \/ C!WriteKey(p)
      PROVE  Typed'
  <2>1. /\ stage[p] # "up" /\ stage'[p] \in Stages /\ stage' \in [C!Parts -> Stages]
        /\ \A q \in C!Parts : q # p => stage'[q] = stage[q] /\ mem'[q] = mem[q]
        /\ UNCHANGED imp
    BY <1>1, PartMoves
  <2>2. ImportTypes'
    BY <2>1, TwoParts DEF ImportTypes
  <2>3. CASE C!Start(p)
    <3>1. UNCHANGED <<crt, key, made, rooted, mem>> /\ stage'[p] = "crt"
      BY <2>3 DEF C!Start, C!files, CertsTypes
    <3>. QED BY <2>1, <2>2, <3>1 DEF CertsTypes, GeneratedTypes
  <2>4. CASE C!ReadCert(p)
    <3>1. UNCHANGED <<crt, key, made, rooted>> /\ stage'[p] = "key" /\ mem' = [mem EXCEPT ![p] = crt]
      BY <2>4 DEF C!ReadCert, C!files, CertsTypes
    <3>. QED BY <2>1, <2>2, <3>1 DEF CertsTypes, GeneratedTypes
  <2>5. CASE C!ReadKey(p)
    <3>1. UNCHANGED <<crt, key, rooted>>
      BY <2>5 DEF C!ReadKey
    <3>2. CASE C!Usable(mem[p], key)
      <4>1. UNCHANGED <<mem, made>> /\ stage'[p] = "up"
        BY <2>5, <3>2 DEF C!ReadKey, C!Up, CertsTypes
      <4>. QED BY <2>1, <2>2, <3>1, <4>1 DEF CertsTypes, GeneratedTypes
    <3>3. CASE ~C!Usable(mem[p], key)
      <4>1. made' = made + 1 /\ mem' = [mem EXCEPT ![p] = C!Made(made')]
        BY <2>5, <3>3 DEF C!ReadKey
      <4>2. made' \in Nat
        <5>1. made \in Nat
          BY DEF CertsTypes
        <5>. QED BY <4>1, <5>1
      <4>3. C!Made(made') \in Certificate /\ ~C!Made(made').ends
        BY <4>2, Generated
      <4>. QED BY <2>1, <2>2, <3>1, <4>1, <4>2, <4>3 DEF CertsTypes, GeneratedTypes
    <3>. QED BY <3>2, <3>3
  <2>6. CASE C!WriteCert(p)
    <3>1. crt' = mem[p] /\ UNCHANGED <<key, made, rooted, mem>> /\ stage[p] = "write crt"
      BY <2>6 DEF C!WriteCert, C!PutCert
    <3>. QED BY <2>1, <2>2, <3>1 DEF CertsTypes, GeneratedTypes
  <2>7. CASE C!WriteKey(p)
    <3>1. key' = mem[p].ca /\ rooted' = rooted + 1 /\ UNCHANGED <<crt, made, mem>> /\ stage[p] = "write key"
      BY <2>7 DEF C!WriteKey, C!PutKey
    <3>2. rooted' \in Nat
      <4>1. rooted \in Nat /\ rooted' = rooted + 1
        BY <3>1 DEF CertsTypes
      <4>. QED BY <4>1
    <3>3. mem[p].ca \in Nat
      BY <3>1 DEF GeneratedTypes, Certificate
    <3>4. stage'[p] = "up"
      BY <2>7 DEF C!WriteKey, C!Up, CertsTypes
    <3>. QED BY <2>1, <2>2, <3>1, <3>2, <3>3, <3>4 DEF CertsTypes, GeneratedTypes
  <2>. QED BY <1>1, <2>3, <2>4, <2>5, <2>6, <2>7
<1>2. ASSUME NEW p \in C!Parts, C!Kill(p) PROVE Typed'
  <2>1. PICK gone \in SUBSET C!Parts :
            /\ stage' = [q \in C!Parts |-> IF q \in gone THEN "down" ELSE stage[q]]
            /\ mem' = [q \in C!Parts |-> IF q \in gone THEN Null ELSE mem[q]]
            /\ imp' \in [Importers -> Imports]
            /\ \A i \in Importers : imp'[i] = IF "mgmt" \in gone THEN C!NoImport ELSE imp[i]
            /\ UNCHANGED <<crt, key, made, rooted>>
    BY <1>2, Killed
  <2>2. stage' \in [C!Parts -> Stages] /\ mem' \in [C!Parts -> Certificate \cup {Null}]
    BY <2>1 DEF CertsTypes, Stages
  <2>3. GeneratedTypes'
    BY <2>1 DEF GeneratedTypes
  <2>4. ImportTypes'
    BY <2>1, TwoParts DEF ImportTypes, C!NoImport
  <2>. QED BY <2>1, <2>2, <2>3, <2>4 DEF CertsTypes
<1>3. ASSUME NEW i \in Importers, NEW b \in Bundles, C!Upload(i, b) PROVE Typed'
  <2>1. /\ stage["mgmt"] = "up" /\ C!Valid(b) /\ imp' = [imp EXCEPT ![i] = [pc |-> "crt", bundle |-> b]]
        /\ UNCHANGED <<crt, key, made, rooted, stage, mem>>
    BY <1>3 DEF C!Upload, C!files
  <2>2. [pc |-> "crt", bundle |-> b] \in Imports
    BY DEF Imports, ImportSteps
  <2>3. ImportTypes'
    BY <2>1, <2>2 DEF ImportTypes
  <2>. QED BY <2>1, <2>3 DEF CertsTypes, GeneratedTypes
<1>4. ASSUME NEW i \in Importers,
             C!ImportCert(i) \/ C!ImportKey(i) \/ C!SwapCA(i) \/ C!ResetTLSLeafIssuer(i)
      PROVE  Typed'
  <2>1. /\ UNCHANGED <<made, rooted, stage>>
        /\ crt' \in {crt, imp[i].bundle.crt} /\ key' \in {key, imp[i].bundle.key}
        /\ mem' = mem \/ mem' = [mem EXCEPT !["mgmt"] = imp[i].bundle.crt]
    BY <1>4 DEF C!ImportCert, C!ImportKey, C!SwapCA, C!ResetTLSLeafIssuer, C!PutCert, C!PutKey, C!files
  <2>2. stage["mgmt"] = "up" /\ imp[i].bundle.crt \in Certificate /\ imp[i].bundle.key \in Nat
    BY <1>4, ImportMoves
  <2>3. CertsTypes'
    BY <2>1, <2>2 DEF CertsTypes
  <2>4. GeneratedTypes'
    BY <2>1, <2>2 DEF GeneratedTypes, CertsTypes
  <2>5. ImportTypes'
    BY <1>4, ImportMoves DEF ImportTypes
  <2>. QED BY <2>3, <2>4, <2>5
<1>5. ASSUME NEW i \in Importers, C!Clear(i) \/ C!ImportFails(i) PROVE Typed'
  <2>1. UNCHANGED <<crt, key, made, rooted, stage, mem>>
    BY <1>5 DEF C!Clear, C!ImportFails, C!files
  <2>2. ImportTypes'
    BY <1>5, <2>1, ImportEnds DEF ImportTypes, C!NoImport
  <2>. QED BY <2>1, <2>2 DEF CertsTypes, GeneratedTypes
<1>6. CASE (\E h \in Hosts : C!Issue(h) \/ C!Expire(h)) \/ C!Cache \/ UNCHANGED certs
  <2>1. UNCHANGED <<crt, key, made, rooted, stage, mem, imp>>
    BY <1>6 DEF C!Issue, C!Expire, C!Cache, C!files, certs
  <2>. QED BY <2>1 DEF CertsTypes, GeneratedTypes, ImportTypes
<1>. QED BY <1>1, <1>2, <1>3, <1>4, <1>5, <1>6 DEF C!Next, C!Import

(* A part that comes, goes or loads is not the proxy with leaves.          *)
LEMMA ChainsKept ==
    ASSUME Typed, Chained, UNCHANGED <<leaf, hand>>,
           stage["proxy"] = "up" => stage'["proxy"] = "up" /\ mem'["proxy"].ca = mem["proxy"].ca
    PROVE  Chained'
BY DEF Chained, LeafTypes, HandChains, C!LeavesChain

LEMMA ChainedStep ==
    ASSUME Typed, Chained, [C!Next]_certs PROVE Chained'
<1>. USE DEF Typed
<1>1. ASSUME NEW p \in C!Parts, C!Start(p) \/ C!ReadCert(p) \/ C!ReadKey(p) \/ C!WriteCert(p) \/ C!WriteKey(p)
      PROVE  Chained'
  <2>1. /\ stage[p] # "up" /\ UNCHANGED <<leaf, hand>>
        /\ \A q \in C!Parts : q # p => stage'[q] = stage[q] /\ mem'[q] = mem[q]
    BY <1>1, PartMoves
  <2>2. stage["proxy"] = "up" => stage'["proxy"] = "up" /\ mem'["proxy"] = mem["proxy"]
    BY <2>1, TwoParts
  <2>. QED BY <2>1, <2>2, ChainsKept
<1>2. ASSUME NEW p \in C!Parts, C!Kill(p) PROVE Chained'
  <2>1. PICK gone \in SUBSET C!Parts :
            /\ stage' = [q \in C!Parts |-> IF q \in gone THEN "down" ELSE stage[q]]
            /\ mem' = [q \in C!Parts |-> IF q \in gone THEN Null ELSE mem[q]]
            /\ leaf' = IF "proxy" \in gone THEN C!NoLeaves ELSE leaf
            /\ hand' = IF "proxy" \in gone THEN [host |-> Null, by |-> Null] ELSE hand
    BY <1>2, Killed
  <2>2. CASE "proxy" \in gone
    BY <2>1, <2>2 DEF Chained, LeafTypes, HandChains, C!LeavesChain, C!NoLeaves
  <2>3. CASE "proxy" \notin gone
    BY <2>1, <2>3, ChainsKept, TwoParts
  <2>. QED BY <2>2, <2>3
<1>3. ASSUME NEW i \in Importers,
             \/ \E b \in Bundles : C!Upload(i, b)
             \/ C!ImportCert(i) \/ C!ImportKey(i) \/ C!ImportFails(i) \/ C!SwapCA(i) \/ C!ResetTLSLeafIssuer(i)
      PROVE  Chained'
  <2>1. /\ UNCHANGED <<stage, leaf, hand>>
        /\ mem' = mem \/ \E v : mem' = [mem EXCEPT !["mgmt"] = v]
    BY <1>3 DEF C!Upload, C!ImportCert, C!ImportKey, C!ImportFails, C!SwapCA, C!ResetTLSLeafIssuer, C!proxy
  <2>2. mem'["proxy"] = mem["proxy"]
    BY <2>1, TwoParts DEF CertsTypes
  <2>. QED BY <2>1, <2>2, ChainsKept
<1>4. ASSUME NEW i \in Importers, C!Clear(i) PROVE Chained'
  <2>1. UNCHANGED <<stage, mem, hand>> /\ leaf' \in {leaf, C!NoLeaves}
    BY <1>4 DEF C!Clear
  <2>. QED BY <2>1 DEF Chained, LeafTypes, HandChains, C!LeavesChain, C!NoLeaves
<1>5. ASSUME NEW h \in Hosts, C!Issue(h) PROVE Chained'
  BY <1>5 DEF Chained, LeafTypes, HandChains, C!LeavesChain, C!Issue
<1>6. ASSUME NEW h \in Hosts, C!Expire(h) PROVE Chained'
  BY <1>6 DEF Chained, LeafTypes, HandChains, C!LeavesChain, C!Expire
<1>7. CASE C!Cache
  BY <1>7 DEF Chained, LeafTypes, HandChains, C!LeavesChain, C!Cache
<1>8. CASE UNCHANGED certs
  BY <1>8, ChainsKept DEF certs
<1>. QED BY <1>1, <1>2, <1>3, <1>4, <1>5, <1>6, <1>7, <1>8 DEF C!Next, C!Import

(* Nobody is taken for up to date whose files were replaced.               *)
LEMMA HeldStep ==
    ASSUME Typed, Held, [C!Next]_certs PROVE Held'
<1>. USE DEF Held
<1>0. stage \in [C!Parts -> Stages] /\ mem \in [C!Parts -> Certificate \cup {Null}] /\ imp \in [Importers -> Imports]
  BY DEF Typed, CertsTypes, ImportTypes
<1>1. ASSUME NEW p \in C!Parts, C!Start(p) PROVE Held'
  <2>1. UNCHANGED <<crt, key, mem, imp, outdated>> /\ stage' = [stage EXCEPT ![p] = "crt"]
    BY <1>1 DEF C!Start, C!files, C!history
  <2>. QED BY <1>0, <2>1 DEF PartsHold, ImportsHold
<1>2. ASSUME NEW p \in C!Parts, C!ReadCert(p) PROVE Held'
  <2>1. /\ UNCHANGED <<crt, key, imp>> /\ stage' = [stage EXCEPT ![p] = "key"]
        /\ mem' = [mem EXCEPT ![p] = crt] /\ outdated' = outdated \ {p}
    BY <1>2 DEF C!ReadCert, C!files
  <2>2. PartsHold'
    BY <1>0, <2>1 DEF PartsHold
  <2>3. ImportsHold'
    BY <2>1, TwoParts DEF ImportsHold
  <2>. QED BY <2>2, <2>3
<1>3. ASSUME NEW p \in C!Parts, C!ReadKey(p) PROVE Held'
  <2>1. stage[p] = "key" /\ UNCHANGED <<crt, key, imp, outdated>>
    BY <1>3 DEF C!ReadKey, C!history
  <2>2. ImportsHold'
    BY <2>1 DEF ImportsHold
  <2>3. CASE C!Usable(mem[p], key)
    <3>1. UNCHANGED mem /\ stage' = [stage EXCEPT ![p] = "up"] /\ mem[p].ca = key
      BY <1>3, <2>3 DEF C!ReadKey, C!Up, C!Usable
    <3>. QED BY <1>0, <2>1, <2>2, <3>1 DEF PartsHold
  <2>4. CASE ~C!Usable(mem[p], key)
    <3>1. stage'[p] = "write crt" /\ \A q \in C!Parts : q # p => stage'[q] = stage[q] /\ mem'[q] = mem[q]
      BY <1>0, <1>3, <2>4 DEF C!ReadKey
    <3>. QED BY <2>1, <2>2, <3>1 DEF PartsHold
  <2>. QED BY <2>3, <2>4
<1>4. ASSUME NEW p \in C!Parts, C!WriteCert(p) PROVE Held'
  <2>1. /\ crt' = mem[p] /\ UNCHANGED <<key, mem, imp>> /\ stage' = [stage EXCEPT ![p] = "write key"]
        /\ Overtaken(p, {"key", "write key", "up"}, {"key", "swap"})
    BY <1>4, TwoParts, CertWritten DEF C!WriteCert
  <2>2. PartsHold'
    BY <1>0, <2>1 DEF PartsHold, Overtaken
  <2>3. ImportsHold'
    BY <2>1, TwoParts DEF ImportsHold, Overtaken
  <2>. QED BY <2>2, <2>3
<1>5. ASSUME NEW p \in C!Parts, C!WriteKey(p) PROVE Held'
  <2>1. /\ stage[p] = "write key" /\ key' = mem[p].ca /\ UNCHANGED <<crt, mem, imp>>
        /\ stage' = [stage EXCEPT ![p] = "up"] /\ (p \in outdated' <=> p \in outdated)
        /\ Overtaken(p, {"up"}, {"swap"})
    BY <1>5, TwoParts, KeyWritten DEF C!WriteKey, C!Up
  <2>2. PartsHold'
    BY <1>0, <2>1 DEF PartsHold, Overtaken
  <2>3. ImportsHold'
    BY <2>1, TwoParts DEF ImportsHold, Overtaken
  <2>. QED BY <2>2, <2>3
<1>6. ASSUME NEW p \in C!Parts, C!Kill(p) PROVE Held'
  <2>1. PICK gone \in SUBSET C!Parts :
            /\ stage' = [q \in C!Parts |-> IF q \in gone THEN "down" ELSE stage[q]]
            /\ mem' = [q \in C!Parts |-> IF q \in gone THEN Null ELSE mem[q]]
            /\ \A i \in Importers : imp'[i] = IF "mgmt" \in gone THEN C!NoImport ELSE imp[i]
            /\ \A q \in C!Parts : q \in outdated' <=> q \in outdated /\ q \notin gone
            /\ \A i \in Importers : i \in outdated' <=> i \in outdated /\ "mgmt" \notin gone
            /\ UNCHANGED <<crt, key>>
    BY <1>6, Killed
  <2>2. PartsHold'
    BY <2>1 DEF PartsHold
  <2>3. ImportsHold'
    BY <2>1 DEF ImportsHold, C!NoImport
  <2>. QED BY <2>2, <2>3
<1>7. ASSUME NEW i \in Importers, NEW b \in Bundles, C!Upload(i, b) PROVE Held'
  <2>1. /\ UNCHANGED <<crt, key, stage, mem, outdated>> /\ imp' = [imp EXCEPT ![i] = [pc |-> "crt", bundle |-> b]]
    BY <1>7 DEF C!Upload, C!files, C!history
  <2>. QED BY <1>0, <2>1 DEF PartsHold, ImportsHold
<1>8. ASSUME NEW i \in Importers, C!ImportCert(i) PROVE Held'
  <2>1. /\ crt' = imp[i].bundle.crt /\ UNCHANGED <<key, mem, stage>>
        /\ Overtaken(i, {"key", "write key", "up"}, {"key", "swap"})
    BY <1>8, TwoParts, CertWritten DEF C!ImportCert
  <2>2. imp'[i].pc = "key" /\ imp'[i].bundle = imp[i].bundle /\ \A j \in Importers : j # i => imp'[j] = imp[j]
    BY <1>0, <1>8, ImportMoves DEF C!ImportCert
  <2>3. PartsHold'
    BY <2>1, TwoParts DEF PartsHold, Overtaken
  <2>4. ImportsHold'
    BY <2>1, <2>2 DEF ImportsHold, Overtaken
  <2>. QED BY <2>3, <2>4
<1>9. ASSUME NEW i \in Importers, C!ImportKey(i) PROVE Held'
  <2>1. /\ imp[i].pc = "key" /\ key' = imp[i].bundle.key /\ UNCHANGED <<crt, mem, stage>>
        /\ (i \in outdated' <=> i \in outdated) /\ Overtaken(i, {"up"}, {"swap"})
    BY <1>9, TwoParts, KeyWritten DEF C!ImportKey
  <2>2. imp'[i].pc = "swap" /\ imp'[i].bundle = imp[i].bundle /\ \A j \in Importers : j # i => imp'[j] = imp[j]
    BY <1>0, <1>9, ImportMoves DEF C!ImportKey
  <2>3. PartsHold'
    BY <2>1, TwoParts DEF PartsHold, Overtaken
  <2>4. ImportsHold'
    BY <2>1, <2>2 DEF ImportsHold, Overtaken
  <2>. QED BY <2>3, <2>4
<1>10. ASSUME NEW i \in Importers, C!SwapCA(i) PROVE Held'
  <2>1. /\ imp[i].pc = "swap" /\ mem' = [mem EXCEPT !["mgmt"] = imp[i].bundle.crt] /\ UNCHANGED <<crt, key, stage>>
        /\ outdated' = (outdated \ {i, "mgmt"}) \cup IF i \in outdated THEN {"mgmt"} ELSE {}
    BY <1>10 DEF C!SwapCA, C!files
  <2>2. /\ imp'[i].pc = "reset" /\ \A j \in Importers : j # i => imp'[j] = imp[j]
        /\ C!Valid(imp[i].bundle)
    <3>1. imp' = [imp EXCEPT ![i].pc = "reset"]
      BY <1>10 DEF C!SwapCA
    <3>. QED BY <1>0, <1>10, <3>1, ImportMoves DEF Imports
  <2>3. i \notin outdated => crt = imp[i].bundle.crt /\ key = crt.ca
    BY <2>1, <2>2 DEF ImportsHold, C!Valid
  <2>4. PartsHold'
    BY <1>0, <2>1, <2>3, TwoParts DEF PartsHold
  <2>5. ImportsHold'
    BY <2>1, <2>2, TwoParts DEF ImportsHold
  <2>. QED BY <2>4, <2>5
<1>11. ASSUME NEW i \in Importers, C!ResetTLSLeafIssuer(i) PROVE Held'
  <2>1. imp'[i].pc = "clear" /\ \A j \in Importers : j # i => imp'[j] = imp[j]
    BY <1>0, <1>11, ImportMoves DEF C!ResetTLSLeafIssuer
  <2>2. UNCHANGED <<crt, key, mem, stage, outdated>>
    BY <1>11 DEF C!ResetTLSLeafIssuer, C!files, C!history
  <2>. QED BY <2>1, <2>2 DEF PartsHold, ImportsHold
<1>12. ASSUME NEW i \in Importers, C!Clear(i) \/ C!ImportFails(i) PROVE Held'
  <2>1. imp'[i].pc = "idle" /\ \A j \in Importers : j # i => imp'[j] = imp[j]
    BY <1>12, ImportEnds DEF C!NoImport
  <2>2. UNCHANGED <<crt, key, mem, stage>> /\ outdated' \in {outdated, outdated \ {i}}
    BY <1>12 DEF C!Clear, C!ImportFails, C!files, C!history
  <2>3. PartsHold'
    BY <2>2, TwoParts DEF PartsHold
  <2>4. ImportsHold'
    BY <2>1, <2>2 DEF ImportsHold
  <2>. QED BY <2>3, <2>4
<1>13. CASE (\E h \in Hosts : C!Issue(h) \/ C!Expire(h)) \/ C!Cache \/ UNCHANGED certs
  <2>1. UNCHANGED <<crt, key, stage, mem, imp, outdated>>
    BY <1>13 DEF C!Issue, C!Expire, C!Cache, C!files, C!history, certs
  <2>. QED BY <2>1 DEF PartsHold, ImportsHold
<1>. QED BY <1>1, <1>2, <1>3, <1>4, <1>5, <1>6, <1>7, <1>8, <1>9, <1>10, <1>11, <1>12, <1>13 DEF C!Next, C!Import

(* An import that neither has written one file only nor waits to be taken  *)
(* over by the server disturbs nobody.                                     *)
LEMMA PairUntouched ==
    ASSUME Typed, OneBetween, Loaders, Halves, PairWhole, Behind,
           UNCHANGED <<crt, key, rooted, stage, mixed, imported>>, \A p \in C!Parts : p \in outdated' => p \in outdated,
           \A j \in Importers : \/ imp'[j] = imp[j] /\ (j \in outdated' => j \in outdated)
                                \/ /\ imp[j].pc \in {"idle", "crt", "reset", "clear"}
                                   /\ imp'[j].pc \in {"idle", "crt", "reset", "clear"}
    PROVE  OneBetween' /\ Loaders' /\ Halves' /\ PairWhole' /\ Behind'
<1>1. \A a \in C!Actors : Between(a)' <=> Between(a)
  BY TwoParts DEF Between
<1>2. OneBetween' /\ PairWhole'
  BY <1>1 DEF OneBetween, PairWhole, Bare, Good, NobodyUp, C!Usable
<1>3. Loaders'
  BY <1>1 DEF Loaders, Bare, NobodyUp
<1>4. Halves'
  BY DEF Halves
<1>5. Behind'
  <2>1. (\E i \in Importers : imp[i].pc \in {"key", "swap"}) => \E i \in Importers : imp'[i].pc \in {"key", "swap"}
    OBVIOUS
  <2>2. \A i \in Importers : i \in outdated' /\ imp'[i].pc = "swap" => i \in outdated /\ imp[i].pc = "swap"
    OBVIOUS
  <2>. QED BY <2>1, <2>2, TwoParts DEF Behind
<1>. QED BY <1>2, <1>3, <1>4, <1>5

LEMMA PairedStep ==
    ASSUME Typed, Held, Paired, [C!Next]_certs PROVE Paired'
<1>. DEFINE AllFive == OneBetween /\ Loaders /\ Halves /\ PairWhole /\ Behind
<1>. SUFFICES ASSUME ~spoilt' PROVE AllFive'
  BY DEF Paired
<1>0. /\ stage \in [C!Parts -> Stages] /\ mem \in [C!Parts -> Certificate \cup {Null}] /\ rooted \in Nat
      /\ imp \in [Importers -> Imports]
  BY DEF Typed, CertsTypes, ImportTypes
<1>01. ~spoilt
  BY DEF C!Next, C!Import, C!Start, C!ReadCert, C!ReadKey, C!WriteCert, C!WriteKey, C!Kill, C!Upload, C!ImportCert,
         C!ImportKey, C!ImportFails, C!SwapCA, C!ResetTLSLeafIssuer, C!Clear, C!Issue, C!Expire, C!Cache, C!PutCert, C!PutKey,
         C!history, certs
<1>02. OneBetween /\ Loaders /\ Halves /\ PairWhole /\ Behind
  BY <1>01 DEF Paired
<1>03. \A i \in Importers : imp[i].pc # "idle" => stage["mgmt"] = "up" /\ ~NobodyUp
  BY TwoParts DEF Typed, ImportTypes, NobodyUp
<1>04. \A p \in C!Parts : Between(p) <=> stage[p] = "write key"
  BY DEF Between
<1>05. \A i \in Importers : Between(i) <=> imp[i].pc = "key"
  BY TwoParts DEF Between
<1>06. \A p \in C!Parts : Between(p)' <=> stage'[p] = "write key"
  BY DEF Between
<1>07. \A i \in Importers : Between(i)' <=> imp'[i].pc = "key"
  BY TwoParts DEF Between
<1>1. ASSUME NEW p \in C!Parts, C!Start(p) \/ C!ReadCert(p) PROVE AllFive'
  <2>1. /\ stage[p] \in {"down", "crt"} /\ UNCHANGED <<crt, key, rooted, imp, mixed, imported>>
        /\ outdated' \in {outdated, outdated \ {p}}
    BY <1>1 DEF C!Start, C!ReadCert, C!files, C!history
  <2>2. /\ stage'[p] \in {"crt", "key"} /\ (stage'[p] = "key" => p \notin outdated')
        /\ \A q \in C!Parts : q # p => stage'[q] = stage[q]
    BY <1>0, <1>1 DEF C!Start, C!ReadCert
  <2>3. \A a \in C!Actors : Between(a)' <=> Between(a)
    BY <1>04, <1>05, <1>06, <1>07, <2>1, <2>2, TwoParts
  <2>4. NobodyUp' <=> NobodyUp
    BY <2>1, <2>2 DEF NobodyUp
  <2>5. OneBetween' /\ PairWhole'
    BY <1>02, <2>1, <2>3, <2>4 DEF OneBetween, PairWhole, Bare, Good, C!Usable
  <2>6. Loaders'
    BY <1>02, <2>1, <2>2, <2>3, <2>4 DEF Loaders, Bare
  <2>7. Halves'
    BY <1>02, <2>1 DEF Halves
  <2>8. Behind'
    BY <1>02, <2>1, <2>2, TwoParts DEF Behind
  <2>. QED BY <2>5, <2>6, <2>7, <2>8
<1>2. ASSUME NEW p \in C!Parts, C!ReadKey(p) PROVE AllFive'
  <2>1. /\ stage[p] = "key" /\ UNCHANGED <<crt, key, rooted, imp, outdated, mixed, imported>>
    BY <1>2 DEF C!ReadKey, C!history
  <2>2. p \notin outdated /\ mem[p] = crt
    BY <1>02, <2>1 DEF Loaders, Held, PartsHold
  <2>3. Halves'
    BY <1>02, <2>1 DEF Halves
  <2>4. CASE C!Usable(mem[p], key)
    <3>1. stage'[p] = "up" /\ \A q \in C!Parts : q # p => stage'[q] = stage[q]
      BY <1>0, <1>2, <2>4 DEF C!ReadKey, C!Up
    <3>2. key # Null /\ ~Bare
      BY <2>4 DEF C!Usable, Bare
    <3>3. \A a \in C!Actors : Between(a)' <=> Between(a)
      BY <1>04, <1>05, <1>06, <1>07, <2>1, <3>1, TwoParts
    <3>4. OneBetween' /\ PairWhole'
      BY <1>02, <2>1, <3>2, <3>3 DEF OneBetween, PairWhole, Good, C!Usable
    <3>5. Loaders'
      BY <1>02, <2>1, <3>1, <3>2, <3>3 DEF Loaders
    <3>6. Behind'
      BY <1>02, <2>1, <2>2, <3>1, TwoParts DEF Behind
    <3>. QED BY <2>3, <3>4, <3>5, <3>6
  <2>5. CASE ~C!Usable(mem[p], key)
    <3>1. stage'[p] = "write crt" /\ \A q \in C!Parts : q # p => stage'[q] = stage[q]
      BY <1>0, <1>2, <2>5 DEF C!ReadKey
    <3>2. \A a \in C!Actors : Between(a)' <=> Between(a)
      BY <1>04, <1>05, <1>06, <1>07, <2>1, <3>1, TwoParts
    <3>3. NobodyUp' <=> NobodyUp
      BY <2>1, <3>1 DEF NobodyUp
    <3>4. Bare \/ \E a \in C!Actors : Between(a)
      BY <1>02, <2>2, <2>5 DEF PairWhole, Good
    <3>5. OneBetween' /\ PairWhole'
      BY <1>02, <2>1, <3>2, <3>3 DEF OneBetween, PairWhole, Bare, Good, C!Usable
    <3>6. Loaders'
      BY <1>02, <2>1, <3>1, <3>2, <3>3, <3>4 DEF Loaders, Bare
    <3>7. Behind'
      BY <1>02, <2>1, <3>1, TwoParts DEF Behind
    <3>. QED BY <2>3, <3>5, <3>6, <3>7
  <2>. QED BY <2>4, <2>5
<1>3. ASSUME NEW p \in C!Parts, C!WriteCert(p) PROVE AllFive'
  <2>1. /\ stage[p] = "write crt" /\ UNCHANGED <<key, rooted, imp>> /\ stage' = [stage EXCEPT ![p] = "write key"]
        /\ p \notin outdated' /\ Unspoilt(p, {"key", "write crt", "write key"})
    BY <1>3, TwoParts, CertWritten DEF C!WriteCert
  <2>2. /\ \A q \in C!Parts : q # p => stage[q] \notin {"key", "write crt", "write key"}
        /\ \A i \in Importers : imp[i].pc # "key"
    BY <2>1, TwoParts DEF Unspoilt
  <2>3. Bare
    <3>1. \A a \in C!Actors : ~Between(a)
      BY <1>04, <1>05, <2>1, <2>2, TwoParts
    <3>. QED BY <1>02, <2>1, <3>1 DEF Loaders
  <2>4. stage'[p] = "write key" /\ \A q \in C!Parts : q # p => stage'[q] = stage[q]
    BY <1>0, <2>1
  <2>5. NobodyUp' /\ key' = Null /\ rooted' = 0 /\ \A i \in Importers : imp[i].pc = "idle"
    BY <1>03, <2>1, <2>3, <2>4 DEF Bare, NobodyUp
  <2>6. \A a \in C!Actors : Between(a)' <=> a = p
    BY <1>06, <1>07, <2>1, <2>2, <2>4, TwoParts
  <2>7. OneBetween' /\ PairWhole'
    BY <2>6, TwoParts DEF OneBetween, PairWhole
  <2>8. Loaders'
    BY <2>1, <2>2, <2>4, <2>5 DEF Loaders
  <2>9. Halves' /\ Behind'
    BY <2>1, <2>5, TwoParts DEF Halves, Behind, NobodyUp
  <2>. QED BY <2>7, <2>8, <2>9
<1>4. ASSUME NEW p \in C!Parts, C!WriteKey(p) PROVE AllFive'
  <2>1. /\ stage[p] = "write key" /\ key' = mem[p].ca /\ rooted' = rooted + 1
        /\ UNCHANGED <<crt, imp>> /\ stage' = [stage EXCEPT ![p] = "up"]
        /\ (p \in outdated' <=> p \in outdated) /\ Overtaken(p, {"up"}, {"swap"})
        /\ Unspoilt(p, {"write crt", "write key"})
    BY <1>4, TwoParts, KeyWritten DEF C!WriteKey, C!Up
  <2>2. p \notin outdated /\ rooted = 0 /\ NobodyUp /\ mem[p] = crt
    BY <1>02, <2>1 DEF Loaders, Held, PartsHold
  <2>3. /\ \A q \in C!Parts : q # p => stage[q] \notin {"up", "write crt", "write key"}
        /\ \A i \in Importers : imp[i].pc = "idle"
    BY <1>03, <2>1, <2>2, TwoParts DEF Unspoilt, NobodyUp
  <2>4. stage'[p] = "up" /\ \A q \in C!Parts : q # p => stage'[q] = stage[q]
    BY <1>0, <2>1
  <2>5. mem[p] \in Certificate /\ ~mem[p].ends /\ mem[p].ca \in Nat
    BY <2>1 DEF Typed, GeneratedTypes, Certificate
  <2>6. rooted' <= 1
    <3>1. rooted = 0 /\ rooted' = rooted + 1
      BY <2>1, <2>2
    <3>. QED BY <3>1
  <2>7. Good'
    BY <2>1, <2>2, <2>5, <2>6, CertsAssumption DEF Good, C!Usable
  <2>8. \A a \in C!Actors : ~Between(a)'
    BY <1>06, <1>07, <2>1, <2>3, <2>4, TwoParts
  <2>9. OneBetween' /\ PairWhole'
    BY <2>7, <2>8 DEF OneBetween, PairWhole
  <2>10. Loaders'
    BY <1>02, <2>1, <2>2, <2>3, <2>4 DEF Loaders, Overtaken
  <2>11. Halves' /\ Behind'
    BY <2>1, <2>2, <2>3, <2>4, TwoParts DEF Halves, Behind
  <2>. QED BY <2>9, <2>10, <2>11
<1>5. ASSUME NEW p \in C!Parts, C!Kill(p) PROVE AllFive'
  <2>1. PICK gone \in SUBSET C!Parts :
            /\ stage' = [q \in C!Parts |-> IF q \in gone THEN "down" ELSE stage[q]]
            /\ \A i \in Importers : imp'[i] = IF "mgmt" \in gone THEN C!NoImport ELSE imp[i]
            /\ \A q \in C!Parts : q \in outdated' <=> q \in outdated /\ q \notin gone
            /\ \A i \in Importers : i \in outdated' <=> i \in outdated /\ "mgmt" \notin gone
            /\ \A q \in gone : stage[q] # "write key"
            /\ "mgmt" \in gone => \A i \in Importers : imp[i].pc # "key"
            /\ (mixed /\ "mgmt" \notin gone => mixed') /\ (imported /\ "proxy" \notin gone => imported')
            /\ UNCHANGED <<crt, key, rooted>>
    BY <1>5, Killed
  <2>2. \A q \in C!Parts : \/ q \in gone /\ stage'[q] = "down"
                           \/ q \notin gone /\ stage'[q] = stage[q]
    BY <2>1
  <2>21. \A i \in Importers : /\ "mgmt" \in gone => imp'[i].pc = "idle" /\ imp[i].pc # "key"
                              /\ "mgmt" \notin gone => imp'[i] = imp[i]
    <3>1. C!NoImport.pc = "idle"
      BY DEF C!NoImport
    <3>. QED BY <2>1, <3>1
  <2>3. \A a \in C!Actors : Between(a)' <=> Between(a)
    <3>1. \A q \in C!Parts : Between(q)' <=> Between(q)
      BY <1>04, <1>06, <2>1, <2>2
    <3>2. \A i \in Importers : Between(i)' <=> Between(i)
      BY <1>05, <1>07, <2>21
    <3>. QED BY <3>1, <3>2, TwoParts
  <2>4. NobodyUp => NobodyUp'
    BY <2>2 DEF NobodyUp
  <2>5. Bare => Bare'
    BY <2>1, <2>4 DEF Bare
  <2>6. OneBetween' /\ PairWhole'
    BY <1>02, <2>1, <2>3, <2>5 DEF OneBetween, PairWhole, Good, C!Usable
  <2>7. Loaders'
    BY <1>02, <2>1, <2>2, <2>3, <2>4, <2>5 DEF Loaders
  <2>8. Halves'
    BY <1>02, <2>1, <2>21 DEF Halves
  <2>9. Behind'
    BY <1>02, <2>1, <2>2, <2>21, TwoParts DEF Behind
  <2>. QED BY <2>6, <2>7, <2>8, <2>9
<1>6. ASSUME NEW i \in Importers, NEW b \in Bundles, C!Upload(i, b) PROVE AllFive'
  <2>1. /\ UNCHANGED <<crt, key, rooted, stage, mixed, imported, outdated>>
        /\ imp[i].pc = "idle" /\ imp' = [imp EXCEPT ![i] = [pc |-> "crt", bundle |-> b]]
    BY <1>6 DEF C!Upload, C!files, C!history, C!NoImport
  <2>2. \A j \in Importers : imp'[j] = imp[j] \/ (imp[j].pc = "idle" /\ imp'[j].pc = "crt")
    BY <1>0, <2>1
  <2>. QED BY <1>02, <2>1, <2>2, PairUntouched
<1>7. ASSUME NEW i \in Importers, C!ImportCert(i) PROVE AllFive'
  <2>1. /\ imp[i].pc = "crt" /\ UNCHANGED <<key, rooted, stage>> /\ i \notin outdated'
        /\ mixed' = (mixed \/ C!Meets(i)) /\ imported' = (stage["proxy"] # "down")
        /\ Overtaken(i, {"key", "write key", "up"}, {"key", "swap"}) /\ Unspoilt(i, {"key", "write crt", "write key"})
    BY <1>7, TwoParts, CertWritten DEF C!ImportCert
  <2>2. /\ \A q \in C!Parts : stage[q] \notin {"key", "write crt", "write key"}
        /\ \A j \in Importers : imp[j].pc # "key"
    BY <2>1, TwoParts DEF Unspoilt
  <2>3. imp'[i].pc = "key" /\ \A j \in Importers : j # i => imp'[j] = imp[j]
    BY <1>0, <1>7, ImportMoves DEF C!ImportCert
  <2>4. rooted <= 1
    <3>1. \A a \in C!Actors : ~Between(a)
      BY <1>04, <1>05, <2>2, TwoParts
    <3>. QED BY <1>02, <1>03, <2>1, <3>1 DEF PairWhole, Bare, Good
  <2>5. \A a \in C!Actors : Between(a)' <=> a = i
    BY <1>06, <1>07, <2>1, <2>2, <2>3, TwoParts
  <2>6. OneBetween' /\ PairWhole'
    BY <2>5, TwoParts DEF OneBetween, PairWhole
  <2>7. Loaders' /\ Halves'
    BY <2>1, <2>2, <2>3, <2>4 DEF Loaders, Halves
  <2>8. Behind'
    BY <2>1, <2>3 DEF Behind, C!Meets
  <2>. QED BY <2>6, <2>7, <2>8
<1>8. ASSUME NEW i \in Importers, C!ImportKey(i) PROVE AllFive'
  <2>1. /\ imp[i].pc = "key" /\ key' = imp[i].bundle.key /\ ~crt.ends /\ UNCHANGED <<crt, rooted, stage>>
        /\ mixed' = (mixed \/ C!Meets(i)) /\ imported' = (stage["proxy"] # "down")
        /\ (i \in outdated' <=> i \in outdated) /\ Overtaken(i, {"up"}, {"swap"})
        /\ Unspoilt(i, {"write crt", "write key"})
    BY <1>8, TwoParts, KeyWritten DEF C!ImportKey
  <2>2. /\ \A q \in C!Parts : stage[q] \notin {"write crt", "write key"}
        /\ \A j \in Importers : j # i => imp[j].pc # "key"
    BY <2>1, TwoParts DEF Unspoilt
  <2>3. imp'[i].pc = "swap" /\ \A j \in Importers : j # i => imp'[j] = imp[j]
    BY <1>0, <1>8, ImportMoves DEF C!ImportKey
  <2>4. i \notin outdated /\ rooted <= 1 /\ crt = imp[i].bundle.crt
    BY <1>02, <2>1 DEF Halves, Held, ImportsHold
  <2>5. C!Valid(imp[i].bundle) /\ crt # Null /\ key' # Null
    BY <1>8, <2>1, <2>4, ImportMoves, CertsAssumption
  <2>6. Good'
    BY <2>1, <2>4, <2>5 DEF Good, C!Usable, C!Valid
  <2>7. \A a \in C!Actors : ~Between(a)'
    BY <1>06, <1>07, <2>1, <2>2, <2>3, TwoParts
  <2>8. OneBetween' /\ PairWhole'
    BY <2>6, <2>7 DEF OneBetween, PairWhole
  <2>9. Loaders'
    BY <1>02, <2>1, <2>2, TwoParts DEF Loaders, Overtaken
  <2>10. Halves'
    BY <2>2, <2>3 DEF Halves
  <2>11. Behind'
    BY <1>02, <2>1, <2>3, <2>4 DEF Behind, C!Meets
  <2>. QED BY <2>8, <2>9, <2>10, <2>11
<1>9. ASSUME NEW i \in Importers, C!SwapCA(i) PROVE AllFive'
  <2>1. /\ imp[i].pc = "swap" /\ UNCHANGED <<crt, key, rooted, stage, mixed, imported>>
        /\ outdated' = (outdated \ {i, "mgmt"}) \cup IF i \in outdated THEN {"mgmt"} ELSE {}
    BY <1>9 DEF C!SwapCA, C!files
  <2>2. imp'[i].pc = "reset" /\ (\A j \in Importers : j # i => imp'[j] = imp[j]) /\ stage["mgmt"] = "up"
    <3>1. imp' = [imp EXCEPT ![i].pc = "reset"]
      BY <1>9 DEF C!SwapCA
    <3>. QED BY <1>0, <1>9, <3>1, ImportMoves DEF Imports
  <2>3. /\ i \notin C!Parts /\ "mgmt" \notin Importers
        /\ \A p \in C!Parts \ {"mgmt"} : p \in outdated' <=> p \in outdated
        /\ \A j \in Importers : j # i => (j \in outdated' <=> j \in outdated)
        /\ "mgmt" \in outdated' => i \in outdated
    BY <2>1, TwoParts
  <2>4. \A a \in C!Actors : Between(a)' <=> Between(a)
    BY <1>04, <1>05, <1>06, <1>07, <2>1, <2>2, TwoParts
  <2>5. OneBetween' /\ PairWhole'
    BY <1>02, <2>1, <2>4 DEF OneBetween, PairWhole, Bare, Good, NobodyUp, C!Usable
  <2>6. Loaders'
    BY <1>02, <2>1, <2>2, <2>3, <2>4 DEF Loaders, Bare, NobodyUp
  <2>7. Halves'
    BY <1>02, <2>1, <2>2, <2>3 DEF Halves
  <2>8. Behind'
    BY <1>02, <2>1, <2>2, <2>3, TwoParts DEF Behind
  <2>. QED BY <2>5, <2>6, <2>7, <2>8
<1>10. ASSUME NEW i \in Importers, C!ResetTLSLeafIssuer(i) PROVE AllFive'
  <2>1. imp[i].pc = "reset" /\ UNCHANGED <<crt, key, rooted, stage, mixed, imported, outdated>>
    BY <1>10 DEF C!ResetTLSLeafIssuer, C!files, C!history
  <2>2. imp'[i].pc = "clear" /\ \A j \in Importers : j # i => imp'[j] = imp[j]
    BY <1>0, <1>10, ImportMoves DEF C!ResetTLSLeafIssuer
  <2>. QED BY <1>02, <2>1, <2>2, PairUntouched
<1>11. ASSUME NEW i \in Importers, C!Clear(i) \/ C!ImportFails(i) PROVE AllFive'
  <2>1. /\ UNCHANGED <<crt, key, rooted, stage, mixed, imported>> /\ outdated' \in {outdated, outdated \ {i}}
        /\ imp[i].pc \in {"crt", "clear"}
    BY <1>11, TwoParts DEF C!Clear, C!ImportFails, C!Half, C!files, C!history
  <2>2. imp'[i].pc = "idle" /\ \A j \in Importers : j # i => imp'[j] = imp[j]
    BY <1>11, ImportEnds DEF C!NoImport
  <2>. QED BY <1>02, <2>1, <2>2, PairUntouched
<1>12. CASE (\E h \in Hosts : C!Issue(h) \/ C!Expire(h)) \/ C!Cache \/ UNCHANGED certs
  <2>1. UNCHANGED <<crt, key, rooted, stage, imp, mixed, imported, outdated>>
    BY <1>12 DEF C!Issue, C!Expire, C!Cache, C!files, C!history, certs
  <2>. QED BY <1>02, <2>1, PairUntouched
<1>. QED BY <1>1, <1>2, <1>3, <1>4, <1>5, <1>6, <1>7, <1>8, <1>9, <1>10, <1>11, <1>12 DEF C!Next, C!Import

LEMMA CertsStart == C!Init => CertsInv
<1>. SUFFICES ASSUME C!Init PROVE CertsInv
  OBVIOUS
<1>1. /\ \A p \in C!Parts : stage[p] = "down"
      /\ \A i \in Importers : imp[i].pc = "idle"
      /\ crt = Null /\ key = Null /\ rooted = 0 /\ hand.host = Null /\ outdated = {}
  BY DEF C!Init, C!NoImport
<1>2. CertsTypes
  BY DEF C!Init, CertsTypes, Stages
<1>3. ImportTypes
  <2>1. C!NoImport \in Imports
    BY DEF C!NoImport, Imports, ImportSteps
  <2>. QED BY <1>1, <2>1 DEF C!Init, ImportTypes
<1>4. GeneratedTypes
  BY <1>1 DEF GeneratedTypes
<1>5. Chained
  BY <1>1 DEF C!Init, C!NoLeaves, Chained, LeafTypes, HandChains, C!LeavesChain
<1>6. Held
  BY <1>1 DEF Held, PartsHold, ImportsHold
<1>7. \A a \in C!Actors : ~Between(a)
  BY <1>1, TwoParts DEF Between
<1>8. OneBetween /\ Loaders /\ Halves /\ PairWhole /\ Behind
  BY <1>1, <1>7, TwoParts DEF OneBetween, Loaders, Halves, PairWhole, Behind, Bare, NobodyUp
<1>. QED BY <1>2, <1>3, <1>4, <1>5, <1>6, <1>8 DEF CertsInv, Typed, Paired

(* Whatever is uploaded, by any number at once, killed or restarted,       *)
(* together or apart: no restart makes another root unless the pair was    *)
(* spoilt; whoever is up and had no file replaced since signs with the     *)
(* pair on disk; of a pair that was not spoilt, only the proxy after an    *)
(* import, and the management server during one or after two that          *)
(* overlapped, had; and no leaf outlives its issuer.                       *)
THEOREM RootSoundAlways == StandaloneSpec => []RootSound
<1>. DEFINE Inv == which = "certs" => CertsInv
<1>1. ComponentsInit => Inv
  BY CertsStart DEF ComponentsInit
<1>2. Inv /\ [ComponentsNext]_standaloneVars => Inv'
  <2>. SUFFICES ASSUME Inv, [ComponentsNext]_standaloneVars, which' = "certs" PROVE CertsInv'
    OBVIOUS
  <2>1. which = "certs" /\ [C!Next]_certs
    BY DEF ComponentsNext, standaloneVars
  <2>. QED BY <2>1, TypedStep, ChainedStep, HeldStep, PairedStep DEF CertsInv
<1>3. Inv => RootSound
  <2>. SUFFICES ASSUME CertsInv PROVE C!RootSound
    BY DEF RootSound
  <2>1. C!LeavesChain
    BY DEF CertsInv, Chained
  <2>2. C!OneRoot
    BY DEF CertsInv, Held, PartsHold, C!OneRoot
  <2>3. C!WhoLags
    BY DEF CertsInv, Paired, Behind, C!WhoLags
  <2>4. C!RootKept
    <3>1. ASSUME ~spoilt PROVE rooted <= 1 \/ rooted = 0
      <4>1. CASE \A a \in C!Actors : ~Between(a)
        BY <3>1, <4>1 DEF CertsInv, Paired, PairWhole, Bare, Good
      <4>2. CASE \E a \in C!Actors : Between(a)
        BY <3>1, <4>2, TwoParts DEF CertsInv, Paired, Between, Loaders, Halves
      <4>. QED BY <4>1, <4>2
    <3>. QED BY <3>1 DEF C!RootKept
  <2>. QED BY <2>1, <2>2, <2>3, <2>4 DEF C!RootSound
<1>. QED BY <1>1, <1>2, <1>3, PTL DEF StandaloneSpec

-----------------------------------------------------------------------------
(* DohCache.  Some of what lookups came to, and may still be kept, says    *)
(* what the cache says, and may be kept at least as long.                  *)

(* Minima of naturals, maxima of what is bounded, and bounds of sequences. *)
LEMMA Least == \A Z \in SUBSET Nat : Z # {} => \E x \in Z : \A y \in Z : x <= y
<1>. SUFFICES ASSUME NEW Z \in SUBSET Nat, Z # {} PROVE \E x \in Z : \A y \in Z : x <= y
  OBVIOUS
<1>1. PICK x \in Z : \A y \in Z : <<y, x>> \notin OpToRel(<, Nat)
  BY NatLessThanWellFounded, WFMin, Zenon
<1>2. \A y \in Z : <<y, x>> \notin OpToRel(<, Nat) => ~ (y < x)
  BY Zenon DEF OpToRel
<1>3. \A y \in Z : ~ (y < x) /\ x \in Nat /\ y \in Nat
  BY <1>1, <1>2
<1>4. \A y \in Z : x <= y
  BY <1>3
<1>. QED BY <1>4

LEMMA MinOf ==
    ASSUME NEW Z \in SUBSET Nat, Z # {}
    PROVE  H!Min(Z) \in Z /\ \A y \in Z : H!Min(Z) <= y
BY Least DEF H!Min

LEMMA MaxOf ==
    ASSUME NEW Z \in SUBSET Nat, Z # {}, NEW n \in Nat, \A x \in Z : x <= n
    PROVE  H!Max(Z) \in Z /\ \A y \in Z : y <= H!Max(Z)
<1>. DEFINE T == {b \in Nat : \A x \in Z : x <= b}
<1>1. PICK b \in T : \A c \in T : b <= c
  BY Least
<1>2. b \in Nat /\ \A x \in Z : x <= b
  BY <1>1
<1>3. b \in Z
  <2>. SUFFICES ASSUME b \notin Z PROVE FALSE
    OBVIOUS
  <2>1. \A x \in Z : x \in Nat /\ x # b /\ x <= b
    BY <1>2
  <2>2. \A x \in Z : x <= b - 1
    <3>. SUFFICES ASSUME NEW x \in Z PROVE x <= b - 1
      OBVIOUS
    <3>1. b \in Nat /\ x \in Nat /\ x # b /\ x <= b
      BY <1>2, <2>1
    <3>. QED BY <3>1
  <2>3. b - 1 \in Nat
    <3>1. PICK x \in Z : x \in Nat /\ x <= b /\ x # b
      BY <2>1
    <3>. QED BY <1>2, <3>1
  <2>4. b <= b - 1
    BY <1>1, <2>2, <2>3
  <2>. QED BY <1>2, <2>4
<1>. QED BY <1>2, <1>3 DEF H!Max

LEMMA SequenceBounded ==
    \A n \in Nat : \A f \in [1..n -> Nat] : \E b \in Nat : \A i \in 1..n : f[i] <= b
<1>. DEFINE Bounded(n) == \A f \in [1..n -> Nat] : \E b \in Nat : \A i \in 1..n : f[i] <= b
            Free == {n \in Nat : ~Bounded(n)}
<1>. SUFFICES ASSUME Free # {} PROVE FALSE
  OBVIOUS
<1>1. PICK n \in Free : \A k \in Free : n <= k
  BY Least
<1>2. n \in Nat /\ ~Bounded(n)
  BY <1>1
<1>3. \A k \in Nat : k < n => Bounded(k)
  <2>. SUFFICES ASSUME NEW k \in Nat, k < n, ~Bounded(k) PROVE FALSE
    OBVIOUS
  <2>1. n <= k
    BY <1>1
  <2>. QED BY <1>2, <2>1
<1>4. PICK f \in [1..n -> Nat] : \A b \in Nat : \E i \in 1..n : ~ (f[i] <= b)
  BY <1>2
<1>5. n # 0
  <2>. SUFFICES ASSUME n = 0 PROVE FALSE
    OBVIOUS
  <2>1. \A b \in Nat : \E i \in 1..0 : TRUE
    BY <1>4
  <2>. QED BY <2>1
<1>6. PICK k \in Nat : n = k + 1
  <2>1. n - 1 \in Nat /\ n = (n - 1) + 1
    BY <1>2, <1>5
  <2>. QED BY <2>1
<1>7. /\ k < n /\ n \in 1..n /\ \A i \in 1..k : i \in 1..n
      /\ \A i \in 1..n : i = n \/ i \in 1..k
  <2>1. k \in Nat /\ n = k + 1
    BY <1>6
  <2>2. k < n /\ n \in 1..n
    BY <2>1
  <2>3. \A i \in 1..k : i \in 1..n
    BY <2>1
  <2>4. \A i \in 1..n : i = n \/ i \in 1..k
    BY <2>1
  <2>. QED BY <2>2, <2>3, <2>4
<1>. DEFINE g == [i \in 1..k |-> f[i]]
<1>8. g \in [1..k -> Nat]
  BY <1>7
<1>9. Bounded(k)
  BY <1>3, <1>7
<1>. HIDE DEF Free
<1>10. PICK b \in Nat : \A i \in 1..k : g[i] <= b
  BY <1>8, <1>9
<1>. HIDE DEF Bounded
<1>11. f[n] \in Nat
  BY <1>7
<1>12. PICK c \in Nat : b <= c /\ f[n] <= c
  <2>. DEFINE x == f[n]
  <2>. HIDE DEF x
  <2>1. x \in Nat
    BY <1>11 DEF x
  <2>2. b <= b + x /\ x <= b + x /\ b + x \in Nat
    BY <2>1
  <2>. QED BY <2>2 DEF x
<1>13. \A i \in 1..n : f[i] <= c
  <2>. SUFFICES ASSUME NEW i \in 1..n PROVE f[i] <= c
    OBVIOUS
  <2>1. CASE i = n
    BY <1>12, <2>1
  <2>2. CASE i \in 1..k
    <3>1. g[i] <= b /\ g[i] = f[i] /\ f[i] \in Nat
      BY <1>7, <1>10, <2>2
    <3>. DEFINE x == f[i]
    <3>2. x \in Nat /\ x <= b
      BY <3>1
    <3>. HIDE DEF x
    <3>3. x <= c
      BY <1>12, <3>2
    <3>. QED BY <3>3 DEF x
  <2>. QED BY <1>7, <2>1, <2>2
<1>. QED BY <1>4, <1>13

LEMMA Lifetimes == DefaultTTL \in Nat /\ FailTTL \in Nat /\ MaxTTL \in Nat
BY DohAssumption

(* The records of a message are numbered from 1.                           *)
LEMMA Records ==
    ASSUME NEW m \in Answers
    PROVE  /\ \E n \in Nat : DOMAIN m.records = 1..n
           /\ DOMAIN m.records \subseteq Nat \ {0}
           /\ \A i \in DOMAIN m.records : m.records[i].ttl \in Nat
<1>1. m.records \in Seq({m.records[i] : i \in DOMAIN m.records}) /\ \A i \in DOMAIN m.records : m.records[i].ttl \in Nat
  BY DohAssumption
<1>2. Len(m.records) \in Nat /\ DOMAIN m.records = 1..Len(m.records)
  BY <1>1
<1>. QED BY <1>1, <1>2

(* classifyDoh takes a message to block where it says so, whatever its     *)
(* records are, and gives it a lifetime of its own.                        *)
LEMMA BlocksAsSaid ==
    ASSUME NEW m \in Answers
    PROVE  /\ H!Blocks(m) <=> H!SaysBlocked(m)
           /\ H!FirstSink(m) # 0 => H!FirstSink(m) \in DOMAIN m.records
<1>. DEFINE sinks == {i \in DOMAIN m.records : H!Sinks(m.records[i])}
<1>1. sinks \in SUBSET Nat /\ 0 \notin sinks
  BY Records
<1>2. CASE sinks = {}
  <2>1. H!FirstSink(m) = 0
    BY <1>2 DEF H!FirstSink
  <2>2. ~ \E i \in DOMAIN m.records : m.records[i].addr \in BlockAddrs
    BY <1>2 DEF H!Sinks
  <2>. QED BY <2>1, <2>2 DEF H!Blocks, H!Signal, H!SaysBlocked
<1>3. CASE sinks # {}
  <2>1. H!FirstSink(m) = H!Min(sinks)
    BY <1>3 DEF H!FirstSink
  <2>2. H!FirstSink(m) \in sinks
    BY <1>1, <1>3, <2>1, MinOf
  <2>3. \E i \in DOMAIN m.records : m.records[i].addr \in BlockAddrs
    BY <2>2 DEF H!Sinks
  <2>. QED BY <1>1, <2>2, <2>3 DEF H!Blocks, H!Signal, H!SaysBlocked
<1>. QED BY <1>2, <1>3

(* What comes back is a sequence of messages.                              *)
LEMMA OutcomeTypes ==
    ASSUME NEW msgs \in H!Outcomes
    PROVE  /\ \E n \in Nat : DOMAIN msgs = 1..n
           /\ \A i \in DOMAIN msgs : msgs[i] \in Answers
           /\ H!Range(msgs) = {msgs[i] : i \in DOMAIN msgs}
           /\ H!Range(msgs) \subseteq Answers
           /\ H!Range(msgs) = {} => msgs = <<>>
<1>1. CASE msgs = <<>>
  BY <1>1 DEF H!Range
<1>2. ASSUME NEW m \in Answers, msgs = <<m>> PROVE DOMAIN msgs = 1..1 /\ msgs[1] \in Answers
  BY <1>2
<1>3. ASSUME NEW m \in Answers, NEW n \in Answers, msgs = <<m, n>>
      PROVE  DOMAIN msgs = 1..2 /\ msgs[1] \in Answers /\ msgs[2] \in Answers
  BY <1>3
<1>4. \/ msgs = <<>>
      \/ DOMAIN msgs = 1..1 /\ msgs[1] \in Answers
      \/ DOMAIN msgs = 1..2 /\ msgs[1] \in Answers /\ msgs[2] \in Answers
  BY <1>2, <1>3 DEF H!Outcomes
<1>5. CASE DOMAIN msgs = 1..1 /\ msgs[1] \in Answers
  <2>1. \A i \in DOMAIN msgs : msgs[i] \in Answers
    BY <1>5
  <2>. QED BY <1>5, <2>1 DEF H!Range
<1>6. CASE DOMAIN msgs = 1..2 /\ msgs[1] \in Answers /\ msgs[2] \in Answers
  <2>1. \A i \in DOMAIN msgs : msgs[i] \in Answers
    BY <1>6
  <2>. QED BY <1>6, <2>1 DEF H!Range
<1>. QED BY <1>1, <1>4, <1>5, <1>6

(* The lifetimes of a set of messages have a largest one.                  *)
LEMMA LongestLifetime ==
    ASSUME NEW msgs \in H!Outcomes, msgs # <<>>
    PROVE  \E top \in Nat :
              /\ H!Lifetime(H!Range(msgs)) = H!Min({MaxTTL, top})
              /\ 1 <= top /\ DefaultTTL <= top
              /\ \A m \in H!Range(msgs) : \A i \in DOMAIN m.records : m.records[i].ttl <= top
<1>. DEFINE ttls == UNION {{m.records[i].ttl : i \in DOMAIN m.records} : m \in H!Range(msgs)}
            Z == {1, DefaultTTL} \cup ttls
<1>1. PICK n \in Nat : DOMAIN msgs = 1..n
  BY OutcomeTypes
<1>2. \A m \in Answers : \E b \in Nat : \A i \in DOMAIN m.records : m.records[i].ttl <= b
  <2>. SUFFICES ASSUME NEW m \in Answers PROVE \E b \in Nat : \A i \in DOMAIN m.records : m.records[i].ttl <= b
    OBVIOUS
  <2>1. PICK k \in Nat : DOMAIN m.records = 1..k
    BY Records
  <2>. DEFINE f == [i \in 1..k |-> m.records[i].ttl]
  <2>2. f \in [1..k -> Nat]
    BY <2>1, Records
  <2>3. PICK b \in Nat : \A i \in 1..k : f[i] <= b
    BY <2>2, SequenceBounded
  <2>. QED BY <2>1, <2>3
<1>. DEFINE Bound(m) == CHOOSE b \in Nat : \A i \in DOMAIN m.records : m.records[i].ttl <= b
<1>3. \A m \in Answers : Bound(m) \in Nat /\ \A i \in DOMAIN m.records : m.records[i].ttl <= Bound(m)
  BY <1>2
<1>. HIDE DEF Bound
<1>. DEFINE f == [i \in 1..n |-> Bound(msgs[i])]
<1>4. f \in [1..n -> Nat]
  BY <1>1, <1>3, OutcomeTypes
<1>5. PICK b \in Nat : \A i \in 1..n : f[i] <= b
  BY <1>4, SequenceBounded
<1>6. \A m \in H!Range(msgs) : m \in Answers /\ Bound(m) <= b
  <2>. SUFFICES ASSUME NEW m \in H!Range(msgs) PROVE m \in Answers /\ Bound(m) <= b
    OBVIOUS
  <2>1. PICK i \in 1..n : m = msgs[i]
    BY <1>1, OutcomeTypes
  <2>. QED BY <1>5, <2>1, OutcomeTypes
<1>7. ttls \subseteq Nat
  BY <1>6, Records
<1>8. \A x \in ttls : x <= b
  <2>. SUFFICES ASSUME NEW m \in H!Range(msgs), NEW i \in DOMAIN m.records PROVE m.records[i].ttl <= b
    OBVIOUS
  <2>1. m.records[i].ttl \in Nat /\ Bound(m) \in Nat /\ m.records[i].ttl <= Bound(m) /\ Bound(m) <= b
    BY <1>3, <1>6, Records
  <2>. QED BY <2>1
<1>. HIDE DEF ttls
<1>9. Z \in SUBSET Nat /\ Z # {}
  BY <1>7, Lifetimes
<1>10. \A x \in Z : x <= b + DefaultTTL + 1
  <2>. SUFFICES ASSUME NEW x \in Z PROVE x <= b + DefaultTTL + 1
    OBVIOUS
  <2>1. x \in Nat /\ (x = 1 \/ x = DefaultTTL \/ x <= b) /\ DefaultTTL \in Nat
    BY <1>8, <1>9, Lifetimes
  <2>. QED BY <2>1
<1>11. b + DefaultTTL + 1 \in Nat
  BY Lifetimes
<1>. DEFINE top == H!Max(Z)
<1>12. top \in Z /\ \A x \in Z : x <= top
  BY <1>9, <1>10, <1>11, MaxOf
<1>13. top \in Nat /\ 1 <= top /\ DefaultTTL <= top /\ \A x \in ttls : x <= top
  BY <1>9, <1>12
<1>14. H!Lifetime(H!Range(msgs)) = H!Min({MaxTTL, top})
  BY OutcomeTypes DEF H!Lifetime, ttls
<1>15. \A m \in H!Range(msgs) : \A i \in DOMAIN m.records : m.records[i].ttl \in ttls
  BY DEF ttls
<1>. HIDE DEF Z, top
<1>. QED BY <1>13, <1>14, <1>15

LEMMA SmallerOfTwo ==
    ASSUME NEW a \in Nat, NEW b \in Nat
    PROVE  H!Min({a, b}) \in Nat /\ H!Min({a, b}) <= a /\ H!Min({a, b}) <= b /\ H!Min({a, b}) \in {a, b}
BY MinOf

(* Classify says what the messages say, for no longer than they may be     *)
(* kept.                                                                   *)
LEMMA ClassifiedAsSaid ==
    ASSUME NEW msgs \in H!Outcomes, msgs # <<>>
    PROVE  /\ H!Classify(msgs).blocked = (\E m \in H!Range(msgs) : H!SaysBlocked(m))
           /\ H!Min({H!Classify(msgs).ttl, MaxTTL}) \in Nat
           /\ H!Lifetime(H!Range(msgs)) \in Nat
           /\ H!Min({H!Classify(msgs).ttl, MaxTTL}) <= H!Lifetime(H!Range(msgs))
<1>. DEFINE c == H!Classify(msgs)
            blocking == {i \in DOMAIN msgs : H!Blocks(msgs[i])}
<1>1. PICK top \in Nat :
              /\ H!Lifetime(H!Range(msgs)) = H!Min({MaxTTL, top})
              /\ 1 <= top /\ DefaultTTL <= top
              /\ \A m \in H!Range(msgs) : \A i \in DOMAIN m.records : m.records[i].ttl <= top
  BY LongestLifetime
<1>2. blocking \in SUBSET Nat
  BY OutcomeTypes
<1>3. blocking # {} <=> \E m \in H!Range(msgs) : H!SaysBlocked(m)
  BY OutcomeTypes, BlocksAsSaid
<1>4. c.blocked = (\E m \in H!Range(msgs) : H!SaysBlocked(m)) /\ c.ttl \in Nat /\ c.ttl <= top
  <2>1. CASE blocking # {}
    <3>. DEFINE m == msgs[H!Min(blocking)]
    <3>1. H!Min(blocking) \in blocking
      BY <1>2, <2>1, MinOf
    <3>2. m \in Answers /\ m \in H!Range(msgs) /\ H!Blocks(m)
      BY <3>1, OutcomeTypes
    <3>3. c.blocked = TRUE /\ c.ttl = H!BlockTTL(m)
      BY <2>1 DEF H!Classify
    <3>. HIDE DEF m
    <3>4. CASE H!Signal(m)
      BY <1>1, <1>3, <2>1, <3>3, <3>4, Lifetimes DEF H!BlockTTL
    <3>5. CASE ~H!Signal(m)
      <4>. DEFINE t == m.records[H!FirstSink(m)].ttl
      <4>1. H!FirstSink(m) \in DOMAIN m.records
        BY <3>2, <3>5, BlocksAsSaid DEF H!Blocks
      <4>2. t \in Nat /\ t <= top
        BY <1>1, <3>2, <4>1, Records
      <4>3. c.ttl = IF t < 1 THEN 1 ELSE t
        BY <3>3, <3>5 DEF H!BlockTTL, H!AtLeast1
      <4>. HIDE DEF t
      <4>4. c.ttl \in Nat /\ c.ttl <= top
        BY <1>1, <4>2, <4>3
      <4>. QED BY <1>3, <2>1, <3>3, <4>4
    <3>. QED BY <3>4, <3>5
  <2>2. CASE blocking = {}
    <3>. DEFINE Z == {DefaultTTL} \cup UNION {H!Bounds(msgs[i]) : i \in DOMAIN msgs}
    <3>1. c.blocked = FALSE /\ c.ttl = H!Min(Z)
      BY <2>2 DEF H!Classify
    <3>2. \A m \in Answers : H!Bounds(m) \subseteq Nat
      BY Records DEF H!Bounds, H!AtLeast1
    <3>3. Z \in SUBSET Nat /\ DefaultTTL \in Z
      <4>1. \A i \in DOMAIN msgs : H!Bounds(msgs[i]) \subseteq Nat
        BY <3>2, OutcomeTypes
      <4>2. UNION {H!Bounds(msgs[i]) : i \in DOMAIN msgs} \subseteq Nat
        BY <4>1
      <4>. QED BY <4>2, Lifetimes
    <3>. HIDE DEF Z
    <3>4. H!Min(Z) \in Nat /\ H!Min(Z) <= DefaultTTL
      BY <3>3, MinOf
    <3>5. c.ttl \in Nat /\ c.ttl <= DefaultTTL
      BY <3>1, <3>4
    <3>. HIDE DEF c
    <3>6. c.ttl <= top
      BY <1>1, <3>5, Lifetimes
    <3>. QED BY <1>3, <2>2, <3>1, <3>5, <3>6
  <2>. QED BY <2>1, <2>2
<1>. HIDE DEF c
<1>5. MaxTTL \in Nat
  BY Lifetimes
<1>6. H!Min({c.ttl, MaxTTL}) \in Nat /\ H!Min({c.ttl, MaxTTL}) <= c.ttl /\ H!Min({c.ttl, MaxTTL}) <= MaxTTL
  BY <1>4, <1>5, SmallerOfTwo
<1>7. H!Min({MaxTTL, top}) \in {MaxTTL, top}
  BY <1>5, SmallerOfTwo
<1>8. H!Min({c.ttl, MaxTTL}) <= MaxTTL /\ H!Min({c.ttl, MaxTTL}) <= top
  BY <1>4, <1>6
<1>9. H!Min({c.ttl, MaxTTL}) <= H!Min({MaxTTL, top}) /\ H!Min({MaxTTL, top}) \in Nat
  BY <1>5, <1>7, <1>8
<1>. QED BY <1>1, <1>4, <1>6, <1>9 DEF c

DohTypes ==
    /\ clock \in Nat
    /\ look \in [Requests -> [waits : BOOLEAN, now : Nat]]
    /\ entry # Nothing => entry.expires \in Nat
    /\ \A g \in said : g.ends \in Nat
Kept ==
    entry # Nothing /\ clock < entry.expires =>
        \E g \in said : g.blocked = entry.blocked /\ entry.expires <= g.ends
DohInv == DohTypes /\ Kept /\ H!VerdictOnGrounds

LEMMA DohStep ==
    ASSUME DohInv, [H!Next]_doh PROVE DohInv'
<1>. USE DEF DohInv
<1>1. ASSUME NEW r \in Requests, H!Skip(r) PROVE DohInv'
  BY <1>1 DEF H!Skip, H!Tell, DohTypes, Kept, H!VerdictOnGrounds
<1>2. ASSUME NEW r \in Requests, H!Ask(r) PROVE DohInv'
  <2>1. UNCHANGED <<clock, entry, said>>
    BY <1>2 DEF H!Ask
  <2>2. look' = look \/ look' = [look EXCEPT ![r] = [waits |-> TRUE, now |-> clock]]
    BY <1>2 DEF H!Ask
  <2>3. DohTypes' /\ Kept'
    <3>1. look' \in [Requests -> [waits : BOOLEAN, now : Nat]]
      <4>1. [waits |-> TRUE, now |-> clock] \in [waits : BOOLEAN, now : Nat]
        BY DEF DohTypes
      <4>. QED BY <2>2, <4>1 DEF DohTypes
    <3>. QED BY <2>1, <3>1 DEF DohTypes, Kept
  <2>4. CASE H!Fresh(clock) /\ H!Tell(entry.blocked, clock, TRUE)
    <3>1. PICK g \in said : g.blocked = entry.blocked /\ entry.expires <= g.ends
      BY <2>4 DEF H!Fresh, Kept
    <3>2. clock < g.ends
      <4>1. clock \in Nat /\ entry.expires \in Nat /\ g.ends \in Nat /\ clock < entry.expires
        BY <2>4 DEF H!Fresh, DohTypes
      <4>. QED BY <3>1, <4>1
    <3>3. told'.blocked = entry.blocked /\ told'.asked = clock /\ told'.looked = TRUE
      BY <2>4 DEF H!Tell
    <3>4. H!VerdictOnGrounds'
      BY <2>1, <3>1, <3>2, <3>3 DEF H!VerdictOnGrounds
    <3>. QED BY <2>3, <3>4
  <2>5. CASE told' = Nothing
    BY <2>3, <2>5 DEF H!VerdictOnGrounds
  <2>. QED BY <1>2, <2>4, <2>5 DEF H!Ask
<1>3. ASSUME NEW r \in Requests, NEW msgs \in H!Outcomes, H!Store(r, msgs) PROVE DohInv'
  <2>. DEFINE now == look[r].now
              ms == H!Range(msgs)
              g == [blocked |-> \E m \in ms : H!SaysBlocked(m), began |-> now, ends |-> now + H!Lifetime(ms)]
  <2>1. now \in Nat
    BY DEF DohTypes
  <2>2. PICK life \in Nat :
            /\ H!Lifetime(ms) \in Nat /\ life <= H!Lifetime(ms)
            /\ entry' = [blocked |-> g.blocked, expires |-> now + life]
    <3>1. CASE msgs = <<>>
      <4>1. ms = {}
        BY <3>1 DEF H!Range
      <4>2. H!Lifetime(ms) = FailTTL /\ g.blocked = FALSE
        BY <4>1 DEF H!Lifetime
      <4>3. entry' = [blocked |-> FALSE, expires |-> now + FailTTL]
        BY <1>3, <3>1 DEF H!Store
      <4>4. entry' = [blocked |-> g.blocked, expires |-> now + FailTTL]
        BY <4>2, <4>3
      <4>5. H!Lifetime(ms) \in Nat /\ FailTTL <= H!Lifetime(ms)
        <5>. HIDE DEF ms
        <5>. QED BY <4>2, Lifetimes
      <4>. QED BY <4>4, <4>5, Lifetimes
    <3>2. CASE msgs # <<>>
      <4>. DEFINE c == H!Classify(msgs)
      <4>1. entry' = [blocked |-> c.blocked, expires |-> now + H!Min({c.ttl, MaxTTL})]
        BY <1>3, <3>2 DEF H!Store
      <4>. QED BY <3>2, <4>1, ClassifiedAsSaid
    <3>. QED BY <3>1, <3>2
  <2>3. /\ UNCHANGED clock /\ look' = [look EXCEPT ![r] = H!Idle] /\ said' = said \cup {g}
        /\ told' = [blocked |-> entry'.blocked, asked |-> now, looked |-> TRUE]
    BY <1>3 DEF H!Store, H!Tell
  <2>. HIDE DEF now, ms
  <2>4. g.ends \in Nat /\ entry'.expires \in Nat /\ entry'.expires <= g.ends /\ entry'.blocked = g.blocked
    <3>1. g.ends = now + H!Lifetime(ms) /\ entry'.expires = now + life
      BY <2>2
    <3>. QED BY <2>1, <2>2, <3>1
  <2>5. g.began = now
    OBVIOUS
  <2>. HIDE DEF g
  <2>6. DohTypes'
    BY <2>3, <2>4 DEF DohTypes, H!Idle
  <2>7. Kept'
    BY <2>3, <2>4 DEF Kept
  <2>8. H!VerdictOnGrounds'
    BY <2>3, <2>4, <2>5 DEF H!VerdictOnGrounds
  <2>. QED BY <2>6, <2>7, <2>8
<1>4. CASE H!Tick
  <2>1. /\ clock' = clock + 1 /\ told' = Nothing /\ said' = {g \in said : clock' < g.ends}
        /\ UNCHANGED <<entry, look>>
    BY <1>4 DEF H!Tick
  <2>2. clock \in Nat
    BY DEF DohTypes
  <2>3. clock' \in Nat /\ clock < clock'
    BY <2>1, <2>2
  <2>4. DohTypes'
    BY <2>1, <2>3 DEF DohTypes
  <2>5. Kept'
    <3>. SUFFICES ASSUME entry # Nothing, clock' < entry.expires
                  PROVE  \E g \in said' : g.blocked = entry.blocked /\ entry.expires <= g.ends
      BY <2>1 DEF Kept
    <3>1. entry.expires \in Nat /\ clock < entry.expires
      BY <2>2, <2>3 DEF DohTypes
    <3>2. PICK g \in said : g.blocked = entry.blocked /\ entry.expires <= g.ends
      BY <3>1 DEF Kept
    <3>3. clock' < g.ends
      <4>1. g.ends \in Nat
        BY DEF DohTypes
      <4>. QED BY <2>3, <3>1, <3>2, <4>1
    <3>. QED BY <2>1, <3>2, <3>3
  <2>. QED BY <2>1, <2>4, <2>5 DEF H!VerdictOnGrounds
<1>5. CASE UNCHANGED doh
  BY <1>5 DEF doh, DohTypes, Kept, H!VerdictOnGrounds
<1>. QED BY <1>1, <1>2, <1>3, <1>4, <1>5 DEF H!Next

(* However many lookups of a host run at once and in whatever order they   *)
(* come back: no request is told what the resolver did not say to it, or   *)
(* to a lookup whose answer may still be kept.                             *)
THEOREM VerdictOnGroundsAlways == StandaloneSpec => []VerdictOnGrounds
<1>. DEFINE Inv == which = "doh" => DohInv
<1>1. ComponentsInit => Inv
  <2>1. H!Init => DohInv
    BY DEF H!Init, H!Idle, DohInv, DohTypes, Kept, H!VerdictOnGrounds
  <2>. QED BY <2>1 DEF ComponentsInit
<1>2. Inv /\ [ComponentsNext]_standaloneVars => Inv'
  <2>. SUFFICES ASSUME Inv, [ComponentsNext]_standaloneVars, which' = "doh" PROVE DohInv'
    OBVIOUS
  <2>1. which = "doh" /\ [H!Next]_doh
    BY DEF ComponentsNext, standaloneVars
  <2>. QED BY <2>1, DohStep
<1>3. Inv => VerdictOnGrounds
  BY DEF DohInv, VerdictOnGrounds
<1>. QED BY <1>1, <1>2, <1>3, PTL DEF StandaloneSpec

-----------------------------------------------------------------------------
(* Sessions.  What has been so since a request came is noted with it, and  *)
(* it is no further than that lets it.  A password has a number of its     *)
(* own, so a session of that number is one of that password; and a merge   *)
(* nobody has saved over still has the password in force, or a new one.    *)
Keys == Nat \cup {Absent}
Places == {"gate", "auth", "token", "denied", "serve", "merge", "save"}
DoorSettings == [auth : BOOLEAN, hash : Hashes \cup {Null}, key : Keys, metrics : Bearers \cup {Blank}]
Cookies == {k \in [token : Keys \X Hashes, made : Nat] : k.made = k.token[2].salt}
Calls == [path : S!Paths, bearer : Bearers \cup {Blank}, cookie : Cookies \cup {Blank}, at : Places,
          merged : DoorSettings \cup {Blank}, behind : BOOLEAN, fresh : BOOLEAN,
          let : BOOLEAN, barred : BOOLEAN, shown : BOOLEAN, free : BOOLEAN]

DoorTypes ==
    /\ known \in DoorSettings /\ off \in BOOLEAN /\ locked \in BOOLEAN /\ overlapped \in BOOLEAN /\ set \in Nat
    /\ cookie \in [Browsers -> Cookies \cup {Blank}] /\ asking \in [Browsers -> Calls \cup {Nothing}]

Noted(r, c, o, l) ==
    /\ S!Grounds(c, r) => r.let
    /\ ~S!Welcome(c, r) => r.barred
    /\ ~o => r.shown
    /\ ~l => r.free
Cleared(r) ==
    /\ r.at # "gate" => r.path \in S!WebUIOffPaths \/ r.shown
    /\ r.at = "token" => r.path \notin S!PublicPaths
    /\ r.at \in {"serve", "merge", "save"} => r.let
    /\ r.at \in {"merge", "save"} => r.free
    /\ r.at = "denied" => r.barred
Signed(c) == c.hash # Null => c.key # Absent
Saving(r, c) ==
    r.at = "save" =>
        /\ r.merged \in DoorSettings /\ Signed(r.merged)
        /\ ~r.behind => r.fresh \/ r.merged.hash = c.hash
Judged(r, c, o, l) == Noted(r, c, o, l) /\ Cleared(r) /\ Saving(r, c)
AllJudged == \A b \in Browsers : asking[b] # Nothing => Judged(asking[b], known, off, locked)

MayLogIn == {S!Token(known)} \cup {S!Token(asking[b].merged) : b \in {c \in Browsers : asking[c] # Nothing /\ asking[c].at = "save"}}
Carried  == {cookie[b].token : b \in {c \in Browsers : cookie[c] # Blank}}
            \cup {asking[b].cookie.token : b \in {c \in Browsers : asking[c] # Nothing /\ asking[c].cookie # Blank}}
Tokens   == MayLogIn \cup Carried
TokensUnique == \A s, t \in Tokens : s[2] # Null /\ t[2] # Null /\ s[2].salt = t[2].salt => s = t
Salted       == \A t \in Tokens : t[2] # Null => t[2].salt <= set
Newest       == known.hash # Null /\ ~overlapped => known.hash.salt = newest
DoorInv == DoorTypes /\ AllJudged /\ TokensUnique /\ Salted /\ Signed(known) /\ Newest

Same(r, s) ==
    /\ r.path = s.path /\ r.bearer = s.bearer /\ r.cookie = s.cookie /\ r.merged = s.merged /\ r.behind = s.behind
    /\ r.fresh = s.fresh /\ r.let = s.let /\ r.barred = s.barred /\ r.shown = s.shown /\ r.free = s.free

LEMMA SameNoted ==
    ASSUME NEW r, NEW s, Same(s, r), NEW c, NEW o, NEW l, Noted(r, c, o, l) PROVE Noted(s, c, o, l)
BY DEF Same, Noted, S!Grounds, S!Welcome

LEMMA CallMoves ==
    ASSUME NEW r \in Calls, NEW l \in Places
    PROVE  [r EXCEPT !.at = l] \in Calls /\ Same([r EXCEPT !.at = l], r) /\ [r EXCEPT !.at = l].at = l
BY DEF Calls, Same

LEMMA MovesOn ==
    ASSUME DoorTypes, NEW b \in Browsers, asking[b] # Nothing, NEW l \in Places, S!Goto(b, l)
    PROVE  /\ asking' \in [Browsers -> Calls \cup {Nothing}] /\ asking[b] \in Calls /\ asking'[b] \in Calls
           /\ Same(asking'[b], asking[b]) /\ asking'[b].at = l
           /\ \A d \in Browsers : d # b => asking'[d] = asking[d]
<1>1. asking[b] \in Calls /\ asking \in [Browsers -> Calls \cup {Nothing}]
  BY DEF DoorTypes
<1>2. asking' = [asking EXCEPT ![b] = [asking[b] EXCEPT !.at = l]]
  BY DEF S!Goto
<1>. DEFINE s == [asking[b] EXCEPT !.at = l]
<1>3. s \in Calls /\ Same(s, asking[b]) /\ s.at = l
  BY <1>1, CallMoves
<1>. HIDE DEF s
<1>4. asking' = [asking EXCEPT ![b] = s]
  BY <1>2 DEF s
<1>. QED BY <1>1, <1>3, <1>4

LEMMA Answered ==
    ASSUME DoorTypes, NEW b \in Browsers, S!Reply(b)
    PROVE  /\ asking' \in [Browsers -> Calls \cup {Nothing}] /\ asking'[b] = Nothing
           /\ \A d \in Browsers : d # b => asking'[d] = asking[d]
BY DEF DoorTypes, S!Reply

(* The tokens that a step leaves are ones there were, or a new one.        *)
LEMMA TokensFrom ==
    ASSUME NEW T,
           S!Token(known)' \in T,
           \A b \in Browsers : asking'[b] # Nothing /\ asking'[b].at = "save" => S!Token(asking'[b].merged) \in T,
           \A b \in Browsers : cookie'[b] # Blank => cookie'[b].token \in T,
           \A b \in Browsers : asking'[b] # Nothing /\ asking'[b].cookie # Blank => asking'[b].cookie.token \in T
    PROVE  Tokens' \subseteq T
BY DEF Tokens, MayLogIn, Carried, S!Token

LEMMA TokenOf ==
    /\ S!Token(known) \in Tokens
    /\ \A b \in Browsers : asking[b] # Nothing /\ asking[b].at = "save" => S!Token(asking[b].merged) \in Tokens
    /\ \A b \in Browsers : cookie[b] # Blank => cookie[b].token \in Tokens
    /\ \A b \in Browsers : asking[b] # Nothing /\ asking[b].cookie # Blank => asking[b].cookie.token \in Tokens
BY DEF Tokens, MayLogIn, Carried

LEMMA TokensKept ==
    ASSUME TokensUnique, Salted, Tokens' \subseteq Tokens, UNCHANGED set
    PROVE  TokensUnique' /\ Salted'
BY DEF TokensUnique, Salted

LEMMA OneTokenMore ==
    ASSUME TokensUnique, Salted, set \in Nat, NEW t, t[2].salt = set + 1, set' = set + 1, Tokens' \subseteq Tokens \cup {t},
           \A s \in Tokens : s[2] # Null => s[2].salt \in Nat
    PROVE  TokensUnique' /\ Salted'
<1>1. \A s \in Tokens : s[2] # Null => s[2].salt \in Nat /\ s[2].salt <= set
  BY DEF Salted
<1>2. \A s \in Tokens : s[2] # Null => s[2].salt # set + 1 /\ s[2].salt <= set + 1
  BY <1>1
<1>3. TokensUnique'
  BY <1>2 DEF TokensUnique
<1>4. set + 1 <= set + 1
  OBVIOUS
<1>5. Salted'
  BY <1>2, <1>4 DEF Salted
<1>. QED BY <1>3, <1>5

LEMMA TokenTypes == ASSUME DoorTypes, AllJudged PROVE \A t \in Tokens : t[2] # Null => t[2] \in Hashes
<1>1. S!Token(known)[2] \in Hashes \cup {Null}
  BY DEF DoorTypes, DoorSettings, S!Token
<1>2. ASSUME NEW b \in Browsers, asking[b] # Nothing, asking[b].at = "save"
      PROVE  S!Token(asking[b].merged)[2] \in Hashes \cup {Null}
  BY <1>2 DEF AllJudged, Judged, Saving, DoorSettings, S!Token
<1>3. \A k \in Cookies : k.token[2] \in Hashes
  BY DEF Cookies
<1>4. \A b \in Browsers : cookie[b] # Blank => cookie[b] \in Cookies
  BY DEF DoorTypes
<1>7. \A b \in Browsers : asking[b] # Nothing /\ asking[b].cookie # Blank => asking[b].cookie \in Cookies
  BY DEF DoorTypes, Calls
<1>. SUFFICES ASSUME NEW t \in Tokens PROVE t[2] \in Hashes \cup {Null}
  OBVIOUS
<1>5. CASE t \in MayLogIn
  <2>1. t = S!Token(known) \/ \E b \in Browsers : asking[b] # Nothing /\ asking[b].at = "save" /\ t = S!Token(asking[b].merged)
    BY <1>5 DEF MayLogIn
  <2>. QED BY <1>1, <1>2, <2>1
<1>6. CASE t \in Carried
  <2>1. \/ \E b \in Browsers : cookie[b] # Blank /\ t = cookie[b].token
        \/ \E b \in Browsers : asking[b] # Nothing /\ asking[b].cookie # Blank /\ t = asking[b].cookie.token
    BY <1>6 DEF Carried
  <2>2. ASSUME NEW b \in Browsers, cookie[b] # Blank, t = cookie[b].token PROVE t[2] \in Hashes
    <3>1. cookie[b].token[2] \in Hashes
      <4>1. cookie[b] \in Cookies
        BY <1>4, <2>2
      <4>. QED BY <1>3, <4>1, Zenon
    <3>. QED BY <2>2, <3>1
  <2>3. ASSUME NEW b \in Browsers, asking[b] # Nothing, asking[b].cookie # Blank, t = asking[b].cookie.token
        PROVE  t[2] \in Hashes
    <3>1. asking[b].cookie.token[2] \in Hashes
      <4>1. asking[b].cookie \in Cookies
        BY <1>7, <2>3
      <4>. QED BY <1>3, <4>1, Zenon
    <3>. QED BY <2>3, <3>1
  <2>. QED BY <2>1, <2>2, <2>3
<1>. QED BY <1>5, <1>6 DEF Tokens

(* A step of one request that goes on, or is answered.                     *)
LEMMA OneRequest ==
    ASSUME DoorInv, NEW b \in Browsers, asking[b] # Nothing,
           UNCHANGED <<known, off, locked, cookie, set, newest, overlapped>>,
           asking' \in [Browsers -> Calls \cup {Nothing}],
           \A d \in Browsers : d # b => asking'[d] = asking[d],
           \/ asking'[b] = Nothing
           \/ /\ asking'[b].cookie = asking[b].cookie /\ asking'[b].at # "save"
              /\ Judged(asking'[b], known, off, locked)
    PROVE  DoorInv'
<1>. USE DEF DoorInv
<1>1. DoorTypes'
  BY DEF DoorTypes
<1>2. AllJudged'
  BY DEF AllJudged
<1>3. S!Token(known)' = S!Token(known)
  BY DEF S!Token
<1>4. Tokens' \subseteq Tokens
  BY <1>3, TokenOf, TokensFrom
<1>5. TokensUnique' /\ Salted'
  BY <1>4, TokensKept
<1>6. Signed(known)' /\ Newest'
  BY DEF Signed, Newest
<1>. QED BY <1>1, <1>2, <1>5, <1>6

(* Whoever is let through by a token or turned away for it, is so by the   *)
(* password in force: no other one has its number.                         *)
LEMMA TokenMeansPassword ==
    ASSUME DoorInv, NEW b \in Browsers, asking[b] # Nothing, asking[b].cookie # Blank, ~S!Open(known)
    PROVE  asking[b].cookie.made = known.hash.salt <=> asking[b].cookie.token = S!Token(known)
<1>. USE DEF DoorInv
<1>. DEFINE k == asking[b].cookie
<1>1. k \in Cookies /\ known.hash \in Hashes /\ known.hash # Null
  BY DEF DoorTypes, Calls, DoorSettings, S!Open
<1>2. k.made = k.token[2].salt /\ k.token[2] \in Hashes
  BY <1>1 DEF Cookies
<1>3. k.token \in Tokens /\ S!Token(known) \in Tokens
  BY TokenOf
<1>4. S!Token(known)[2] = known.hash
  BY DEF S!Token
<1>5. ASSUME k.made = known.hash.salt PROVE k.token = S!Token(known)
  <2>1. CASE k.token[2] # Null
    BY <1>1, <1>2, <1>3, <1>4, <1>5, <2>1 DEF TokensUnique
  <2>2. CASE k.token[2] = Null
    BY <1>2, <2>2, SessionsAssumption DEF Hashes
  <2>. QED BY <2>1, <2>2
<1>6. ASSUME k.token = S!Token(known) PROVE k.made = known.hash.salt
  BY <1>2, <1>4, <1>6
<1>. QED BY <1>5, <1>6

(* The handlers up to the routes.                                          *)
LEMMA HandlerStep ==
    ASSUME DoorInv, NEW b \in Browsers, asking[b] # Nothing,
           \/ S!WebUIGate(b) \/ S!AuthMiddleware(b) \/ S!AuthTokenValid(b) \/ S!Deny(b)
           \/ S!ServeRead(b) \/ S!RequireUnlocked(b)
    PROVE  DoorInv'
<1>. USE DEF DoorInv
<1>1. UNCHANGED <<known, off, locked, cookie, set, newest, overlapped>>
  BY DEF S!WebUIGate, S!AuthMiddleware, S!AuthTokenValid, S!Deny, S!ServeRead, S!RequireUnlocked, S!ghosts
<1>2. CASE S!Reply(b)
  BY <1>1, <1>2, Answered, OneRequest
<1>. DEFINE r == asking[b]
<1>3. Judged(r, known, off, locked)
  BY DEF AllJudged
<1>4. ASSUME NEW l \in Places \ {"save"}, S!Goto(b, l),
             Same(asking'[b], r) /\ asking'[b].at = l => Cleared(asking'[b])
      PROVE  DoorInv'
  <2>1. /\ asking' \in [Browsers -> Calls \cup {Nothing}]
        /\ Same(asking'[b], asking[b]) /\ asking'[b].at = l
        /\ \A d \in Browsers : d # b => asking'[d] = asking[d]
    BY <1>4, MovesOn
  <2>2. Noted(asking'[b], known, off, locked)
    BY <1>3, <2>1, SameNoted DEF Judged
  <2>3. Judged(asking'[b], known, off, locked)
    BY <1>4, <2>1, <2>2 DEF Judged, Saving
  <2>. QED BY <1>1, <2>1, <2>3, OneRequest DEF Same
<1>. HIDE DEF r
<1>5. Noted(r, known, off, locked) /\ Cleared(r)
  BY <1>3 DEF Judged
<1>6. CASE S!WebUIGate(b) /\ ~S!Reply(b)
  <2>1. S!Goto(b, "auth") /\ (~off \/ r.path \in S!WebUIOffPaths)
    BY <1>6 DEF S!WebUIGate, r
  <2>2. Same(asking'[b], r) /\ asking'[b].at = "auth" => Cleared(asking'[b])
    BY <1>5, <2>1 DEF Same, Cleared, Noted
  <2>. QED BY <1>4, <2>1, <2>2 DEF Places, r
<1>7. CASE S!AuthMiddleware(b)
  <2>1. r.at = "auth" /\ r \in Calls
    BY <1>7 DEF S!AuthMiddleware, r, DoorTypes
  <2>. DEFINE through == S!Open(known) \/ r.path \in S!PublicPaths \/ (r.path = "metrics" /\ S!MetricsTokenValid(known, r))
  <2>2. CASE through
    <3>1. S!Goto(b, "serve")
      BY <1>7, <2>2 DEF S!AuthMiddleware, r
    <3>2. S!Grounds(known, r)
      BY <2>1, <2>2 DEF S!Open, S!MetricsTokenValid, S!Grounds, S!Welcome, Calls
    <3>3. Same(asking'[b], r) /\ asking'[b].at = "serve" => Cleared(asking'[b])
      BY <1>5, <2>1, <3>2 DEF Same, Cleared, Noted
    <3>. QED BY <1>4, <3>1, <3>3 DEF Places, r
  <2>3. CASE ~through
    <3>1. S!Goto(b, "token")
      BY <1>7, <2>3 DEF S!AuthMiddleware, r
    <3>2. Same(asking'[b], r) /\ asking'[b].at = "token" => Cleared(asking'[b])
      BY <1>5, <2>1, <2>3 DEF Same, Cleared
    <3>. QED BY <1>4, <3>1, <3>2 DEF Places, r
  <2>. QED BY <2>2, <2>3
<1>8. CASE S!AuthTokenValid(b)
  <2>1. r.at = "token"
    BY <1>8 DEF S!AuthTokenValid, r
  <2>. DEFINE valid == S!Open(known) \/ (r.cookie # Blank /\ r.cookie.token = S!Token(known))
  <2>2. CASE valid
    <3>1. S!Goto(b, "serve")
      BY <1>8, <2>2 DEF S!AuthTokenValid, r
    <3>2. S!Welcome(known, r)
      <4>1. CASE S!Open(known)
        BY <4>1 DEF S!Open, S!Welcome
      <4>2. CASE ~S!Open(known)
        BY <2>2, <4>2, TokenMeansPassword DEF S!Open, S!Welcome, r
      <4>. QED BY <4>1, <4>2
    <3>3. Same(asking'[b], r) /\ asking'[b].at = "serve" => Cleared(asking'[b])
      BY <1>5, <2>1, <3>2 DEF Same, Cleared, Noted, S!Grounds
    <3>. QED BY <1>4, <3>1, <3>3 DEF Places, r
  <2>3. CASE ~valid
    <3>1. S!Goto(b, "denied")
      BY <1>8, <2>3 DEF S!AuthTokenValid, r
    <3>2. ~S!Welcome(known, r)
      BY <1>5, <2>1, <2>3, TokenMeansPassword DEF S!Open, S!Welcome, Cleared, r
    <3>3. Same(asking'[b], r) /\ asking'[b].at = "denied" => Cleared(asking'[b])
      BY <1>5, <2>1, <3>2 DEF Same, Cleared, Noted
    <3>. QED BY <1>4, <3>1, <3>3 DEF Places, r
  <2>. QED BY <2>2, <2>3
<1>9. CASE S!RequireUnlocked(b) /\ ~S!Reply(b)
  <2>1. r.at = "serve" /\ ~locked /\ S!Goto(b, "merge")
    BY <1>9 DEF S!RequireUnlocked, r
  <2>2. Same(asking'[b], r) /\ asking'[b].at = "merge" => Cleared(asking'[b])
    BY <1>5, <2>1 DEF Same, Cleared, Noted
  <2>. QED BY <1>4, <2>1, <2>2 DEF Places, r
<1>. QED BY <1>2, <1>6, <1>7, <1>8, <1>9 DEF S!Deny, S!ServeRead

(* Nothing of the settings and the passwords changes, and no request saves *)
(* what it did not: whatever cookies come and go are ones there were, or   *)
(* are of the password in force.                                           *)
LEMMA CookieStep ==
    ASSUME DoorInv, DoorTypes', AllJudged', UNCHANGED <<known, set, newest, overlapped>>,
           \A b \in Browsers : asking'[b] # Nothing /\ asking'[b].at = "save" =>
               asking[b] # Nothing /\ asking[b].at = "save" /\ asking'[b].merged = asking[b].merged,
           \A b \in Browsers : cookie'[b] # Blank =>
               (cookie[b] # Blank /\ cookie'[b] = cookie[b]) \/ cookie'[b].token = S!Token(known),
           \A b \in Browsers : asking'[b] # Nothing /\ asking'[b].cookie # Blank =>
               \/ asking[b] # Nothing /\ asking'[b].cookie = asking[b].cookie
               \/ asking'[b].cookie = cookie[b]
    PROVE  DoorInv'
<1>. USE DEF DoorInv
<1>1. S!Token(known)' \in Tokens /\ S!Token(known) \in Tokens
  BY TokenOf DEF S!Token
<1>2. \A b \in Browsers : asking'[b] # Nothing /\ asking'[b].at = "save" => S!Token(asking'[b].merged) \in Tokens
  BY TokenOf
<1>3. \A b \in Browsers : cookie'[b] # Blank => cookie'[b].token \in Tokens
  BY <1>1, TokenOf
<1>4. \A b \in Browsers : asking'[b] # Nothing /\ asking'[b].cookie # Blank => asking'[b].cookie.token \in Tokens
  BY TokenOf
<1>5. Tokens' \subseteq Tokens
  BY <1>1, <1>2, <1>3, <1>4, TokensFrom
<1>6. TokensUnique' /\ Salted'
  BY <1>5, TokensKept
<1>7. Signed(known)' /\ Newest'
  BY DEF Signed, Newest
<1>. QED BY <1>6, <1>7

(* What is noted as settings, switch or lock change, or as a request comes.*)
LEMMA WitnessOf ==
    ASSUME NEW r \in Calls, r # Nothing, NEW c, NEW o \in BOOLEAN, NEW l \in BOOLEAN
    PROVE  LET w == S!Witness(r, c, o, l)
           IN  /\ w \in Calls /\ Noted(w, c, o, l)
               /\ w.path = r.path /\ w.bearer = r.bearer /\ w.cookie = r.cookie /\ w.at = r.at
               /\ w.merged = r.merged /\ w.behind = r.behind /\ w.fresh = r.fresh
               /\ r.let => w.let
               /\ r.barred => w.barred
               /\ r.shown => w.shown
               /\ r.free => w.free
<1>. DEFINE g == r.let \/ S!Grounds(c, r)
            n == r.barred \/ ~S!Welcome(c, r)
            s == r.shown \/ ~o
            f == r.free \/ ~l
            w == [r EXCEPT !.let = g, !.barred = n, !.shown = s, !.free = f]
<1>1. S!Witness(r, c, o, l) = w
  BY DEF S!Witness
<1>2. g \in BOOLEAN /\ n \in BOOLEAN /\ s \in BOOLEAN /\ f \in BOOLEAN
  BY DEF Calls
<1>3. /\ S!Grounds(c, r) => g
      /\ ~S!Welcome(c, r) => n
      /\ (~o => s) /\ (~l => f) /\ (r.let => g) /\ (r.barred => n) /\ (r.shown => s) /\ (r.free => f)
  OBVIOUS
<1>. HIDE DEF g, n, s, f
<1>4. w \in Calls
  BY <1>2 DEF Calls
<1>5. /\ w.path = r.path /\ w.bearer = r.bearer /\ w.cookie = r.cookie /\ w.at = r.at
      /\ w.merged = r.merged /\ w.behind = r.behind /\ w.fresh = r.fresh
      /\ w.let = g /\ w.barred = n /\ w.shown = s /\ w.free = f
  BY DEF Calls
<1>. HIDE DEF w
<1>6. (S!Grounds(c, w) <=> S!Grounds(c, r)) /\ (S!Welcome(c, w) <=> S!Welcome(c, r))
  BY <1>5 DEF S!Grounds, S!Welcome
<1>7. Noted(w, c, o, l)
  BY <1>3, <1>5, <1>6 DEF Noted
<1>. QED BY <1>1, <1>3, <1>4, <1>5, <1>7

(* A request as it comes.                                                  *)
LEMMA ArriveStep ==
    ASSUME DoorInv, NEW b \in Browsers, S!Arrive(b) PROVE DoorInv'
<1>. USE DEF DoorInv
<1>1. PICK p \in S!Paths, h \in Bearers \cup {Blank} :
        asking' = [asking EXCEPT ![b] = S!Witness([path |-> p, bearer |-> h, cookie |-> cookie[b], at |-> "gate", merged |-> Blank,
            behind |-> FALSE, fresh |-> FALSE, let |-> FALSE, barred |-> FALSE, shown |-> FALSE, free |-> FALSE], known, off, locked)]
  BY DEF S!Arrive
<1>2. UNCHANGED <<known, off, locked, cookie, set, newest, overlapped>>
  BY DEF S!Arrive, S!ghosts
<1>. DEFINE r == [path |-> p, bearer |-> h, cookie |-> cookie[b], at |-> "gate", merged |-> Blank,
                  behind |-> FALSE, fresh |-> FALSE, let |-> FALSE, barred |-> FALSE, shown |-> FALSE, free |-> FALSE]
            w == S!Witness(r, known, off, locked)
<1>3. r \in Calls
  BY DEF DoorTypes, Calls, Places
<1>4. r.at = "gate" /\ r.cookie = cookie[b]
  OBVIOUS
<1>5. asking' = [asking EXCEPT ![b] = w]
  BY <1>1
<1>. HIDE DEF r
<1>6. w = Nothing \/ (w \in Calls /\ Noted(w, known, off, locked) /\ w.at = "gate" /\ w.cookie = cookie[b])
  <2>1. CASE r = Nothing
    BY <2>1 DEF S!Witness
  <2>2. CASE r # Nothing
    BY <1>3, <1>4, <2>2, WitnessOf DEF DoorTypes
  <2>. QED BY <2>1, <2>2
<1>. HIDE DEF w
<1>7. asking'[b] = w /\ \A d \in Browsers : d # b => asking'[d] = asking[d]
  BY <1>5 DEF DoorTypes
<1>8. DoorTypes'
  BY <1>2, <1>5, <1>6 DEF DoorTypes
<1>9. w # Nothing => Judged(w, known, off, locked)
  BY <1>6 DEF Judged, Cleared, Saving
<1>10. AllJudged'
  BY <1>2, <1>7, <1>9 DEF AllJudged
<1>. QED BY <1>2, <1>6, <1>7, <1>8, <1>10, CookieStep

LEMMA LoginStep ==
    ASSUME DoorInv, NEW b \in Browsers, asking[b] # Nothing, S!Login(b) \/ S!Logout(b) PROVE DoorInv'
<1>. USE DEF DoorInv
<1>1. S!Reply(b) /\ UNCHANGED <<known, off, locked, set, newest, overlapped>>
  BY DEF S!Login, S!Logout, S!ghosts
<1>2. /\ asking' \in [Browsers -> Calls \cup {Nothing}] /\ asking'[b] = Nothing
      /\ \A d \in Browsers : d # b => asking'[d] = asking[d]
  BY <1>1, Answered
<1>3. PICK k \in Cookies \cup {Blank} :
            (cookie' = cookie \/ cookie' = [cookie EXCEPT ![b] = k]) /\ (k # Blank => k.token = S!Token(known))
  <2>1. CASE cookie' = cookie \/ cookie' = [cookie EXCEPT ![b] = Blank]
    BY <2>1
  <2>2. CASE ~S!Open(known) /\ cookie' = [cookie EXCEPT ![b] = [token |-> S!Token(known), made |-> known.hash.salt]]
    <3>. DEFINE k == [token |-> S!Token(known), made |-> known.hash.salt]
    <3>1. known.hash \in Hashes /\ known.key \in Keys
      BY <2>2 DEF DoorTypes, DoorSettings, S!Open
    <3>2. known.hash.salt \in Nat
      BY <3>1 DEF Hashes
    <3>3. k \in Cookies
      BY <3>1, <3>2 DEF Cookies, S!Token
    <3>4. k.token = S!Token(known)
      OBVIOUS
    <3>. HIDE DEF k
    <3>5. cookie' = [cookie EXCEPT ![b] = k]
      BY <2>2 DEF k
    <3>. QED BY <3>3, <3>4, <3>5
  <2>. QED BY <2>1, <2>2 DEF S!Login, S!Logout
<1>4. cookie' \in [Browsers -> Cookies \cup {Blank}]
  BY <1>3 DEF DoorTypes
<1>5. \A d \in Browsers : cookie'[d] = cookie[d] \/ cookie'[d] = k
  BY <1>3 DEF DoorTypes
<1>6. DoorTypes'
  BY <1>1, <1>2, <1>4 DEF DoorTypes
<1>7. AllJudged'
  BY <1>1, <1>2 DEF AllJudged
<1>8. \A d \in Browsers : cookie'[d] # Blank => (cookie[d] # Blank /\ cookie'[d] = cookie[d]) \/ cookie'[d].token = S!Token(known)
  BY <1>3, <1>5
<1>. QED BY <1>1, <1>2, <1>6, <1>7, <1>8, CookieStep

LEMMA ExpireStep ==
    ASSUME DoorInv, NEW b \in Browsers, S!Expire(b) PROVE DoorInv'
<1>. USE DEF DoorInv
<1>1. UNCHANGED <<known, off, locked, asking, set, newest, overlapped>> /\ cookie' = [cookie EXCEPT ![b] = Blank]
  BY DEF S!Expire, S!ghosts
<1>2. DoorTypes' /\ AllJudged'
  BY <1>1 DEF DoorTypes, AllJudged
<1>3. \A d \in Browsers : cookie'[d] # Blank => cookie[d] # Blank /\ cookie'[d] = cookie[d]
  BY <1>1 DEF DoorTypes
<1>. QED BY <1>1, <1>2, <1>3, CookieStep

(* The switch and the lock.                                                *)
LEMMA FlipStep ==
    ASSUME DoorInv, S!SetWebUiEnabled \/ S!SetLock PROVE DoorInv'
<1>. USE DEF DoorInv
<1>1. /\ UNCHANGED <<known, cookie, set, newest, overlapped>> /\ off' \in BOOLEAN /\ locked' \in BOOLEAN
      /\ asking' = S!Watched(known, off', locked')
  BY DEF S!SetWebUiEnabled, S!SetLock, S!ghosts, DoorTypes
<1>2. asking' = [b \in Browsers |-> S!Witness(asking[b], known, off', locked')]
  BY <1>1 DEF S!Watched
<1>3. ASSUME NEW b \in Browsers
      PROVE  \/ asking'[b] = Nothing
             \/ /\ asking[b] # Nothing /\ asking'[b] \in Calls /\ Judged(asking'[b], known, off', locked')
                /\ asking'[b].at = asking[b].at /\ asking'[b].merged = asking[b].merged
                /\ asking'[b].cookie = asking[b].cookie
  <2>. DEFINE r == asking[b]
              w == S!Witness(r, known, off', locked')
  <2>1. asking'[b] = w
    BY <1>2
  <2>2. CASE r = Nothing
    BY <2>1, <2>2 DEF S!Witness
  <2>3. CASE r # Nothing
    <3>1. r \in Calls /\ Judged(r, known, off, locked)
      BY <2>3 DEF DoorTypes, AllJudged
    <3>. HIDE DEF r
    <3>2. /\ w \in Calls /\ Noted(w, known, off', locked')
          /\ w.path = r.path /\ w.bearer = r.bearer /\ w.cookie = r.cookie /\ w.at = r.at
          /\ w.merged = r.merged /\ w.behind = r.behind /\ w.fresh = r.fresh
          /\ r.let => w.let
          /\ r.barred => w.barred
          /\ r.shown => w.shown
          /\ r.free => w.free
      BY <1>1, <2>3, <3>1, WitnessOf
    <3>. HIDE DEF w
    <3>3. Cleared(w) /\ Saving(w, known)
      BY <3>1, <3>2 DEF Judged, Cleared, Saving
    <3>. QED BY <2>1, <2>3, <3>2, <3>3 DEF Judged, r
  <2>. QED BY <2>2, <2>3
<1>4. asking' \in [Browsers -> Calls \cup {Nothing}]
  BY <1>2, <1>3
<1>5. DoorTypes'
  BY <1>1, <1>4 DEF DoorTypes
<1>6. AllJudged'
  BY <1>1, <1>3 DEF AllJudged
<1>. QED BY <1>1, <1>3, <1>5, <1>6, CookieStep

(* MergeSettings: a password, or none, over the settings in force.         *)
LEMMA MergeStep ==
    ASSUME DoorInv, NEW b \in Browsers, asking[b] # Nothing, S!MergeSettings(b) PROVE DoorInv'
<1>. USE DEF DoorInv
<1>1. UNCHANGED <<known, off, locked, cookie, newest, overlapped>> /\ asking[b].at = "merge"
  BY DEF S!MergeSettings, S!ghosts
<1>2. PICK e \in BOOLEAN, w \in Passwords \cup {Blank}, t \in Bearers \cup {Blank} :
        LET m == S!Merged(known, [enable |-> e, password |-> w, metrics |-> t])
        IN  /\ set' = IF w = Blank THEN set ELSE set + 1
            /\ \/ S!Reply(b)
               \/ asking' = [asking EXCEPT ![b].at = "save", ![b].merged = m, ![b].fresh = w # Blank]
  BY DEF S!MergeSettings
<1>. DEFINE m == S!Merged(known, [enable |-> e, password |-> w, metrics |-> t])
            f == w # Blank
<1>3. set \in Nat /\ known \in DoorSettings
  BY DEF DoorTypes
<1>4. /\ m.auth = e /\ m.metrics = t
      /\ m.hash = IF w = Blank THEN known.hash ELSE [pw |-> w, salt |-> set + 1]
      /\ m.key = IF w # Blank /\ known.key = Absent THEN set + 1 ELSE known.key
      /\ m = [auth |-> m.auth, metrics |-> m.metrics, hash |-> m.hash, key |-> m.key]
  BY DEF S!Merged
<1>5. asking' = [asking EXCEPT ![b].at = "save", ![b].merged = m, ![b].fresh = f] \/ S!Reply(b)
  BY <1>2
<1>6. set' = IF f THEN set + 1 ELSE set
  BY <1>2
<1>7. /\ ~f => m.hash = known.hash /\ m.key = known.key
      /\ f => m.hash = [pw |-> w, salt |-> set + 1] /\ w \in Passwords /\ m.key \in {known.key, set + 1} /\ m.key # Absent
  BY <1>3, <1>4, SessionsAssumption
<1>. HIDE DEF m
<1>. HIDE DEF f
<1>8. set + 1 \in Nat /\ set <= set + 1 /\ f \in BOOLEAN
  BY <1>3 DEF f
<1>9. f => m.hash \in Hashes /\ m.hash.salt = set + 1
  BY <1>7, <1>8 DEF Hashes
<1>10. m.hash \in Hashes \cup {Null} /\ m.key \in Keys /\ Signed(m)
  BY <1>3, <1>7, <1>8, <1>9 DEF DoorSettings, Keys, Signed
<1>11. m \in DoorSettings
  BY <1>4, <1>10 DEF DoorSettings
<1>. DEFINE r == asking[b]
            s == [r EXCEPT !.at = "save", !.merged = m, !.fresh = f]
<1>12. r \in Calls /\ Judged(r, known, off, locked)
  BY DEF DoorTypes, AllJudged
<1>13. asking' = [asking EXCEPT ![b] = s] \/ S!Reply(b)
  BY <1>5, <1>12 DEF DoorTypes
<1>14. s \in Calls /\ s.at = "save" /\ s.merged = m /\ s.fresh = f
  BY <1>8, <1>11, <1>12 DEF Calls, Places
<1>15. /\ s.path = r.path /\ s.bearer = r.bearer /\ s.cookie = r.cookie /\ s.behind = r.behind
       /\ s.let = r.let /\ s.barred = r.barred /\ s.shown = r.shown /\ s.free = r.free
  BY <1>12 DEF Calls
<1>. HIDE DEF s
<1>16. Noted(s, known, off, locked)
  BY <1>12, <1>15 DEF Judged, Noted, S!Grounds, S!Welcome
<1>17. Judged(s, known, off, locked)
  BY <1>1, <1>7, <1>10, <1>11, <1>12, <1>14, <1>15, <1>16 DEF Judged, Cleared, Saving
<1>18. /\ asking' \in [Browsers -> Calls \cup {Nothing}] /\ asking'[b] \in {Nothing, s}
       /\ \A d \in Browsers : d # b => asking'[d] = asking[d]
  <2>1. CASE S!Reply(b)
    BY <2>1, Answered
  <2>2. CASE asking' = [asking EXCEPT ![b] = s]
    BY <1>14, <2>2 DEF DoorTypes
  <2>. QED BY <1>13, <2>1, <2>2
<1>19. DoorTypes'
  BY <1>1, <1>6, <1>8, <1>18, <1>3 DEF DoorTypes
<1>20. AllJudged'
  BY <1>1, <1>17, <1>18 DEF AllJudged
<1>21. Signed(known)' /\ Newest'
  BY <1>1 DEF Signed, Newest
<1>. DEFINE T == Tokens \cup {S!Token(m)}
<1>22. Tokens' \subseteq T
  <2>1. S!Token(known)' \in T
    BY <1>1, TokenOf DEF S!Token
  <2>2. \A d \in Browsers : asking'[d] # Nothing /\ asking'[d].at = "save" => S!Token(asking'[d].merged) \in T
    BY <1>14, <1>18, TokenOf
  <2>3. \A d \in Browsers : cookie'[d] # Blank => cookie'[d].token \in T
    BY <1>1, TokenOf
  <2>4. \A d \in Browsers : asking'[d] # Nothing /\ asking'[d].cookie # Blank => asking'[d].cookie.token \in T
    BY <1>15, <1>18, TokenOf
  <2>. HIDE DEF T
  <2>. QED BY <2>1, <2>2, <2>3, <2>4, TokensFrom
<1>23. TokensUnique' /\ Salted'
  <2>1. CASE f
    <3>1. S!Token(m)[2].salt = set + 1 /\ set' = set + 1
      BY <1>6, <1>9, <2>1 DEF S!Token
    <3>2. \A t0 \in Tokens : t0[2] # Null => t0[2].salt \in Nat
      BY TokenTypes DEF Hashes
    <3>. QED BY <1>3, <1>22, <3>1, <3>2, OneTokenMore
  <2>2. CASE ~f
    <3>1. S!Token(m) = S!Token(known) /\ UNCHANGED set
      BY <1>6, <1>7, <2>2 DEF S!Token
    <3>. QED BY <1>22, <3>1, TokenOf, TokensKept
  <2>. QED BY <2>1, <2>2
<1>. QED BY <1>19, <1>20, <1>21, <1>23

(* SaveSettings: who merged before is behind now.                          *)
LEMMA SaveStep ==
    ASSUME DoorInv, NEW b \in Browsers, asking[b] # Nothing, S!SaveSettings(b) PROVE DoorInv'
<1>. USE DEF DoorInv
<1>1. UNCHANGED <<off, locked, cookie, set>> /\ asking[b].at = "save"
  BY DEF S!SaveSettings
<1>2. CASE S!Reply(b) /\ UNCHANGED <<known, newest, overlapped>>
  BY <1>1, <1>2, Answered, OneRequest
<1>3. CASE ~(S!Reply(b) /\ UNCHANGED <<known, newest, overlapped>>)
  <2>. DEFINE m == asking[b].merged
  <2>1. /\ known' = m
        /\ newest' = IF asking[b].fresh THEN m.hash.salt ELSE newest
        /\ overlapped' = (overlapped \/ asking[b].behind)
        /\ asking' = [c \in Browsers |-> IF c = b \/ asking[c] = Nothing THEN Nothing
                        ELSE [S!Watched(m, off, locked)[c] EXCEPT !.behind = @ \/ asking[c].at = "save"]]
    BY <1>3 DEF S!SaveSettings, S!ghosts
  <2>2. asking[b] \in Calls /\ Judged(asking[b], known, off, locked)
    BY DEF DoorTypes, AllJudged
  <2>3. m \in DoorSettings /\ Signed(m) /\ (~asking[b].behind => asking[b].fresh \/ m.hash = known.hash)
    BY <1>1, <2>2 DEF Judged, Saving
  <2>4. ASSUME NEW c \in Browsers
        PROVE  \/ asking'[c] = Nothing
               \/ /\ asking[c] # Nothing /\ asking'[c] \in Calls /\ Judged(asking'[c], m, off, locked)
                  /\ asking'[c].at = asking[c].at /\ asking'[c].merged = asking[c].merged
                  /\ asking'[c].cookie = asking[c].cookie
    <3>1. CASE c = b \/ asking[c] = Nothing
      BY <2>1, <3>1
    <3>2. CASE c # b /\ asking[c] # Nothing
      <4>. DEFINE r == asking[c]
                  w == S!Witness(r, m, off, locked)
                  n == w.behind \/ r.at = "save"
                  s == [w EXCEPT !.behind = n]
      <4>1. asking'[c] = s
        BY <2>1, <3>2 DEF S!Watched
      <4>2. r \in Calls /\ Judged(r, known, off, locked) /\ r # Nothing
        BY <3>2 DEF DoorTypes, AllJudged
      <4>. HIDE DEF r
      <4>3. /\ w \in Calls /\ Noted(w, m, off, locked)
            /\ w.path = r.path /\ w.bearer = r.bearer /\ w.cookie = r.cookie /\ w.at = r.at
            /\ w.merged = r.merged /\ w.behind = r.behind /\ w.fresh = r.fresh
            /\ r.let => w.let
            /\ r.barred => w.barred
            /\ r.shown => w.shown
            /\ r.free => w.free
        BY <4>2, WitnessOf DEF DoorTypes
      <4>. HIDE DEF w
      <4>4. n \in BOOLEAN /\ (r.at = "save" => n)
        BY <4>3 DEF Calls
      <4>. HIDE DEF n
      <4>5. s \in Calls /\ s.behind = n
        BY <4>3, <4>4 DEF Calls
      <4>6. /\ s.path = w.path /\ s.bearer = w.bearer /\ s.cookie = w.cookie /\ s.at = w.at /\ s.merged = w.merged
            /\ s.let = w.let /\ s.barred = w.barred /\ s.shown = w.shown /\ s.free = w.free
        BY <4>3 DEF Calls
      <4>. HIDE DEF s
      <4>7. Noted(s, m, off, locked)
        BY <4>3, <4>6 DEF Noted, S!Grounds, S!Welcome
      <4>8. Cleared(s) /\ Saving(s, m)
        BY <4>2, <4>3, <4>4, <4>5, <4>6 DEF Judged, Cleared, Saving
      <4>. QED BY <3>2, <4>1, <4>3, <4>5, <4>6, <4>7, <4>8 DEF Judged, r
    <3>. QED BY <3>1, <3>2
  <2>. HIDE DEF m
  <2>5. asking' \in [Browsers -> Calls \cup {Nothing}]
    <3>1. \A c \in Browsers : asking'[c] \in Calls \cup {Nothing}
      BY <2>4
    <3>2. asking' = [c \in Browsers |-> asking'[c]]
      BY <2>1
    <3>. QED BY <3>1, <3>2
  <2>6. DoorTypes'
    <3>1. overlapped' \in BOOLEAN
      BY <2>1, <2>2 DEF DoorTypes, Calls
    <3>. QED BY <1>1, <2>1, <2>3, <2>5, <3>1 DEF DoorTypes
  <2>7. AllJudged'
    BY <1>1, <2>1, <2>4 DEF AllJudged
  <2>8. Tokens' \subseteq Tokens
    <3>1. S!Token(known)' \in Tokens
      <4>1. S!Token(known)' = S!Token(m)
        BY <2>1 DEF S!Token
      <4>. QED BY <1>1, <4>1, TokenOf DEF m
    <3>2. \A d \in Browsers : asking'[d] # Nothing /\ asking'[d].at = "save" => S!Token(asking'[d].merged) \in Tokens
      BY <2>4, TokenOf
    <3>3. \A d \in Browsers : cookie'[d] # Blank => cookie'[d].token \in Tokens
      BY <1>1, TokenOf
    <3>4. \A d \in Browsers : asking'[d] # Nothing /\ asking'[d].cookie # Blank => asking'[d].cookie.token \in Tokens
      BY <2>4, TokenOf
    <3>. QED BY <3>1, <3>2, <3>3, <3>4, TokensFrom
  <2>9. TokensUnique' /\ Salted'
    BY <1>1, <2>8, TokensKept
  <2>10. Signed(known)'
    BY <2>1, <2>3 DEF Signed
  <2>11. Newest'
    <3>. SUFFICES ASSUME m.hash # Null, ~overlapped' PROVE m.hash.salt = newest'
      BY <2>1 DEF Newest
    <3>1. ~overlapped /\ ~asking[b].behind
      BY <2>1
    <3>2. CASE asking[b].fresh
      BY <2>1, <3>2
    <3>3. CASE ~asking[b].fresh
      BY <2>1, <2>3, <3>1, <3>3 DEF Newest
    <3>. QED BY <3>2, <3>3
  <2>. QED BY <2>6, <2>7, <2>9, <2>10, <2>11
<1>. QED BY <1>2, <1>3

LEMMA DoorStep ==
    ASSUME DoorInv, [S!Next]_door PROVE DoorInv'
<1>1. ASSUME NEW b \in Browsers, S!Arrive(b) PROVE DoorInv'
  BY <1>1, ArriveStep
<1>2. ASSUME NEW b \in Browsers, asking[b] # Nothing, S!Handle(b) PROVE DoorInv'
  BY <1>2, HandlerStep, LoginStep, MergeStep, SaveStep DEF S!Handle
<1>3. ASSUME NEW b \in Browsers, S!Expire(b) PROVE DoorInv'
  BY <1>3, ExpireStep
<1>4. CASE S!SetWebUiEnabled \/ S!SetLock
  BY <1>4, FlipStep
<1>5. CASE UNCHANGED door
  <2>1. UNCHANGED <<known, off, locked, cookie, asking, set, newest, overlapped>>
    BY <1>5 DEF door
  <2>2. DoorTypes' /\ AllJudged' /\ \A d \in Browsers : cookie'[d] # Blank => cookie[d] # Blank /\ cookie'[d] = cookie[d]
    BY <2>1 DEF DoorInv, DoorTypes, AllJudged
  <2>. QED BY <2>1, <2>2, CookieStep
<1>. QED BY <1>1, <1>2, <1>3, <1>4, <1>5 DEF S!Next

LEMMA DoorStart == S!Init => DoorInv
<1>. SUFFICES ASSUME S!Init PROVE DoorInv
  OBVIOUS
<1>1. /\ known \in S!Stored /\ \A b \in Browsers : asking[b] = Nothing
      /\ off \in BOOLEAN /\ locked \in BOOLEAN /\ overlapped \in BOOLEAN /\ set = 0 /\ newest = 0
  BY DEF S!Init
<1>2. known \in DoorSettings /\ (known.hash # Null => known.key = 0 /\ known.hash \in Hashes /\ known.hash.salt = 0)
  <2>1. CASE known.hash = Null /\ known \in DoorSettings
    BY <2>1
  <2>2. CASE known \in [auth : {TRUE}, hash : [pw : Passwords, salt : {0}], key : {0}, metrics : Bearers \cup {Blank}]
    <3>1. known.hash \in [pw : Passwords, salt : {0}] /\ known.key = 0
      BY <2>2
    <3>2. known.hash \in Hashes /\ known.hash.salt = 0
      BY <3>1 DEF Hashes
    <3>4. /\ known.auth \in BOOLEAN /\ known.key \in Keys /\ known.metrics \in Bearers \cup {Blank}
          /\ known = [auth |-> known.auth, hash |-> known.hash, key |-> known.key, metrics |-> known.metrics]
      <4>1. known.key \in Keys
        BY <3>1 DEF Keys
      <4>2. known.auth \in BOOLEAN /\ known.metrics \in Bearers \cup {Blank}
        BY <2>2
      <4>3. known = [auth |-> known.auth, hash |-> known.hash, key |-> known.key, metrics |-> known.metrics]
        BY <2>2
      <4>. QED BY <4>1, <4>2, <4>3
    <3>3. known \in [auth : BOOLEAN, hash : Hashes, key : Keys, metrics : Bearers \cup {Blank}]
      BY <3>2, <3>4
    <3>. QED BY <3>1, <3>2, <3>3 DEF DoorSettings
  <2>3. CASE known \in {[auth |-> FALSE, hash |-> Null, key |-> Absent, metrics |-> Blank],
                         [auth |-> TRUE, hash |-> Null, key |-> Absent, metrics |-> Blank]}
    <3>1. PICK e \in BOOLEAN : known = [auth |-> e, hash |-> Null, key |-> Absent, metrics |-> Blank]
      BY <2>3
    <3>2. Absent \in Keys
      BY DEF Keys
    <3>. QED BY <3>1, <3>2 DEF DoorSettings
  <2>. QED BY <1>1, <2>2, <2>3 DEF S!Stored
<1>3. \A b \in Browsers : cookie[b] # Blank =>
            known.hash # Null /\ cookie[b] = [token |-> S!Token(known), made |-> 0]
  BY DEF S!Init
<1>4. [token |-> S!Token(known), made |-> 0] \in Cookies \/ known.hash = Null
  BY <1>2 DEF Cookies, S!Token, Keys
<1>5. DoorTypes
  <2>1. cookie = [b \in Browsers |-> cookie[b]] /\ asking = [b \in Browsers |-> asking[b]]
    BY DEF S!Init
  <2>2. \A b \in Browsers : cookie[b] \in Cookies \cup {Blank} /\ asking[b] \in Calls \cup {Nothing}
    BY <1>1, <1>3, <1>4
  <2>3. cookie \in [Browsers -> Cookies \cup {Blank}]
    BY <2>1, <2>2
  <2>4. asking \in [Browsers -> Calls \cup {Nothing}]
    BY <2>1, <2>2
  <2>. QED BY <1>1, <1>2, <2>3, <2>4 DEF DoorTypes
<1>6. AllJudged
  BY <1>1 DEF AllJudged
<1>7. \A t \in Tokens : t = S!Token(known)
  BY <1>1, <1>3 DEF Tokens, MayLogIn, Carried
<1>8. TokensUnique
  BY <1>7 DEF TokensUnique
<1>9. Salted
  BY <1>1, <1>2, <1>7 DEF Salted, S!Token
<1>10. Signed(known) /\ Newest
  BY <1>1, <1>2, SessionsAssumption DEF Signed, Newest
<1>. QED BY <1>5, <1>6, <1>8, <1>9, <1>10 DEF DoorInv

(* However the settings, the switch and the lock move under any number of  *)
(* requests: nobody is served without the grounds, or turned away while    *)
(* always welcome; and a password that was replaced stays so, and its      *)
(* sessions with it, unless a save undid another.                          *)
THEOREM SessionSoundAlways == StandaloneSpec => []SessionSound
<1>. DEFINE Inv == which = "door" => DoorInv
<1>1. ComponentsInit => Inv
  BY DoorStart DEF ComponentsInit
<1>2. Inv /\ [ComponentsNext]_standaloneVars => Inv'
  <2>. SUFFICES ASSUME Inv, [ComponentsNext]_standaloneVars, which' = "door" PROVE DoorInv'
    OBVIOUS
  <2>1. which = "door" /\ [S!Next]_door
    BY DEF ComponentsNext, standaloneVars
  <2>. QED BY <2>1, DoorStep
<1>3. Inv => SessionSound
  <2>. SUFFICES ASSUME DoorInv PROVE S!SessionSound
    BY DEF SessionSound
  <2>1. S!JudgedOnGrounds
    BY DEF DoorInv, AllJudged, Judged, Cleared, S!JudgedOnGrounds
  <2>2. S!PasswordReplaced
    BY DEF DoorInv, Signed, Newest, S!PasswordReplaced
  <2>. QED BY <2>1, <2>2 DEF S!SessionSound
<1>. QED BY <1>1, <1>2, <1>3, PTL DEF StandaloneSpec

-----------------------------------------------------------------------------
(* Icap.  What is on the wire carries the body from where the server has   *)
(* read it to where the client will stop, and the zero chunk says whether  *)
(* that is all; a transaction whose body is still read has met one request *)
(* phase and no other.                                                     *)
Items == [kind : {"head", "chunk", "last"}, from : Nat, to : Nat, ieof : BOOLEAN]
BodyStages == {"head", "preview", "all", "rest"}
Kinds == {"none", "continue", "400", "501", "options", "204", "block", "handed", "rewritten"}

(* w carries a body as far as its first n bytes, as long as it goes on.    *)
Slices(w, n, all) ==
    /\ w \in Seq(Items)
    /\ \A i \in 1..Len(w) :
          \/ w[i].kind = "chunk" /\ w[i].from <= w[i].to
          \/ w[i].kind = "last" /\ w[i].from = n /\ w[i].ieof = all
    /\ \A i \in 1..Len(w) : i < Len(w) => w[i].kind = "chunk" /\ w[i].to = w[i + 1].from
Ended(w) == w # <<>> /\ w[Len(w)].kind = "last"

LEMMA SentSlices ==
    ASSUME NEW a \in Nat, NEW b \in Nat, NEW all \in BOOLEAN, NEW w \in I!Chunked(a, b, all)
    PROVE  Slices(w, b, all) /\ Ended(w) /\ w[1].from = a
<1>1. PICK s \in I!Cuts(a, b) : w = I!Sent(a, s, all)
  BY DEF I!Chunked
<1>2. PICK k \in 0..b - a : s \in [1..k -> a + 1..b]
  BY DEF I!Cuts
<1>3. k \in Nat /\ s \in Seq(Nat) /\ Len(s) = k /\ \A i \in 1..k : s[i] \in Nat /\ a < s[i] /\ s[i] <= b
  BY <1>2
<1>4. /\ \A i \in 2..k : s[i - 1] < s[i]
      /\ IF k = 0 THEN a = b ELSE s[k] = b
  <2>1. /\ \A i \in 2..Len(s) : s[i - 1] < s[i]
        /\ IF s = <<>> THEN a = b ELSE s[Len(s)] = b
    BY DEF I!Cuts
  <2>2. s = <<>> <=> k = 0
    BY <1>3
  <2>. QED BY <2>1, <2>2, <1>3
<1>. DEFINE from(i) == IF i = 1 THEN a ELSE s[i - 1]
<1>5. w = [i \in 1..k + 1 |-> IF i <= k THEN I!Item("chunk", from(i), s[i], FALSE) ELSE I!Item("last", from(i), from(i), all)]
  BY <1>1, <1>3 DEF I!Sent
<1>6. \A i \in 1..k + 1 : from(i) \in Nat
  BY <1>3
<1>7. \A i \in 1..k : from(i) < s[i]
  <2>. SUFFICES ASSUME NEW i \in 1..k PROVE from(i) < s[i]
    OBVIOUS
  <2>1. i # 1 => s[i - 1] < s[i]
    BY <1>4, <1>3
  <2>. QED BY <2>1, <1>3
<1>8. from(1) = a /\ from(k + 1) = b /\ \A i \in 1..k : from(i + 1) = s[i]
  BY <1>3, <1>4
<1>. HIDE DEF from
<1>9. \A i \in 1..k : /\ w[i] = I!Item("chunk", from(i), s[i], FALSE)
                     /\ i \in 1..k + 1 /\ from(i) \in Nat /\ s[i] \in Nat
  <2>1. \A i \in 1..k : i \in 1..k + 1 /\ i <= k
    BY <1>3
  <2>. QED BY <2>1, <1>3, <1>5, <1>6
<1>10. w[k + 1] = I!Item("last", b, b, all)
  <2>1. k + 1 \in 1..k + 1 /\ ~(k + 1 <= k)
    BY <1>3
  <2>. QED BY <2>1, <1>8, <1>5
<1>11. \A i \in 1..k : /\ w[i] \in Items /\ w[i].kind = "chunk" /\ w[i].from = from(i) /\ w[i].to = s[i]
                      /\ w[i].from < w[i].to /\ w[i].from \in Nat /\ w[i].to \in Nat
  <2>. SUFFICES ASSUME NEW i \in 1..k
                PROVE  /\ w[i] \in Items /\ w[i].kind = "chunk" /\ w[i].from = from(i) /\ w[i].to = s[i]
                       /\ w[i].from < w[i].to /\ w[i].from \in Nat /\ w[i].to \in Nat
    OBVIOUS
  <2>. DEFINE f == from(i)
              x == w[i]
  <2>1. x = [kind |-> "chunk", from |-> f, to |-> s[i], ieof |-> FALSE] /\ f \in Nat /\ s[i] \in Nat /\ f < s[i]
    BY <1>9, <1>7 DEF I!Item
  <2>. HIDE DEF f, x
  <2>2. x \in Items /\ x.kind = "chunk" /\ x.from = f /\ x.to = s[i]
    BY <2>1 DEF Items
  <2>. QED BY <2>1, <2>2 DEF f, x
<1>12. w[k + 1] \in Items /\ w[k + 1].kind = "last" /\ w[k + 1].from = b /\ w[k + 1].ieof = all
  BY <1>10 DEF Items, I!Item
<1>13. \A i \in 1..k + 1 : i \in 1..k \/ i = k + 1
  BY <1>3
<1>14. w \in Seq(Items) /\ Len(w) = k + 1 /\ w # <<>>
  <2>1. \A i \in 1..k + 1 : w[i] \in Items
    BY <1>11, <1>12, <1>13
  <2>2. w \in [1..k + 1 -> Items]
    BY <2>1, <1>5
  <2>. QED BY <2>2, <1>3
<1>15. w[1].from = a
  <2>1. CASE k = 0
    BY <2>1, <1>4, <1>12
  <2>2. CASE k # 0
    <3>1. 1 \in 1..k
      BY <2>2, <1>3
    <3>. QED BY <3>1, <1>8, <1>11
  <2>. QED BY <2>1, <2>2
<1>16. Ended(w)
  BY <1>12, <1>14 DEF Ended
<1>17. \A i \in 1..k : w[i].to = w[i + 1].from
  <2>. SUFFICES ASSUME NEW i \in 1..k PROVE w[i + 1].from = s[i]
    BY <1>11
  <2>1. i + 1 \in 1..k + 1 /\ from(i + 1) = s[i]
    BY <1>3, <1>8
  <2>2. CASE i + 1 \in 1..k
    BY <2>1, <2>2, <1>11
  <2>3. CASE i + 1 = k + 1
    BY <2>1, <2>3, <1>8, <1>12
  <2>. QED BY <2>1, <2>2, <2>3, <1>13
<1>18. Slices(w, b, all)
  <2>1. \A i \in 1..k + 1 : i < k + 1 => i \in 1..k
    BY <1>3
  <2>2. \A i \in 1..k : w[i].from <= w[i].to
    BY <1>11
  <2>. QED BY <2>1, <2>2, <1>11, <1>12, <1>13, <1>14, <1>17 DEF Slices
<1>. QED BY <1>15, <1>16, <1>18

(* What the server reads, and what is lost when the client goes away.      *)
LEMMA TailSlices ==
    ASSUME NEW n, NEW all, NEW w, Slices(w, n, all), w # <<>>
    PROVE  /\ Slices(Tail(w), n, all)
           /\ w[1].kind = "chunk" => /\ w[1].from \in Nat /\ w[1].to \in Nat /\ w[1].from <= w[1].to
                                     /\ Tail(w) # <<>> => Tail(w)[1].from = w[1].to
                                     /\ Ended(w) => Ended(Tail(w))
           /\ w[1].kind \in {"chunk", "last"}
<1>. DEFINE v == Tail(w)
<1>1. w \in Seq(Items) /\ Len(w) \in Nat /\ Len(w) >= 1 /\ w[1] \in Items
  BY DEF Slices
<1>2. v \in Seq(Items) /\ Len(v) = Len(w) - 1 /\ \A i \in 1..Len(v) : v[i] = w[i + 1] /\ i + 1 \in 1..Len(w)
  BY <1>1
<1>. HIDE DEF v
<1>3. Slices(v, n, all)
  <2>1. ASSUME NEW i \in 1..Len(v)
        PROVE  \/ v[i].kind = "chunk" /\ v[i].from <= v[i].to
               \/ v[i].kind = "last" /\ v[i].from = n /\ v[i].ieof = all
    <3>1. v[i] = w[i + 1] /\ i + 1 \in 1..Len(w)
      BY <1>2
    <3>2. \/ w[i + 1].kind = "chunk" /\ w[i + 1].from <= w[i + 1].to
          \/ w[i + 1].kind = "last" /\ w[i + 1].from = n /\ w[i + 1].ieof = all
      BY <3>1 DEF Slices
    <3>. QED BY <3>1, <3>2
  <2>2. ASSUME NEW i \in 1..Len(v), i < Len(v) PROVE v[i].kind = "chunk" /\ v[i].to = v[i + 1].from
    <3>1. i + 1 \in 1..Len(v) /\ i + 1 \in 1..Len(w) /\ i + 1 < Len(w)
      BY <2>2, <1>1, <1>2
    <3>2. w[i + 1].kind = "chunk" /\ w[i + 1].to = w[(i + 1) + 1].from
      BY <3>1 DEF Slices
    <3>. QED BY <3>1, <3>2, <1>2
  <2>. QED BY <2>1, <2>2, <1>2 DEF Slices
<1>4. w[1].kind \in {"chunk", "last"} /\ w[1].from \in Nat /\ w[1].to \in Nat
  BY <1>1 DEF Slices, Items
<1>5. ASSUME w[1].kind = "chunk" PROVE /\ w[1].from <= w[1].to
                                       /\ v # <<>> => v[1].from = w[1].to
                                       /\ Ended(w) => Ended(v)
  <2>1. w[1].from <= w[1].to
    BY <1>5, <1>1 DEF Slices
  <2>2. v # <<>> => v[1].from = w[1].to
    BY <1>1, <1>2 DEF Slices
  <2>3. ASSUME Ended(w) PROVE Ended(v)
    <3>1. Len(w) # 1
      BY <2>3, <1>5 DEF Ended
    <3>2. Len(v) \in 1..Len(v) /\ Len(v) + 1 = Len(w)
      BY <3>1, <1>1, <1>2
    <3>3. v[Len(v)] = w[Len(w)]
      BY <3>2, <1>2
    <3>. QED BY <3>2, <3>3, <2>3, <1>2 DEF Ended
  <2>. QED BY <2>1, <2>2, <2>3
<1>. QED BY <1>3, <1>4, <1>5 DEF v

LEMMA LastSlices ==
    ASSUME NEW n, NEW all, NEW w, Slices(w, n, all), w # <<>>, w[1].kind = "last"
    PROVE  Tail(w) = <<>> /\ w[1].from = n /\ w[1].ieof = all
<1>1. w \in Seq(Items) /\ Len(w) \in Nat /\ 1 \in 1..Len(w)
  BY DEF Slices
<1>2. ~(1 < Len(w))
  BY <1>1 DEF Slices
<1>3. Tail(w) = <<>>
  BY <1>1, <1>2
<1>. QED BY <1>1, <1>3 DEF Slices

LEMMA PrefixSlices ==
    ASSUME NEW n, NEW all, NEW w, Slices(w, n, all), NEW k \in 0..Len(w)
    PROVE  /\ Slices(SubSeq(w, 1, k), n, all)
           /\ SubSeq(w, 1, k) # <<>> => w # <<>> /\ SubSeq(w, 1, k)[1] = w[1]
<1>. DEFINE v == SubSeq(w, 1, k)
<1>1. w \in Seq(Items) /\ Len(w) \in Nat
  BY DEF Slices
<1>2. v \in Seq(Items) /\ Len(v) = k /\ \A i \in 1..k : v[i] = w[i] /\ i \in 1..Len(w)
  BY <1>1
<1>. HIDE DEF v
<1>3. Slices(v, n, all)
  <2>1. ASSUME NEW i \in 1..Len(v)
        PROVE  \/ v[i].kind = "chunk" /\ v[i].from <= v[i].to
               \/ v[i].kind = "last" /\ v[i].from = n /\ v[i].ieof = all
    <3>1. v[i] = w[i] /\ i \in 1..Len(w)
      BY <1>2
    <3>. QED BY <3>1 DEF Slices
  <2>2. ASSUME NEW i \in 1..Len(v), i < Len(v) PROVE v[i].kind = "chunk" /\ v[i].to = v[i + 1].from
    <3>1. i \in 1..Len(w) /\ i < Len(w) /\ i + 1 \in 1..k
      BY <2>2, <1>1, <1>2
    <3>2. w[i].kind = "chunk" /\ w[i].to = w[i + 1].from
      BY <3>1 DEF Slices
    <3>. QED BY <3>1, <3>2, <1>2
  <2>. QED BY <2>1, <2>2, <1>2 DEF Slices
<1>4. v # <<>> => w # <<>> /\ v[1] = w[1]
  BY <1>1, <1>2
<1>. QED BY <1>3, <1>4 DEF v

InHand ==
    txn # Nothing => /\ txn.requests = 1 /\ txn.ip = I!ClientIP(msg) /\ txn.judged = "nothing"
                     /\ ~txn.blocked /\ ~txn.finished /\ txn.responses = 0
All(m)   == m.preview >= m.bytes
First(m) == IF m.preview >= 0 THEN I!Previewed(m) ELSE m.bytes

IcapTypes ==
    /\ client \in {"idle", "waiting", "gone"} /\ msg \in Messages
    /\ pc \in {"head", "body", "preview", "modify", "closed"}
    /\ req \in [body : Nat, complete : BOOLEAN, truncated : BOOLEAN, stage : BodyStages]
    /\ txn \in I!Transactions \cup {Nothing} /\ reply.kind \in Kinds
AtHead ==
    pc = "head" =>
        /\ reply.kind # "continue" /\ wire \in Seq(Items)
        /\ client = "idle" => wire = <<>> /\ reply.kind = "none"
        /\ client = "waiting" /\ reply.kind = "none" => wire # <<>>
        /\ wire # <<>> =>
              /\ wire[1].kind = "head" /\ reply.kind = "none"
              /\ Slices(Tail(wire), First(msg), All(msg))
              /\ Tail(wire) # <<>> => I!HasBody(msg) /\ Tail(wire)[1].from = 0
              /\ client = "waiting" /\ I!HasBody(msg) => Ended(Tail(wire))
AtBody ==
    pc = "body" =>
        /\ I!HasBody(msg) /\ InHand /\ client # "idle" /\ reply.kind \in {"none", "continue"}
        /\ req.body <= MaxBodyBytes
        /\ \/ req.stage = "preview" /\ msg.preview >= 0
           \/ req.stage = "all" /\ msg.preview < 0
           \/ req.stage = "rest" /\ msg.preview >= 0 /\ msg.preview < msg.bytes
        /\ Slices(wire, IF req.stage = "preview" THEN I!Previewed(msg) ELSE msg.bytes, All(msg))
        /\ wire # <<>> /\ ~req.truncated => wire[1].from = req.body
        /\ reply.kind = "continue" => /\ req.stage = "rest" /\ wire = <<>>
                                      /\ ~req.truncated => req.body = msg.preview
        /\ client = "waiting" /\ reply.kind = "none" => Ended(wire)
AtPreview ==
    pc = "preview" =>
        /\ I!HasBody(msg) /\ InHand /\ client # "idle" /\ reply.kind = "none" /\ wire = <<>>
        /\ msg.preview >= 0 /\ req.complete = All(msg) /\ req.body <= MaxBodyBytes
        /\ ~req.truncated => req.body = I!Previewed(msg)
AtModify ==
    pc = "modify" =>
        /\ msg.method \in {"REQMOD", "RESPMOD"}
        /\ InHand /\ client # "idle" /\ reply.kind = "none" /\ wire = <<>>
        /\ ~req.truncated => req.body = msg.bytes
IcapInv == IcapTypes /\ AtHead /\ AtBody /\ AtPreview /\ AtModify /\ I!PhasesOnce /\ I!Heeded

LEMMA MessageFacts ==
    ASSUME NEW m \in Messages
    PROVE  /\ m.bytes \in Nat /\ m.preview \in Int /\ (I!HasBody(m) \/ m.bytes = 0)
           /\ m.method \in {"OPTIONS", "OTHER", "REQMOD", "RESPMOD"}
           /\ I!HasBody(m) => m.method \in {"REQMOD", "RESPMOD"}
           /\ I!Previewed(m) = IF m.preview < m.bytes THEN m.preview ELSE m.bytes
           /\ m.preview >= 0 => I!Previewed(m) \in Nat
           /\ First(m) \in Nat /\ All(m) \in BOOLEAN
<1>1. /\ m.bytes \in Nat /\ m.preview \in Int /\ (I!HasBody(m) \/ m.bytes = 0)
      /\ m.method \in {"OPTIONS", "OTHER", "REQMOD", "RESPMOD"}
      /\ I!HasBody(m) => m.method \in {"REQMOD", "RESPMOD"}
  BY IcapAssumption
<1>2. I!Previewed(m) = IF m.preview < m.bytes THEN m.preview ELSE m.bytes
  BY DEF I!Previewed
<1>. HIDE DEF I!HasBody
<1>. QED BY <1>1, <1>2 DEF First, All

(* A turn that has come to its end: nothing is in hand.                    *)
LEMMA Idle ==
    ASSUME IcapTypes', pc' \in {"head", "closed"}, reply'.kind \notin {"204", "block", "handed", "rewritten"}, AtHead'
    PROVE  IcapInv'
BY DEF IcapInv, AtBody, AtPreview, AtModify, I!PhasesOnce, I!Heeded, I!Current, I!Answered

LEMMA SendStep ==
    ASSUME IcapInv, NEW m \in Messages, I!Send(m)
    PROVE  IcapInv'
<1>1. /\ client = "idle" /\ pc # "closed" /\ client' = "waiting" /\ msg' = m
      /\ UNCHANGED <<reply, pc, req, txn>>
  BY DEF I!Send
<1>2. PICK body \in I!FirstPart(m) : wire' = <<I!IcapHead>> \o body
  BY DEF I!Send
<1>3. pc = "head" /\ reply.kind = "none"
  BY <1>1 DEF IcapInv, IcapTypes, AtHead, AtBody, AtPreview, AtModify
<1>4. Slices(body, First(m), All(m)) /\ (I!HasBody(m) => Ended(body) /\ body[1].from = 0) /\ (~I!HasBody(m) => body = <<>>)
  <2>1. CASE ~I!HasBody(m)
    <3>1. body = <<>>
      BY <2>1 DEF I!FirstPart
    <3>. QED BY <3>1, <2>1 DEF Slices
  <2>2. CASE I!HasBody(m) /\ m.preview >= 0
    <3>1. body \in I!Chunked(0, I!Previewed(m), All(m))
      BY <2>2 DEF I!FirstPart, All
    <3>2. First(m) = I!Previewed(m) /\ I!Previewed(m) \in Nat
      BY <2>2, MessageFacts DEF First
    <3>. QED BY <2>2, <3>1, <3>2, SentSlices, MessageFacts
  <2>3. CASE I!HasBody(m) /\ ~(m.preview >= 0)
    <3>1. body \in I!Chunked(0, m.bytes, FALSE)
      BY <2>3 DEF I!FirstPart
    <3>2. First(m) = m.bytes /\ All(m) = FALSE /\ m.bytes \in Nat
      BY <2>3, MessageFacts DEF First, All
    <3>. QED BY <2>3, <3>1, <3>2, SentSlices
  <2>. QED BY <2>1, <2>2, <2>3
<1>5. wire' \in Seq(Items) /\ wire' # <<>> /\ wire'[1] = I!IcapHead /\ Tail(wire') = body
  <2>1. body \in Seq(Items) /\ I!IcapHead \in Items
    BY <1>4 DEF Slices, Items, I!IcapHead, I!Item
  <2>. HIDE DEF I!IcapHead
  <2>. QED BY <2>1, <1>2
<1>6. AtHead'
  <2>1. body # <<>> => I!HasBody(m)
    BY <1>4
  <2>2. wire'[1].kind = "head"
    BY <1>5 DEF I!IcapHead, I!Item
  <2>3. /\ Slices(Tail(wire'), First(msg'), All(msg'))
        /\ Tail(wire') # <<>> => I!HasBody(msg') /\ Tail(wire')[1].from = 0
        /\ I!HasBody(msg') => Ended(Tail(wire'))
    BY <1>1, <1>4, <1>5, <2>1
  <2>4. reply' = reply /\ client' = "waiting"
    BY <1>1
  <2>. QED BY <1>3, <1>5, <2>2, <2>3, <2>4 DEF AtHead
<1>7. IcapTypes'
  BY <1>1 DEF IcapInv, IcapTypes
<1>. QED BY <1>1, <1>3, <1>6, <1>7, Idle

LEMMA ContinuesStep ==
    ASSUME IcapInv, I!Continues
    PROVE  IcapInv'
<1>. USE DEF IcapInv
<1>1. /\ client = "waiting" /\ reply.kind = "continue" /\ reply' = I!NoReply
      /\ UNCHANGED <<client, msg, pc, req, txn>>
  BY DEF I!Continues
<1>2. reply'.kind = "none" /\ IcapTypes'
  BY <1>1 DEF IcapTypes, I!NoReply, Kinds
<1>3. pc \in {"body", "closed"}
  BY <1>1 DEF IcapTypes, AtHead, AtPreview, AtModify
<1>4. CASE pc = "closed"
  <2>. QED BY <1>1, <1>2, <1>4, Idle DEF AtHead
<1>5. CASE pc = "body"
  <2>1. /\ I!HasBody(msg) /\ InHand /\ req.stage = "rest" /\ wire = <<>> /\ (~req.truncated => req.body = msg.preview)
        /\ msg.preview >= 0 /\ msg.preview < msg.bytes
    BY <1>1, <1>5 DEF AtBody
  <2>2. msg \in Messages /\ msg.preview \in Nat /\ msg.bytes \in Nat /\ All(msg) = FALSE
    BY <2>1, MessageFacts DEF IcapTypes, All
  <2>3. PICK rest \in I!Chunked(msg.preview, msg.bytes, FALSE) : wire' = wire \o rest
    <3>1. ~(msg.preview >= msg.bytes)
      BY <2>1, <2>2
    <3>. QED BY <3>1 DEF I!Continues
  <2>4. Slices(rest, msg.bytes, FALSE) /\ Ended(rest) /\ rest[1].from = msg.preview
    BY <2>2, SentSlices
  <2>5. wire' = rest
    BY <2>1, <2>3, <2>4 DEF Slices
  <2>6. Slices(wire', msg.bytes, All(msg)) /\ Ended(wire') /\ wire'[1].from = msg.preview
    BY <2>2, <2>4, <2>5
  <2>7. AtBody'
    <3>1. InHand'
      BY <1>1, <2>1 DEF InHand
    <3>2. msg' = msg /\ req' = req /\ client' = client /\ pc' = pc
      BY <1>1
    <3>. QED BY <1>1, <1>2, <1>5, <2>1, <2>6, <3>1, <3>2 DEF AtBody
  <2>8. I!PhasesOnce'
    BY <1>1, <1>2, <1>5, <2>1 DEF InHand, I!PhasesOnce, I!Answered, I!Current, I!User, I!ClientIP
  <2>9. I!Heeded'
    BY <1>2 DEF I!Heeded, I!Answered
  <2>. QED BY <1>1, <1>2, <1>5, <2>7, <2>8, <2>9 DEF AtHead, AtPreview, AtModify
<1>. QED BY <1>3, <1>4, <1>5

LEMMA ReceiveStep ==
    ASSUME IcapInv, I!Receive
    PROVE  IcapInv'
<1>. USE DEF IcapInv
<1>1. /\ client' = (IF pc = "closed" THEN "gone" ELSE "idle") /\ reply' = I!NoReply
      /\ UNCHANGED <<msg, wire, pc, req, txn>>
      /\ reply.kind \notin {"none", "continue"} \/ pc = "closed"
  BY DEF I!Receive
<1>2. pc \in {"head", "closed"} /\ (pc = "head" => wire = <<>>)
  BY <1>1 DEF IcapTypes, AtHead, AtBody, AtPreview, AtModify
<1>3. reply'.kind = "none" /\ IcapTypes'
  BY <1>1 DEF IcapTypes, I!NoReply, Kinds
<1>4. AtHead'
  BY <1>1, <1>2, <1>3 DEF AtHead
<1>. QED BY <1>1, <1>2, <1>3, <1>4, Idle

LEMMA HangupStep ==
    ASSUME IcapInv, I!Hangup
    PROVE  IcapInv'
<1>. USE DEF IcapInv
<1>1. client' = "gone" /\ UNCHANGED <<msg, reply, pc, req, txn>>
  BY DEF I!Hangup
<1>2. PICK n \in 0..Len(wire) : wire' = SubSeq(wire, 1, n)
  BY DEF I!Hangup
<1>3. IcapTypes'
  BY <1>1 DEF IcapTypes
<1>4. AtHead'
  <2>. SUFFICES ASSUME pc = "head" PROVE AtHead'
    BY <1>1 DEF AtHead
  <2>1. CASE wire' = <<>>
    BY <1>1, <2>1 DEF AtHead
  <2>2. CASE wire' # <<>>
    <3>0. wire # <<>>
      BY <1>2, <2>2
    <3>1. wire[1].kind = "head" /\ reply.kind = "none" /\ Slices(Tail(wire), First(msg), All(msg))
          /\ (Tail(wire) # <<>> => I!HasBody(msg) /\ Tail(wire)[1].from = 0)
      BY <3>0 DEF AtHead
    <3>2. wire \in Seq(Items)
      BY DEF AtHead
    <3>3. n # 0 /\ wire'[1] = wire[1] /\ wire' \in Seq(Items)
      BY <1>2, <2>2, <3>2
    <3>4. n - 1 \in 0..Len(Tail(wire)) /\ Tail(wire') = SubSeq(Tail(wire), 1, n - 1)
      BY <1>2, <2>2, <3>2, <3>3
    <3>5. /\ Slices(Tail(wire'), First(msg), All(msg))
          /\ Tail(wire') # <<>> => I!HasBody(msg) /\ Tail(wire')[1].from = 0
      <4>. DEFINE v == Tail(wire)
      <4>1. Slices(v, First(msg), All(msg)) /\ n - 1 \in 0..Len(v) /\ Tail(wire') = SubSeq(v, 1, n - 1)
        BY <3>1, <3>4
      <4>. HIDE DEF v
      <4>2. Slices(SubSeq(v, 1, n - 1), First(msg), All(msg))
        BY <4>1, PrefixSlices
      <4>3. SubSeq(v, 1, n - 1) # <<>> => v # <<>> /\ SubSeq(v, 1, n - 1)[1] = v[1]
        BY <4>1, PrefixSlices
      <4>. QED BY <3>1, <4>1, <4>2, <4>3 DEF v
    <3>. QED BY <1>1, <2>2, <3>1, <3>3, <3>5 DEF AtHead
  <2>. QED BY <2>1, <2>2
<1>5. AtBody'
  <2>. SUFFICES ASSUME pc = "body" PROVE AtBody'
    BY <1>1 DEF AtBody
  <2>. DEFINE goal == IF req.stage = "preview" THEN I!Previewed(msg) ELSE msg.bytes
  <2>1. Slices(wire, goal, All(msg)) /\ (wire # <<>> /\ ~req.truncated => wire[1].from = req.body)
    BY DEF AtBody
  <2>. HIDE DEF goal
  <2>2. Slices(wire', goal, All(msg)) /\ (wire' # <<>> => wire # <<>> /\ wire'[1] = wire[1])
    BY <1>2, <2>1, PrefixSlices
  <2>3. InHand'
    BY <1>1 DEF AtBody, InHand
  <2>. QED BY <1>1, <2>1, <2>2, <2>3 DEF AtBody, goal
<1>6. AtPreview' /\ AtModify'
  <2>1. pc \in {"preview", "modify"} => wire' = <<>>
    BY <1>2 DEF AtPreview, AtModify
  <2>. QED BY <1>1, <2>1 DEF AtPreview, AtModify, InHand
<1>7. I!PhasesOnce' /\ I!Heeded'
  BY <1>1 DEF I!PhasesOnce, I!Heeded, I!Answered, I!Current, I!Filtered
<1>. QED BY <1>3, <1>4, <1>5, <1>6, <1>7

LEMMA ReadChunkStep ==
    ASSUME IcapInv, I!ReadChunk
    PROVE  IcapInv'
<1>. USE DEF IcapInv
<1>. DEFINE size == wire[1].to - wire[1].from
            goal == IF req.stage = "preview" THEN I!Previewed(msg) ELSE msg.bytes
<1>1. /\ pc = "body" /\ wire # <<>> /\ wire[1].kind = "chunk" /\ wire' = Tail(wire)
      /\ req' = [req EXCEPT !.body = @ + (IF size <= I!Room THEN size ELSE I!Room), !.truncated = @ \/ size > I!Room]
      /\ UNCHANGED <<client, msg, reply, pc, txn>>
  BY DEF I!ReadChunk
<1>2. Slices(wire, goal, All(msg)) /\ (~req.truncated => wire[1].from = req.body) /\ reply.kind = "none"
  BY <1>1 DEF AtBody
<1>. HIDE DEF goal
<1>3. /\ Slices(wire', goal, All(msg))
      /\ wire[1].from \in Nat /\ wire[1].to \in Nat /\ wire[1].from <= wire[1].to
      /\ wire' # <<>> => wire'[1].from = wire[1].to
      /\ Ended(wire) => Ended(wire')
  BY <1>1, <1>2, TailSlices
<1>4. req.body \in Nat /\ MaxBodyBytes \in Nat /\ I!Room = MaxBodyBytes - req.body /\ I!Room \in Nat /\ size \in Nat
  BY <1>1, <1>3, IcapAssumption DEF IcapTypes, AtBody, I!Room
<1>. DEFINE room == I!Room
<1>. HIDE DEF size, room
<1>5. /\ req'.body = req.body + (IF size <= room THEN size ELSE room) /\ req'.truncated = (req.truncated \/ size > room)
      /\ req'.stage = req.stage /\ req' \in [body : Int, complete : BOOLEAN, truncated : BOOLEAN, stage : BodyStages]
  <2>. DEFINE grown == req.body + (IF size <= room THEN size ELSE room)
              cut == req.truncated \/ size > room
  <2>1. req' = [req EXCEPT !.body = grown, !.truncated = cut]
    BY <1>1 DEF room, size
  <2>2. grown \in Int /\ cut \in BOOLEAN
    BY <1>4 DEF room
  <2>3. req \in [body : Nat, complete : BOOLEAN, truncated : BOOLEAN, stage : BodyStages]
    BY DEF IcapTypes
  <2>. HIDE DEF grown, cut
  <2>4. /\ req'.body = grown /\ req'.truncated = cut /\ req'.stage = req.stage
        /\ req' \in [body : Int, complete : BOOLEAN, truncated : BOOLEAN, stage : BodyStages]
    BY <2>1, <2>2, <2>3
  <2>. QED BY <2>4 DEF grown, cut
<1>6. req'.body \in Nat /\ req'.body <= MaxBodyBytes /\ (~req'.truncated => ~req.truncated /\ req'.body = req.body + size)
  BY <1>4, <1>5 DEF room
<1>7. IcapTypes'
  <2>1. req' \in [body : Nat, complete : BOOLEAN, truncated : BOOLEAN, stage : BodyStages]
    BY <1>5, <1>6
  <2>. QED BY <1>1, <2>1 DEF IcapTypes
<1>8. wire' # <<>> /\ ~req'.truncated => wire'[1].from = req'.body
  BY <1>2, <1>3, <1>6 DEF size
<1>9. AtBody'
  <2>1. Slices(wire', IF req'.stage = "preview" THEN I!Previewed(msg) ELSE msg.bytes, All(msg))
    BY <1>3, <1>5 DEF goal
  <2>2. InHand'
    BY <1>1 DEF AtBody, InHand
  <2>3. client = "waiting" => Ended(wire')
    BY <1>1, <1>2, <1>3 DEF AtBody
  <2>. QED BY <1>1, <1>2, <1>5, <1>6, <1>8, <2>1, <2>2, <2>3 DEF AtBody
<1>10. I!PhasesOnce' /\ I!Heeded'
  BY <1>1 DEF I!PhasesOnce, I!Heeded, I!Answered, I!Current, I!Filtered
<1>. QED BY <1>1, <1>7, <1>9, <1>10 DEF AtHead, AtPreview, AtModify

LEMMA ReadLastStep ==
    ASSUME IcapInv, I!ReadLast
    PROVE  IcapInv'
<1>. USE DEF IcapInv
<1>. DEFINE goal == IF req.stage = "preview" THEN I!Previewed(msg) ELSE msg.bytes
<1>1. /\ pc = "body" /\ wire # <<>> /\ wire[1].kind = "last" /\ wire' = Tail(wire)
      /\ req' = [req EXCEPT !.complete = IF req.stage = "preview" THEN wire[1].ieof ELSE req.stage = "all"]
      /\ pc' = (IF req.stage = "preview" THEN "preview" ELSE "modify")
      /\ UNCHANGED <<client, msg, reply, txn>>
  BY DEF I!ReadLast
<1>2. Slices(wire, goal, All(msg)) /\ (~req.truncated => wire[1].from = req.body) /\ reply.kind = "none"
      /\ I!HasBody(msg) /\ InHand /\ client # "idle" /\ (req.stage = "preview" => msg.preview >= 0) /\ req.body <= MaxBodyBytes
  BY <1>1 DEF AtBody
<1>. HIDE DEF goal
<1>3. wire' = <<>> /\ wire[1].from = goal /\ wire[1].ieof = All(msg)
  <2>1. Slices(wire, goal, All(msg)) /\ wire # <<>> /\ wire[1].kind = "last"
    BY <1>1, <1>2
  <2>2. Tail(wire) = <<>> /\ wire[1].from = goal /\ wire[1].ieof = All(msg)
    BY <2>1, LastSlices
  <2>. QED BY <1>1, <2>2
<1>4. msg \in Messages /\ All(msg) \in BOOLEAN /\ msg.method \in {"REQMOD", "RESPMOD"}
  BY <1>2, MessageFacts DEF IcapTypes
<1>5. IcapTypes' /\ req'.body = req.body /\ req'.truncated = req.truncated
      /\ (req.stage = "preview" => req'.complete = All(msg))
  BY <1>1, <1>3, <1>4 DEF IcapTypes
<1>6. InHand'
  BY <1>1, <1>2 DEF InHand
<1>7. AtPreview'
  BY <1>1, <1>2, <1>3, <1>5, <1>6 DEF AtPreview, goal
<1>8. AtModify'
  BY <1>1, <1>2, <1>3, <1>4, <1>5, <1>6 DEF AtModify, goal
<1>9. I!PhasesOnce' /\ I!Heeded'
  <2>1. ~I!Answered'
    BY <1>1, <1>2 DEF I!Answered
  <2>. QED BY <1>1, <1>6, <2>1 DEF I!PhasesOnce, I!Heeded, InHand, I!User, I!ClientIP
<1>10. AtHead' /\ AtBody'
  BY <1>1 DEF AtHead, AtBody
<1>. QED BY <1>5, <1>7, <1>8, <1>9, <1>10

(* A call of the handler, on a transaction that is new or in hand.         *)
LEMMA RequestPhaseSound ==
    ASSUME IcapTypes, InHand, NEW o \in I!Outcomes(msg)
    PROVE  LET t == I!RequestPhase(txn, msg, o)
           IN  /\ t \in I!Transactions \cup {Nothing}
               /\ t # Nothing => /\ t.requests = 1 /\ t.ip = I!ClientIP(msg) /\ t.judged = "nothing"
                                 /\ ~t.finished /\ t.responses = 0
<1>. DEFINE t == I!RequestPhase(txn, msg, o)
<1>1. CASE txn # Nothing \/ "req-hdr" \notin I!Named(msg)
  <2>1. t = txn
    BY <1>1 DEF I!RequestPhase
  <2>. QED BY <2>1 DEF IcapTypes, InHand
<1>2. CASE ~(txn # Nothing \/ "req-hdr" \notin I!Named(msg))
  <2>. DEFINE blocked == o = "block"
              modified == o = "modified" \/ (NormalizeAcceptEncoding /\ msg.acceptEncoding /\ ~msg.connect)
  <2>1. t = [ip |-> I!ClientIP(msg), blocked |-> blocked, modified |-> modified,
             requests |-> 1, finished |-> FALSE, responses |-> 0, judged |-> "nothing"]
    BY <1>2 DEF I!RequestPhase
  <2>2. blocked \in BOOLEAN /\ modified \in BOOLEAN /\ I!ClientIP(msg) \in {I!ClientIP(m) : m \in Messages}
    BY DEF IcapTypes
  <2>. HIDE DEF blocked, modified, t
  <2>3. t \in I!Transactions
    BY <2>1, <2>2 DEF I!Transactions
  <2>. QED BY <2>1, <2>3 DEF t
<1>. QED BY <1>1, <1>2

LEMMA FinishSound ==
    ASSUME NEW t \in I!Transactions, ~t.finished, t.responses = 0, NEW body \in {"nothing", "whole", "part"}
    PROVE  LET u == I!Finish(t, body)
           IN  /\ u \in I!Transactions /\ u.requests = t.requests /\ u.ip = t.ip /\ u.judged = body
               /\ u.responses = 1 /\ u.blocked = t.blocked /\ u.modified = t.modified
<1>. DEFINE u == I!Finish(t, body)
<1>1. u = [t EXCEPT !.finished = TRUE, !.responses = t.responses + 1, !.judged = body]
  BY DEF I!Finish
<1>. HIDE DEF u
<1>2. t.responses + 1 = 1
  OBVIOUS
<1>3. u = [t EXCEPT !.finished = TRUE, !.responses = 1, !.judged = body]
  BY <1>1, <1>2
<1>4. /\ u \in I!Transactions /\ u.requests = t.requests /\ u.ip = t.ip /\ u.judged = body
      /\ u.responses = 1 /\ u.blocked = t.blocked /\ u.modified = t.modified
  BY <1>3 DEF I!Transactions
<1>. QED BY <1>4 DEF u

(* What the handler says goes with the transaction as it leaves it.        *)
Ruled(t, a, complete) ==
    /\ t \in I!Transactions \cup {Nothing}
    /\ t # Nothing => t.requests = 1 /\ t.ip = I!ClientIP(msg) /\ t.judged # "part"
    /\ a.kind \in {"more", "204", "block", "rewritten"}
    /\ a.kind = "more" =>
          /\ I!HasBody(msg) /\ ~complete
          /\ t # Nothing => ~t.blocked /\ ~t.finished /\ t.responses = 0 /\ t.judged = "nothing"
    /\ t # Nothing /\ a.kind # "more" =>
          /\ t.responses \in {0, 1}
          /\ I!Filtered => /\ (a.kind = "block") <=> t.blocked
                           /\ t.blocked \/ msg.method = "RESPMOD" => t.responses = 1
          /\ msg.method = "REQMOD" /\ t.modified /\ ~t.blocked => a.kind = "rewritten"
          /\ msg.method = "RESPMOD" /\ a.kind = "rewritten" => a.body = msg.bytes

LEMMA HandleSound ==
    ASSUME IcapTypes, InHand, NEW complete \in BOOLEAN, msg.method \in {"REQMOD", "RESPMOD"},
           (complete \/ ~I!HasBody(msg)) /\ ~req.truncated => req.body = msg.bytes, NEW d \in I!Handle(complete)
    PROVE  Ruled(d.txn, d.answer, complete)
<1>1. PICK o \in I!Outcomes(msg), changed \in BOOLEAN :
          d = IF msg.method = "REQMOD" THEN I!Reqmod(I!RequestPhase(txn, msg, o), msg, req, complete)
              ELSE I!Respmod(I!RequestPhase(txn, msg, o), msg, req, complete, changed)
  BY DEF I!Handle
<1>. DEFINE t == I!RequestPhase(txn, msg, o)
<1>2. /\ t \in I!Transactions \cup {Nothing}
      /\ t # Nothing => /\ t.requests = 1 /\ t.ip = I!ClientIP(msg) /\ t.judged = "nothing"
                        /\ ~t.finished /\ t.responses = 0
  BY RequestPhaseSound
<1>3. t # Nothing => t \in I!Transactions /\ t.blocked \in BOOLEAN /\ t.modified \in BOOLEAN
  BY <1>2 DEF I!Transactions
<1>. HIDE DEF t
<1>. DEFINE f(b) == I!Finish(t, b)
<1>4. ASSUME NEW b \in {"nothing", "whole", "part"}, t # Nothing
      PROVE  /\ f(b) \in I!Transactions /\ f(b).requests = 1 /\ f(b).ip = I!ClientIP(msg) /\ f(b).judged = b
             /\ f(b).responses = 1 /\ f(b).blocked = t.blocked /\ f(b).modified = t.modified
  BY <1>2, <1>3, <1>4, FinishSound
<1>. DEFINE n == f("nothing")
<1>. HIDE DEF f
<1>9. t # Nothing => /\ n \in I!Transactions /\ n.requests = 1 /\ n.ip = I!ClientIP(msg) /\ n.judged = "nothing"
                     /\ n.responses = 1 /\ n.blocked = t.blocked /\ n.modified = t.modified /\ n # Nothing
  BY <1>4, IcapAssumption
<1>. HIDE DEF n
<1>5. ASSUME NEW u, NEW a, d = I!Does(u, a) PROVE d.txn = u /\ d.answer = a
  BY <1>5 DEF I!Does
<1>6. CASE msg.method = "REQMOD"
  <2>1. d = I!Reqmod(t, msg, req, complete)
    BY <1>1, <1>6 DEF t
  <2>2. CASE t = Nothing
    <3>1. d = I!Does(t, I!NoContent)
      BY <2>1, <2>2 DEF I!Reqmod
    <3>. QED BY <1>5, <2>2, <3>1 DEF Ruled, I!NoContent
  <2>3. CASE t # Nothing /\ t.blocked
    <3>1. d = I!Does(n, I!BlockPage)
      BY <2>1, <2>3 DEF I!Reqmod, f, n
    <3>2. n.blocked /\ n \in I!Transactions /\ n.requests = 1 /\ n.ip = I!ClientIP(msg) /\ n.judged = "nothing" /\ n.responses = 1
      BY <1>9, <2>3
    <3>3. d.txn = n /\ d.answer = I!BlockPage /\ I!BlockPage.kind = "block"
      BY <1>5, <3>1 DEF I!BlockPage
    <3>. QED BY <1>6, <3>2, <3>3 DEF Ruled
  <2>4. CASE t # Nothing /\ ~t.blocked /\ ~t.modified
    <3>1. d = I!Does(t, I!NoContent)
      BY <2>1, <2>4 DEF I!Reqmod
    <3>. QED BY <1>2, <1>3, <1>5, <1>6, <2>4, <3>1 DEF Ruled, I!NoContent
  <2>5. CASE t # Nothing /\ ~t.blocked /\ t.modified
    <3>1. d = I!Does(t, IF I!HasBody(msg) /\ ~complete THEN I!More ELSE I!Rewritten(req.body))
      BY <2>1, <2>5 DEF I!Reqmod
    <3>2. CASE I!HasBody(msg) /\ ~complete
      BY <1>2, <1>3, <1>5, <1>6, <2>5, <3>1, <3>2 DEF Ruled, I!More
    <3>3. CASE ~(I!HasBody(msg) /\ ~complete)
      BY <1>2, <1>3, <1>5, <1>6, <2>5, <3>1, <3>3 DEF Ruled, I!Rewritten
    <3>. QED BY <3>2, <3>3
  <2>. QED BY <1>3, <2>2, <2>3, <2>4, <2>5
<1>7. CASE msg.method = "RESPMOD"
  <2>1. d = I!Respmod(t, msg, req, complete, changed)
    BY <1>1, <1>7 DEF t
  <2>2. CASE t = Nothing \/ "res-hdr" \notin I!Named(msg)
    <3>1. d = I!Does(t, I!NoContent)
      BY <2>1, <2>2 DEF I!Respmod
    <3>2. I!Filtered <=> "res-hdr" \in I!Named(msg)
      BY <1>7 DEF I!Filtered
    <3>. QED BY <1>2, <1>3, <1>5, <1>7, <2>2, <3>1, <3>2 DEF Ruled, I!NoContent
  <2>3. CASE t # Nothing /\ "res-hdr" \in I!Named(msg) /\ t.blocked
    <3>1. d = I!Does(n, I!BlockPage)
      BY <2>1, <2>3 DEF I!Respmod, f, n
    <3>2. n.blocked /\ n \in I!Transactions /\ n.requests = 1 /\ n.ip = I!ClientIP(msg) /\ n.judged = "nothing" /\ n.responses = 1
      BY <1>9, <2>3
    <3>3. d.txn = n /\ d.answer = I!BlockPage /\ I!BlockPage.kind = "block"
      BY <1>5, <3>1 DEF I!BlockPage
    <3>. QED BY <1>7, <3>2, <3>3 DEF Ruled
  <2>4. CASE t # Nothing /\ "res-hdr" \in I!Named(msg) /\ ~t.blocked
    <3>1. d = IF I!Oversize(msg, req) THEN I!Does(n, I!NoContent)
              ELSE IF I!HasBody(msg) /\ ~complete THEN I!Does(t, I!More)
              ELSE IF ~I!Readable(msg) THEN I!Does(n, I!NoContent)
              ELSE I!Does(f(IF req.body = msg.bytes THEN "whole" ELSE "part"),
                          IF req.truncated \/ ~changed THEN I!NoContent ELSE I!Rewritten(req.body))
      BY <2>1, <2>4 DEF I!Respmod, f, n
    <3>2. CASE d = I!Does(n, I!NoContent)
      BY <1>5, <1>7, <1>9, <2>4, <3>2 DEF Ruled, I!NoContent
    <3>3. CASE I!HasBody(msg) /\ ~complete /\ d = I!Does(t, I!More)
      BY <1>2, <1>3, <1>5, <1>7, <2>4, <3>3 DEF Ruled, I!More
    <3>4. CASE ~I!Oversize(msg, req) /\ ~(I!HasBody(msg) /\ ~complete) /\ I!Readable(msg)
      <4>1. ~req.truncated
        BY <3>4 DEF I!Oversize
      <4>2. req.body = msg.bytes
        BY <3>4, <4>1
      <4>3. d = I!Does(f("whole"), IF ~changed THEN I!NoContent ELSE I!Rewritten(req.body))
        BY <3>1, <3>4, <4>1, <4>2
      <4>4. CASE changed
        BY <1>4, <1>5, <1>7, <2>4, <4>2, <4>3, <4>4 DEF Ruled, I!Rewritten
      <4>5. CASE ~changed
        BY <1>4, <1>5, <1>7, <2>4, <4>3, <4>5 DEF Ruled, I!NoContent
      <4>. QED BY <4>4, <4>5
    <3>. QED BY <3>1, <3>2, <3>3, <3>4
  <2>. QED BY <1>3, <2>2, <2>3, <2>4
<1>. QED BY <1>6, <1>7

LEMMA AnswerSound ==
    ASSUME IcapTypes, client # "idle", msg.method \in {"REQMOD", "RESPMOD"}, wire = <<>>, UNCHANGED <<client, msg, wire, req>>,
           NEW t, NEW a, NEW complete, Ruled(t, a, complete), a.kind # "more", txn' = t, I!Answer(a)
    PROVE  IcapInv'
<1>1. /\ reply' = (IF a.kind = "204" /\ ~msg.allow204 /\ msg.method # "OPTIONS" THEN I!EchoUnmodified(msg, req) ELSE a)
      /\ pc' = (IF msg.close THEN "closed" ELSE "head")
  BY DEF I!Answer
<1>2. I!EchoUnmodified(msg, req).kind = "handed"
  BY DEF I!EchoUnmodified, I!Handed
<1>3. a.kind \in {"204", "block", "rewritten"}
  BY DEF Ruled
<1>4. \/ reply' = a
      \/ a.kind = "204" /\ reply'.kind = "handed"
  BY <1>1, <1>2
<1>5. /\ reply'.kind \in {"204", "block", "handed", "rewritten"}
      /\ reply'.kind = "block" <=> a.kind = "block"
      /\ reply'.kind = "rewritten" => reply' = a
      /\ a.kind = "rewritten" => reply' = a
  BY <1>3, <1>4
<1>6. IcapTypes' /\ pc' \in {"head", "closed"}
  BY <1>1, <1>5 DEF IcapTypes, Ruled, Kinds
<1>7. AtHead' /\ AtBody' /\ AtPreview' /\ AtModify'
  BY <1>1, <1>5 DEF AtHead, AtBody, AtPreview, AtModify
<1>8. I!PhasesOnce'
  BY <1>5 DEF I!PhasesOnce, I!Answered, I!Current, I!Filtered, Ruled, I!User, I!ClientIP
<1>9. I!Heeded'
  BY <1>5 DEF I!Heeded, I!Answered, I!Filtered, Ruled
<1>. QED BY <1>6, <1>7, <1>8, <1>9 DEF IcapInv

LEMMA PreviewStep ==
    ASSUME IcapInv, I!Preview
    PROVE  IcapInv'
<1>. USE DEF IcapInv
<1>1. /\ pc = "preview" /\ I!HasBody(msg) /\ InHand /\ client # "idle" /\ reply.kind = "none" /\ wire = <<>>
      /\ msg.preview >= 0 /\ req.complete = All(msg) /\ req.body <= MaxBodyBytes /\ (~req.truncated => req.body = I!Previewed(msg))
      /\ UNCHANGED <<client, msg, wire>>
  BY DEF I!Preview, AtPreview
<1>2. PICK d \in I!Handle(req.complete) :
          /\ txn' = d.txn
          /\ IF d.answer.kind = "more" THEN I!AskForMore ELSE I!Answer(d.answer) /\ UNCHANGED req
  BY DEF I!Preview
<1>3. /\ msg \in Messages /\ msg.method \in {"REQMOD", "RESPMOD"} /\ req.complete \in BOOLEAN /\ msg.bytes \in Nat /\ msg.preview \in Int
      /\ req \in [body : Nat, complete : BOOLEAN, truncated : BOOLEAN, stage : BodyStages]
  BY <1>1, MessageFacts DEF IcapTypes
<1>4. I!Previewed(msg) = IF msg.preview < msg.bytes THEN msg.preview ELSE msg.bytes
  BY <1>3, MessageFacts
<1>5. req.complete /\ ~req.truncated => req.body = msg.bytes
  BY <1>1, <1>3, <1>4 DEF All
<1>6. Ruled(d.txn, d.answer, req.complete)
  BY <1>1, <1>3, <1>5, HandleSound
<1>7. CASE d.answer.kind # "more"
  <2>1. I!Answer(d.answer) /\ UNCHANGED req
    BY <1>2, <1>7
  <2>. QED BY <1>1, <1>2, <1>3, <1>6, <1>7, <2>1, AnswerSound
<1>8. CASE d.answer.kind = "more"
  <2>1. ~req.complete /\ (txn' # Nothing => ~txn'.blocked /\ ~txn'.finished /\ txn'.responses = 0 /\ txn'.judged = "nothing")
        /\ (txn' # Nothing => txn'.requests = 1 /\ txn'.ip = I!ClientIP(msg)) /\ txn' \in I!Transactions \cup {Nothing}
    BY <1>2, <1>6, <1>8 DEF Ruled
  <2>2. reply' = [kind |-> "continue"] /\ pc' = "body" /\ req' = [req EXCEPT !.stage = "rest"]
    BY <1>2, <1>8, <2>1 DEF I!AskForMore
  <2>3. InHand' /\ reply'.kind = "continue"
    BY <1>1, <2>1, <2>2 DEF InHand, I!ClientIP
  <2>4. IcapTypes' /\ req'.stage = "rest" /\ req'.body = req.body /\ req'.truncated = req.truncated
    BY <1>1, <1>3, <2>1, <2>2 DEF IcapTypes, BodyStages, Kinds
  <2>5. msg.preview < msg.bytes /\ (~req.truncated => req.body = msg.preview)
    BY <1>1, <1>3, <1>4, <2>1 DEF All
  <2>6. req.body <= MaxBodyBytes
    BY <1>1
  <2>7. AtBody'
    <3>1. Slices(wire', msg.bytes, All(msg)) /\ wire' = <<>>
      BY <1>1 DEF Slices
    <3>. QED BY <1>1, <2>2, <2>3, <2>4, <2>5, <2>6, <3>1 DEF AtBody
  <2>8. I!PhasesOnce' /\ I!Heeded'
    <3>1. ~I!Answered'
      BY <2>3 DEF I!Answered
    <3>. QED BY <1>1, <2>3, <3>1 DEF I!PhasesOnce, I!Heeded, InHand, I!User, I!ClientIP
  <2>. QED BY <2>2, <2>4, <2>7, <2>8 DEF AtHead, AtPreview, AtModify
<1>. QED BY <1>7, <1>8

LEMMA CallModifyStep ==
    ASSUME IcapInv, I!CallModify
    PROVE  IcapInv'
<1>. USE DEF IcapInv
<1>1. /\ msg.method \in {"REQMOD", "RESPMOD"} /\ InHand /\ client # "idle" /\ wire = <<>>
      /\ ~req.truncated => req.body = msg.bytes
      /\ UNCHANGED <<client, msg, wire, req>>
  BY DEF I!CallModify, AtModify
<1>2. PICK d \in I!Handle(TRUE) : txn' = d.txn /\ I!Answer(d.answer)
  BY DEF I!CallModify
<1>3. Ruled(d.txn, d.answer, TRUE)
  BY <1>1, HandleSound
<1>4. d.answer.kind # "more"
  BY <1>3 DEF Ruled
<1>. QED BY <1>1, <1>2, <1>3, <1>4, AnswerSound

LEMMA CloseStep ==
    ASSUME IcapInv, I!Close
    PROVE  IcapInv'
<1>. USE DEF IcapInv
<1>1. pc \in {"head", "body"} /\ pc' = "closed" /\ UNCHANGED <<client, msg, wire, reply, req, txn>>
  BY DEF I!Close
<1>2. IcapTypes' /\ AtHead' /\ AtBody' /\ AtPreview' /\ AtModify'
  BY <1>1 DEF IcapTypes, AtHead, AtBody, AtPreview, AtModify
<1>3. I!PhasesOnce' /\ I!Heeded'
  BY <1>1 DEF I!PhasesOnce, I!Heeded, I!Answered, I!Current, I!Filtered
<1>. QED BY <1>2, <1>3

LEMMA ReadRequestHeadStep ==
    ASSUME IcapInv, I!ReadRequestHead
    PROVE  IcapInv'
<1>. USE DEF IcapInv
<1>1. /\ pc = "head" /\ wire # <<>> /\ wire' = Tail(wire) /\ txn' = Nothing /\ UNCHANGED <<client, msg>>
  BY DEF I!ReadRequestHead
<1>2. /\ reply.kind = "none" /\ client # "idle" /\ Slices(wire', First(msg), All(msg))
      /\ wire' # <<>> => I!HasBody(msg) /\ wire'[1].from = 0
      /\ client = "waiting" /\ I!HasBody(msg) => Ended(wire')
  BY <1>1 DEF AtHead
<1>3. /\ msg \in Messages /\ (I!HasBody(msg) \/ msg.bytes = 0) /\ (I!HasBody(msg) => msg.method \in {"REQMOD", "RESPMOD"})
      /\ MaxBodyBytes \in Nat /\ msg.preview \in Int /\ Nothing \in I!Transactions \cup {Nothing}
  BY MessageFacts, IcapAssumption DEF IcapTypes
<1>4. InHand' /\ I!PhasesOnce' /\ I!Heeded'
  BY <1>1 DEF InHand, I!PhasesOnce, I!Heeded
<1>. DEFINE Reqs == [body : Nat, complete : BOOLEAN, truncated : BOOLEAN, stage : BodyStages]
<1>5. I!NoRequest \in Reqs /\ I!NoRequest.body = 0 /\ I!NoRequest.stage = "head" /\ I!NoRequest.truncated = FALSE
  BY DEF I!NoRequest, BodyStages
<1>6. ASSUME req' \in Reqs, pc' \in {"head", "closed"}, reply'.kind \in {"400", "501", "options"}, pc' = "head" => wire' = <<>>
      PROVE  IcapInv'
  <2>1. IcapTypes'
    BY <1>1, <1>6 DEF IcapTypes, Kinds
  <2>2. AtHead'
    BY <1>1, <1>2, <1>6 DEF AtHead
  <2>. QED BY <1>6, <2>1, <2>2, Idle
<1>7. \/ reply' = [kind |-> "400"] /\ pc' = "closed" /\ req' = I!NoRequest
      \/ msg.method = "OPTIONS" /\ req' = I!NoRequest /\ I!Answer([kind |-> "options", methods |-> I!MethodsForService(msg.service)])
      \/ msg.method = "OTHER" /\ req' = I!NoRequest /\ I!Answer([kind |-> "501"])
      \/ /\ msg.method \in {"REQMOD", "RESPMOD"} /\ UNCHANGED reply
         /\ IF ~I!HasBody(msg) THEN pc' = "modify" /\ req' = I!NoRequest
            ELSE pc' = "body" /\ req' = [I!NoRequest EXCEPT !.stage = IF msg.preview >= 0 THEN "preview" ELSE "all"]
  BY DEF I!ReadRequestHead
<1>8. ASSUME NEW a, a.kind \in {"501", "options"}, I!Answer(a)
      PROVE  reply'.kind \in {"501", "options"} /\ pc' \in {"head", "closed"}
  BY <1>8 DEF I!Answer
<1>9. CASE reply' = [kind |-> "400"] /\ pc' = "closed" /\ req' = I!NoRequest
  BY <1>5, <1>6, <1>9
<1>10. CASE msg.method = "OPTIONS" /\ req' = I!NoRequest /\ I!Answer([kind |-> "options", methods |-> I!MethodsForService(msg.service)])
  <2>. DEFINE a == [kind |-> "options", methods |-> I!MethodsForService(msg.service)]
  <2>1. a.kind \in {"501", "options"} /\ I!Answer(a)
    BY <1>10
  <2>. HIDE DEF a
  <2>2. reply'.kind \in {"501", "options"} /\ pc' \in {"head", "closed"}
    BY <2>1, <1>8
  <2>3. wire' = <<>>
    BY <1>2, <1>3, <1>10
  <2>. QED BY <1>5, <1>6, <1>10, <2>2, <2>3
<1>11. CASE msg.method = "OTHER" /\ req' = I!NoRequest /\ I!Answer([kind |-> "501"])
  <2>. DEFINE a == [kind |-> "501"]
  <2>1. a.kind \in {"501", "options"} /\ I!Answer(a)
    BY <1>11
  <2>. HIDE DEF a
  <2>2. reply'.kind \in {"501", "options"} /\ pc' \in {"head", "closed"}
    BY <2>1, <1>8
  <2>3. wire' = <<>>
    BY <1>2, <1>3, <1>11
  <2>. QED BY <1>5, <1>6, <1>11, <2>2, <2>3
<1>12. CASE msg.method \in {"REQMOD", "RESPMOD"} /\ UNCHANGED reply /\ ~I!HasBody(msg) /\ pc' = "modify" /\ req' = I!NoRequest
  <2>1. wire' = <<>> /\ req'.body = msg.bytes
    BY <1>2, <1>3, <1>5, <1>12
  <2>2. IcapTypes'
    BY <1>1, <1>3, <1>5, <1>12 DEF IcapTypes
  <2>3. AtModify'
    BY <1>1, <1>2, <1>4, <1>12, <2>1 DEF AtModify
  <2>. QED BY <1>4, <1>12, <2>2, <2>3 DEF AtHead, AtBody, AtPreview
<1>13. CASE /\ msg.method \in {"REQMOD", "RESPMOD"} /\ UNCHANGED reply /\ I!HasBody(msg) /\ pc' = "body"
            /\ req' = [I!NoRequest EXCEPT !.stage = IF msg.preview >= 0 THEN "preview" ELSE "all"]
  <2>1. /\ req' \in Reqs /\ req'.body = 0 /\ req'.truncated = FALSE
        /\ req'.stage = IF msg.preview >= 0 THEN "preview" ELSE "all"
    <3>. DEFINE stg == IF msg.preview >= 0 THEN "preview" ELSE "all"
    <3>1. stg \in BodyStages /\ req' = [I!NoRequest EXCEPT !.stage = stg]
      BY <1>13 DEF BodyStages
    <3>. HIDE DEF stg
    <3>2. req' \in Reqs /\ req'.body = 0 /\ req'.truncated = FALSE /\ req'.stage = stg
      BY <1>5, <3>1
    <3>. QED BY <3>2 DEF stg
  <2>2. Slices(wire', IF req'.stage = "preview" THEN I!Previewed(msg) ELSE msg.bytes, All(msg))
    BY <1>2, <1>3, <2>1 DEF First
  <2>3. IcapTypes'
    BY <1>1, <1>3, <1>13, <2>1 DEF IcapTypes
  <2>4. wire' # <<>> => wire'[1].from = req'.body
    BY <1>2, <2>1
  <2>5. AtBody'
    <3>1. \/ req'.stage = "preview" /\ msg.preview >= 0
          \/ req'.stage = "all" /\ msg.preview < 0
      BY <1>3, <2>1
    <3>2. req'.body <= MaxBodyBytes
      BY <1>3, <2>1
    <3>3. client = "waiting" => Ended(wire')
      BY <1>2, <1>13
    <3>. QED BY <1>1, <1>2, <1>4, <1>13, <2>2, <2>4, <3>1, <3>2, <3>3 DEF AtBody
  <2>. QED BY <1>4, <1>13, <2>3, <2>5 DEF AtHead, AtPreview, AtModify
<1>. QED BY <1>7, <1>9, <1>10, <1>11, <1>12, <1>13

LEMMA IcapStep == IcapInv /\ [I!Next]_icap => IcapInv'
<1>. SUFFICES ASSUME IcapInv, [I!Next]_icap PROVE IcapInv'
  OBVIOUS
<1>1. CASE UNCHANGED icap
  <2>1. UNCHANGED <<client, msg, wire, reply, pc, req, txn>>
    BY <1>1 DEF icap
  <2>2. IcapTypes' /\ AtHead' /\ AtBody' /\ AtPreview' /\ AtModify'
    BY <2>1 DEF IcapInv, IcapTypes, AtHead, AtBody, AtPreview, AtModify, InHand
  <2>3. I!PhasesOnce' /\ I!Heeded'
    BY <2>1 DEF IcapInv, I!PhasesOnce, I!Heeded, I!Answered, I!Current, I!Filtered
  <2>. QED BY <2>2, <2>3 DEF IcapInv
<1>2. CASE \E m \in Messages : I!Send(m)
  BY <1>2, SendStep
<1>3. CASE I!Continues
  BY <1>3, ContinuesStep
<1>4. CASE I!Receive
  BY <1>4, ReceiveStep
<1>5. CASE I!Hangup
  BY <1>5, HangupStep
<1>6. CASE I!ServerNext
  BY <1>6, ReadRequestHeadStep, ReadChunkStep, ReadLastStep, PreviewStep, CallModifyStep, CloseStep DEF I!ServerNext
<1>. QED BY <1>1, <1>2, <1>3, <1>4, <1>5, <1>6 DEF I!Next

(* However a message is previewed, cut into chunks and broken off: it meets *)
(* one request phase, no addon judges a part of a body, the client proxy is*)
(* told what the policy decided, and the two never wait for each other.    *)
THEOREM TransactionSoundAlways == StandaloneSpec => []TransactionSound
<1>. DEFINE Inv == which = "icap" => IcapInv
<1>1. ComponentsInit => Inv
  <2>1. I!Init => IcapInv
    <3>. SUFFICES ASSUME I!Init PROVE IcapInv
      OBVIOUS
    <3>1. /\ client = "idle" /\ msg \in Messages /\ wire = <<>> /\ reply = [kind |-> "none"]
          /\ pc = "head" /\ req = [body |-> 0, complete |-> FALSE, truncated |-> FALSE, stage |-> "head"] /\ txn = Nothing
      BY DEF I!Init, I!NoReply, I!NoRequest
    <3>2. IcapTypes
      BY <3>1 DEF IcapTypes, BodyStages, Kinds
    <3>3. AtHead
      BY <3>1 DEF AtHead
    <3>. QED BY <3>1, <3>2, <3>3 DEF IcapInv, AtBody, AtPreview, AtModify, I!PhasesOnce, I!Heeded
  <2>. QED BY <2>1 DEF ComponentsInit
<1>2. Inv /\ [ComponentsNext]_standaloneVars => Inv'
  <2>. SUFFICES ASSUME Inv, [ComponentsNext]_standaloneVars, which' = "icap" PROVE IcapInv'
    OBVIOUS
  <2>1. which = "icap" /\ [I!Next]_icap
    BY DEF ComponentsNext, standaloneVars
  <2>. QED BY <2>1, IcapStep
<1>3. Inv => TransactionSound
  <2>1. IcapInv => I!InStep
    BY DEF IcapInv, AtHead, AtBody, Ended, I!InStep, I!NoReply
  <2>. QED BY <2>1 DEF IcapInv, TransactionSound, I!TransactionSound
<1>. QED BY <1>1, <1>2, <1>3, PTL DEF StandaloneSpec

-----------------------------------------------------------------------------
(* Device.  A caller past its provisioning has found the files, and the    *)
(* default policy with them unless the first provisioning was disturbed;   *)
(* what a document plans is what it asks for, and stays what the files say *)
(* unless somebody overtook it; the document that is recorded is none whose*)
(* writes were cut short.                                                  *)
Whereabouts ==
    {"idle", "stat", "save", "seed", "bootstrap", "body", "listening", "serve", "tun", "wait", "write",
     "settings", "policy", "managed", "refresh"}
Plans == [doc : Accepted, settings : SettingsFiles, policy : PolicyFiles \cup {Null}]
DeviceTypes ==
    /\ settings \in SettingsFiles \cup {Null} /\ managed \in ManagedFiles \cup {Null}
    /\ policy \in [Dirs -> PolicyFiles \cup {Null}]
    /\ place \in [M!Actors -> Whereabouts]
    /\ running \in BOOLEAN /\ serving \in BOOLEAN /\ held \in SettingsFiles \cup {Nothing}
    /\ plan \in Plans \cup {Nothing} /\ checked \in ManagedFiles \cup {Null, Nothing}
    /\ halfway \in Accepted \cup {Nothing} /\ disturbed \in BOOLEAN
EngineUp ==
    /\ running => place["life"] \in {"idle", "wait"}
    /\ running \/ place["life"] \in {"serve", "tun"} => held # Nothing
    /\ serving => held # Nothing /\ (running \/ place["life"] \in {"tun", "wait"})
AtWork == {"body", "write", "settings", "policy", "managed", "refresh", "listening", "serve", "tun"}
Found ==
    /\ \A c \in M!Actors : place[c] \in AtWork \cup {"seed", "bootstrap"} => settings # Null
    /\ managed # Null \/ running => settings # Null
Seeded ==
    /\ \A c \in M!Actors : place[c] \in AtWork => policy[Home] # Null
    /\ running => policy[Home] # Null
    /\ settings # Null /\ settings.dir # Home => policy[Home] # Null
    /\ settings # Null /\ policy[Home] = Null => disturbed \/ \E c \in M!Actors : place[c] = "seed"
Filtering == disturbed \/ policy[Home] = Null \/ policy[Home].level # "off"
Matches(d, p) ==
    /\ p \in PolicyFiles
    /\ d.json # Absent => p = d.json
    /\ d.json = Absent /\ d.patch # Absent =>
          /\ d.patch.level \in {Absent, p.level}
          /\ d.patch.acts # Absent => p.acts = d.patch.acts
          /\ d.patch.acts = Absent /\ d.patch.categories # Absent => DOMAIN p.acts = d.patch.categories
Agrees(d, s) == d.settings.dir \in {Absent, s.dir} /\ d.settings.port \in {Absent, s.port}
Applying == {"settings", "policy", "managed", "refresh"}
Planned ==
    place["app"] \in Applying =>
        /\ plan \in Plans /\ Agrees(plan.doc, plan.settings)
        /\ M!SetsPolicy(plan.doc) => Matches(plan.doc, plan.policy)
        /\ M!SetsPolicy(plan.doc) /\ plan.settings.dir = Home => disturbed \/ plan.policy.level # "off"
        /\ place["app"] # "refresh" /\ managed # Null => managed.doc # plan.doc
        /\ place["app"] = "refresh" => managed # Null /\ managed.doc = plan.doc
Written ==
    place["app"] \in Applying =>
        /\ "settings" \notin overtaken /\ (place["app"] # "settings" \/ ~M!SetsSettings(plan.doc)) => settings = plan.settings
        /\ "policy" \notin overtaken /\ place["app"] \in {"managed", "refresh"} /\ M!SetsPolicy(plan.doc) =>
              policy[plan.settings.dir] = plan.policy
Unlocked == place["edit"] = "write" /\ checked # Null => checked \in ManagedFiles /\ ~checked.locked
Remembered ==
    managed # Null =>
        /\ halfway # managed.doc
        /\ managed.locked /\ halfway = Nothing /\ overtaken = {} =>
              /\ Agrees(managed.doc, settings)
              /\ M!SetsPolicy(managed.doc) => Matches(managed.doc, policy[settings.dir])
DeviceInv == DeviceTypes /\ EngineUp /\ Found /\ Seeded /\ Filtering /\ Planned /\ Written /\ Unlocked /\ Remembered

USE DeviceAssumption

LEMMA DeviceHolds == DeviceInv => M!DeviceSound
<1>. SUFFICES ASSUME DeviceInv PROVE M!DeviceSound
  OBVIOUS
<1>1. M!ManagedHeld
  <2>. SUFFICES ASSUME managed # Null, managed.locked, halfway \in {Nothing, managed.doc}, overtaken = {} PROVE M!Held(managed.doc)
    BY DEF M!ManagedHeld
  <2>1. /\ Agrees(managed.doc, settings)
        /\ M!SetsPolicy(managed.doc) => Matches(managed.doc, policy[settings.dir])
    BY DEF DeviceInv, Remembered
  <2>. QED BY <2>1 DEF Agrees, Matches, M!Held, M!SetsPolicy
<1>2. M!BadLeavesNoTrace
  BY DEF DeviceInv, DeviceTypes, M!BadLeavesNoTrace, SettingsFiles, ManagedFiles, Accepted
<1>3. M!FamilyBaseline
  <2>1. M!Plain.level = "off"
    BY DEF M!Plain
  <2>2. M!Plain \in PolicyFiles
    BY DEF M!Plain, PolicyFiles, AskedActions
  <2>. QED BY <2>1, <2>2 DEF DeviceInv, Filtering, M!FamilyBaseline
<1>4. M!Rebinds
  BY DEF DeviceInv, EngineUp, M!Rebinds
<1>. QED BY <1>1, <1>2, <1>3, <1>4 DEF M!DeviceSound

LEMMA DeviceStarts == M!Init => DeviceInv
<1>. SUFFICES ASSUME M!Init PROVE DeviceInv
  OBVIOUS
<1>1. place = [c \in M!Actors |-> "idle"]
  BY DEF M!Init
<1>2. place \in [M!Actors -> Whereabouts]
  BY <1>1 DEF Whereabouts
<1>3. policy \in [Dirs -> PolicyFiles \cup {Null}] /\ policy[Home] = Null
  BY DEF M!Init
<1>4. \A c \in M!Actors : place[c] = "idle"
  BY <1>1
<1>5. DeviceTypes
  BY <1>2, <1>3 DEF M!Init, DeviceTypes
<1>. QED BY <1>3, <1>4, <1>5 DEF M!Init, M!Actors, DeviceInv, EngineUp, Found, Seeded, Filtering, Planned, Written, Unlocked, Remembered, Applying, AtWork

(* A caller goes on or gives up and leaves the files alone.                *)
LEMMA WalkStep ==
    ASSUME DeviceInv, NEW c \in M!Actors, NEW l \in {"idle", "stat", "save", "bootstrap", "listening"},
           place' = [place EXCEPT ![c] = l], place[c] \in {"idle", "stat", "body", "listening"} \cup Applying,
           c = "life" => ~running, l = "bootstrap" => settings # Null, l = "listening" => place[c] = "body",
           plan' = plan \/ (c = "app" /\ plan' = Nothing),
           UNCHANGED <<settings, policy, managed, running, held, serving, checked, halfway, overtaken, disturbed>>
    PROVE  DeviceInv'
<1>1. /\ place' \in [M!Actors -> Whereabouts] /\ place'[c] = l
      /\ \A a \in M!Actors : a # c => place'[a] = place[a]
  BY DEF DeviceInv, DeviceTypes, Whereabouts
<1>2. DeviceTypes'
  BY <1>1 DEF DeviceInv, DeviceTypes
<1>3. EngineUp'
  BY <1>1 DEF DeviceInv, EngineUp, M!Actors, Applying
<1>4. Found' /\ Seeded' /\ Filtering'
  BY <1>1 DEF DeviceInv, Found, Seeded, Filtering, AtWork, Applying
<1>5. Planned' /\ Written' /\ Unlocked' /\ Remembered'
  BY <1>1 DEF DeviceInv, Planned, Written, Unlocked, Remembered, Applying, M!Actors
<1>. QED BY <1>2, <1>3, <1>4, <1>5 DEF DeviceInv

LEMMA SaveDefaultsStep ==
    ASSUME DeviceInv, NEW c \in M!Actors, M!SaveDefaults(c) PROVE DeviceInv'
<1>1. /\ place[c] = "save" /\ place' = [place EXCEPT ![c] = "seed"] /\ settings' = M!MobileDefaults
      /\ overtaken' = IF settings = Null THEN overtaken ELSE overtaken \cup {"settings"}
      /\ UNCHANGED <<policy, managed, mu, running, held, serving, plan, checked, halfway, disturbed>>
  BY DEF M!SaveDefaults, M!Goto, M!engine
<1>2. /\ place' \in [M!Actors -> Whereabouts] /\ place'[c] = "seed"
      /\ \A a \in M!Actors : a # c => place'[a] = place[a]
  BY <1>1 DEF DeviceInv, DeviceTypes, Whereabouts
<1>3. M!MobileDefaults \in SettingsFiles /\ M!MobileDefaults.dir = Home
  BY DEF M!MobileDefaults, SettingsFiles, AskedPorts
<1>4. DeviceTypes'
  BY <1>1, <1>2, <1>3 DEF DeviceInv, DeviceTypes
<1>5. EngineUp' /\ Found' /\ Seeded' /\ Filtering'
  BY <1>1, <1>2, <1>3 DEF DeviceInv, EngineUp, Found, Seeded, Filtering, AtWork, M!Actors
<1>6. Planned' /\ Unlocked'
  BY <1>1, <1>2 DEF DeviceInv, Planned, Unlocked, Applying, M!Actors
<1>7. Written'
  BY <1>1, <1>2 DEF DeviceInv, Written, Found, AtWork, Applying, M!Actors
<1>8. Remembered'
  BY <1>1 DEF DeviceInv, Remembered, Found
<1>. QED BY <1>4, <1>5, <1>6, <1>7, <1>8 DEF DeviceInv

(* A policy file that appears contradicts no document.                     *)
LEMMA PolicyKept ==
    ASSUME DeviceInv, NEW c \in M!Actors, place[c] \notin Applying, place'[c] \notin Applying,
           \A a \in M!Actors : a # c => place'[a] = place[a],
           policy' \in [Dirs -> PolicyFiles \cup {Null}], \A d \in Dirs : policy[d] # Null => policy'[d] = policy[d],
           UNCHANGED <<settings, managed, plan, halfway, overtaken>>
    PROVE  Written' /\ Remembered'
<1>1. Written'
  <2>. SUFFICES ASSUME place'["app"] \in Applying PROVE Written'
    BY DEF Written
  <2>1. place["app"] = place'["app"] /\ plan \in Plans
    BY DEF DeviceInv, Planned, Applying, M!Actors
  <2>2. M!SetsPolicy(plan.doc) => plan.policy # Null
    BY <2>1 DEF DeviceInv, Planned, Matches
  <2>. QED BY <2>1, <2>2 DEF DeviceInv, Written, Plans, SettingsFiles
<1>2. Remembered'
  BY DEF DeviceInv, DeviceTypes, Remembered, Found, Matches, SettingsFiles
<1>. QED BY <1>1, <1>2

LEMMA SeedDefaultStep ==
    ASSUME DeviceInv, NEW c \in M!Actors, M!SeedDefault(c) PROVE DeviceInv'
<1>1. /\ place[c] = "seed" /\ place' = [place EXCEPT ![c] = "bootstrap"]
      /\ policy' = IF policy[Home] = Null THEN [policy EXCEPT ![Home] = M!Family] ELSE policy
      /\ UNCHANGED <<settings, managed, mu, running, held, serving, plan, checked, halfway, overtaken, disturbed>>
  BY DEF M!SeedDefault, M!Goto, M!engine, M!ghosts
<1>2. /\ place' \in [M!Actors -> Whereabouts] /\ place'[c] = "bootstrap"
      /\ \A a \in M!Actors : a # c => place'[a] = place[a]
  BY <1>1 DEF DeviceInv, DeviceTypes, Whereabouts
<1>3. M!Family \in PolicyFiles /\ M!Family.level # "off"
  BY DEF M!Family, PolicyFiles, AskedLevels, AskedActions
<1>4. /\ policy' \in [Dirs -> PolicyFiles \cup {Null}]
      /\ policy'[Home] # Null /\ (policy'[Home] = policy[Home] \/ policy'[Home].level # "off")
      /\ \A d \in Dirs : policy[d] # Null => policy'[d] = policy[d]
  BY <1>1, <1>3 DEF DeviceInv, DeviceTypes
<1>5. DeviceTypes'
  BY <1>1, <1>2, <1>4 DEF DeviceInv, DeviceTypes
<1>6. EngineUp' /\ Found' /\ Seeded' /\ Filtering'
  BY <1>1, <1>2, <1>4 DEF DeviceInv, EngineUp, Found, Seeded, Filtering, AtWork, M!Actors
<1>7. Planned' /\ Unlocked'
  BY <1>1, <1>2 DEF DeviceInv, Planned, Unlocked, Applying, M!Actors
<1>8. Written' /\ Remembered'
  <2>1. place[c] \notin Applying /\ place'[c] \notin Applying
    BY <1>1, <1>2 DEF Applying
  <2>. QED BY <1>1, <1>2, <1>4, <2>1, PolicyKept
<1>. QED BY <1>5, <1>6, <1>7, <1>8 DEF DeviceInv
LEMMA BootstrapRuntimeFilesStep ==
    ASSUME DeviceInv, NEW c \in M!Actors, M!BootstrapRuntimeFiles(c) PROVE DeviceInv'
<1>1. /\ place[c] = "bootstrap" /\ place' = [place EXCEPT ![c] = "body"]
      /\ policy' = IF policy[settings.dir] = Null THEN [policy EXCEPT ![settings.dir] = M!Plain] ELSE policy
      /\ disturbed' = (disturbed \/ (policy[Home] = Null /\ \E d \in M!Actors : place[d] = "seed"))
      /\ UNCHANGED <<settings, managed, mu, running, held, serving, plan, checked, halfway, overtaken>>
  BY DEF M!BootstrapRuntimeFiles, M!Goto, M!engine
<1>2. /\ place' \in [M!Actors -> Whereabouts] /\ place'[c] = "body"
      /\ \A a \in M!Actors : a # c => place'[a] = place[a]
  BY <1>1 DEF DeviceInv, DeviceTypes, Whereabouts
<1>3. M!Plain \in PolicyFiles
  BY DEF M!Plain, PolicyFiles, AskedActions
<1>4. settings \in SettingsFiles /\ settings.dir \in Dirs
  BY <1>1 DEF DeviceInv, DeviceTypes, Found, SettingsFiles
<1>5. /\ policy' \in [Dirs -> PolicyFiles \cup {Null}] /\ policy'[settings.dir] # Null
      /\ \A d \in Dirs : policy[d] # Null => policy'[d] = policy[d]
      /\ policy'[Home] = policy[Home] \/ policy[Home] = Null
  BY <1>1, <1>3, <1>4 DEF DeviceInv, DeviceTypes
<1>6. DeviceTypes'
  BY <1>1, <1>2, <1>5 DEF DeviceInv, DeviceTypes
<1>7. EngineUp' /\ Found'
  BY <1>1, <1>2 DEF DeviceInv, EngineUp, Found, AtWork, M!Actors
<1>8. policy'[Home] # Null
  BY <1>4, <1>5 DEF DeviceInv, Seeded
<1>9. Seeded' /\ Filtering'
  BY <1>1, <1>4, <1>5, <1>8 DEF DeviceInv, Seeded, Filtering
<1>10. Planned' /\ Unlocked'
  BY <1>1, <1>2 DEF DeviceInv, Planned, Unlocked, Applying, M!Actors
<1>11. Written' /\ Remembered'
  <2>1. place[c] \notin Applying /\ place'[c] \notin Applying
    BY <1>1, <1>2 DEF Applying
  <2>. QED BY <1>1, <1>2, <1>5, <2>1, PolicyKept
<1>. QED BY <1>6, <1>7, <1>9, <1>10, <1>11 DEF DeviceInv

LEMMA StatStep ==
    ASSUME DeviceInv, NEW c \in M!Actors, c = "life" => ~running, M!Stat(c) PROVE DeviceInv'
<1>. DEFINE l == IF settings = Null THEN "save" ELSE "bootstrap"
<1>1. l \in {"save", "bootstrap"} /\ (l = "bootstrap" => settings # Null)
  OBVIOUS
<1>2. /\ place[c] = "stat" /\ place' = [place EXCEPT ![c] = l]
      /\ UNCHANGED <<settings, policy, managed, running, held, serving, plan, checked, halfway, overtaken, disturbed>>
  BY DEF M!Stat, M!Goto, M!disk, M!engine, M!ghosts
<1>. HIDE DEF l
<1>. QED BY <1>1, <1>2, WalkStep

LEMMA ProvisionStep ==
    ASSUME DeviceInv, NEW c \in M!Actors, M!Provision(c) PROVE DeviceInv'
<1>1. CASE M!Stat(c)
  <2>1. c = "life" => ~running
    BY <1>1 DEF M!Stat, DeviceInv, EngineUp
  <2>. QED BY <1>1, <2>1, StatStep
<1>. QED BY <1>1, SaveDefaultsStep, SeedDefaultStep, BootstrapRuntimeFilesStep DEF M!Provision

(* A step of Start or Stop, which never writes a file.                     *)
LEMMA LifeStep ==
    ASSUME DeviceInv, NEW l \in {"idle", "serve", "tun", "wait"}, place' = [place EXCEPT !["life"] = l],
           l \in {"serve", "tun"} => place["life"] \in {"listening", "serve", "tun"},
           place["life"] # "seed",
           running' \in BOOLEAN, serving' \in BOOLEAN, held' \in SettingsFiles \cup {Nothing},
           EngineUp', running' => running \/ place["life"] = "tun",
           UNCHANGED <<settings, policy, managed, plan, checked, halfway, overtaken, disturbed>>
    PROVE  DeviceInv'
<1>1. /\ place' \in [M!Actors -> Whereabouts] /\ place'["life"] = l
      /\ \A a \in M!Actors : a # "life" => place'[a] = place[a]
  BY DEF DeviceInv, DeviceTypes, Whereabouts, M!Actors
<1>2. DeviceTypes'
  BY <1>1 DEF DeviceInv, DeviceTypes
<1>3. "life" \in M!Actors
  BY DEF M!Actors
<1>4. Found' /\ Seeded' /\ Filtering'
  BY <1>1, <1>3 DEF DeviceInv, Found, Seeded, Filtering, AtWork
<1>5. Planned' /\ Written' /\ Unlocked' /\ Remembered'
  BY <1>1 DEF DeviceInv, Planned, Written, Unlocked, Remembered, Applying, M!Actors
<1>. QED BY <1>2, <1>4, <1>5 DEF DeviceInv

LEMMA EngineStep == DeviceInv /\ M!Life => DeviceInv'
<1>. SUFFICES ASSUME DeviceInv, M!Life PROVE DeviceInv'
  OBVIOUS
<1>. USE DEF M!Goto, M!Release, M!disk, M!engine, M!ghosts
<1>1. "life" \in M!Actors /\ DeviceTypes /\ EngineUp /\ Found /\ place \in [M!Actors -> Whereabouts]
  BY DEF M!Actors, DeviceInv, DeviceTypes
<1>2. CASE M!Start
  BY <1>1, <1>2, WalkStep DEF M!Start
<1>3. CASE M!Provision("life")
  BY <1>1, <1>3, ProvisionStep
<1>4. CASE M!Listen
  <2>1. ~running
    BY <1>1, <1>4 DEF M!Listen, EngineUp
  <2>2. \E l \in {"idle", "listening"} : place' = [place EXCEPT !["life"] = l]
    BY <1>4 DEF M!Listen
  <2>. QED BY <1>1, <1>4, <2>1, <2>2, WalkStep DEF M!Listen
<1>5. CASE M!NewServer
  <2>1. ~running /\ settings \in SettingsFiles
    BY <1>1, <1>5 DEF M!NewServer, EngineUp, Found, AtWork, DeviceTypes
  <2>2. CASE place' = [place EXCEPT !["life"] = "serve"] /\ held' = settings
    <3>1. EngineUp'
      BY <1>1, <1>5, <2>1, <2>2 DEF M!NewServer, EngineUp
    <3>. QED BY <1>1, <1>5, <2>1, <2>2, <3>1, LifeStep DEF M!NewServer, DeviceTypes
  <2>3. CASE place' = [place EXCEPT !["life"] = "idle"] /\ held' = held
    BY <1>1, <1>5, <2>1, <2>3, WalkStep DEF M!NewServer
  <2>. QED BY <1>5, <2>2, <2>3 DEF M!NewServer
<1>6. CASE M!Serve
  <2>1. EngineUp'
    BY <1>1, <1>6 DEF M!Serve, EngineUp
  <2>. QED BY <1>1, <1>6, <2>1, LifeStep DEF M!Serve, DeviceTypes
<1>7. CASE M!StartTun
  <2>1. EngineUp'
    BY <1>1, <1>7 DEF M!StartTun, EngineUp
  <2>2. /\ place["life"] = "tun" /\ \E l \in {"idle", "wait"} : place' = [place EXCEPT !["life"] = l]
        /\ running' \in BOOLEAN
    BY <1>1, <1>7 DEF M!StartTun, DeviceTypes
  <2>. QED BY <1>1, <1>7, <2>1, <2>2, LifeStep DEF M!StartTun, DeviceTypes
<1>8. CASE M!Stop
  <2>1. EngineUp'
    BY <1>1, <1>8 DEF M!Stop, EngineUp
  <2>. QED BY <1>1, <1>8, <2>1, LifeStep DEF M!Stop, DeviceTypes
<1>9. CASE M!ServeEnds
  <2>1. EngineUp' /\ place' = [place EXCEPT !["life"] = "wait"] 
    BY <1>1, <1>9 DEF M!ServeEnds, EngineUp
  <2>. QED BY <1>1, <1>9, <2>1, LifeStep DEF M!ServeEnds, DeviceTypes
<1>10. CASE M!Stopped
  <2>1. EngineUp'
    BY <1>1, <1>10 DEF M!Stopped, EngineUp
  <2>. QED BY <1>1, <1>10, <2>1, LifeStep DEF M!Stopped, DeviceTypes
<1>. QED BY <1>2, <1>3, <1>4, <1>5, <1>6, <1>7, <1>8, <1>9, <1>10 DEF M!Life

(* An edit writes what was asked for into a file that is there, and notes  *)
(* whom it overtook.                                                       *)
LEMMA EditStep ==
    ASSUME DeviceInv, M!Edit PROVE DeviceInv'
<1>. USE DEF M!Goto, M!disk, M!engine, M!ghosts
<1>1. "edit" \in M!Actors /\ "edit" # "life" /\ "edit" # "app"
  BY DEF M!Actors
<1>2. CASE M!Provision("edit")
  BY <1>1, <1>2, ProvisionStep
<1>3. CASE M!CheckUnlocked
  <2>1. CASE place' = [place EXCEPT !["edit"] = "idle"] /\ UNCHANGED checked
    BY <1>1, <1>3, <2>1, WalkStep DEF M!CheckUnlocked
  <2>2. CASE (managed # Null => ~managed.locked) /\ place' = [place EXCEPT !["edit"] = "write"] /\ checked' = managed
    <3>1. /\ place' \in [M!Actors -> Whereabouts] /\ place'["edit"] = "write" /\ place["edit"] = "body"
          /\ \A a \in M!Actors : a # "edit" => place'[a] = place[a]
      BY <1>1, <1>3, <2>2 DEF DeviceInv, DeviceTypes, Whereabouts, M!CheckUnlocked
    <3>2. UNCHANGED <<settings, policy, managed, running, held, serving, plan, halfway, overtaken, disturbed>>
      BY <1>3 DEF M!CheckUnlocked
    <3>3. DeviceTypes' /\ EngineUp'
      BY <2>2, <3>1, <3>2 DEF DeviceInv, DeviceTypes, EngineUp, M!Actors
    <3>4. Found' /\ Seeded' /\ Filtering'
      BY <1>1, <3>1, <3>2 DEF DeviceInv, Found, Seeded, Filtering, AtWork
    <3>5. Planned' /\ Written' /\ Remembered' /\ Unlocked'
      BY <2>2, <3>1, <3>2 DEF DeviceInv, DeviceTypes, Planned, Written, Unlocked, Remembered, Applying, M!Actors
    <3>. QED BY <3>3, <3>4, <3>5 DEF DeviceInv
  <2>. QED BY <1>3, <2>1, <2>2 DEF M!CheckUnlocked
<1>4. CASE M!UpdateSettings \/ M!UpdatePolicy
  <2>1. /\ place["edit"] = "write" /\ place' = [place EXCEPT !["edit"] = "idle"] /\ checked' = Nothing
        /\ UNCHANGED <<managed, running, serving, plan, halfway, disturbed>>
    BY <1>4 DEF M!UpdateSettings, M!UpdatePolicy, M!MayEdit, M!Edited
  <2>2. /\ place' \in [M!Actors -> Whereabouts] /\ place'["edit"] = "idle"
        /\ \A a \in M!Actors : a # "edit" => place'[a] = place[a]
    BY <1>1, <2>1 DEF DeviceInv, DeviceTypes, Whereabouts
  <2>3. place'["app"] = place["app"] /\ place'["life"] = place["life"]
    BY <2>2 DEF M!Actors
  <2>4. settings \in SettingsFiles /\ policy[Home] # Null
    BY <1>1, <2>1 DEF DeviceInv, DeviceTypes, Found, Seeded, AtWork
  <2>5. M!CurrentSettings \in SettingsFiles
    BY <2>4 DEF DeviceInv, DeviceTypes, EngineUp, M!CurrentSettings
  <2>6. ~M!Overtakes => place["app"] \notin Applying /\ (managed # Null => ~managed.locked)
    BY <2>1 DEF M!Overtakes, Applying, DeviceInv, Unlocked
  <2>7. Unlocked'
    BY <2>2 DEF Unlocked
  <2>8. Planned'
    BY <2>1, <2>3 DEF DeviceInv, Planned, Applying
  <2>9. CASE M!UpdateSettings
    <3>1. PICK n \in Ports : settings' = [M!CurrentSettings EXCEPT !.port = n]
      BY <2>9 DEF M!UpdateSettings
    <3>2. settings' \in SettingsFiles
      BY <2>5, <3>1 DEF SettingsFiles, AskedPorts
    <3>3. UNCHANGED policy /\ held' = IF running \/ serving THEN settings' ELSE held
      BY <2>9 DEF M!UpdateSettings
    <3>4. /\ M!Overtakes => overtaken' = overtaken \cup {"settings"}
          /\ ~M!Overtakes => overtaken' = overtaken
      BY <2>9 DEF M!UpdateSettings
    <3>5. DeviceTypes'
      BY <2>1, <2>2, <3>2, <3>3 DEF DeviceInv, DeviceTypes
    <3>6. EngineUp'
      BY <2>1, <2>3, <3>2, <3>3 DEF DeviceInv, EngineUp
    <3>7. Found' /\ Seeded' /\ Filtering'
      BY <1>1, <2>1, <2>2, <2>4, <3>2, <3>3 DEF DeviceInv, Found, Seeded, Filtering, AtWork
    <3>8. Written'
      BY <2>1, <2>3, <2>6, <3>3, <3>4 DEF DeviceInv, Written, Applying
    <3>9. Remembered'
      BY <2>1, <2>6, <3>3, <3>4 DEF DeviceInv, Remembered
    <3>. QED BY <2>7, <2>8, <3>5, <3>6, <3>7, <3>8, <3>9 DEF DeviceInv
  <2>10. CASE M!UpdatePolicy
    <3>. DEFINE dir == M!CurrentSettings.dir
    <3>1. PICK v \in Levels : policy' = [policy EXCEPT ![dir].level = v]
      BY <2>10 DEF M!UpdatePolicy
    <3>2. dir \in Dirs /\ policy[dir] \in PolicyFiles
      BY <2>5, <2>10 DEF M!UpdatePolicy, SettingsFiles, DeviceInv, DeviceTypes
    <3>3. v \in AskedLevels /\ v # "off"
      BY DEF AskedLevels
    <3>. HIDE DEF dir
    <3>4. [policy[dir] EXCEPT !.level = v] \in PolicyFiles /\ [policy[dir] EXCEPT !.level = v].level = v
      BY <3>2, <3>3 DEF PolicyFiles
    <3>5. policy' = [policy EXCEPT ![dir] = [policy[dir] EXCEPT !.level = v]]
      BY <3>1
    <3>6. /\ policy' \in [Dirs -> PolicyFiles \cup {Null}] /\ policy'[Home] # Null
          /\ policy'[Home] = policy[Home] \/ policy'[Home].level # "off"
      BY <2>4, <3>2, <3>3, <3>4, <3>5 DEF DeviceInv, DeviceTypes
    <3>7. UNCHANGED <<settings, held>>
      BY <2>10 DEF M!UpdatePolicy
    <3>8. /\ M!Overtakes => overtaken' = overtaken \cup {"policy"}
          /\ ~M!Overtakes => overtaken' = overtaken
      BY <2>10 DEF M!UpdatePolicy
    <3>9. DeviceTypes'
      BY <2>1, <2>2, <3>6, <3>7 DEF DeviceInv, DeviceTypes
    <3>10. EngineUp'
      BY <2>1, <2>3, <3>7 DEF DeviceInv, EngineUp
    <3>11. Found' /\ Seeded' /\ Filtering'
      BY <1>1, <2>1, <2>2, <2>4, <3>6, <3>7 DEF DeviceInv, Found, Seeded, Filtering, AtWork
    <3>12. Written'
      BY <2>1, <2>3, <2>6, <3>7, <3>8 DEF DeviceInv, Written, Applying
    <3>13. Remembered'
      BY <2>1, <2>6, <3>7, <3>8 DEF DeviceInv, Remembered
    <3>. QED BY <2>7, <2>8, <3>9, <3>10, <3>11, <3>12, <3>13 DEF DeviceInv
  <2>. QED BY <1>4, <2>9, <2>10
<1>. QED BY <1>2, <1>3, <1>4 DEF M!Edit

(* What is merged is what the document asks for.                           *)
LEMMA MergedSettings ==
    ASSUME NEW d \in Accepted, NEW s \in SettingsFiles
    PROVE  LET m == M!MergeSettings(s, d.settings)
           IN  m \in SettingsFiles /\ Agrees(d, m) /\ (~M!SetsSettings(d) => m = s)
<1>. DEFINE m == M!MergeSettings(s, d.settings)
<1>1. d.settings.dir \in Dirs \cup {Absent} /\ d.settings.port \in AskedPorts \cup {Absent}
  BY DEF Accepted, AskedPorts
<1>. QED BY <1>1 DEF M!MergeSettings, SettingsFiles, Agrees, M!SetsSettings

LEMMA MergedPolicies ==
    ASSUME NEW d \in Accepted, NEW p \in PolicyFiles \cup {Null}
    PROVE  LET m == M!MergedPolicy(d, p)
           IN  /\ m \in PolicyFiles \cup {Null}
               /\ M!SetsPolicy(d) => Matches(d, m) /\ (p = Null \/ p.level = "off" \/ m.level # "off")
<1>. DEFINE m == M!MergedPolicy(d, p)
<1>1. CASE d.json # Absent
  <2>1. d.json \in WholeFiles /\ m = d.json
    BY <1>1 DEF WholeFiles, M!MergedPolicy
  <2>2. d.json.level \in AskedLevels
    BY <2>1 DEF AskedLevels
  <2>3. m \in PolicyFiles /\ m.level # "off"
    BY <2>1, <2>2
  <2>. QED BY <1>1, <2>1, <2>3 DEF Matches
<1>2. CASE d.json = Absent /\ d.patch # Absent
  <2>. DEFINE q == IF p = Null THEN M!Plain ELSE p
  <2>1. d.patch \in Patches
    BY <1>2 DEF Patches
  <2>2. q \in PolicyFiles
    BY DEF M!Plain, PolicyFiles, AskedActions
  <2>3. m = M!MergePolicyPatch(q, d.patch)
    BY <1>2 DEF M!MergedPolicy
  <2>. HIDE DEF q, m
  <2>4. /\ d.patch.level # Absent => d.patch.level \in AskedLevels
        /\ d.patch.acts # Absent => d.patch.acts \in AskedActions
        /\ d.patch.categories # Absent => M!LegacyActions(d.patch.categories) \in AskedActions
    BY <2>1 DEF AskedLevels, AskedActions
  <2>5. /\ m.level = IF d.patch.level = Absent THEN q.level ELSE d.patch.level
        /\ d.patch.acts # Absent => m.acts = d.patch.acts
        /\ d.patch.acts = Absent /\ d.patch.categories # Absent => m.acts = M!LegacyActions(d.patch.categories)
        /\ d.patch.acts = Absent /\ d.patch.categories = Absent => m.acts = q.acts
        /\ m = [level |-> m.level, acts |-> m.acts]
    BY <2>3 DEF M!MergePolicyPatch
  <2>6. m \in PolicyFiles
    BY <2>2, <2>4, <2>5 DEF PolicyFiles
  <2>7. DOMAIN M!LegacyActions(d.patch.categories) = d.patch.categories
    BY DEF M!LegacyActions
  <2>8. Matches(d, m)
    BY <1>2, <2>5, <2>6, <2>7 DEF Matches
  <2>9. p = Null \/ p.level = "off" \/ m.level # "off"
    BY <2>4, <2>5 DEF q
  <2>. QED BY <2>6, <2>8, <2>9 DEF m
<1>3. CASE d.json = Absent /\ d.patch = Absent
  BY <1>3 DEF M!MergedPolicy, M!SetsPolicy
<1>. QED BY <1>1, <1>2, <1>3

LEMMA MergeDocStep ==
    ASSUME DeviceInv, NEW d \in Docs, M!Merge(d) PROVE DeviceInv'
<1>1. /\ place["app"] = "body" /\ "app" \in M!Actors /\ "app" # "life"
      /\ UNCHANGED <<settings, policy, managed, running, held, serving, checked, halfway, overtaken, disturbed>>
  BY DEF M!Merge, M!Actors, M!disk, M!engine, M!ghosts
<1>2. CASE place' = [place EXCEPT !["app"] = "idle"] /\ plan' = plan
  BY <1>1, <1>2, WalkStep
<1>3. CASE ~(d.bad \/ (managed # Null /\ managed.doc = d))
  <2>. DEFINE s == M!MergeSettings(settings, d.settings)
  <2>. DEFINE p == M!MergedPolicy(d, policy[s.dir])
  <2>1. place' = [place EXCEPT !["app"] = "settings"] /\ plan' = [doc |-> d, settings |-> s, policy |-> p]
    BY <1>3 DEF M!Merge, M!Goto
  <2>2. d \in Accepted /\ (managed # Null => managed.doc # d)
    BY <1>3 DEF Accepted
  <2>3. settings \in SettingsFiles /\ policy[Home] # Null
    BY <1>1 DEF DeviceInv, DeviceTypes, Found, Seeded, AtWork
  <2>4. s \in SettingsFiles /\ Agrees(d, s) /\ (~M!SetsSettings(d) => s = settings)
    BY <2>2, <2>3, MergedSettings
  <2>. HIDE DEF s
  <2>5. s.dir \in Dirs /\ policy[s.dir] \in PolicyFiles \cup {Null}
    BY <2>4 DEF SettingsFiles, DeviceInv, DeviceTypes
  <2>6. /\ p \in PolicyFiles \cup {Null}
        /\ M!SetsPolicy(d) => Matches(d, p)
        /\ M!SetsPolicy(d) => policy[s.dir] = Null \/ policy[s.dir].level = "off" \/ p.level # "off"
    BY <2>2, <2>5, MergedPolicies
  <2>. HIDE DEF p
  <2>7. /\ place' \in [M!Actors -> Whereabouts] /\ place'["app"] = "settings"
        /\ \A a \in M!Actors : a # "app" => place'[a] = place[a]
    BY <1>1, <2>1 DEF DeviceInv, DeviceTypes, Whereabouts
  <2>8. plan' \in Plans /\ plan'.doc = d /\ plan'.settings = s /\ plan'.policy = p
    BY <2>1, <2>2, <2>4, <2>6 DEF Plans
  <2>9. DeviceTypes'
    BY <1>1, <2>7, <2>8 DEF DeviceInv, DeviceTypes
  <2>10. EngineUp' /\ Unlocked' /\ Remembered'
    BY <1>1, <2>7 DEF DeviceInv, EngineUp, Unlocked, Remembered, M!Actors
  <2>11. Found' /\ Seeded' /\ Filtering'
    BY <1>1, <2>7 DEF DeviceInv, Found, Seeded, Filtering, AtWork
  <2>12. Planned'
    BY <1>1, <2>2, <2>3, <2>4, <2>6, <2>7, <2>8 DEF DeviceInv, Planned, Filtering
  <2>13. Written'
    BY <1>1, <2>4, <2>7, <2>8 DEF Written
  <2>. QED BY <2>9, <2>10, <2>11, <2>12, <2>13 DEF DeviceInv
<1>. QED BY <1>1, <1>2, <1>3 DEF M!Merge, M!Goto

(* A save of the document in hand.                                         *)
LEMMA ApplyingFacts ==
    ASSUME DeviceInv, place["app"] \in Applying
    PROVE  /\ plan \in Plans /\ plan.doc \in Accepted /\ plan.settings \in SettingsFiles /\ plan.settings.dir \in Dirs
           /\ plan.policy \in PolicyFiles \cup {Null} /\ Agrees(plan.doc, plan.settings)
           /\ M!SetsPolicy(plan.doc) => Matches(plan.doc, plan.policy) /\ plan.policy \in PolicyFiles
           /\ settings \in SettingsFiles /\ policy[Home] # Null
<1>1. plan \in Plans /\ Agrees(plan.doc, plan.settings) /\ (M!SetsPolicy(plan.doc) => Matches(plan.doc, plan.policy))
  BY DEF DeviceInv, Planned
<1>2. place["app"] \in AtWork /\ "app" \in M!Actors
  BY DEF Applying, AtWork, M!Actors
<1>3. settings \in SettingsFiles /\ policy[Home] # Null
  BY <1>2 DEF DeviceInv, DeviceTypes, Found, Seeded
<1>. QED BY <1>1, <1>3 DEF Plans, SettingsFiles, Matches

LEMMA AppPlaces ==
    ASSUME DeviceInv, NEW l \in Whereabouts, M!Goto("app", l)
    PROVE  /\ place' \in [M!Actors -> Whereabouts] /\ place'["app"] = l
           /\ \A a \in M!Actors : a # "app" => place'[a] = place[a]
           /\ place'["life"] = place["life"] /\ place'["edit"] = place["edit"] /\ "app" \in M!Actors
BY DEF DeviceInv, DeviceTypes, M!Goto, M!Actors

LEMMA SaveSettingsStep ==
    ASSUME DeviceInv, M!SaveSettings PROVE DeviceInv'
<1>1. /\ place["app"] = "settings" /\ M!Goto("app", "policy")
      /\ UNCHANGED <<policy, managed, running, held, serving, plan, checked, disturbed>>
  BY DEF M!SaveSettings, M!engine
<1>2. /\ place' \in [M!Actors -> Whereabouts] /\ place'["app"] = "policy"
      /\ \A a \in M!Actors : a # "app" => place'[a] = place[a]
      /\ place'["life"] = place["life"] /\ place'["edit"] = place["edit"] /\ "app" \in M!Actors
  BY <1>1, AppPlaces DEF Whereabouts
<1>3. /\ plan \in Plans /\ plan.doc \in Accepted /\ plan.settings \in SettingsFiles
      /\ settings \in SettingsFiles /\ policy[Home] # Null
  BY <1>1, ApplyingFacts DEF Applying
<1>4. /\ M!SetsSettings(plan.doc) => settings' = plan.settings /\ halfway' = plan.doc /\ overtaken' = overtaken \ {"settings"}
      /\ ~M!SetsSettings(plan.doc) => UNCHANGED <<settings, halfway, overtaken>>
  BY DEF M!SaveSettings
<1>5. settings' \in SettingsFiles /\ halfway' \in Accepted \cup {Nothing}
  BY <1>3, <1>4 DEF DeviceInv, DeviceTypes
<1>6. DeviceTypes'
  BY <1>1, <1>2, <1>5 DEF DeviceInv, DeviceTypes
<1>7. EngineUp' /\ Unlocked'
  BY <1>1, <1>2 DEF DeviceInv, EngineUp, Unlocked
<1>8. Found' /\ Seeded' /\ Filtering'
  BY <1>1, <1>2, <1>3, <1>5 DEF DeviceInv, Found, Seeded, Filtering, AtWork
<1>9. Planned'
  BY <1>1, <1>2 DEF DeviceInv, Planned, Applying
<1>10. Written'
  BY <1>1, <1>2, <1>4 DEF DeviceInv, Written, Applying
<1>11. Remembered'
  <2>1. managed # Null => managed.doc # plan.doc /\ managed \in ManagedFiles
    BY <1>1 DEF DeviceInv, DeviceTypes, Planned, Applying
  <2>2. plan.doc # Nothing
    BY <1>3 DEF Accepted
  <2>. QED BY <1>1, <1>4, <2>1, <2>2 DEF DeviceInv, Remembered
<1>. QED BY <1>6, <1>7, <1>8, <1>9, <1>10, <1>11 DEF DeviceInv

LEMMA SavePolicyStep ==
    ASSUME DeviceInv, M!SavePolicy PROVE DeviceInv'
<1>1. /\ place["app"] = "policy" /\ M!Goto("app", "managed")
      /\ UNCHANGED <<settings, managed, running, held, serving, plan, checked, disturbed>>
  BY DEF M!SavePolicy, M!engine
<1>2. /\ place' \in [M!Actors -> Whereabouts] /\ place'["app"] = "managed"
      /\ \A a \in M!Actors : a # "app" => place'[a] = place[a]
      /\ place'["life"] = place["life"] /\ place'["edit"] = place["edit"] /\ "app" \in M!Actors
  BY <1>1, AppPlaces DEF Whereabouts
<1>3. /\ plan \in Plans /\ plan.doc \in Accepted /\ plan.settings.dir \in Dirs /\ policy[Home] # Null
      /\ M!SetsPolicy(plan.doc) => plan.policy \in PolicyFiles
  BY <1>1, ApplyingFacts DEF Applying
<1>4. /\ M!SetsPolicy(plan.doc) =>
            policy' = [policy EXCEPT ![plan.settings.dir] = plan.policy] /\ halfway' = plan.doc /\ overtaken' = overtaken \ {"policy"}
      /\ ~M!SetsPolicy(plan.doc) => UNCHANGED <<policy, halfway, overtaken>>
  BY DEF M!SavePolicy
<1>5. /\ policy' \in [Dirs -> PolicyFiles \cup {Null}] /\ policy'[Home] # Null
      /\ policy'[Home] = policy[Home] \/ disturbed \/ policy'[Home].level # "off"
      /\ M!SetsPolicy(plan.doc) => policy'[plan.settings.dir] = plan.policy
  BY <1>1, <1>3, <1>4 DEF DeviceInv, DeviceTypes, Planned, Applying
<1>6. DeviceTypes'
  BY <1>1, <1>2, <1>3, <1>4, <1>5 DEF DeviceInv, DeviceTypes
<1>7. EngineUp' /\ Unlocked'
  BY <1>1, <1>2 DEF DeviceInv, EngineUp, Unlocked
<1>8. Found' /\ Seeded' /\ Filtering'
  BY <1>1, <1>2, <1>5 DEF DeviceInv, Found, Seeded, Filtering, AtWork
<1>9. Planned'
  BY <1>1, <1>2 DEF DeviceInv, Planned, Applying
<1>10. Written'
  BY <1>1, <1>2, <1>4, <1>5 DEF DeviceInv, Written, Applying
<1>11. Remembered'
  <2>1. managed # Null => managed.doc # plan.doc /\ managed \in ManagedFiles
    BY <1>1 DEF DeviceInv, DeviceTypes, Planned, Applying
  <2>2. plan.doc # Nothing
    BY <1>3 DEF Accepted
  <2>. QED BY <1>1, <1>4, <2>1, <2>2 DEF DeviceInv, Remembered
<1>. QED BY <1>6, <1>7, <1>8, <1>9, <1>10, <1>11 DEF DeviceInv

LEMMA SaveManagedStateStep ==
    ASSUME DeviceInv, M!SaveManagedState PROVE DeviceInv'
<1>1. /\ place["app"] = "managed" /\ M!Goto("app", "refresh") /\ halfway' = Nothing
      /\ managed' = [doc |-> plan.doc, locked |-> plan.doc.lock]
      /\ UNCHANGED <<settings, policy, running, held, serving, plan, checked, overtaken, disturbed>>
  BY DEF M!SaveManagedState, M!engine
<1>2. /\ place' \in [M!Actors -> Whereabouts] /\ place'["app"] = "refresh"
      /\ \A a \in M!Actors : a # "app" => place'[a] = place[a]
      /\ place'["life"] = place["life"] /\ place'["edit"] = place["edit"] /\ "app" \in M!Actors
  BY <1>1, AppPlaces DEF Whereabouts
<1>3. /\ plan.doc \in Accepted /\ Agrees(plan.doc, plan.settings) /\ settings \in SettingsFiles
      /\ M!SetsPolicy(plan.doc) => Matches(plan.doc, plan.policy)
  BY <1>1, ApplyingFacts DEF Applying
<1>4. managed' \in ManagedFiles /\ managed'.doc = plan.doc /\ plan.doc # Nothing
  BY <1>1, <1>3 DEF ManagedFiles, Accepted
<1>5. DeviceTypes'
  BY <1>1, <1>2, <1>4 DEF DeviceInv, DeviceTypes
<1>6. EngineUp' /\ Unlocked'
  BY <1>1, <1>2 DEF DeviceInv, EngineUp, Unlocked
<1>7. Found' /\ Seeded' /\ Filtering'
  BY <1>1, <1>2, <1>3 DEF DeviceInv, Found, Seeded, Filtering, AtWork
<1>8. Planned' /\ Written'
  BY <1>1, <1>2, <1>4 DEF DeviceInv, Planned, Written, Applying
<1>9. Remembered'
  <2>1. overtaken = {} => settings = plan.settings /\ (M!SetsPolicy(plan.doc) => policy[plan.settings.dir] = plan.policy)
    BY <1>1 DEF DeviceInv, Written, Applying
  <2>. QED BY <1>1, <1>3, <1>4, <2>1 DEF Remembered
<1>. QED BY <1>5, <1>6, <1>7, <1>8, <1>9 DEF DeviceInv

LEMMA RefreshStep ==
    ASSUME DeviceInv, M!Refresh PROVE DeviceInv'
<1>1. /\ place["app"] = "refresh" /\ M!Goto("app", "idle") /\ plan' = Nothing
      /\ UNCHANGED <<policy, managed, running, serving, checked, halfway, disturbed>>
  BY DEF M!Refresh
<1>2. /\ place' \in [M!Actors -> Whereabouts] /\ place'["app"] = "idle"
      /\ \A a \in M!Actors : a # "app" => place'[a] = place[a]
      /\ place'["life"] = place["life"] /\ place'["edit"] = place["edit"] /\ "app" \in M!Actors
  BY <1>1, AppPlaces DEF Whereabouts
<1>3. /\ plan.settings \in SettingsFiles /\ settings \in SettingsFiles /\ policy[Home] # Null
      /\ Agrees(plan.doc, plan.settings) /\ (M!SetsPolicy(plan.doc) => Matches(plan.doc, plan.policy))
  BY <1>1, ApplyingFacts DEF Applying
<1>4. \/ running /\ settings' = plan.settings /\ held' = plan.settings /\ overtaken' = overtaken \ {"settings"}
      \/ UNCHANGED <<settings, held, overtaken>>
  BY DEF M!Refresh
<1>5. settings' \in SettingsFiles
  BY <1>3, <1>4
<1>6. DeviceTypes'
  BY <1>1, <1>2, <1>3, <1>4 DEF DeviceInv, DeviceTypes
<1>7. EngineUp'
  BY <1>1, <1>2, <1>3, <1>4 DEF DeviceInv, EngineUp
<1>8. Found' /\ Seeded' /\ Filtering'
  BY <1>1, <1>2, <1>3, <1>5 DEF DeviceInv, Found, Seeded, Filtering, AtWork
<1>9. Planned' /\ Written' /\ Unlocked'
  BY <1>1, <1>2 DEF DeviceInv, Planned, Written, Unlocked, Applying
<1>10. Remembered'
  <2>1. managed # Null /\ managed.doc = plan.doc
    BY <1>1 DEF DeviceInv, Planned, Applying
  <2>2. "policy" \notin overtaken /\ M!SetsPolicy(plan.doc) => policy[plan.settings.dir] = plan.policy
    BY <1>1 DEF DeviceInv, Written, Applying
  <2>3. CASE settings' = plan.settings /\ overtaken' = overtaken \ {"settings"}
    BY <1>1, <1>3, <2>1, <2>2, <2>3 DEF DeviceInv, Remembered
  <2>4. CASE UNCHANGED <<settings, held, overtaken>>
    BY <1>1, <2>4 DEF DeviceInv, Remembered
  <2>. QED BY <1>4, <2>3, <2>4
<1>. QED BY <1>6, <1>7, <1>8, <1>9, <1>10 DEF DeviceInv

LEMMA ForgetStep ==
    ASSUME DeviceInv, M!Forget PROVE DeviceInv'
<1>1. /\ place["app"] = "body" /\ M!Goto("app", "idle") /\ managed' = Null
      /\ UNCHANGED <<settings, policy, running, held, serving, plan, checked, halfway, overtaken, disturbed>>
  BY DEF M!Forget, M!engine, M!ghosts
<1>2. /\ place' \in [M!Actors -> Whereabouts] /\ place'["app"] = "idle"
      /\ \A a \in M!Actors : a # "app" => place'[a] = place[a]
      /\ place'["life"] = place["life"] /\ place'["edit"] = place["edit"] /\ "app" \in M!Actors
  BY <1>1, AppPlaces DEF Whereabouts
<1>3. DeviceTypes' /\ EngineUp'
  BY <1>1, <1>2 DEF DeviceInv, DeviceTypes, EngineUp
<1>4. Found' /\ Seeded' /\ Filtering'
  BY <1>1, <1>2 DEF DeviceInv, Found, Seeded, Filtering, AtWork
<1>5. Planned' /\ Written' /\ Unlocked' /\ Remembered'
  BY <1>1, <1>2 DEF DeviceInv, Planned, Written, Unlocked, Remembered, Applying
<1>. QED BY <1>3, <1>4, <1>5 DEF DeviceInv

LEMMA ApplyStep ==
    ASSUME DeviceInv, M!Apply PROVE DeviceInv'
<1>1. CASE M!Provision("app")
  BY <1>1, ProvisionStep DEF M!Actors
<1>2. CASE \E d \in Docs : M!Merge(d)
  BY <1>2, MergeDocStep
<1>3. CASE M!WriteFails
  BY <1>3, WalkStep DEF M!WriteFails, M!Goto, M!Actors, M!disk, M!engine, M!ghosts, Applying
<1>. QED BY <1>1, <1>2, <1>3, ForgetStep, SaveSettingsStep, SavePolicyStep, SaveManagedStateStep, RefreshStep DEF M!Apply

LEMMA CrashStep ==
    ASSUME DeviceInv, M!Crash PROVE DeviceInv'
<1>1. /\ place' = [c \in M!Actors |-> "idle"] /\ running' = FALSE /\ held' = Nothing /\ serving' = FALSE
      /\ plan' = Nothing /\ checked' = Nothing
      /\ disturbed' = (disturbed \/ \E c \in M!Actors : place[c] = "seed")
      /\ UNCHANGED <<settings, policy, managed, halfway, overtaken>>
  BY DEF M!Crash, M!disk
<1>2. place' \in [M!Actors -> Whereabouts] /\ \A c \in M!Actors : place'[c] = "idle"
  BY <1>1 DEF Whereabouts
<1>3. DeviceTypes'
  BY <1>1, <1>2 DEF DeviceInv, DeviceTypes
<1>4. EngineUp' /\ Planned' /\ Written' /\ Unlocked'
  BY <1>1, <1>2 DEF EngineUp, Planned, Written, Unlocked, Applying, M!Actors
<1>5. Found' /\ Seeded' /\ Filtering' /\ Remembered'
  BY <1>1, <1>2 DEF DeviceInv, Found, Seeded, Filtering, Remembered, AtWork
<1>. QED BY <1>3, <1>4, <1>5 DEF DeviceInv

LEMMA DeviceStep == DeviceInv /\ [M!Next]_device => DeviceInv'
<1>. SUFFICES ASSUME DeviceInv, [M!Next]_device PROVE DeviceInv'
  OBVIOUS
<1>1. CASE UNCHANGED device
  <2>. USE <1>1 DEF device, DeviceInv
  <2>1. DeviceTypes' /\ EngineUp' /\ Found' /\ Seeded' /\ Filtering'
    BY DEF DeviceTypes, EngineUp, Found, Seeded, Filtering
  <2>2. Planned' /\ Written' /\ Unlocked' /\ Remembered'
    BY DEF Planned, Written, Unlocked, Remembered
  <2>. QED BY <2>1, <2>2
<1>2. CASE \E c \in M!Actors : M!Enter(c)
  <2>1. PICK c \in {"app", "edit"} : M!Enter(c)
    BY <1>2 DEF M!Enter
  <2>. QED BY <2>1, WalkStep DEF M!Enter, M!Goto, M!Actors, M!disk, M!engine, M!ghosts
<1>. QED BY <1>1, <1>2, EngineStep, EditStep, ApplyStep, CrashStep DEF M!Next

(* Whatever is killed, fails or is edited behind a document's back: the    *)
(* locked document that managed.json records is in force but in the two    *)
(* windows ManagedHeld names, one that fails validation leaves no trace, a *)
(* fresh install filters, and a stopped engine has let go of its listeners.*)
THEOREM DeviceSoundAlways == StandaloneSpec => []DeviceSound
<1>. DEFINE Inv == which = "device" => DeviceInv
<1>1. ComponentsInit => Inv
  BY DeviceStarts DEF ComponentsInit
<1>2. Inv /\ [ComponentsNext]_standaloneVars => Inv'
  <2>. SUFFICES ASSUME Inv, [ComponentsNext]_standaloneVars, which' = "device" PROVE DeviceInv'
    OBVIOUS
  <2>1. which = "device" /\ [M!Next]_device
    BY DEF ComponentsNext, standaloneVars
  <2>. QED BY <2>1, DeviceStep
<1>3. Inv => DeviceSound
  BY DeviceHolds DEF DeviceSound
<1>. QED BY <1>1, <1>2, <1>3, PTL DEF StandaloneSpec

-----------------------------------------------------------------------------
(* Documents.  What the program writes is again a document of the current  *)
(* schema that says what is in force, whatever the schema it was read in.  *)

LEMMA DocumentsApart ==
    /\ Absent # Null /\ Known # {} /\ Other \notin Known /\ Blank \notin Sockets /\ Blank \notin Moments
    /\ \A s \in DOMAIN D!Sections : \A k \in DOMAIN D!Sections[s] :
          /\ D!Sections[s][k].default \notin {Absent, Null}
          /\ D!Sections[s][k].kind = "cleaned" => Blank \notin D!Sections[s][k].default
          /\ D!Sections[s][k].kind = "beside" => D!Sections[s][k].default # Blank
    /\ \A x \in {Absent, Null} :
          /\ x \notin BOOLEAN /\ x \notin Words \cup Moments \cup Addresses /\ x \notin Int \X {"number", "string"}
          /\ x \notin SUBSET Names /\ x \notin [Names -> D!Actions \cup {"off", Absent}] /\ x \notin Engines
          /\ x \notin SUBSET Sockets /\ x \notin SUBSET (Values \cup {Blank, "typo"}) /\ x \notin SUBSET (-1..8)
BY DocumentsAssumption DEF Sayable

KeyKinds == {"list", "cleaned", "macs", "needed", "number", "positive", "natural", "string", "checked", "name", "beside"}
DefaultFits(opt) ==
    /\ opt.kind \in KeyKinds /\ opt.default \notin {Absent, Null}
    /\ opt.kind = "cleaned" => opt.default \ {Blank} = opt.default
    /\ opt.kind = "macs" => opt.default = {}
    /\ opt.kind = "needed" => opt.default # {}
    /\ opt.kind = "beside" => opt.default # Blank
    /\ opt.kind = "checked" => opt.default \in {"block", "censor", "both"}
    /\ opt.kind \in D!Numbers => opt.default \in Nat \ {0}

LEMMA DefaultsFit == \A s \in DOMAIN D!Sections : \A k \in DOMAIN D!Sections[s] : DefaultFits(D!Sections[s][k])
<1>. SUFFICES ASSUME NEW s \in DOMAIN D!Sections, NEW k \in DOMAIN D!Sections[s] PROVE DefaultFits(D!Sections[s][k])
  OBVIOUS
<1>. DEFINE opt == D!Sections[s][k]
<1>1. /\ opt.default \notin {Absent, Null} /\ (opt.kind = "cleaned" => Blank \notin opt.default)
      /\ opt.kind = "beside" => opt.default # Blank
  BY DocumentsApart
<1>2. /\ opt.kind \in KeyKinds
      /\ opt.kind = "macs" => opt.default = {}
      /\ opt.kind = "needed" => opt.default # {}
      /\ opt.kind = "checked" => opt.default \in {"block", "censor", "both"}
      /\ opt.kind \in D!Numbers => opt.default \in Nat \ {0}
  <2>. USE DEF D!Sections, D!Key, KeyKinds, D!Numbers, D!None, D!Cleared
  <2>1. CASE s = "doh"
    BY <2>1 DEF D!DohKeys
  <2>2. CASE s = "adblock"
    BY <2>2 DEF D!AdblockKeys
  <2>3. CASE s = "text_classifier"
    BY <2>3 DEF D!TextKeys
  <2>4. CASE s = "image_classifier"
    BY <2>4 DEF D!ImageKeys
  <2>5. CASE s = "youtube"
    BY <2>5 DEF D!YouTubeKeys
  <2>6. CASE s = "mitm"
    BY <2>6 DEF D!MitmKeys
  <2>7. CASE s = "block_page"
    BY <2>7 DEF D!BlockPageKeys
  <2>8. CASE s = "policy"
    BY <2>8 DEF D!PolicyKeys
  <2>9. CASE s = "tun2socks"
    BY <2>9 DEF D!Tun2SocksKeys
  <2>10. CASE s = "gateway"
    BY <2>10 DEF D!GatewayKeys
  <2>11. CASE s = "adblock_lists"
    BY <2>11 DEF D!AdblockSettingsKeys
  <2>12. CASE s = "icap"
    BY <2>12 DEF D!IcapKeys
  <2>13. s \in {"doh", "adblock", "text_classifier", "image_classifier", "youtube", "mitm", "block_page", "policy",
                "tun2socks", "gateway", "adblock_lists", "icap"}
    OBVIOUS
  <2>. QED BY <2>1, <2>2, <2>3, <2>4, <2>5, <2>6, <2>7, <2>8, <2>9, <2>10, <2>11, <2>12, <2>13
<1>. HIDE DEF opt
<1>3. opt.kind = "cleaned" => opt.default \ {Blank} = opt.default
  BY <1>1
<1>4. DefaultFits(opt)
  BY <1>1, <1>2, <1>3 DEF DefaultFits
<1>. QED BY <1>4 DEF opt

(* As a value is written, the program reads it back.                       *)
Encoded(opt, v) == IF opt.kind \in D!Numbers THEN <<v, "number">> ELSE v
Settled(opt, c) == D!ValueOf(opt, Encoded(opt, c)) = c

LEMMA ValuesSettle ==
    ASSUME NEW opt, DefaultFits(opt), NEW v \in D!Written(opt.kind)
    PROVE  Settled(opt, D!ValueOf(opt, v))
<1>. DEFINE c == D!ValueOf(opt, v)
<1>0. Absent # Null /\ opt.default \notin {Absent, Null}
  BY DocumentsApart DEF DefaultFits
<1>1. CASE opt.kind \in {"list", "cleaned", "macs"}
  <2>1. v \in {Absent, Null} \/ v \in SUBSET (Values \cup {Blank, "typo"})
    BY <1>1 DEF D!Written, D!Numbers, D!Strings
  <2>2. \A V \in SUBSET (Values \cup {Blank, "typo"}) : V \notin {Absent, Null}
    BY DocumentsApart
  <2>3. c = opt.default \/ c \in SUBSET (Values \cup {Blank, "typo"})
    BY <1>0, <1>1, <2>1, <2>2 DEF D!ValueOf, D!Given
  <2>4. Encoded(opt, c) = c /\ c \notin {Absent, Null}
    BY <1>0, <1>1, <2>2, <2>3 DEF Encoded, D!Numbers
  <2>5. CASE opt.kind = "list"
    BY <2>4, <2>5 DEF D!ValueOf, D!Given, Settled
  <2>6. CASE opt.kind = "cleaned"
    <3>1. c = opt.default \/ c = {} \/ c = v \ {Blank}
      BY <1>0, <2>1, <2>2, <2>6 DEF D!ValueOf, D!Given
    <3>2. c \ {Blank} = c
      BY <2>6, <3>1 DEF DefaultFits
    <3>. HIDE DEF c
    <3>3. D!ValueOf(opt, c) = c \ {Blank}
      BY <2>4, <2>6 DEF D!ValueOf, D!Given
    <3>. QED BY <2>4, <3>2, <3>3 DEF Settled, c
  <2>7. CASE opt.kind = "macs"
    <3>1. c = {} \/ c = v \ {Blank, "typo"}
      BY <1>0, <2>1, <2>2, <2>7 DEF D!ValueOf, D!Given, DefaultFits
    <3>2. c \ {Blank, "typo"} = c
      BY <3>1
    <3>. HIDE DEF c
    <3>3. D!ValueOf(opt, c) = c \ {Blank, "typo"}
      BY <2>4, <2>7 DEF D!ValueOf, D!Given
    <3>. QED BY <2>4, <3>2, <3>3 DEF Settled, c
  <2>. QED BY <1>1, <2>5, <2>6, <2>7
<1>2. CASE opt.kind = "needed"
  <2>1. v \in {Absent, Null} \/ v \in SUBSET Values
    BY <1>2 DEF D!Written
  <2>2. \A V \in SUBSET Values : V \notin {Absent, Null}
    BY DocumentsApart
  <2>3. (c = opt.default \/ c = v) /\ c # {} /\ c \notin {Absent, Null}
    BY <1>0, <1>2, <2>1, <2>2 DEF D!ValueOf, D!Given, DefaultFits
  <2>4. Encoded(opt, c) = c
    BY <1>2 DEF Encoded, D!Numbers
  <2>. HIDE DEF c
  <2>5. D!ValueOf(opt, c) = c
    BY <1>2, <2>3 DEF D!ValueOf, D!Given
  <2>. QED BY <2>4, <2>5 DEF Settled, c
<1>3. CASE opt.kind \in D!Strings
  <2>1. v \in {Absent, Null} \/ v \in {"block", "censor", "typo", Blank}
    BY <1>3 DEF D!Written, D!Strings, D!Numbers
  <2>2. {"block", "censor", "typo", "tun_address", Blank} \cap {Absent, Null} = {}
    BY DocumentsApart
  <2>3. Encoded(opt, c) = c
    BY <1>3 DEF Encoded, D!Numbers, D!Strings
  <2>4. CASE opt.kind = "beside"
    <3>1. c = opt.default \/ c = "tun_address" \/ (c = v /\ v \notin {Absent, Null, Blank})
      BY <1>0, <2>1, <2>2, <2>4 DEF D!ValueOf, D!Given
    <3>2. c \notin {Absent, Null} 
      BY <1>0, <2>2, <3>1
    <3>. HIDE DEF c
    <3>3. D!ValueOf(opt, c) = IF c = Blank THEN "tun_address" ELSE c
      BY <2>4, <3>2 DEF D!ValueOf, D!Given
    <3>4. opt.default # Blank
      BY <2>4 DEF DefaultFits
    <3>5. c = Blank => c = "tun_address"
      BY <3>1, <3>4 DEF c
    <3>. QED BY <2>3, <3>3, <3>5 DEF Settled, c
  <2>5. CASE opt.kind = "string"
    <3>1. c \notin {Absent, Null}
      BY <1>0, <2>1, <2>2, <2>5 DEF D!ValueOf, D!Given, DefaultFits
    <3>. HIDE DEF c
    <3>2. D!ValueOf(opt, c) = c
      BY <2>5, <3>1 DEF D!ValueOf, D!Given
    <3>. QED BY <2>3, <3>2 DEF Settled, c
  <2>6. CASE opt.kind = "checked"
    <3>1. c \notin {Absent, Null} /\ c \in {"block", "censor", "both"}
      BY <1>0, <2>1, <2>2, <2>6 DEF D!ValueOf, D!Given, DefaultFits
    <3>. HIDE DEF c
    <3>2. D!ValueOf(opt, c) = c
      BY <2>6, <3>1 DEF D!ValueOf, D!Given
    <3>. QED BY <2>3, <3>2 DEF Settled, c
  <2>7. CASE opt.kind = "name"
    <3>1. c \notin {Absent, Null} /\ (c = Blank => c = opt.default)
      BY <1>0, <2>1, <2>2, <2>7 DEF D!ValueOf, D!Given, DefaultFits
    <3>. HIDE DEF c
    <3>2. D!ValueOf(opt, c) = c
      BY <2>7, <3>1 DEF D!ValueOf, D!Given
    <3>. QED BY <2>3, <3>2 DEF Settled, c
  <2>. QED BY <1>3, <2>4, <2>5, <2>6, <2>7 DEF D!Strings
<1>4. CASE opt.kind \in D!Numbers
  <2>1. v \in {Absent, Null} \/ (v \in Int \X {"number", "string"} /\ v[1] \in Int)
    BY <1>4 DEF D!Written, D!Numbers
  <2>2. opt.default \in Nat \ {0}
    BY <1>4 DEF DefaultFits
  <2>3. \A w \in Int \X {"number", "string"} : w \notin {Absent, Null}
    BY DocumentsApart
  <2>4. c \in Int /\ (opt.kind = "positive" => c > 0) /\ (opt.kind = "natural" => c >= 0)
    BY <1>0, <1>4, <2>1, <2>2, <2>3 DEF D!ValueOf, D!Given, D!Numbers
  <2>5. Encoded(opt, c) = <<c, "number">>
    BY <1>4 DEF Encoded
  <2>. HIDE DEF c
  <2>6. <<c, "number">> \notin {Absent, Null} /\ <<c, "number">>[1] = c
    BY <2>3, <2>4
  <2>7. D!ValueOf(opt, <<c, "number">>) = c
    BY <1>4, <2>4, <2>6 DEF D!ValueOf, D!Given, D!Numbers
  <2>. QED BY <2>5, <2>7 DEF Settled, c
<1>5. opt.kind \in {"list", "cleaned", "macs", "needed"} \cup D!Strings \cup D!Numbers
  BY DEF DefaultFits, KeyKinds, D!Strings, D!Numbers
<1>. QED BY <1>1, <1>2, <1>3, <1>4, <1>5

(* A document of each kind as it may come to stand in a file, and what it  *)
(* is decoded to.                                                          *)
Listens == (SUBSET (Values \cup {Blank})) \cup (SUBSET Sockets)
SafeDocs ==
    [kind : {"safesearch"}, flags : [Tabs -> D!Flag], engines : {Absent, Null} \cup Engines]
SettingsDocs ==
    [kind : {"settings"}, listen : {Absent, Null} \cup Listens, mgmt : {Absent, Null} \cup Addresses,
     logs : {Absent} \cup Addresses, port : {Absent, "1080"}, host : {Absent} \cup Values, blocks : {Absent} \cup Values]
WindowDocs ==
    [kind : {"window"}, days : {Absent, Null} \cup SUBSET (-1..8), start : {Absent, Null, Blank} \cup Moments,
     end : {Absent, Null} \cup (D!Times \cup {Blank})]
FieldDoc(d) ==
    /\ d = [kind |-> "field", config |-> d.config, key |-> d.key, value |-> d.value]
    /\ Settled(D!KeyOf(d), D!ValueOf(D!KeyOf(d), d.value))
MayStand(d) == d \in D!UrlFilters \cup SafeDocs \cup SettingsDocs \cup WindowDocs \/ FieldDoc(d)

UrlActions == UNION {[N -> D!Actions] : N \in SUBSET Names}
UrlLive(c) ==
    /\ c \in [kind : {"url_filter"}, mode : {"blacklist", "whitelist"}, actions : UrlActions, categories : SUBSET Names]
    /\ c.categories = DOMAIN c.actions
SafeLive(c) == c \in [kind : {"safesearch"}, engines : Engines]
SettingsLive(c) ==
    /\ c \in [kind : {"settings"}, listen : Listens, mgmt : Addresses, logs : Addresses]
    /\ c.listen # {} /\ Blank \notin c.listen
WindowLive(c) ==
    c \in [kind : {"window"}, days : SUBSET (0..6), start : {"00:00", "09:00", "23:59", "typo"}, end : {"09:00", "23:59", "typo"}]
FieldLive(c) ==
    /\ c = [kind |-> "field", config |-> c.config, key |-> c.key, value |-> c.value]
    /\ Settled(D!KeyOf(c), c.value)
MayLive(c) == UrlLive(c) \/ SafeLive(c) \/ SettingsLive(c) \/ WindowLive(c) \/ FieldLive(c)

LEMMA UrlFilterDecodes ==
    ASSUME NEW d \in D!UrlFilters
    PROVE  UrlLive(D!Decode(d)) /\ D!Enforced(D!Decode(d)) = D!Meaning(d)
<1>. DEFINE c == D!Decode(d)
<1>. DEFINE acts == D!CategoryActions(d)
<1>1. d.kind = "url_filter" /\ c = [kind |-> "url_filter", mode |-> D!UrlMode(d), actions |-> acts, categories |-> DOMAIN acts]
  BY DEF D!UrlFilters, D!Decode, D!DecodeUrlFilter
<1>2. /\ D!Given(d.actions) => d.actions \in [Names -> D!Actions \cup {"off", Absent}]
      /\ d.actions \in {Absent, Null} \/ D!Given(d.actions)
      /\ d.categories \in {Absent, Null} \/ (D!Given(d.categories) /\ d.categories \in SUBSET Names)
  BY DocumentsApart DEF D!UrlFilters, D!Given
<1>. DEFINE cats == D!Default(d.categories, {})
<1>3. cats \in SUBSET Names
  BY <1>2 DEF D!Default, D!Given
<1>4. /\ acts \in UrlActions
      /\ D!Given(d.actions) => /\ DOMAIN acts = {n \in Names : d.actions[n] \in D!Actions}
                               /\ \A n \in DOMAIN acts : acts[n] = d.actions[n]
      /\ ~D!Given(d.actions) => DOMAIN acts = cats /\ \A n \in DOMAIN acts : acts[n] = D!LegacyAction(d.mode)
  <2>1. CASE D!Given(d.actions)
    <3>1. acts = [n \in {m \in Names : d.actions[m] \in D!Actions} |-> d.actions[n]]
      BY <2>1 DEF D!CategoryActions
    <3>2. acts \in [{m \in Names : d.actions[m] \in D!Actions} -> D!Actions]
      BY <3>1
    <3>. HIDE DEF acts
    <3>. QED BY <2>1, <3>1, <3>2 DEF UrlActions
  <2>2. CASE ~D!Given(d.actions)
    <3>1. acts = [n \in cats |-> D!LegacyAction(d.mode)]
      BY <2>2 DEF D!CategoryActions
    <3>2. acts \in [cats -> D!Actions]
      BY <3>1 DEF D!LegacyAction, D!Actions
    <3>. HIDE DEF acts, cats
    <3>. QED BY <1>3, <2>2, <3>1, <3>2 DEF UrlActions
  <2>. QED BY <2>1, <2>2
<1>5. D!UrlMode(d) = IF d.mode = "whitelist" /\ (D!Given(d.actions) \/ DOMAIN acts # {}) THEN "whitelist" ELSE "blacklist"
  BY DEF D!UrlMode
<1>6. DOMAIN acts \in SUBSET Names
  BY <1>2, <1>3, <1>4
<1>. HIDE DEF acts, cats, c
<1>7. UrlLive(c)
  BY <1>1, <1>4, <1>5, <1>6 DEF UrlLive
<1>8. D!Effective(c) = acts
  BY <1>1 DEF D!Effective
<1>9. ASSUME NEW N \in SUBSET Names
      PROVE  D!CategoryVerdict(c, N) = IF D!Given(d.actions) THEN D!NewVerdict(d, N) ELSE D!OldVerdict(d, N)
  <2>1. D!CategoryVerdict(c, N) =
           IF \E n \in N \cap DOMAIN acts : acts[n] = "allow" THEN "allowed"
           ELSE IF (\E n \in N \cap DOMAIN acts : acts[n] = "block") \/ D!UrlMode(d) = "whitelist" THEN "blocked" ELSE "none"
    BY <1>1, <1>8 DEF D!CategoryVerdict
  <2>2. CASE D!Given(d.actions)
    <3>1. \A n \in N : d.actions[n] \in D!Actions <=> n \in N \cap DOMAIN acts
      BY <1>4, <2>2
    <3>2. \A a \in D!Actions : (\E n \in N : d.actions[n] = a) <=> (\E n \in N \cap DOMAIN acts : acts[n] = a)
      BY <1>4, <2>2, <3>1
    <3>. QED BY <1>5, <2>1, <2>2, <3>2 DEF D!NewVerdict, D!Actions
  <2>3. CASE ~D!Given(d.actions)
    <3>1. DOMAIN acts = cats /\ \A n \in DOMAIN acts : acts[n] = D!LegacyAction(d.mode)
      BY <1>4, <2>3
    <3>2. CASE cats = {}
      <4>1. N \cap DOMAIN acts = {} /\ D!UrlMode(d) = "blacklist"
        BY <1>5, <2>3, <3>1, <3>2
      <4>2. D!OldVerdict(d, N) = "none"
        BY <3>2 DEF D!OldVerdict, cats
      <4>. QED BY <2>1, <2>3, <4>1, <4>2
    <3>3. CASE cats # {}
      <4>1. cats = d.categories
        BY <3>3 DEF cats, D!Default
      <4>2. CASE d.mode = "whitelist"
        <5>1. D!UrlMode(d) = "whitelist" /\ \A n \in DOMAIN acts : acts[n] = "allow"
          BY <1>5, <3>1, <3>3, <4>2 DEF D!LegacyAction
        <5>2. D!OldVerdict(d, N) = IF N \cap cats = {} THEN "blocked" ELSE "allowed"
          BY <3>3, <4>1, <4>2 DEF D!OldVerdict, cats
        <5>. QED BY <2>1, <2>3, <3>1, <5>1, <5>2
      <4>3. CASE d.mode # "whitelist"
        <5>1. D!UrlMode(d) = "blacklist" /\ \A n \in DOMAIN acts : acts[n] = "block"
          BY <1>5, <3>1, <4>3 DEF D!LegacyAction
        <5>2. D!OldVerdict(d, N) = IF N \cap cats = {} THEN "none" ELSE "blocked"
          BY <3>3, <4>1, <4>3 DEF D!OldVerdict, cats
        <5>. QED BY <2>1, <2>3, <3>1, <5>1, <5>2
      <4>. QED BY <4>2, <4>3
    <3>. QED BY <3>2, <3>3
  <2>. QED BY <2>2, <2>3
<1>10. D!Enforced(c) = [N \in SUBSET Names |-> D!CategoryVerdict(c, N)]
  BY <1>1 DEF D!Enforced
<1>11. D!Meaning(d) = [N \in SUBSET Names |-> IF D!Given(d.actions) THEN D!NewVerdict(d, N) ELSE D!OldVerdict(d, N)]
  BY <1>1 DEF D!Meaning
<1>. QED BY <1>7, <1>9, <1>10, <1>11 DEF c

LEMMA UrlFilterEncodes ==
    ASSUME NEW c, UrlLive(c)
    PROVE  D!Encode(c) \in D!UrlFilters /\ D!Meaning(D!Encode(c)) = D!Enforced(c)
<1>. DEFINE d == D!Encode(c)
<1>. DEFINE acts == c.actions
<1>1. c.kind = "url_filter" /\ D!Effective(c) = acts /\ acts \in UrlActions /\ DOMAIN acts \subseteq Names
  BY DEF UrlLive, D!Effective
<1>2. d = [kind |-> "url_filter", mode |-> c.mode, categories |-> DOMAIN acts,
           actions |-> [n \in Names |-> IF n \in DOMAIN acts THEN acts[n] ELSE Absent]]
  BY <1>1 DEF D!Encode, D!EncodeUrlFilter
<1>3. \A n \in DOMAIN acts : acts[n] \in D!Actions
  BY <1>1 DEF UrlActions
<1>4. d.actions \in [Names -> D!Actions \cup {"off", Absent}]
  BY <1>2, <1>3
<1>5. d \in D!UrlFilters
  BY <1>1, <1>2, <1>4 DEF D!UrlFilters, UrlLive
<1>6. D!Given(d.actions) /\ Absent \notin D!Actions
  BY <1>4, DocumentsApart DEF D!Given, D!Actions, Words
<1>7. ASSUME NEW N \in SUBSET Names PROVE D!NewVerdict(d, N) = D!CategoryVerdict(c, N)
  <2>1. D!CategoryVerdict(c, N) =
           IF \E n \in N \cap DOMAIN acts : acts[n] = "allow" THEN "allowed"
           ELSE IF (\E n \in N \cap DOMAIN acts : acts[n] = "block") \/ c.mode = "whitelist" THEN "blocked" ELSE "none"
    BY <1>1 DEF D!CategoryVerdict
  <2>2. d.mode = c.mode /\ \A n \in Names : d.actions[n] = IF n \in DOMAIN acts THEN acts[n] ELSE Absent
    BY <1>2
  <2>. HIDE DEF d, acts
  <2>3. \A a \in D!Actions : (\E n \in N : d.actions[n] = a) <=> (\E n \in N \cap DOMAIN acts : acts[n] = a)
    BY <1>6, <2>2
  <2>. QED BY <2>1, <2>2, <2>3 DEF D!NewVerdict, D!Actions
<1>8. D!Enforced(c) = [N \in SUBSET Names |-> D!CategoryVerdict(c, N)]
  BY <1>1 DEF D!Enforced
<1>9. D!Meaning(d) = [N \in SUBSET Names |-> D!NewVerdict(d, N)]
  <2>1. d.kind = "url_filter"
    BY <1>2
  <2>. HIDE DEF d
  <2>. QED BY <1>6, <2>1 DEF D!Meaning
<1>. HIDE DEF d
<1>10. D!Meaning(d) = D!Enforced(c)
  BY <1>7, <1>8, <1>9
<1>. QED BY <1>5, <1>10 DEF d

(* An action or the mode is changed in what the program would write.       *)
LEMMA EditsStand ==
    ASSUME NEW d \in D!UrlFilters, D!Given(d.actions), D!EditCategories(d)
    PROVE  file' \in D!UrlFilters
<1>1. d.actions \in [Names -> D!Actions \cup {"off", Absent}]
  BY DEF D!UrlFilters, D!Given
<1>2. CASE \E n \in Names, a \in D!Actions \cup {"off"} : file' = [d EXCEPT !.actions[n] = a]
  <2>1. PICK n \in Names, a \in D!Actions \cup {"off"} : file' = [d EXCEPT !.actions[n] = a]
    BY <1>2
  <2>2. [d.actions EXCEPT ![n] = a] \in [Names -> D!Actions \cup {"off", Absent}]
    BY <1>1
  <2>3. file' = [d EXCEPT !.actions = [d.actions EXCEPT ![n] = a]]
    BY <2>1 DEF D!UrlFilters
  <2>. QED BY <2>2, <2>3 DEF D!UrlFilters
<1>3. CASE \E m \in {"blacklist", "whitelist"} : file' = [d EXCEPT !.mode = m]
  BY <1>3 DEF D!UrlFilters
<1>. QED BY <1>2, <1>3 DEF D!EditCategories

LEMMA SafeSearchDecodes ==
    ASSUME NEW d \in SafeDocs
    PROVE  SafeLive(D!Decode(d)) /\ D!Enforced(D!Decode(d)) = D!Meaning(d)
<1>. DEFINE c == D!Decode(d)
<1>1. d.kind = "safesearch" /\ c = D!DecodeSafeSearch(d) /\ c.kind = "safesearch"
  BY DEF SafeDocs, D!Decode, D!DecodeSafeSearch
<1>2. /\ Absent # Null /\ Other \notin Known /\ Absent \notin BOOLEAN
      /\ \A e \in Engines : e \notin {Absent, Null}
  BY DocumentsApart
<1>3. \A e \in Engines : \E N \in SUBSET (Known \cup {Other}) : e \in [N -> SUBSET Tabs]
  BY DEF Engines
<1>4. /\ [e \in {} |-> {}] \in Engines
      /\ [e \in Known |-> {t \in Tabs : d.flags[t] = TRUE}] \in Engines
  <2>1. [e \in {} |-> {}] \in [{} -> SUBSET Tabs]
    OBVIOUS
  <2>2. [e \in Known |-> {t \in Tabs : d.flags[t] = TRUE}] \in [Known -> SUBSET Tabs]
    OBVIOUS
  <2>. QED BY <2>1, <2>2 DEF Engines
<1>5. d.engines \in {Absent, Null} \cup Engines /\ d.flags \in [Tabs -> D!Flag]
  BY DEF SafeDocs
<1>6. D!Meaning(d) =
        [e \in Known \cup {Other} |->
            IF d.engines = Absent THEN (IF e \in Known THEN D!OldFlags(d) ELSE {})
            ELSE IF d.engines # Null /\ e \in DOMAIN d.engines THEN d.engines[e] ELSE {}]
  BY <1>1 DEF D!Meaning
<1>7. D!Enforced(c) = [e \in Known \cup {Other} |-> IF e \in DOMAIN c.engines THEN c.engines[e] ELSE {}]
  <2>. HIDE DEF c
  <2>. QED BY <1>1 DEF D!Enforced, D!Blocks
<1>8. /\ d.engines \in Engines => c.engines = d.engines
      /\ d.engines = Null => c.engines = [e \in {} |-> {}]
      /\ d.engines = Absent /\ D!HasLegacyFlags(d) => c.engines = [e \in Known |-> {t \in Tabs : d.flags[t] = TRUE}]
      /\ d.engines = Absent /\ ~D!HasLegacyFlags(d) => c.engines = [e \in {} |-> {}]
  BY <1>1, <1>2 DEF D!DecodeSafeSearch, D!Given
<1>9. c = [kind |-> "safesearch", engines |-> c.engines]
  BY <1>1 DEF D!DecodeSafeSearch
<1>. HIDE DEF c
<1>10. SafeLive(c)
  <2>1. c.engines \in Engines
    BY <1>4, <1>5, <1>8
  <2>. QED BY <1>9, <2>1 DEF SafeLive
<1>11. ASSUME NEW e \in Known \cup {Other}
       PROVE  (IF e \in DOMAIN c.engines THEN c.engines[e] ELSE {}) =
              (IF d.engines = Absent THEN (IF e \in Known THEN D!OldFlags(d) ELSE {})
               ELSE IF d.engines # Null /\ e \in DOMAIN d.engines THEN d.engines[e] ELSE {})
  <2>1. CASE d.engines \in Engines
    BY <1>2, <1>8, <2>1
  <2>2. CASE d.engines = Null
    BY <1>2, <1>8, <2>2
  <2>3. CASE d.engines = Absent /\ D!HasLegacyFlags(d)
    BY <1>2, <1>8, <2>3 DEF D!OldFlags
  <2>4. CASE d.engines = Absent /\ ~D!HasLegacyFlags(d)
    <3>1. \A t \in Tabs : d.flags[t] = Absent
      BY <2>4 DEF D!HasLegacyFlags
    <3>2. D!OldFlags(d) = {}
      BY <1>2, <3>1 DEF D!OldFlags
    <3>. QED BY <1>2, <1>8, <2>4, <3>2
  <2>. QED BY <1>5, <2>1, <2>2, <2>3, <2>4
<1>. QED BY <1>6, <1>7, <1>10, <1>11 DEF c

LEMMA SafeSearchEncodes ==
    ASSUME NEW c, SafeLive(c)
    PROVE  D!Encode(c) \in SafeDocs /\ D!Meaning(D!Encode(c)) = D!Enforced(c)
<1>. DEFINE d == D!Encode(c)
<1>1. c.kind = "safesearch" /\ c.engines \in Engines
  BY DEF SafeLive
<1>2. d = [kind |-> "safesearch", flags |-> [t \in Tabs |-> Absent], engines |-> c.engines]
  BY <1>1 DEF D!Encode, D!EncodeSafeSearch
<1>3. c.engines \notin {Absent, Null}
  BY <1>1, DocumentsApart
<1>4. d \in SafeDocs
  BY <1>1, <1>2 DEF SafeDocs, D!Flag
<1>5. D!Enforced(c) = [e \in Known \cup {Other} |-> IF e \in DOMAIN c.engines THEN c.engines[e] ELSE {}]
  BY <1>1 DEF D!Enforced, D!Blocks
<1>6. d.kind = "safesearch" /\ d.engines = c.engines
  BY <1>2
<1>. HIDE DEF d
<1>7. D!Meaning(d) =
        [e \in Known \cup {Other} |->
            IF d.engines = Absent THEN (IF e \in Known THEN D!OldFlags(d) ELSE {})
            ELSE IF d.engines # Null /\ e \in DOMAIN d.engines THEN d.engines[e] ELSE {}]
  BY <1>6 DEF D!Meaning
<1>8. D!Meaning(d) = D!Enforced(c)
  BY <1>3, <1>5, <1>6, <1>7
<1>. QED BY <1>4, <1>8 DEF d

LEMMA ListensAre ==
    /\ D!DefaultListen # {} /\ D!DefaultListen \in Listens /\ Blank \notin D!DefaultListen
    /\ \A h \in Addresses : {D!Listen(h, "1080")} \in Listens /\ D!Listen(h, "1080") # Blank
    /\ {} \in Listens /\ \A V \in Listens : V \ {Blank} \in Listens
    /\ \A V \in Listens : V \notin {Absent, Null}
    /\ Values \subseteq Addresses /\ {"0.0.0.0", "./logs"} \subseteq Addresses
    /\ \A h \in Addresses : h \notin {Absent, Null}
    /\ "1080" \notin {Absent, Null} /\ Absent # Null
<1>1. D!DefaultListen # {}
  BY DEF D!DefaultListen
<1>2. Values \subseteq Addresses /\ {"0.0.0.0", "./logs"} \subseteq Addresses
  BY DEF Addresses
<1>3. /\ D!DefaultListen \in Listens /\ Blank \notin D!DefaultListen
      /\ \A h \in Addresses : {D!Listen(h, "1080")} \in Listens /\ D!Listen(h, "1080") # Blank
  <2>1. Blank \notin Sockets
    BY DocumentsApart
  <2>2. D!DefaultListen \in SUBSET Sockets
    BY DEF Sockets
  <2>3. \A h \in Addresses : D!Listen(h, "1080") \in Sockets
    BY DEF Sockets
  <2>4. \A V \in SUBSET Sockets : V \in Listens
    BY DEF Listens
  <2>5. \A h \in Addresses : {D!Listen(h, "1080")} \in SUBSET Sockets
    BY <2>3
  <2>. QED BY <2>1, <2>2, <2>3, <2>4, <2>5
<1>4. {} \in Listens /\ \A V \in Listens : V \ {Blank} \in Listens
  <2>1. \A V, W : W \in SUBSET V => W \ {Blank} \in SUBSET V
    OBVIOUS
  <2>. QED BY <2>1 DEF Listens
<1>5. \A V \in Listens : V \notin {Absent, Null}
  <2>. SUFFICES ASSUME NEW V \in Listens PROVE V \notin {Absent, Null}
    OBVIOUS
  <2>1. CASE V \in SUBSET (Values \cup {Blank})
    <3>1. V \in SUBSET (Values \cup {Blank, "typo"})
      BY <2>1
    <3>. QED BY <3>1, DocumentsApart
  <2>2. CASE V \in SUBSET Sockets
    BY <2>2, DocumentsApart
  <2>3. V \in SUBSET (Values \cup {Blank}) \/ V \in SUBSET Sockets
    BY DEF Listens
  <2>. QED BY <2>1, <2>2, <2>3
<1>6. "1080" \in Words
  BY DEF Words
<1>7. /\ \A h \in Addresses : h \notin {Absent, Null}
      /\ "1080" \notin {Absent, Null} /\ Absent # Null
  BY <1>6, DocumentsApart
<1>. QED BY <1>1, <1>2, <1>3, <1>4, <1>5, <1>7

LEMMA SettingsDecode ==
    ASSUME NEW d \in SettingsDocs
    PROVE  SettingsLive(D!Decode(d)) /\ D!Enforced(D!Decode(d)) = D!Meaning(d)
<1>. DEFINE c == D!Decode(d)
<1>. DEFINE asked == IF d.listen = Absent THEN D!OldListen(d) ELSE D!Default(d.listen, {}) \ {Blank}
<1>1. d.kind = "settings"
  BY DEF SettingsDocs
<1>2. c = D!DecodeSettings(d)
  BY <1>1 DEF D!Decode
<1>3. /\ d.listen \in {Absent, Null} \cup Listens /\ d.mgmt \in {Absent, Null} \cup Addresses
      /\ d.logs \in {Absent} \cup Addresses /\ d.port \in {Absent, "1080"} /\ d.host \in {Absent} \cup Values
      /\ d.blocks \in {Absent} \cup Values
  BY DEF SettingsDocs
<1>4. D!Default(d.host, "0.0.0.0") = D!OldHost(d) /\ D!OldHost(d) \in Addresses
  BY <1>3, ListensAre DEF D!Default, D!Given, D!OldHost
<1>5. D!Cleaned(D!MigratedListen(d)) = asked /\ asked \in Listens /\ Blank \notin asked
  <2>1. CASE d.listen = Absent /\ d.port # Absent
    <3>1. d.port = "1080"
      BY <1>3, <2>1
    <3>2. D!MigratedListen(d) = {D!Listen(D!OldHost(d), "1080")}
      BY <1>4, <2>1, <3>1 DEF D!MigratedListen
    <3>3. asked = {D!Listen(D!OldHost(d), "1080")}
      BY <1>4, <2>1, <3>1 DEF D!OldListen, D!Listen
    <3>4. {D!Listen(D!OldHost(d), "1080")} \in Listens /\ D!Listen(D!OldHost(d), "1080") # Blank
      BY <1>4, ListensAre
    <3>. HIDE DEF asked
    <3>. QED BY <3>2, <3>3, <3>4 DEF D!Cleaned
  <2>2. CASE d.listen = Absent /\ d.port = Absent
    <3>1. D!MigratedListen(d) = {} /\ asked = {}
      BY <2>2 DEF D!MigratedListen, D!Default, D!Given, D!OldListen
    <3>. HIDE DEF asked
    <3>. QED BY <3>1, ListensAre DEF D!Cleaned
  <2>3. CASE d.listen # Absent
    <3>1. D!MigratedListen(d) = D!Default(d.listen, {}) /\ asked = D!Default(d.listen, {}) \ {Blank}
      BY <2>3 DEF D!MigratedListen
    <3>2. D!Default(d.listen, {}) \in Listens
      BY <1>3, ListensAre DEF D!Default, D!Given
    <3>. HIDE DEF asked
    <3>3. asked \in Listens /\ Blank \notin asked
      BY <3>1, <3>2, ListensAre
    <3>. QED BY <3>1, <3>3 DEF D!Cleaned
  <2>. QED BY <2>1, <2>2, <2>3
<1>6. /\ D!Default(d.logs, D!Default(d.blocks, "./logs")) = IF d.logs # Absent THEN d.logs ELSE IF d.blocks # Absent THEN d.blocks ELSE "./logs"
      /\ D!Default(d.logs, D!Default(d.blocks, "./logs")) \in Addresses
  BY <1>3, ListensAre DEF D!Default, D!Given
<1>7. D!Default(d.mgmt, "0.0.0.0") \in Addresses
  BY <1>3, ListensAre DEF D!Default, D!Given
<1>8. c = [kind |-> "settings", listen |-> IF asked = {} THEN D!DefaultListen ELSE asked,
           mgmt |-> IF d.mgmt = Absent THEN D!OldHost(d) ELSE D!Default(d.mgmt, "0.0.0.0"),
           logs |-> D!Default(d.logs, D!Default(d.blocks, "./logs"))]
  BY <1>2, <1>4, <1>5 DEF D!DecodeSettings
<1>9. D!Meaning(d) = [listen |-> IF asked = {} THEN D!DefaultListen ELSE asked,
           mgmt |-> IF d.mgmt = Absent THEN D!OldHost(d) ELSE D!Default(d.mgmt, "0.0.0.0"),
           logs |-> IF d.logs # Absent THEN d.logs ELSE IF d.blocks # Absent THEN d.blocks ELSE "./logs"]
  BY <1>1 DEF D!Meaning
<1>. HIDE DEF asked, c
<1>10. SettingsLive(c)
  BY <1>4, <1>5, <1>6, <1>7, <1>8, ListensAre DEF SettingsLive
<1>11. D!Enforced(c) = [listen |-> c.listen, mgmt |-> c.mgmt, logs |-> c.logs]
  BY <1>8 DEF D!Enforced
<1>12. D!Enforced(c) = D!Meaning(d)
  BY <1>6, <1>8, <1>9, <1>11
<1>. QED BY <1>10, <1>12 DEF c

LEMMA SettingsEncode ==
    ASSUME NEW c, SettingsLive(c)
    PROVE  D!Encode(c) \in SettingsDocs /\ D!Meaning(D!Encode(c)) = D!Enforced(c)
<1>. DEFINE d == D!Encode(c)
<1>1. c.kind = "settings" /\ c.listen \in Listens /\ c.mgmt \in Addresses /\ c.logs \in Addresses
  BY DEF SettingsLive
<1>2. d = [kind |-> "settings", listen |-> c.listen, mgmt |-> c.mgmt, logs |-> c.logs,
           port |-> Absent, host |-> Absent, blocks |-> Absent]
  BY <1>1 DEF D!Encode, D!EncodeSettings
<1>3. d \in SettingsDocs
  BY <1>1, <1>2 DEF SettingsDocs
<1>4. c.listen \notin {Absent, Null} /\ c.mgmt \notin {Absent, Null} /\ c.logs \notin {Absent, Null}
  BY <1>1, ListensAre
<1>5. d.kind = "settings" /\ d.listen = c.listen /\ d.mgmt = c.mgmt /\ d.logs = c.logs
  BY <1>2
<1>6. c.listen \ {Blank} = c.listen /\ c.listen # {}
  BY DEF SettingsLive
<1>. HIDE DEF d
<1>7. D!Meaning(d) = [listen |-> c.listen, mgmt |-> c.mgmt, logs |-> c.logs]
  BY <1>4, <1>5, <1>6 DEF D!Meaning, D!Default, D!Given
<1>8. D!Enforced(c) = [listen |-> c.listen, mgmt |-> c.mgmt, logs |-> c.logs]
  BY <1>1 DEF D!Enforced
<1>. QED BY <1>3, <1>7, <1>8 DEF d

LEMMA FieldDecodes ==
    ASSUME NEW d, FieldDoc(d)
    PROVE  FieldLive(D!Decode(d)) /\ D!Enforced(D!Decode(d)) = D!Meaning(d)
<1>. DEFINE v == D!ValueOf(D!KeyOf(d), d.value)
<1>. DEFINE c == [kind |-> "field", config |-> d.config, key |-> d.key, value |-> v]
<1>1. d.kind = "field" /\ d = [kind |-> "field", config |-> d.config, key |-> d.key, value |-> d.value] /\ Settled(D!KeyOf(d), v)
  BY DEF FieldDoc
<1>. HIDE DEF v
<1>2. [d EXCEPT !.value = v] = c
  BY <1>1
<1>3. D!Decode(d) = c
  BY <1>1, <1>2 DEF D!Decode, D!DecodeField, v
<1>4. D!KeyOf(c) = D!KeyOf(d)
  BY DEF D!KeyOf
<1>5. FieldLive(c)
  BY <1>1, <1>4 DEF FieldLive
<1>6. D!Enforced(c) = v
  BY DEF D!Enforced
<1>7. D!Meaning(d) = v
  BY <1>1 DEF D!Meaning, v
<1>. QED BY <1>3, <1>5, <1>6, <1>7

LEMMA FieldEncodes ==
    ASSUME NEW c, FieldLive(c)
    PROVE  FieldDoc(D!Encode(c)) /\ D!Meaning(D!Encode(c)) = D!Enforced(c)
<1>. DEFINE w == Encoded(D!KeyOf(c), c.value)
<1>. DEFINE d == [kind |-> "field", config |-> c.config, key |-> c.key, value |-> w]
<1>1. c.kind = "field" /\ c = [kind |-> "field", config |-> c.config, key |-> c.key, value |-> c.value]
      /\ D!ValueOf(D!KeyOf(c), w) = c.value
  BY DEF FieldLive, Settled
<1>2. D!EncodeField(c) = [c EXCEPT !.value = w]
  BY <1>1 DEF D!EncodeField, Encoded
<1>. HIDE DEF w
<1>3. D!Encode(c) = d
  BY <1>1, <1>2 DEF D!Encode
<1>4. D!KeyOf(d) = D!KeyOf(c)
  BY DEF D!KeyOf
<1>5. D!ValueOf(D!KeyOf(d), d.value) = c.value
  BY <1>1, <1>4
<1>6. Settled(D!KeyOf(d), c.value)
  BY <1>4 DEF FieldLive
<1>7. FieldDoc(d)
  BY <1>5, <1>6 DEF FieldDoc
<1>8. D!Meaning(d) = c.value
  BY <1>5 DEF D!Meaning
<1>9. D!Enforced(c) = c.value
  BY <1>1 DEF D!Enforced
<1>. QED BY <1>3, <1>7, <1>8, <1>9

LEMMA DaysWrap ==
    ASSUME NEW V \in SUBSET Int
    PROVE  /\ D!NormalizeDays(V) \in SUBSET (0..6)
           /\ D!NormalizeDays(V) = {x \in 0..6 : \E y \in V : (y - x) % 7 = 0}
<1>1. \A y \in Int : y % 7 \in 0..6
  OBVIOUS
<1>2. \A y \in Int, x \in 0..6 : (y - x) % 7 = 0 <=> x = y % 7
  OBVIOUS
<1>3. D!NormalizeDays(V) \in SUBSET (0..6)
  BY <1>1 DEF D!NormalizeDays
<1>4. ASSUME NEW x \in 0..6 PROVE x \in D!NormalizeDays(V) <=> \E y \in V : (y - x) % 7 = 0
  <2>1. x \in D!NormalizeDays(V) <=> \E y \in V : x = y % 7
    BY DEF D!NormalizeDays
  <2>. QED BY <1>2, <2>1
<1>. QED BY <1>3, <1>4

LEMMA DaysKept == \A V \in SUBSET (0..6) : V \in SUBSET Int /\ D!NormalizeDays(V) = V
<1>. SUFFICES ASSUME NEW V \in SUBSET (0..6) PROVE V \in SUBSET Int /\ D!NormalizeDays(V) = V
  OBVIOUS
<1>1. \A y \in 0..6 : y % 7 = y
  OBVIOUS
<1>2. \A y \in V : y % 7 = y
  BY <1>1
<1>3. {y % 7 : y \in V} = V
  BY <1>2
<1>. QED BY <1>3 DEF D!NormalizeDays

LEMMA WindowDecodes ==
    ASSUME NEW d \in WindowDocs
    PROVE  WindowLive(D!Decode(d)) /\ D!Enforced(D!Decode(d)) = D!Meaning(d)
<1>. DEFINE c == D!Decode(d)
<1>1. d.kind = "window"
  BY DEF WindowDocs
<1>2. c = D!DecodeWindow(d) /\ c.kind = "window"
  BY <1>1 DEF D!Decode, D!DecodeWindow
<1>3. {Absent, Null, Blank} \cap ({"00:00"} \cup D!Times) = {} /\ \A V \in SUBSET (-1..8) : V \notin {Absent, Null}
  BY DocumentsApart DEF Moments, Words
<1>4. /\ d.days \in {Absent, Null} \cup SUBSET (-1..8)
      /\ d.start \in {Absent, Null, Blank, "00:00", "9:00", "09:00", "23:59", "typo"}
      /\ d.end \in {Absent, Null, Blank, "9:00", "09:00", "23:59", "typo"}
  BY DEF WindowDocs, Moments, D!Times
<1>. DEFINE days == IF D!Given(d.days) THEN {x \in 0..6 : \E y \in d.days : (y - x) % 7 = 0} ELSE 0..6
<1>5. c.days = days /\ days \in SUBSET (0..6)
  <2>1. CASE D!Given(d.days)
    <3>1. d.days \in SUBSET Int
      BY <1>4, <2>1 DEF D!Given
    <3>2. c.days = D!NormalizeDays(d.days)
      BY <1>2, <2>1 DEF D!DecodeWindow
    <3>. HIDE DEF c
    <3>. QED BY <2>1, <3>1, <3>2, DaysWrap
  <2>2. CASE ~D!Given(d.days)
    BY <1>2, <2>2 DEF D!DecodeWindow, D!AllDays
  <2>. QED BY <2>1, <2>2
<1>6. /\ c.start \in {"00:00", "09:00", "23:59", "typo"}
      /\ (IF c.start = "typo" THEN "00:00" ELSE c.start) =
         (IF d.start \in {"09:00", "9:00"} THEN "09:00" ELSE IF d.start = "23:59" THEN d.start ELSE "00:00")
  <2>1. c.start = D!ParseHHMM(D!OrDefault(d.start, "00:00"))
    BY <1>2 DEF D!DecodeWindow
  <2>. HIDE DEF c
  <2>. QED BY <1>3, <1>4, <2>1 DEF D!ParseHHMM, D!OrDefault, D!Times
<1>7. /\ c.end \in {"09:00", "23:59", "typo"}
      /\ (IF c.end = "typo" THEN "23:59" ELSE c.end) = (IF d.end \in {"09:00", "9:00"} THEN "09:00" ELSE "23:59")
  <2>1. c.end = D!ParseHHMM(D!OrDefault(d.end, "23:59"))
    BY <1>2 DEF D!DecodeWindow
  <2>. HIDE DEF c
  <2>. QED BY <1>3, <1>4, <2>1 DEF D!ParseHHMM, D!OrDefault, D!Times
<1>8. c = [kind |-> "window", days |-> c.days, start |-> c.start, end |-> c.end]
  BY <1>2 DEF D!DecodeWindow
<1>9. D!NormalizeDays(c.days) = days
  BY <1>5, DaysKept
<1>10. D!Meaning(d) = [days |-> days,
             start |-> IF d.start \in {"09:00", "9:00"} THEN "09:00" ELSE IF d.start = "23:59" THEN d.start ELSE "00:00",
             end |-> IF d.end \in {"09:00", "9:00"} THEN "09:00" ELSE "23:59"]
  BY <1>1 DEF D!Meaning
<1>. HIDE DEF c, days
<1>11. WindowLive(c)
  BY <1>5, <1>6, <1>7, <1>8 DEF WindowLive
<1>12. D!Enforced(c) = [days |-> days, start |-> IF c.start = "typo" THEN "00:00" ELSE c.start,
                        end |-> IF c.end = "typo" THEN "23:59" ELSE c.end]
  BY <1>2, <1>9 DEF D!Enforced, D!InForce
<1>13. D!Enforced(c) = D!Meaning(d)
  BY <1>6, <1>7, <1>10, <1>12
<1>. QED BY <1>11, <1>13 DEF c

LEMMA WindowEncodes ==
    ASSUME NEW c, WindowLive(c)
    PROVE  D!Encode(c) \in WindowDocs /\ D!Meaning(D!Encode(c)) = D!Enforced(c)
<1>1. c.kind = "window" /\ c.days \in SUBSET (0..6) /\ c.start \in {"00:00", "09:00", "23:59", "typo"}
      /\ c.end \in {"09:00", "23:59", "typo"} /\ c = [kind |-> "window", days |-> c.days, start |-> c.start, end |-> c.end]
  BY DEF WindowLive
<1>2. D!Encode(c) = c
  BY <1>1 DEF D!Encode
<1>3. c.days \in SUBSET (-1..8)
  BY <1>1
<1>4. c \in WindowDocs
  BY <1>1, <1>3 DEF WindowDocs, Moments, D!Times
<1>. DEFINE days == {x \in 0..6 : \E y \in c.days : (y - x) % 7 = 0}
<1>5. D!Given(c.days) /\ D!NormalizeDays(c.days) = days
  BY <1>1, <1>3, DocumentsApart, DaysKept, DaysWrap DEF D!Given
<1>6. D!Enforced(c) = [days |-> D!NormalizeDays(c.days), start |-> IF c.start = "typo" THEN "00:00" ELSE c.start,
                        end |-> IF c.end = "typo" THEN "23:59" ELSE c.end]
  BY <1>1 DEF D!Enforced, D!InForce
<1>7. D!Meaning(c) = [days |-> days,
             start |-> IF c.start \in {"09:00", "9:00"} THEN "09:00" ELSE IF c.start = "23:59" THEN c.start ELSE "00:00",
             end |-> IF c.end \in {"09:00", "9:00"} THEN "09:00" ELSE "23:59"]
  BY <1>1, <1>5 DEF D!Meaning
<1>8. /\ (IF c.start = "typo" THEN "00:00" ELSE c.start) =
         (IF c.start \in {"09:00", "9:00"} THEN "09:00" ELSE IF c.start = "23:59" THEN c.start ELSE "00:00")
      /\ (IF c.end = "typo" THEN "23:59" ELSE c.end) = (IF c.end \in {"09:00", "9:00"} THEN "09:00" ELSE "23:59")
  BY <1>1
<1>. HIDE DEF days
<1>9. D!Meaning(c) = D!Enforced(c)
  BY <1>5, <1>6, <1>7, <1>8
<1>. QED BY <1>2, <1>4, <1>9

LEMMA DecodedAsMeant ==
    ASSUME NEW d, MayStand(d)
    PROVE  MayLive(D!Decode(d)) /\ D!Enforced(D!Decode(d)) = D!Meaning(d)
BY UrlFilterDecodes, SafeSearchDecodes, SettingsDecode, WindowDecodes, FieldDecodes DEF MayStand, MayLive

LEMMA EncodedAsEnforced ==
    ASSUME NEW c, MayLive(c)
    PROVE  MayStand(D!Encode(c)) /\ D!Meaning(D!Encode(c)) = D!Enforced(c)
BY UrlFilterEncodes, SafeSearchEncodes, SettingsEncode, WindowEncodes, FieldEncodes DEF MayStand, MayLive

LEMMA DocumentsMayStand == \A d \in D!Documents : MayStand(d)
<1>. SUFFICES ASSUME NEW d \in D!Documents PROVE MayStand(d)
  OBVIOUS
<1>1. CASE d \in D!UrlFilters
  BY <1>1 DEF MayStand
<1>2. CASE d \in D!SafeSearches
  <2>1. (CHOOSE e \in Known : TRUE) \in Known
    BY DocumentsApart
  <2>2. d.engines \in {Absent, Null} \cup Engines
    BY <1>2, <2>1 DEF D!SafeSearches, Engines
  <2>3. d \in SafeDocs
    BY <1>2, <2>2 DEF D!SafeSearches, SafeDocs
  <2>. QED BY <2>3 DEF MayStand
<1>3. CASE d \in D!Settings
  <2>1. d \in SettingsDocs
    BY <1>3 DEF D!Settings, SettingsDocs, Listens, Addresses
  <2>. QED BY <2>1 DEF MayStand
<1>4. CASE d \in D!Fields
  <2>1. PICK s \in DOMAIN D!Sections : \E k \in DOMAIN D!Sections[s] : \E v \in D!Written(D!Sections[s][k].kind) :
           d = [kind |-> "field", config |-> s, key |-> k, value |-> v]
    BY <1>4 DEF D!Fields
  <2>k. PICK k \in DOMAIN D!Sections[s] : \E v \in D!Written(D!Sections[s][k].kind) :
           d = [kind |-> "field", config |-> s, key |-> k, value |-> v]
    BY <2>1
  <2>v. PICK v \in D!Written(D!Sections[s][k].kind) : d = [kind |-> "field", config |-> s, key |-> k, value |-> v]
    BY <2>k
  <2>2. D!KeyOf(d) = D!Sections[s][k]
    BY <2>v DEF D!KeyOf
  <2>3. Settled(D!KeyOf(d), D!ValueOf(D!KeyOf(d), d.value))
    BY <2>v, <2>2, DefaultsFit, ValuesSettle
  <2>. QED BY <2>v, <2>3 DEF MayStand, FieldDoc
<1>5. CASE d \in D!Windows
  <2>1. d \in WindowDocs
    BY <1>5 DEF D!Windows, WindowDocs, Moments, D!Times
  <2>. QED BY <2>1 DEF MayStand
<1>. QED BY <1>1, <1>2, <1>3, <1>4, <1>5 DEF D!Documents

DocsInv ==
    /\ MayStand(file) /\ D!Meaning(file) = meant
    /\ live # Nothing => MayLive(live) /\ D!Enforced(live) = meant

LEMMA DocsStart == D!Init => DocsInv
BY DocumentsMayStand DEF D!Init, DocsInv

LEMMA DocsStep == DocsInv /\ [D!Next]_docs => DocsInv'
<1>. SUFFICES ASSUME DocsInv, [D!Next]_docs PROVE DocsInv'
  OBVIOUS
<1>1. CASE D!Load
  BY <1>1, DecodedAsMeant DEF D!Load, DocsInv
<1>2. CASE D!Save
  BY <1>2, EncodedAsEnforced DEF D!Save, DocsInv
<1>3. CASE D!Edit
  <2>1. live # Nothing /\ live.kind = "url_filter" /\ MayLive(live)
    BY <1>3 DEF D!Edit, DocsInv
  <2>2. UrlLive(live)
    BY <2>1 DEF MayLive, SafeLive, SettingsLive, WindowLive, FieldLive
  <2>3. D!Encode(live) \in D!UrlFilters
    BY <2>2, UrlFilterEncodes
  <2>4. D!Given(D!Encode(live).actions)
    <3>1. D!Encode(live).actions = [n \in Names |-> IF n \in DOMAIN D!Effective(live) THEN D!Effective(live)[n] ELSE Absent]
      BY <2>1 DEF D!Encode, D!EncodeUrlFilter
    <3>2. D!Effective(live) \in UrlActions
      BY <2>2 DEF UrlLive, D!Effective
    <3>3. D!Encode(live).actions \in [Names -> D!Actions \cup {"off", Absent}]
      BY <3>1, <3>2 DEF UrlActions
    <3>. QED BY <3>3, DocumentsApart DEF D!Given
  <2>5. file' \in D!UrlFilters /\ live' = Nothing /\ meant' = D!Meaning(file)'
    BY <1>3, <2>3, <2>4, EditsStand DEF D!Edit
  <2>. QED BY <2>5 DEF DocsInv, MayStand
<1>4. CASE UNCHANGED docs
  BY <1>4 DEF docs, DocsInv, MayStand, FieldDoc, MayLive, UrlLive, SafeLive, SettingsLive, WindowLive, FieldLive
<1>. QED BY <1>1, <1>2, <1>3, <1>4 DEF D!Next

(* Whatever a section says and in whichever schema, and however often it   *)
(* is loaded, saved and edited: what the program enforces is what was last *)
(* written means (models/policy.go, settings.go, schedule.go).             *)
THEOREM MeaningKeptAlways == StandaloneSpec => []MeaningKept
<1>. DEFINE Inv == which = "documents" => DocsInv
<1>1. ComponentsInit => Inv
  BY DocsStart DEF ComponentsInit
<1>2. Inv /\ [ComponentsNext]_standaloneVars => Inv'
  <2>. SUFFICES ASSUME Inv, [ComponentsNext]_standaloneVars, which' = "documents" PROVE DocsInv'
    OBVIOUS
  <2>1. which = "documents" /\ [D!Next]_docs
    BY DEF ComponentsNext, standaloneVars
  <2>. QED BY <2>1, DocsStep
<1>3. Inv => MeaningKept
  BY DEF MeaningKept, D!MeaningKept, DocsInv
<1>. QED BY <1>1, <1>2, <1>3, PTL DEF StandaloneSpec
=============================================================================

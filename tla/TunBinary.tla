----------------------------- MODULE TunBinary ------------------------------
(***************************************************************************)
(* The tun2socks executable beside webfilter's: Download, which the button *)
(* of the API and the command line may both be running, and the processes  *)
(* that look it up, show it and run it.                                    *)
(*                                                                         *)
(* An asset of a release is [version, digest, entries, size, unpacked]:    *)
(* whether its checksum is published, how many executables it contains and *)
(* how many bytes they are packed and unpacked.                            *)
(***************************************************************************)
EXTENDS Integers

CONSTANTS
    Callers, Process,   \* who downloads, and in which process
    Assets,             \* the releases' assets, no two of one version
    MaxAssetBytes,
    InUseFails,         \* whether a running file can be replaced: not on Windows
    Absent

VARIABLES
    latest,     \* the asset of the release that is the latest now
    pc,         \* a caller's step in Download
    mu,         \* downloadMu of each process: its holder
    work,       \* what a caller has staged
    stage,      \* whether its .dl- directory is there
    bin, meta,  \* the executable and tun2socks.json
    child,      \* the executable that is running
    torn,       \* whether the last install was cut short or crossed
    crossed     \* callers whose two renames another process has come between

installed == <<bin, meta>>
ghosts    == <<torn, crossed>>
vars      == <<latest, pc, mu, work, stage, installed, child, ghosts>>

Processes == {Process[c] : c \in Callers}
Goto(c, l) == pc' = [pc EXCEPT ![c] = l]

(* Every return: RemoveAll of the staging directory, then the mutex.       *)
Return(c) ==
    /\ Goto(c, "idle")
    /\ mu' = [mu EXCEPT ![Process[c]] = Absent]
    /\ work' = [work EXCEPT ![c] = Absent] /\ stage' = [stage EXCEPT ![c] = FALSE]

BugNoLock(c) == TRUE
MayDownload(c) == mu[Process[c]] = Absent
Lock(c) ==
    /\ pc[c] = "idle" /\ MayDownload(c) /\ Goto(c, "release")
    /\ mu' = [mu EXCEPT ![Process[c]] = c]
    /\ UNCHANGED <<latest, work, stage, installed, child, ghosts>>

(* fetchRelease: the latest one may have no asset for the platform.        *)
FetchRelease(c) ==
    /\ pc[c] = "release"
    /\ \/ Return(c)
       \/ /\ latest # Absent /\ Goto(c, "fetch") /\ UNCHANGED mu
          /\ work' = [work EXCEPT ![c] = [asset |-> latest, garbled |-> FALSE]]
          /\ stage' = [stage EXCEPT ![c] = TRUE]
    /\ UNCHANGED <<latest, installed, child, ghosts>>

(* downloadTo: an error, or a payload that may not be what was published;  *)
(* it is told from it by a published checksum, otherwise by the archive's, *)
(* which nobody reads to if the executable reaches the cap.                *)
DownloadTo(c) ==
    /\ pc[c] = "fetch"
    /\ \/ Return(c)
       \/ /\ work[c].asset.size <= MaxAssetBytes
          /\ \E g \in BOOLEAN :
                /\ g => ~work[c].asset.digest
                /\ work' = [work EXCEPT ![c].garbled = g]
          /\ Goto(c, "extract") /\ UNCHANGED <<mu, stage>>
    /\ UNCHANGED <<latest, installed, child, ghosts>>
ExtractBinary(c) ==
    /\ pc[c] = "extract"
    /\ \/ Return(c)
       \/ /\ work[c].asset.entries = 1
          /\ work[c].garbled => work[c].asset.unpacked >= MaxAssetBytes
          /\ Goto(c, "meta") /\ UNCHANGED <<mu, work, stage>>
    /\ UNCHANGED <<latest, installed, child, ghosts>>

(* The two renames, the record's first; each may fail.  Another process's  *)
(* come between them as they like.                                         *)
Crossing(c) == {d \in Callers : Process[d] # Process[c] /\ pc[d] = "bin"}
RenameMeta(c) ==
    /\ pc[c] = "meta"
    /\ \/ Return(c) /\ UNCHANGED <<meta, crossed>>
       \/ /\ meta' = work[c].asset.version /\ Goto(c, "bin")
          /\ crossed' = (crossed \ {c}) \cup Crossing(c)
          /\ UNCHANGED <<mu, work, stage>>
    /\ UNCHANGED <<latest, bin, child, torn>>
Extracted(a, g) ==
    [version |-> a.version, garbled |-> g,
     bytes |-> IF a.unpacked <= MaxAssetBytes THEN a.unpacked ELSE MaxAssetBytes]
RenameBin(c) ==
    /\ pc[c] = "bin" /\ Return(c)
    /\ \/ /\ ~(InUseFails /\ child # Absent)
          /\ bin' = Extracted(work[c].asset, work[c].garbled) /\ torn' = (c \in crossed)
       \/ UNCHANGED bin /\ torn' = TRUE
    /\ crossed' = (crossed \ {c}) \cup Crossing(c)
    /\ UNCHANGED <<latest, meta, child>>

-----------------------------------------------------------------------------
(* Users of the file, and the world                                        *)

(* Resolve, then exec.                                                     *)
Launch == bin # Absent /\ child = Absent /\ child' = bin /\ UNCHANGED <<latest, pc, mu, work, stage, installed, ghosts>>
Exit   == child # Absent /\ child' = Absent /\ UNCHANGED <<latest, pc, mu, work, stage, installed, ghosts>>

(* A process is killed: its staging directory is left behind for good.     *)
Kill(p) ==
    LET Dead == {c \in Callers : Process[c] = p} IN
    /\ mu[p] # Absent
    /\ mu' = [mu EXCEPT ![p] = Absent]
    /\ pc' = [c \in Callers |-> IF c \in Dead THEN "idle" ELSE pc[c]]
    /\ work' = [c \in Callers |-> IF c \in Dead THEN Absent ELSE work[c]]
    /\ stage' = [c \in Callers |-> c \notin Dead /\ stage[c]]
    /\ torn' = (torn \/ \E c \in Dead : pc[c] = "bin")
    /\ crossed' = crossed \ Dead
    /\ UNCHANGED <<latest, installed, child>>
Publish ==
    /\ latest' \in Assets \cup {Absent}
    /\ UNCHANGED <<pc, mu, work, stage, installed, child, ghosts>>

Init ==
    /\ latest \in Assets \cup {Absent} /\ child = Absent
    /\ pc = [c \in Callers |-> "idle"] /\ mu = [p \in Processes |-> Absent]
    /\ work = [c \in Callers |-> Absent] /\ stage = [c \in Callers |-> FALSE]
    /\ bin = Absent /\ meta = Absent /\ torn = FALSE /\ crossed = {}
Next ==
    \/ \E c \in Callers :
        \/ Lock(c) \/ FetchRelease(c) \/ DownloadTo(c) \/ ExtractBinary(c)
        \/ RenameMeta(c) \/ RenameBin(c)
    \/ \E p \in Processes : Kill(p)
    \/ Launch \/ Exit \/ Publish
Spec == Init /\ [][Next]_vars

-----------------------------------------------------------------------------
(* Properties                                                              *)

(* Whatever is killed, fails or overlaps, the file Resolve finds and a     *)
(* supervisor runs is the one executable of one published archive, as far  *)
(* as the cap lets it be; at the cap it may be another if the archive's    *)
(* checksum was not published.                                             *)
WholeOrNothing ==
    \A f \in {bin, child} : f # Absent =>
        \E a \in Assets : \E g \in BOOLEAN :
            /\ a.entries = 1 /\ a.size <= MaxAssetBytes /\ f = Extracted(a, g)
            /\ g => ~a.digest /\ a.unpacked >= MaxAssetBytes

(* It never lacks its record, and the record is its own, except while an   *)
(* install is between its renames and after one was cut short there, was   *)
(* refused the second or was crossed by another process's.                 *)
RecordBelongs ==
    bin # Absent =>
        /\ meta # Absent
        /\ ~torn /\ (\A c \in Callers : pc[c] # "bin") => meta = bin.version

(* An install that ended, however, leaves no staging directory.            *)
NothingStaged == \A c \in Callers : stage[c] => mu[Process[c]] = c

InstallSound == WholeOrNothing /\ RecordBelongs /\ NothingStaged
=============================================================================

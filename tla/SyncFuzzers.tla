---------------------------- MODULE SyncFuzzers ----------------------------
(***************************************************************************)
(* Parallel fuzzing through a sync directory.  One instance (the peer)     *)
(* adds files to its queue/ directory and rewrites them when it trims;     *)
(* another runs sync_fuzzers over that directory and records in its        *)
(* .synced/ file how far it got.  Nothing locks the directory, and the     *)
(* reader may be stopped or killed and resumed in place at any point.      *)
(***************************************************************************)
EXTENDS Naturals

CONSTANTS
    MaxCases,      \* bound on the test cases the peer queues
    MaxRestarts    \* bound on how often the reader is stopped and resumed

ASSUME SyncAssumption == MaxCases \in Nat /\ MaxRestarts \in Nat

Ids == 0 .. MaxCases - 1
None == MaxCases

VARIABLES
    \* the peer: its queue directory, queued_paths, the file it is writing
    file, queued_paths, writing, trim_done,
    \* the reader: label, locals of sync_fuzzers, contents of the .synced file
    rpc, min_accept, next_min_accept, syncing_case, synced, restarts,
    \* readdir: names already returned, names that are still owed
    returned, owed,
    \* history: executions per case, cases found unreadable, cases whose file was
    \* missing, created or unlinked during a scan
    execs, blank, unsettled

peerVars   == <<file, queued_paths, writing, trim_done>>
readerVars == <<rpc, min_accept, next_min_accept, syncing_case, synced, restarts,
                returned, owed>>
vars == <<peerVars, readerVars, execs, blank, unsettled>>

Init ==
    /\ file = [id \in Ids |-> "absent"] /\ queued_paths = 0
    /\ writing = None /\ trim_done = {}
    /\ rpc = "fuzz" /\ min_accept = 0 /\ next_min_accept = 0
    /\ syncing_case = None /\ synced = 0 /\ restarts = 0
    /\ returned = {} /\ owed = {}
    /\ execs = [id \in Ids |-> 0] /\ blank = {} /\ unsettled = {}

Scanning == rpc \in {"scan", "open", "run"}
Present == {id \in Ids : file[id] # "absent"}

-----------------------------------------------------------------------------
(* The peer.                                                                *)

\* history: readdir may or may not return this name in the current scan
Unsettle(id) == unsettled' = IF Scanning THEN unsettled \cup {id} ELSE unsettled

\* open(fn, O_CREAT | O_EXCL): a new case, or the trimmed version of an old one
CreateFile(id) ==
    /\ file' = [file EXCEPT ![id] = "empty"] /\ Unsettle(id)
    /\ UNCHANGED <<readerVars, execs, blank>>

PeerSave ==
    /\ writing = None /\ queued_paths < MaxCases
    /\ CreateFile(queued_paths)
    /\ writing' = queued_paths /\ queued_paths' = queued_paths + 1
    /\ UNCHANGED trim_done

\* ck_write, close
PeerWrite ==
    /\ writing # None /\ file[writing] = "empty"
    /\ file' = [file EXCEPT ![writing] = "full"] /\ writing' = None
    /\ UNCHANGED <<queued_paths, trim_done, readerVars, execs, blank, unsettled>>

\* trim_case has shortened a case: unlink it, then create and write it anew
PeerUnlink ==
    /\ writing = None
    /\ \E id \in Ids \ trim_done :
          /\ file[id] = "full"
          /\ file' = [file EXCEPT ![id] = "absent"] /\ Unsettle(id)
          /\ writing' = id /\ trim_done' = trim_done \cup {id}
    /\ UNCHANGED <<queued_paths, readerVars, execs, blank>>

PeerRecreate ==
    /\ writing # None /\ file[writing] = "absent"
    /\ CreateFile(writing)
    /\ UNCHANGED <<queued_paths, writing, trim_done>>

PeerStep == PeerSave \/ PeerWrite \/ PeerUnlink \/ PeerRecreate

-----------------------------------------------------------------------------
(* The reader.                                                              *)

\* opendir, read the .synced file
ScanStart ==
    /\ rpc = "fuzz" /\ rpc' = "scan"
    /\ min_accept' = synced /\ next_min_accept' = synced
    /\ returned' = {} /\ owed' = Present
    /\ unsettled' = unsettled \cup {id \in Ids \ Present : id < queued_paths}
    /\ UNCHANGED <<peerVars, syncing_case, synced, restarts, execs, blank>>

\* the mark is advanced before the file is looked at
LowerMark(id) == id + 1
SkippingMark(id) == IF id >= next_min_accept THEN id + 2 ELSE next_min_accept
Mark(id) == IF id >= next_min_accept THEN id + 1 ELSE next_min_accept

OffByOne(id) == id <= min_accept
SeenBefore(id) == id < min_accept

\* readdir returns a name: one that was there at opendir, or a later one
ReadDir ==
    /\ rpc = "scan"
    /\ \E id \in (owed \cup Present) \ returned :
          /\ returned' = returned \cup {id} /\ owed' = owed \ {id}
          /\ IF SeenBefore(id)
             THEN UNCHANGED <<rpc, syncing_case, next_min_accept>>
             ELSE /\ syncing_case' = id /\ next_min_accept' = Mark(id)
                  /\ rpc' = "open"
    /\ UNCHANGED <<peerVars, min_accept, synced, restarts, execs, blank, unsettled>>

\* open may fail; a file of size zero is ignored
OpenCase ==
    /\ rpc = "open"
    /\ IF file[syncing_case] = "full"
       THEN rpc' = "run" /\ UNCHANGED blank
       ELSE rpc' = "scan" /\ blank' = blank \cup {syncing_case}
    /\ UNCHANGED <<peerVars, min_accept, next_min_accept, syncing_case, synced, restarts,
                   returned, owed, execs, unsettled>>

\* run_target and save_if_interesting
RunCase ==
    /\ rpc = "run" /\ rpc' = "scan"
    /\ execs' = [execs EXCEPT ![syncing_case] = @ + 1]
    /\ UNCHANGED <<peerVars, min_accept, next_min_accept, syncing_case, synced, restarts,
                   returned, owed, blank, unsettled>>

\* readdir is exhausted: record the mark; a name owed but unlinked may be missed
ScanEnd ==
    /\ rpc = "scan" /\ owed \cap Present = {}
    /\ rpc' = "fuzz" /\ synced' = next_min_accept
    /\ min_accept' = 0 /\ next_min_accept' = 0 /\ syncing_case' = None
    /\ returned' = {} /\ owed' = {}
    /\ UNCHANGED <<peerVars, restarts, execs, blank, unsettled>>

\* stop_soon after run_target, or a crash: the mark is not recorded
Interrupt ==
    /\ restarts < MaxRestarts /\ rpc # "down" /\ rpc' = "down"
    /\ min_accept' = 0 /\ next_min_accept' = 0 /\ syncing_case' = None
    /\ returned' = {} /\ owed' = {}
    /\ execs' = IF rpc = "run" THEN [execs EXCEPT ![syncing_case] = @ + 1] ELSE execs
    /\ UNCHANGED <<peerVars, synced, restarts, blank, unsettled>>

\* in-place resume keeps .synced/
Resume ==
    /\ rpc = "down" /\ rpc' = "fuzz" /\ restarts' = restarts + 1
    /\ UNCHANGED <<peerVars, min_accept, next_min_accept, syncing_case, synced, returned,
                   owed, execs, blank, unsettled>>

ReaderStep == ScanStart \/ ReadDir \/ OpenCase \/ RunCase \/ ScanEnd \/ Resume

Next == PeerStep \/ ReaderStep \/ Interrupt

Spec == Init /\ [][Next]_vars

\* readdir terminates: the reader is not held in a scan by returned names,
\* of which there are finitely many
FairSpec == Spec /\ WF_vars(ReaderStep)

-----------------------------------------------------------------------------
(* Properties.                                                              *)

\* Every variable has its type; the marks never exceed the number of cases.
TypeOK ==
    /\ file \in [Ids -> {"absent", "empty", "full"}]
    /\ queued_paths \in 0 .. MaxCases /\ writing \in 0 .. MaxCases
    /\ trim_done \subseteq Ids
    /\ rpc \in {"fuzz", "scan", "open", "run", "down"}
    /\ min_accept \in 0 .. MaxCases /\ next_min_accept \in 0 .. MaxCases
    /\ synced \in 0 .. MaxCases
    /\ syncing_case \in 0 .. MaxCases /\ restarts \in 0 .. MaxRestarts
    /\ returned \subseteq Ids /\ owed \subseteq Ids
    /\ execs \in [Ids -> Nat] /\ blank \subseteq Ids /\ unsettled \subseteq Ids

\* Every case below the recorded mark was executed, unless its file was
\* found empty, or was missing, created or unlinked while a scan was under way.
LossOnlyByRace == \A id \in Ids : id < synced => execs[id] > 0 \/ id \in blank \cup unsettled

\* A case is executed again only after an interruption that lost the mark.
DuplicatesBounded ==
    \A id \in Ids : execs[id] <= 1 + restarts + (IF rpc = "down" THEN 1 ELSE 0)

\* A case whose file stays complete is eventually executed, unless it meets
\* one of those races.
CaseExecuted ==
    \A id \in Ids :
        file[id] = "full" ~> execs[id] > 0 \/ id \in blank \cup unsettled \/ file[id] # "full"
=============================================================================

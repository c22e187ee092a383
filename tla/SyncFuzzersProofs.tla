------------------------- MODULE SyncFuzzersProofs -------------------------
(* Proofs about SyncFuzzers, for any number of cases and of restarts.       *)
EXTENDS SyncFuzzers, TLAPS

\* The case whose name readdir returned and whose execution is still to come.
InHand(id) == rpc \in {"open", "run"} /\ id = syncing_case

\* The case was executed, or met one of the races that excuse it.
Settled(id) == execs[id] > 0 \/ id \in blank \cup unsettled

\* Files, marks and names only concern cases the peer has queued.
QueuedOnly ==
    /\ \A id \in Ids : file[id] # "absent" \/ id \in owed \cup returned => id < queued_paths
    /\ writing = None \/ writing < queued_paths
    /\ synced <= queued_paths /\ next_min_accept <= queued_paths

\* What the reader's label says of the locals of sync_fuzzers.
ScanOK ==
    /\ Scanning => min_accept = synced /\ synced <= next_min_accept
    /\ rpc \in {"open", "run"} =>
          syncing_case \in returned /\ synced <= syncing_case
    /\ rpc = "down" => restarts < MaxRestarts

TypeInv == TypeOK /\ QueuedOnly /\ ScanOK

\* During a scan every queued case is settled, still to be returned by readdir,
\* or in hand; a name that may be missed is unsettled.
ScanCovers ==
    Scanning =>
        /\ \A id \in Ids : id < queued_paths =>
              Settled(id) \/ id \in owed \/ InHand(id)
        /\ \A id \in owed : file[id] = "absent" => id \in unsettled

LossInv == LossOnlyByRace /\ ScanCovers

\* Whether the attempt under way, or the recorded mark, already accounts for an
\* execution of the case.
Counted(id) == id < synced \/ (Scanning /\ id \in returned /\ ~InHand(id))

\* Every execution is accounted for by a restart, the interruption under way,
\* or this scan, which returns a name once and then covers it by its mark.
DupInv ==
    \A id \in Ids :
        /\ execs[id] <= restarts + (IF rpc = "down" THEN 1 ELSE 0)
                                 + (IF Counted(id) THEN 1 ELSE 0)
        /\ Scanning /\ id \in returned => id < next_min_accept

-----------------------------------------------------------------------------
(* Types, and what the labels say.                                          *)

\* The initial state has its types and an idle reader.
LEMMA InitType == Init => TypeInv
BY SyncAssumption DEF Init, TypeInv, TypeOK, QueuedOnly, ScanOK, Scanning, Ids, None

\* Every step preserves the types, and what the labels say.
LEMMA NextType == TypeInv /\ [Next]_vars => TypeInv'
<1> SUFFICES ASSUME TypeInv, [Next]_vars PROVE TypeInv'
    OBVIOUS
<1> USE SyncAssumption DEF TypeInv, TypeOK, QueuedOnly, ScanOK, Scanning, Ids, None, Present,
        peerVars, readerVars
<1>1. CASE PeerSave
    BY <1>1 DEF PeerSave, CreateFile, Unsettle
<1>2. CASE PeerWrite
    BY <1>2 DEF PeerWrite
<1>3. CASE PeerUnlink
    BY <1>3 DEF PeerUnlink, Unsettle
<1>4. CASE PeerRecreate
    BY <1>4 DEF PeerRecreate, CreateFile, Unsettle
<1>5. CASE ScanStart
    <2>1. unsettled' \subseteq Ids /\ owed' \subseteq Ids
        BY <1>5 DEF ScanStart
    <2>2. TypeOK'
        BY <1>5, <2>1 DEF ScanStart
    <2>3. QueuedOnly'
        BY <1>5 DEF ScanStart
    <2>4. ScanOK'
        BY <1>5 DEF ScanStart
    <2> QED BY <2>2, <2>3, <2>4
<1>6. CASE ReadDir
    BY <1>6 DEF ReadDir, SeenBefore, Mark
<1>7. CASE OpenCase
    <2>0. syncing_case \in Ids
        BY <1>7 DEF OpenCase
    <2>1. blank' \in {blank, blank \cup {syncing_case}}
        BY <1>7 DEF OpenCase
    <2>2. TypeOK'
        BY <1>7, <2>0, <2>1 DEF OpenCase
    <2>3. QueuedOnly'
        BY <1>7 DEF OpenCase
    <2>4. ScanOK'
        BY <1>7 DEF OpenCase
    <2> QED BY <2>2, <2>3, <2>4
<1>8. CASE RunCase
    BY <1>8 DEF RunCase
<1>9. CASE ScanEnd
    BY <1>9 DEF ScanEnd
<1>10. CASE Interrupt
    BY <1>10 DEF Interrupt
<1>11. CASE Resume
    BY <1>11 DEF Resume
<1>12. CASE UNCHANGED vars
    BY <1>12 DEF vars
<1> QED BY <1>1, <1>2, <1>3, <1>4, <1>5, <1>6, <1>7, <1>8, <1>9, <1>10, <1>11, <1>12
        DEF Next, PeerStep, ReaderStep

\* The files, the marks and the reader's locals have their types: no mark that
\* sync_fuzzers keeps exceeds the number of cases the peer queued.
THEOREM TypeCorrect == Spec => []TypeOK
<1>1. TypeInv => TypeOK
    BY DEF TypeInv
<1> QED BY <1>1, InitType, NextType, PTL DEF Spec

\* The stronger form, for the proofs below.
LEMMA TypeAlways == Spec => []TypeInv
BY InitType, NextType, PTL DEF Spec

-----------------------------------------------------------------------------
(* Which cases a scan may lose.                                             *)

\* A step keeps the account of the cases: what was settled stays so, and the
\* mark is recorded only once nothing that is there is still owed.
LEMMA NextLoss == TypeInv /\ LossInv /\ [Next]_vars => LossInv'
<1> SUFFICES ASSUME TypeInv, LossInv, [Next]_vars PROVE LossInv'
    OBVIOUS
<1> USE SyncAssumption
        DEF TypeInv, TypeOK, QueuedOnly, ScanOK, LossInv, LossOnlyByRace, ScanCovers,
            Settled, InHand, Scanning, Ids, None, Present, peerVars, readerVars
<1>1. CASE PeerSave
    BY <1>1 DEF PeerSave, CreateFile, Unsettle
<1>2. CASE PeerWrite
    BY <1>2 DEF PeerWrite
<1>3. CASE PeerUnlink
    BY <1>3 DEF PeerUnlink, Unsettle
<1>4. CASE PeerRecreate
    BY <1>4 DEF PeerRecreate, CreateFile, Unsettle
<1>5. CASE ScanStart
    BY <1>5 DEF ScanStart
<1>6. CASE ReadDir
    BY <1>6 DEF ReadDir, SeenBefore, Mark
<1>7. CASE OpenCase
    BY <1>7 DEF OpenCase
<1>8. CASE RunCase
    BY <1>8 DEF RunCase
<1>9. CASE ScanEnd
    BY <1>9 DEF ScanEnd
<1>10. CASE Interrupt
    BY <1>10 DEF Interrupt
<1>11. CASE Resume
    BY <1>11 DEF Resume
<1>12. CASE UNCHANGED vars
    BY <1>12 DEF vars
<1> QED BY <1>1, <1>2, <1>3, <1>4, <1>5, <1>6, <1>7, <1>8, <1>9, <1>10, <1>11, <1>12
        DEF Next, PeerStep, ReaderStep

\* sync_fuzzers never advances the recorded mark past a case it did not run,
\* except by one of the races on the peer's directory.
THEOREM LossOnlyByRaceAlways == Spec => []LossOnlyByRace
<1>1. Init => LossInv
    BY SyncAssumption DEF Init, LossInv, LossOnlyByRace, ScanCovers, Scanning, Ids
<1>2. LossInv => LossOnlyByRace
    BY DEF LossInv
<1> QED BY <1>1, <1>2, TypeAlways, NextLoss, PTL DEF Spec

-----------------------------------------------------------------------------
(* How often a case may be executed.                                        *)

\* A step adds an execution only to a case that was not yet accounted for.
LEMMA NextDup == TypeInv /\ DupInv /\ [Next]_vars => DupInv'
<1> SUFFICES ASSUME TypeInv, DupInv, [Next]_vars PROVE DupInv'
    OBVIOUS
<1> USE SyncAssumption
        DEF TypeInv, TypeOK, QueuedOnly, ScanOK, DupInv, Counted,
            InHand, Scanning, Ids, None, Present, peerVars, readerVars
<1>1. CASE PeerSave
    BY <1>1 DEF PeerSave, CreateFile, Unsettle
<1>2. CASE PeerWrite
    BY <1>2 DEF PeerWrite
<1>3. CASE PeerUnlink
    BY <1>3 DEF PeerUnlink, Unsettle
<1>4. CASE PeerRecreate
    BY <1>4 DEF PeerRecreate, CreateFile, Unsettle
<1>5. CASE ScanStart
    BY <1>5 DEF ScanStart
<1>6. CASE ReadDir
    BY <1>6 DEF ReadDir, SeenBefore, Mark
<1>7. CASE OpenCase
    BY <1>7 DEF OpenCase
<1>8. CASE RunCase
    BY <1>8 DEF RunCase
<1>9. CASE ScanEnd
    BY <1>9 DEF ScanEnd
<1>10. CASE Interrupt
    BY <1>10 DEF Interrupt
<1>11. CASE Resume
    BY <1>11 DEF Resume
<1>12. CASE UNCHANGED vars
    BY <1>12 DEF vars
<1> QED BY <1>1, <1>2, <1>3, <1>4, <1>5, <1>6, <1>7, <1>8, <1>9, <1>10, <1>11, <1>12
        DEF Next, PeerStep, ReaderStep

\* A case is executed once, and again at most once for each interruption.
THEOREM DuplicatesAlways == Spec => []DuplicatesBounded
<1>1. Init => DupInv
    BY SyncAssumption DEF Init, DupInv, Counted, Scanning, Ids
<1>2. TypeInv /\ DupInv => DuplicatesBounded
    BY SyncAssumption DEF TypeInv, TypeOK, DupInv, DuplicatesBounded
<1> QED BY <1>1, <1>2, TypeAlways, NextDup, PTL DEF Spec
=============================================================================

-------------------------- MODULE ResumeDirProofs --------------------------
(* Proofs about ResumeDir, for any number of test cases and of sessions.    *)
EXTENDS ResumeDir, FiniteSetTheorems, SequenceTheorems, TLAPS

\* The labels of a session, in its order: what it found is put away; the inputs are
\* linked into queue/; _resume/ is deleted and fuzzer_stats and the tokens are
\* written for the first time; the fuzzing loop.
Preparing == {"check", "move", "wipe", "mkdir", "mkstate", "read"}
Pivoting  == {"pivot", "copy", "mark"}
Settling  == {"nuke", "seek", "stats0", "flush0", "auto0"}
Saving    == {"save_open", "save_write"}
Trimming  == {"trim_open", "trim_write"}
Tokening  == {"token0", "token", "token1"}            \* save_auto is in its loop
Looping   == {"loop", "fuzz", "flush", "auto", "exit", "flush1", "auto1"}
             \cup Tokening \cup Saving \cup Trimming
Loaded    == Pivoting \cup Settling \cup Looping      \* the entries are there
Holding   == {"mkstate", "read"} \cup Loaded          \* queue/ is this session's

\* What TypeOK leaves open: the walk and the pivot stand on entries.
ControlOK ==
    /\ pc \in {"down"} \cup Preparing \cup Loaded
    /\ pc \in Preparing => Len(entries) = 0 /\ pos = 0 /\ seek_to = 0 /\ current_entry = 0
    /\ pc \in Loaded => current_entry < Len(entries) /\ seek_to < Len(entries)
    /\ pc = "pivot" => pos <= Len(entries)
    /\ pc \in {"copy", "mark"} => pos < Len(entries)
    /\ pc \in {"move", "nuke"} => in_place_resume
    /\ why # "none" => pc = "down"

TypeInv == TypeOK /\ ControlOK

\* A directory that is not there is empty, and marks and tokens are under .state/.
DirOK(d) == (~d.there => Vacant(d)) /\ (d.auto # "none" \/ d.det # {} => d.state)

DiskOK ==
    /\ DirOK(queue) /\ DirOK(resume)
    /\ pc \in Holding => queue.there
    /\ pc \in Holding \ {"mkstate"} => queue.state

\* How many entries have their file, and the name of the file being written, if any.
Complete == IF pc \in {"pivot", "copy"} THEN pos
            ELSE IF pc = "mark" THEN pos + 1
            ELSE IF pc \in Saving THEN Len(entries) - 1 ELSE Len(entries)
Hole == IF pc = "copy" THEN pos
        ELSE IF pc \in Saving THEN Len(entries) - 1
        ELSE IF pc \in Trimming THEN current_entry ELSE MaxCases

\* QueueMatchesEntries at every label at which queue/ is this session's.
MatchOK ==
    pc \in Holding => \A id \in Ids \ {Hole} :
        queue.file[id] = IF id < Complete THEN entries[id + 1].case ELSE None

\* DetMarkTrue, with what the entries in memory say: only complete files are marked.
DetInv ==
    /\ DetMarkTrue
    /\ \A k \in DOMAIN entries : entries[k].passed_det => entries[k].case \in detDone
    /\ pc \in Holding => \A id \in queue.det : id < Complete /\ entries[id + 1].passed_det

\* KnownLossOnly while a process runs.  Its cases are in _resume/ until all are linked
\* into queue/; those of a fresh start, or after that, have their file in queue/.
Lost == trimCut \cup nukeCut
EntryCases == {entries[k].case : k \in DOMAIN entries}
Written == {entries[k].case : k \in 1 .. Complete}

Filling == {"wipe", "mkdir", "mkstate", "read"} \cup Pivoting
Late    == Settling \cup Looping

LossInv ==
    /\ pc \in {"down", "check", "move"} /\ ~staleResume => kept \ Lost \subseteq Recoverable
    /\ in_place_resume /\ pc \in {"move"} \cup Filling \cup Late => ~staleResume
    /\ in_place_resume /\ pc \in Filling => kept \ Lost \subseteq CasesIn(resume)
    /\ in_place_resume /\ pc \in Pivoting => CasesIn(resume) \subseteq EntryCases
    /\ ~in_place_resume /\ pc \in Filling =>
          kept \ Lost \subseteq Written /\ (~staleResume => Vacant(resume))
    /\ pc \in Late => kept \ Lost \subseteq Written
    /\ pc \in Late \ {"nuke"} /\ ~staleResume => Vacant(resume)

\* TokensKept while a process runs: the tokens are in _resume/, then only in memory and
\* due to be written, then in queue/ unless they are being rewritten.
TokensSafe == learned /\ ~tokenCut
TokenInv ==
    /\ pc \in {"down", "check", "move"} /\ TokensSafe /\ ~staleResume
          => (IF Vacant(resume) THEN queue.auto ELSE resume.auto) = "whole"
    /\ pc \in Filling /\ TokensSafe => in_place_resume /\ resume.auto = "whole"
    /\ pc \in Pivoting \cup Settling /\ TokensSafe => a_extras /\ auto_changed
    /\ pc \in Looping \ Tokening /\ TokensSafe => queue.auto = "whole"

\* fuzzer_stats is cut off only while it is being written, or by a kill.
StatsInv == stats.kind = "torn" => statsCut \/ pc \in {"flush0", "flush", "flush1"}

-----------------------------------------------------------------------------
(* Directories.                                                             *)

\* The fields of a directory.
LEMMA DirFields ==
    ASSUME NEW d \in Dirs
    PROVE  /\ d.there \in BOOLEAN /\ d.state \in BOOLEAN
           /\ d.file \in [Ids -> {None, Empty} \cup Cases] /\ d.det \subseteq Ids
           /\ \A c : c \in CasesIn(d) <=> c \in Cases /\ \E id \in Ids : d.file[id] = c
<1>1. /\ d.there \in BOOLEAN /\ d.state \in BOOLEAN
      /\ d.file \in [Ids -> {None, Empty} \cup Cases] /\ d.det \subseteq Ids
    BY DEF Dirs
<1>2. None \notin Cases /\ Empty \notin Cases
    BY ResumeAssumption DEF None, Empty, Cases
<1> QED BY <1>1, <1>2 DEF CasesIn

\* No directory.
LEMMA NoDirFields ==
    /\ NoDir \in Dirs /\ DirOK(NoDir) /\ Vacant(NoDir) /\ ~NoDir.there /\ ~NoDir.state
    /\ NoDir.det = {} /\ NoDir.auto = "none" /\ \A id \in Ids : NoDir.file[id] = None
<1>1. NoDir \in Dirs
    BY DEF NoDir, Dirs
<1> QED BY <1>1 DEF NoDir, DirOK, Vacant

\* A vacant directory has no complete case, and an orderly one neither marks nor tokens.
LEMMA VacantDir ==
    ASSUME NEW d \in Dirs, Vacant(d)
    PROVE  CasesIn(d) = {} /\ (DirOK(d) => d.auto = "none" /\ d.det = {})
<1>1. None \notin Cases
    BY ResumeAssumption DEF None, Cases
<1>2. \A c : c \notin CasesIn(d)
    BY <1>1, DirFields DEF Vacant
<1>3. DirOK(d) => d.auto = "none" /\ d.det = {}
    BY DirFields DEF Vacant, DirOK
<1> QED BY <1>2, <1>3

\* A file is written, or unlinked.
LEMMA FileWritten ==
    ASSUME NEW d \in Dirs, NEW id \in Ids, NEW c \in {None, Empty} \cup Cases, NEW e,
           e = [d EXCEPT !.file[id] = c]
    PROVE  /\ e \in Dirs /\ e.there = d.there /\ e.state = d.state /\ e.det = d.det
           /\ e.auto = d.auto
           /\ \A i \in Ids : e.file[i] = IF i = id THEN c ELSE d.file[i]
           /\ d.there /\ DirOK(d) => DirOK(e)
<1>1. /\ e \in Dirs /\ e.there = d.there /\ e.state = d.state /\ e.det = d.det
      /\ e.auto = d.auto /\ e.file = [d.file EXCEPT ![id] = c]
    BY DEF Dirs
<1>2. \A i \in Ids : e.file[i] = IF i = id THEN c ELSE d.file[i]
    BY <1>1, DirFields
<1>3. d.there /\ DirOK(d) => DirOK(e)
    BY <1>1, Zenon DEF DirOK
<1> QED BY <1>1, <1>2, <1>3

\* A mark is made.
LEMMA MarkMade ==
    ASSUME NEW d \in Dirs, NEW id \in Ids, NEW e, e = [d EXCEPT !.det = @ \cup {id}]
    PROVE  /\ e \in Dirs /\ e.there = d.there /\ e.state = d.state /\ e.det = d.det \cup {id}
           /\ e.auto = d.auto /\ e.file = d.file
           /\ d.there /\ d.state /\ DirOK(d) => DirOK(e)
<1>1. /\ e \in Dirs /\ e.there = d.there /\ e.state = d.state /\ e.det = d.det \cup {id}
      /\ e.auto = d.auto /\ e.file = d.file
    BY DEF Dirs
<1>2. d.there /\ d.state /\ DirOK(d) => DirOK(e)
    BY <1>1, Zenon DEF DirOK
<1> QED BY <1>1, <1>2

\* One operation of delete_files or rmdir only takes away, from the inside out.
LEMMA ErasedDir ==
    ASSUME NEW d \in Dirs, DirOK(d), NEW e \in Erased(d)
    PROVE  /\ e \in Dirs /\ DirOK(e) /\ e.det \subseteq d.det
           /\ \A id \in Ids : e.file[id] \in {d.file[id], None}
<1> USE DirFields
<1>1. CASE \E id \in d.det : e = [d EXCEPT !.det = @ \ {id}]
    <2>1. PICK id \in d.det : e = [d EXCEPT !.det = @ \ {id}]
        BY <1>1
    <2>2. /\ e \in Dirs /\ e.there = d.there /\ e.state = d.state /\ e.det = d.det \ {id}
          /\ e.auto = d.auto /\ e.file = d.file
        BY <2>1 DEF Dirs
    <2> QED BY <2>2 DEF DirOK, Vacant
<1>2. CASE d.det = {} /\ e = [d EXCEPT !.auto = "none"]
    <2>1. /\ e \in Dirs /\ e.there = d.there /\ e.state = d.state /\ e.det = d.det
          /\ e.auto = "none" /\ e.file = d.file
        BY <1>2 DEF Dirs
    <2> QED BY <1>2, <2>1 DEF DirOK, Vacant
<1>3. CASE d.det = {} /\ d.auto = "none" /\ e = [d EXCEPT !.state = FALSE]
    <2>1. /\ e \in Dirs /\ e.there = d.there /\ e.state = FALSE /\ e.det = d.det
          /\ e.auto = d.auto /\ e.file = d.file
        BY <1>3 DEF Dirs
    <2> QED BY <1>3, <2>1 DEF DirOK, Vacant
<1>4. CASE ~d.state /\ \E id \in Ids : d.file[id] # None /\ e = [d EXCEPT !.file[id] = None]
    <2>1. PICK id \in Ids : d.file[id] # None /\ e = [d EXCEPT !.file[id] = None]
        BY <1>4
    <2>2. /\ e \in Dirs /\ e.there = d.there /\ e.state = d.state /\ e.det = d.det
          /\ e.auto = d.auto /\ \A i \in Ids : e.file[i] = IF i = id THEN None ELSE d.file[i]
        BY <2>1, FileWritten
    <2> QED BY <2>2 DEF DirOK, Vacant
<1>5. CASE e = NoDir
    BY <1>5, NoDirFields
<1> QED BY <1>1, <1>2, <1>3, <1>4, <1>5 DEF Erased, If

\* delete_files and rmdir come to an end only when the directory is gone.
LEMMA ErasedNone ==
    ASSUME NEW d \in Dirs, Erased(d) = {}
    PROVE  ~d.there
<1>1. d.det = {}
    BY DEF Erased
<1>2. d.auto = "none"
    BY <1>1 DEF Erased, If
<1>3. ~d.state
    BY <1>1, <1>2 DEF Erased, If
<1>4. \A id \in Ids : d.file[id] = None
    BY <1>3 DEF Erased, If
<1>5. Vacant(d)
    BY <1>3, <1>4 DEF Vacant
<1> QED BY <1>5 DEF Erased, If

-----------------------------------------------------------------------------
(* The entries that are read.                                               *)

EntryType == [case : Cases, id : 0 .. MaxCases, passed_det : BOOLEAN]

\* read_testcases reads every complete file of a directory once, with its mark.
LEMMA ScannedEntries ==
    ASSUME NEW d \in Dirs, NEW es \in Scanned(d)
    PROVE  /\ es \in Seq(EntryType) /\ Len(es) <= MaxCases
           /\ \A k \in DOMAIN es : \E id \in Ids :
                 es[k].case = d.file[id] /\ (es[k].passed_det => id \in d.det)
           /\ CasesIn(d) = {es[k].case : k \in DOMAIN es}
<1> DEFINE S == Usable(d)
<1>1. PICK ids \in InOrder(S) :
         es = [i \in DOMAIN ids |-> Entry(d.file[ids[i]], ids[i], ids[i] \in d.det)]
    BY DEF Scanned
<1>2. /\ IsFiniteSet(S) /\ Cardinality(S) \in Nat /\ Cardinality(S) <= MaxCases
    <2>1. /\ IsFiniteSet(Ids) /\ Cardinality(Ids) = MaxCases
        BY ResumeAssumption, FS_Interval DEF Ids
    <2> QED BY <2>1, FS_Subset, FS_CardinalityType DEF Usable
<1>3. ids \in [1 .. Cardinality(S) -> S] /\ \A i, j \in DOMAIN ids : i < j => ids[i] < ids[j]
    BY DEF InOrder
<1>4. S \subseteq Ids /\ \A id \in S : id \in 0 .. MaxCases /\ id \in Nat /\ d.file[id] \in Cases
    BY DirFields, ResumeAssumption DEF Usable, Ids
<1> HIDE DEF S
<1>5. \A s \in S : \E k \in 1 .. Cardinality(S) : ids[k] = s
    <2>1. \A i, j \in 1 .. Cardinality(S) : i # j => ids[i] # ids[j]
        BY <1>2, <1>3, <1>4
    <2>2. ids \in Injection(1 .. Cardinality(S), S)
        BY <1>3, <2>1 DEF Injection, IsInjective
    <2>3. Cardinality(1 .. Cardinality(S)) = Cardinality(S)
        BY <1>2, FS_Interval
    <2>4. ids \in Surjection(1 .. Cardinality(S), S)
        BY <1>2, <2>2, <2>3, FS_Injection
    <2> QED BY <2>4 DEF Surjection
<1>6. /\ DOMAIN es = 1 .. Cardinality(S)
      /\ \A k \in 1 .. Cardinality(S) :
            /\ es[k] \in EntryType /\ es[k].case = d.file[ids[k]]
            /\ es[k].passed_det = (ids[k] \in d.det)
    BY <1>1, <1>3, <1>4 DEF Entry, EntryType
<1>7. es \in Seq(EntryType) /\ Len(es) = Cardinality(S)
    <2>1. es \in [1 .. Cardinality(S) -> EntryType]
        BY <1>1, <1>3, <1>6
    <2> QED BY <1>2, <2>1
<1>8. \A k \in DOMAIN es : ids[k] \in S /\ es[k].case = d.file[ids[k]]
    BY <1>3, <1>6
<1>9. ASSUME NEW c PROVE c \in CasesIn(d) <=> \E k \in DOMAIN es : es[k].case = c
    <2>1. ASSUME c \in CasesIn(d) PROVE \E k \in DOMAIN es : es[k].case = c
        <3>1. PICK id \in Ids : d.file[id] = c /\ c \notin {None, Empty}
            BY <2>1 DEF CasesIn
        <3>2. id \in S
            BY <3>1 DEF S, Usable
        <3> QED BY <1>5, <1>6, <1>8, <3>1, <3>2
    <2>2. ASSUME NEW k \in DOMAIN es, es[k].case = c PROVE c \in CasesIn(d)
        BY <1>4, <1>8, <2>2, DirFields
    <2> QED BY <2>1, <2>2
<1>10. ASSUME NEW k \in DOMAIN es
       PROVE  \E id \in Ids : es[k].case = d.file[id] /\ (es[k].passed_det => id \in d.det)
    BY <1>4, <1>6, <1>8
<1> QED BY <1>2, <1>7, <1>9, <1>10

-----------------------------------------------------------------------------
(* Type correctness, and the state of the two directories.                  *)

\* What a step does to the two directories.
FileStep == \E id \in Ids, c \in {None, Empty} \cup Cases :
                queue' = [queue EXCEPT !.file[id] = c] /\ UNCHANGED resume

Writing == \/ PivotLink \/ PivotCopy \/ SaveOpen \/ SaveWrite
           \/ TrimUnlink \/ TrimOpen \/ TrimWrite
Marking == PivotMark \/ MarkDetDone
Quiet == \/ Start \/ CheckStats \/ ReadTestcases \/ PivotEnd \/ FindStartPosition
         \/ TruncateStats \/ FlushStats \/ SeekEntry \/ NextEntry \/ KeepCase \/ LearnToken
         \/ LeaveLoop \/ Killed \/ UNCHANGED vars

\* The entry that the walk or the pivot stands on.
LEMMA EntryAt ==
    ASSUME TypeInv, NEW k \in Nat, k < Len(entries)
    PROVE  k \in Ids /\ k + 1 \in DOMAIN entries /\ entries[k + 1] \in EntryType
           /\ entries[k + 1].case \in Cases
<1>1. entries \in Seq(EntryType) /\ Len(entries) <= MaxCases
    BY DEF TypeInv, TypeOK, EntryTypes, EntryType
<1>2. k \in Ids /\ k + 1 \in DOMAIN entries
    BY <1>1, ResumeAssumption DEF Ids
<1>3. entries[k + 1] \in EntryType
    BY <1>1, <1>2
<1> QED BY <1>2, <1>3 DEF EntryType

\* The numbers of the walk and of the pivot.
LEMMA Positions ==
    ASSUME TypeInv
    PROVE  /\ entries \in Seq(EntryType) /\ Len(entries) \in Nat /\ Len(entries) <= MaxCases
           /\ pos \in Nat /\ current_entry \in Nat /\ seek_to \in Nat /\ MaxCases \in Nat
           /\ MaxCases > 0
<1>1. entries \in Seq(EntryType) /\ Len(entries) <= MaxCases
    BY DEF TypeInv, TypeOK, EntryTypes, EntryType
<1>2. pos \in Nat /\ current_entry \in Nat /\ seek_to \in Nat /\ MaxCases \in Nat /\ MaxCases > 0
    BY ResumeAssumption DEF TypeInv, TypeOK, EntryTypes, Ids
<1> QED BY <1>1, <1>2

\* A step that writes a file puts None, nothing or a case under a number.
LEMMA WritingStep ==
    ASSUME TypeInv, Writing
    PROVE  /\ FileStep /\ UNCHANGED stats
           /\ pc \in Holding \ {"mkstate"} /\ pc' \in Holding \ {"mkstate"}
<1> USE Positions
<1>1. CASE PivotLink \/ PivotCopy
    <2>1. pos < Len(entries)
        BY <1>1 DEF PivotLink, PivotCopy, Goto, TypeInv, ControlOK
    <2>2. pos \in Ids /\ entries[pos + 1].case \in Cases
        BY <2>1, EntryAt
    <2>3. \E c \in {None, Empty} \cup Cases : queue' = [queue EXCEPT !.file[pos] = c]
        BY <1>1, <2>2 DEF PivotLink, PivotCopy, WriteFile, NewName
    <2>4. UNCHANGED <<resume, stats>>
        BY <1>1 DEF PivotLink, PivotCopy
    <2>5. pc \in {"pivot", "copy"} /\ pc' \in {"mark", "copy"}
        BY <1>1 DEF PivotLink, PivotCopy, Goto
    <2> QED BY <2>2, <2>3, <2>4, <2>5 DEF FileStep, Holding, Loaded, Pivoting
<1>2. CASE SaveOpen \/ SaveWrite
    <2>1. pc \in Saving /\ pc' \in {"save_write", "fuzz"} /\ UNCHANGED <<resume, stats>>
        BY <1>2 DEF SaveOpen, SaveWrite, Goto, Saving
    <2>2. Len(entries) - 1 \in Nat /\ Len(entries) - 1 < Len(entries)
        BY <2>1 DEF TypeInv, ControlOK, Loaded, Looping
    <2>3. Len(entries) - 1 \in Ids /\ entries[(Len(entries) - 1) + 1].case \in Cases
        BY <2>2, EntryAt
    <2>4. entries[Len(entries)].case \in Cases
        BY <2>3
    <2>5. \E c \in {None, Empty} \cup Cases :
             queue' = [queue EXCEPT !.file[Len(entries) - 1] = c]
        BY <1>2, <2>4 DEF SaveOpen, SaveWrite, WriteFile
    <2> QED BY <2>1, <2>3, <2>5 DEF FileStep, Holding, Loaded, Looping, Tokening, Saving
<1>3. CASE TrimUnlink \/ TrimOpen \/ TrimWrite
    <2>1. pc \in {"fuzz"} \cup Trimming /\ pc' \in {"fuzz"} \cup Trimming
        BY <1>3 DEF TrimUnlink, TrimOpen, TrimWrite, Goto, Trimming
    <2>2. current_entry < Len(entries)
        BY <2>1 DEF TypeInv, ControlOK, Loaded, Looping
    <2>3. current_entry \in Ids /\ Current.case \in Cases
        BY <2>2, EntryAt DEF Current
    <2>4. \E c \in {None, Empty} \cup Cases : queue' = [queue EXCEPT !.file[current_entry] = c]
        BY <1>3, <2>3 DEF TrimUnlink, TrimOpen, TrimWrite, WriteFile
    <2>5. UNCHANGED <<resume, stats>>
        BY <1>3 DEF TrimUnlink, TrimOpen, TrimWrite
    <2> QED BY <2>1, <2>3, <2>4, <2>5 DEF FileStep, Holding, Loaded, Looping, Trimming
<1> QED BY <1>1, <1>2, <1>3 DEF Writing

\* save_auto touches the tokens of queue/ and what is known about them.
LEMMA AutoStep ==
    ASSUME TypeInv, SaveAuto \/ WriteAuto
    PROVE  /\ UNCHANGED <<resume, stats, in_place_resume, entries, pos, resuming_fuzz, seek_to,
                          current_entry, trim_done, why>>
           /\ UNCHANGED <<starts, found, kept, detDone, trimCut, nukeCut, statsCut, staleResume>>
           /\ queue' \in Dirs /\ queue'.there = queue.there /\ queue'.state = queue.state
           /\ queue'.det = queue.det /\ queue'.file = queue.file
           /\ pc \in {"auto0", "auto", "auto1"} \cup Tokening
           /\ pc' \in {"loop", "fuzz", "down"} \cup Tokening
<1>1. \E c \in StatsCalls : (pc = c[3] /\ pc' \in {c[4], c[5]}) \/ (pc = c[4] /\ pc' = c[5])
    BY DEF SaveAuto, WriteAuto, Goto
<1>2. /\ pc \in {"auto0", "auto", "auto1"} \cup Tokening
      /\ pc' \in {"loop", "fuzz", "down"} \cup Tokening
    BY <1>1 DEF StatsCalls, Tokening
<1>3. \/ queue' = queue \/ queue' = [queue EXCEPT !.auto = "torn"]
      \/ queue' = [queue EXCEPT !.auto = "whole"]
    BY DEF SaveAuto, WriteAuto
<1>4. queue \in Dirs
    BY DEF TypeInv, TypeOK, DiskTypes
<1>5. /\ queue' \in Dirs /\ queue'.there = queue.there /\ queue'.state = queue.state
      /\ queue'.det = queue.det /\ queue'.file = queue.file
    BY <1>3, <1>4 DEF Dirs
<1> QED BY <1>2, <1>5 DEF SaveAuto, WriteAuto, procVars, pastVars, cutVars

\* Most steps leave the directories alone.
LEMMA QuietStep ==
    ASSUME TypeInv, Quiet
    PROVE  /\ UNCHANGED <<queue, resume>> /\ stats' \in StatsFiles
           /\ pc' \in Holding => pc \in Holding \ {"mkstate"} \/ pc' = pc
<1> USE DEF diskVars
<1>1. stats \in StatsFiles
    BY DEF TypeInv, TypeOK, DiskTypes
<1>2. CASE TruncateStats \/ FlushStats
    <2>1. UNCHANGED <<queue, resume>>
        BY <1>2 DEF TruncateStats, FlushStats
    <2>2. \E c \in StatsCalls : pc \in {c[1], c[2]}
        BY <1>2 DEF TruncateStats, FlushStats, Goto
    <2>3. pc \in Settling \cup Looping
        BY <2>2 DEF StatsCalls, Settling, Looping
    <2>4. stats' \in StatsFiles
        BY <1>2 DEF TruncateStats, FlushStats, StatsFiles, CurPath, TypeInv, TypeOK, EntryTypes
    <2> QED BY <2>1, <2>3, <2>4 DEF Holding, Loaded, Settling, Looping, Tokening, Saving, Trimming
<1>3. CASE Start \/ CheckStats \/ ReadTestcases \/ PivotEnd \/ FindStartPosition
    BY <1>1, <1>3 DEF Start, CheckStats, ReadTestcases, PivotEnd, FindStartPosition, Goto, Refuse,
       Holding, Loaded, Pivoting, Settling, Looping, Tokening, Saving, Trimming
<1>4. CASE SeekEntry \/ NextEntry \/ KeepCase \/ LearnToken \/ LeaveLoop
    BY <1>1, <1>4 DEF SeekEntry, NextEntry, KeepCase, LearnToken, LeaveLoop, Goto,
       Holding, Loaded, Pivoting, Settling, Looping, Tokening, Saving, Trimming
<1>5. CASE Killed \/ UNCHANGED vars
    BY <1>1, <1>5 DEF Killed, vars, Holding, Loaded, Pivoting, Settling, Looping, Tokening, Saving,
       Trimming
<1> QED BY <1>2, <1>3, <1>4, <1>5 DEF Quiet

\* The directories keep their types and their order.
LEMMA DiskStep ==
    ASSUME TypeInv, DiskOK, [Next]_vars
    PROVE  DiskTypes' /\ DiskOK'
<1> USE DEF DiskTypes, DiskOK
<1>1. queue \in Dirs /\ resume \in Dirs /\ stats \in StatsFiles
    BY DEF TypeInv, TypeOK
<1>2. CASE Quiet
    <2>1. UNCHANGED <<queue, resume>> /\ stats' \in StatsFiles
        BY <1>2, QuietStep
    <2>2. pc' \in Holding => pc \in Holding \ {"mkstate"} \/ pc' = pc
        BY <1>2, QuietStep
    <2>3. Vacant(queue)' = Vacant(queue) /\ Vacant(resume)' = Vacant(resume)
        BY <2>1 DEF Vacant
    <2> QED BY <1>1, <2>1, <2>2, <2>3 DEF DirOK
<1>3. CASE Writing
    <2>1. /\ FileStep /\ UNCHANGED stats
          /\ pc \in Holding \ {"mkstate"} /\ pc' \in Holding \ {"mkstate"}
        BY <1>3, WritingStep
    <2>2. queue' \in Dirs /\ DirOK(queue') /\ queue'.there /\ queue'.state /\ UNCHANGED resume
        BY <1>1, <2>1, FileWritten DEF FileStep
    <2> QED BY <1>1, <2>1, <2>2 DEF DirOK, Vacant
<1>4. CASE Marking
    <2>1. pc \in Holding \ {"mkstate"} /\ UNCHANGED <<resume, stats>> /\ pc' \in Holding
        BY <1>4 DEF Marking, PivotMark, MarkDetDone, Goto, Holding, Loaded, Pivoting, Looping
    <2>2. \E id \in Ids : queue' = queue \/ queue' = [queue EXCEPT !.det = @ \cup {id}]
        <3>1. CASE PivotMark
            <4>1. pos < Len(entries)
                BY <3>1 DEF PivotMark, Goto, TypeInv, ControlOK
            <4>2. pos \in Ids
                BY <4>1, Positions, EntryAt
            <4> QED BY <3>1, <4>2 DEF PivotMark, NewName
        <3>2. CASE MarkDetDone
            BY <3>2 DEF MarkDetDone, TypeInv, TypeOK, EntryTypes
        <3> QED BY <1>4, <3>1, <3>2 DEF Marking
    <2>3. queue' \in Dirs /\ DirOK(queue') /\ queue'.there /\ queue'.state
        BY <1>1, <2>1, <2>2, MarkMade
    <2> QED BY <1>1, <2>1, <2>3 DEF DirOK, Vacant
<1>5. CASE MoveQueue
    <2>1. pc' = "wipe" /\ UNCHANGED stats
        BY <1>5 DEF MoveQueue, Goto
    <2>2. queue' \in {queue, NoDir} /\ resume' \in {queue, resume}
        BY <1>5 DEF MoveQueue
    <2>3. queue' \in Dirs /\ DirOK(queue') /\ resume' \in Dirs /\ DirOK(resume')
        BY <1>1, <2>2, NoDirFields
    <2> QED BY <1>1, <2>1, <2>3
            DEF DirOK, Vacant, Holding, Loaded, Pivoting, Settling, Looping, Tokening, Saving, Trimming
<1>6. CASE WipeQueue
    <2>1. pc' \notin Holding /\ UNCHANGED <<resume, stats>>
        BY <1>6 DEF WipeQueue, Delete, Refuse, Holding, Loaded, Pivoting, Settling, Looping,
           Tokening, Saving,
           Trimming
    <2>2. queue' \in Erased(queue) \/ queue' = queue
        BY <1>6 DEF WipeQueue, Delete
    <2>3. queue' \in Dirs /\ DirOK(queue')
        BY <1>1, <2>2, ErasedDir
    <2> QED BY <1>1, <2>1, <2>3 DEF DirOK, Vacant
<1>7. CASE NukeResume
    <2>1. pc = "nuke" /\ UNCHANGED <<queue, stats>>
        BY <1>7 DEF NukeResume
    <2>2. resume' \in Erased(resume) \/ resume' = resume
        BY <1>7 DEF NukeResume, Delete
    <2>3. resume' \in Dirs /\ DirOK(resume')
        BY <1>1, <2>2, ErasedDir
    <2>4. pc \in Holding \ {"mkstate"} /\ pc' # "mkstate"
        BY <1>7, <2>1 DEF NukeResume, Delete, Refuse, Holding, Loaded, Settling
    <2> QED BY <1>1, <2>1, <2>3, <2>4 DEF DirOK, Vacant
<1>8. CASE MakeQueue
    <2>1. pc' = "mkstate" /\ UNCHANGED resume /\ queue' = [NoDir EXCEPT !.there = TRUE]
        BY <1>8 DEF MakeQueue, Goto
    <2>2. stats' \in StatsFiles
        BY <1>1, <1>8 DEF MakeQueue, StatsFiles
    <2>3. queue' \in Dirs /\ queue'.there /\ queue'.det = {} /\ queue'.auto = "none"
        BY <2>1, NoDirFields DEF Dirs, NoDir
    <2> QED BY <1>1, <2>1, <2>2, <2>3 DEF DirOK, Vacant
<1>9. CASE MakeState
    <2>1. /\ pc = "mkstate" /\ UNCHANGED <<resume, stats>> /\ queue' = [queue EXCEPT !.state = TRUE]
        BY <1>9 DEF MakeState, Goto
    <2>2. queue' \in Dirs /\ queue'.there = queue.there /\ queue'.state
        BY <1>1, <2>1 DEF Dirs
    <2>3. queue.there
        BY <2>1 DEF Holding
    <2> QED BY <1>1, <2>1, <2>2, <2>3 DEF DirOK, Vacant
<1>10. CASE SaveAuto \/ WriteAuto
    <2>1. /\ pc \in {"auto0", "auto", "auto1"} \cup Tokening /\ pc' # "mkstate"
          /\ UNCHANGED <<resume, stats>>
          /\ queue' \in Dirs /\ queue'.there = queue.there /\ queue'.state = queue.state
        BY <1>10, AutoStep DEF Tokening
    <2>2. queue.there /\ queue.state
        BY <2>1 DEF Holding, Loaded, Settling, Looping, Tokening
    <2> QED BY <1>1, <2>1, <2>2 DEF DirOK, Vacant
<1> QED BY <1>2, <1>3, <1>4, <1>5, <1>6, <1>7, <1>8, <1>9, <1>10
        DEF Next, Setup, Fuzz, Over, Quiet, Writing, Marking

\* The walk and the pivot stand on entries.
LEMMA EntryStep ==
    ASSUME TypeInv, [Next]_vars
    PROVE  EntryTypes' /\ ControlOK'
<1> USE Positions DEF Preparing, Loaded, Pivoting, Settling, Looping, Tokening, Saving, Trimming
<1>1. EntryTypes /\ ControlOK
    BY DEF TypeInv, TypeOK
<1>2. CASE Start
    BY <1>1, <1>2, ResumeAssumption DEF Start, EntryTypes, ControlOK, Ids
<1>3. CASE CheckStats \/ MoveQueue \/ WipeQueue \/ MakeQueue \/ MakeState
    <2>1. UNCHANGED procVars /\ pc \in Preparing /\ pc' \in {"down"} \cup (Preparing \ {"check"})
          /\ (pc' # "down" => why' = why) /\ (pc' = "move" => in_place_resume)
        BY <1>3 DEF CheckStats, MoveQueue, WipeQueue, MakeQueue, MakeState, Delete, Refuse, Goto
    <2> QED BY <1>1, <2>1 DEF EntryTypes, ControlOK, procVars
<1>4. CASE ReadTestcases
    <2>1. /\ pc = "read" /\ entries' \in Seq(EntryType) /\ Len(entries') <= MaxCases
        <3>1. CASE in_place_resume
            BY <1>4, <3>1, ScannedEntries DEF ReadTestcases, TypeInv, TypeOK, DiskTypes
        <3>2. CASE ~in_place_resume
            <4>1. entries' = SeedEntries
                BY <1>4, <3>2 DEF ReadTestcases
            <4>2. SeedEntries \in [1 .. Seeds -> EntryType]
                BY ResumeAssumption DEF SeedEntries, Entry, EntryType, Cases
            <4> QED BY <1>4, <4>1, <4>2, ResumeAssumption DEF ReadTestcases
        <3> QED BY <3>1, <3>2
    <2>2. pc' = "down" \/ (pc' = "pivot" /\ entries' # <<>> /\ why' = why)
        BY <1>4 DEF ReadTestcases, Refuse
    <2>3. entries' # <<>> => Len(entries') > 0
        BY <2>1
    <2>4. UNCHANGED <<in_place_resume, pos, seek_to, current_entry, trim_done>>
        BY <1>4 DEF ReadTestcases
    <2> QED BY <1>1, <2>1, <2>2, <2>3, <2>4 DEF EntryTypes, EntryType, ControlOK
<1>5. CASE PivotLink \/ PivotCopy \/ PivotMark \/ PivotEnd
    <2>1. /\ UNCHANGED <<entries, seek_to, current_entry, trim_done, in_place_resume, why>>
          /\ pc \in Pivoting
        BY <1>5 DEF PivotLink, PivotCopy, PivotMark, PivotEnd, Goto, procVars
    <2>2. /\ pos' \in 0 .. MaxCases
          /\ \/ pc' \in {"copy", "mark"} /\ pos' < Len(entries)
             \/ pc' = "pivot" /\ pos' <= Len(entries)
             \/ pc' = "seek"
             \/ pc' = "nuke" /\ in_place_resume
        BY <1>1, <1>5 DEF PivotLink, PivotCopy, PivotMark, PivotEnd, Goto, procVars, EntryTypes,
           ControlOK
    <2> QED BY <1>1, <2>1, <2>2 DEF EntryTypes, ControlOK
<1>6. CASE NukeResume
    <2>1. /\ UNCHANGED procVars /\ pc = "nuke"
          /\ (pc' \in {"nuke", "seek"} /\ why' = why) \/ pc' = "down"
        BY <1>6 DEF NukeResume, Delete, Refuse
    <2> QED BY <1>1, <2>1 DEF EntryTypes, ControlOK, procVars
<1>7. CASE FindStartPosition
    <2>1. /\ UNCHANGED <<entries, pos, current_entry, trim_done, in_place_resume, why>>
          /\ pc = "seek" /\ pc' = "stats0" /\ seek_to' = StartPosition
        BY <1>7 DEF FindStartPosition, Goto
    <2>2. StartPosition \in Ids /\ StartPosition < Len(entries)
        <3>1. stats.kind = "whole" => stats.cur_path \in Ids
            BY DEF TypeInv, TypeOK, DiskTypes, StatsFiles
        <3>2. 0 \in Ids /\ 0 < Len(entries)
            BY <1>1, <2>1 DEF ControlOK, Ids
        <3> QED BY <3>1, <3>2 DEF StartPosition
    <2> QED BY <1>1, <2>1, <2>2 DEF EntryTypes, ControlOK
<1>8. CASE TruncateStats \/ FlushStats \/ SaveAuto \/ WriteAuto
    <2>1. /\ pc \in Settling \cup Looping
          /\ pc' \in {"down", "flush0", "auto0", "loop", "fuzz", "flush", "auto", "flush1", "auto1"}
                    \cup Tokening
        <3>1. CASE TruncateStats \/ FlushStats
            <4>1. \E c \in StatsCalls : (pc = c[1] /\ pc' = c[2]) \/ (pc = c[2] /\ pc' = c[3])
                BY <3>1 DEF TruncateStats, FlushStats, Goto
            <4> QED BY <4>1 DEF StatsCalls
        <3> QED BY <1>8, <3>1, AutoStep
    <2>2. UNCHANGED <<entries, pos, seek_to, current_entry, trim_done, in_place_resume, why>>
        BY <1>8, AutoStep DEF TruncateStats, FlushStats, procVars
    <2> QED BY <1>1, <2>1, <2>2 DEF EntryTypes, ControlOK
<1>9. CASE SeekEntry \/ NextEntry
    <2>1. /\ UNCHANGED <<entries, pos, trim_done, in_place_resume, why>>
          /\ pc \in {"loop", "fuzz"} /\ pc' = "fuzz"
        BY <1>9 DEF SeekEntry, NextEntry, Goto
    <2>2. seek_to' \in {0, seek_to}
          /\ current_entry' \in {0, seek_to} \cup {n \in {current_entry + 1} : n < Len(entries)}
        BY <1>9 DEF SeekEntry, NextEntry
    <2>3. /\ seek_to' \in Ids /\ current_entry' \in Ids
          /\ seek_to' < Len(entries) /\ current_entry' < Len(entries)
        BY <1>1, <2>1, <2>2 DEF ControlOK, EntryTypes, Ids
    <2>4. EntryTypes'
        BY <1>1, <2>1, <2>3 DEF EntryTypes
    <2>5. ControlOK'
        BY <1>1, <2>1, <2>3 DEF ControlOK
    <2> QED BY <2>4, <2>5
<1>10. CASE KeepCase
    <2>1. /\ UNCHANGED <<pos, seek_to, current_entry, trim_done, in_place_resume, why>>
          /\ pc = "fuzz" /\ pc' = "save_open" /\ Len(entries) < MaxCases /\ found < MaxCases
          /\ entries' = Append(entries, Entry(found + 1, Len(entries), FALSE))
        BY <1>10 DEF KeepCase, Goto
    <2>2. Entry(found + 1, Len(entries), FALSE) \in EntryType
        BY <2>1, ResumeAssumption DEF Entry, EntryType, Cases, TypeInv, TypeOK, PastTypes
    <2>3. entries' \in Seq(EntryType) /\ Len(entries') = Len(entries) + 1
        <3> HIDE DEF EntryType
        <3> QED BY <2>1, <2>2, AppendProperties
    <2>4. EntryTypes'
        <3>1. pos \in 0 .. MaxCases /\ seek_to \in Ids /\ current_entry \in Ids /\ trim_done \subseteq Ids
            BY <1>1 DEF EntryTypes
        <3>2. Len(entries') <= MaxCases
            BY <2>1, <2>3
        <3> QED BY <2>1, <2>3, <3>1, <3>2 DEF EntryTypes, EntryType
    <2>5. ControlOK'
        <3>1. current_entry < Len(entries) /\ seek_to < Len(entries) /\ why = "none"
            BY <1>1, <2>1 DEF ControlOK
        <3>2. current_entry < Len(entries') /\ seek_to < Len(entries')
            BY <2>3, <3>1
        <3> QED BY <2>1, <3>1, <3>2 DEF ControlOK
    <2> QED BY <2>4, <2>5
<1>11. CASE MarkDetDone
    <2>1. /\ UNCHANGED <<pos, seek_to, current_entry, trim_done, in_place_resume, why>>
          /\ pc = "fuzz" /\ pc' = "fuzz"
          /\ entries' = [entries EXCEPT ![current_entry + 1].passed_det = TRUE]
        BY <1>11 DEF MarkDetDone, Goto
    <2>2. entries[current_entry + 1] \in EntryType
        BY <1>1, <2>1, EntryAt DEF ControlOK
    <2>3. [entries[current_entry + 1] EXCEPT !.passed_det = TRUE] \in EntryType
        BY <2>2 DEF EntryType
    <2>4. entries' \in Seq(EntryType) /\ Len(entries') = Len(entries)
        <3>1. entries' = [entries EXCEPT ![current_entry + 1] =
                             [entries[current_entry + 1] EXCEPT !.passed_det = TRUE]]
            BY <2>1
        <3>2. current_entry + 1 \in 1 .. Len(entries)
            BY <1>1, <2>1 DEF ControlOK
        <3> HIDE DEF EntryType
        <3> QED BY <2>3, <3>1, <3>2, ExceptSeq
    <2> QED BY <1>1, <2>1, <2>4 DEF EntryTypes, EntryType, ControlOK
<1>12. CASE SaveOpen \/ SaveWrite \/ TrimUnlink \/ TrimOpen \/ TrimWrite \/ LearnToken \/ LeaveLoop
    <2>1. /\ UNCHANGED <<entries, pos, seek_to, current_entry, in_place_resume, why>>
          /\ pc \in Looping /\ pc' \in Looping
        BY <1>12 DEF SaveOpen, SaveWrite, TrimUnlink, TrimOpen, TrimWrite, LearnToken, LeaveLoop,
           Goto, procVars
    <2>2. trim_done' \subseteq trim_done \cup {current_entry}
        BY <1>12 DEF SaveOpen, SaveWrite, TrimUnlink, TrimOpen, TrimWrite, LearnToken, LeaveLoop,
           procVars
    <2> QED BY <1>1, <2>1, <2>2 DEF EntryTypes, ControlOK
<1>13. CASE Killed \/ UNCHANGED vars
    <2>1. UNCHANGED procVars /\ (UNCHANGED <<pc, why>> \/ pc' = "down")
        BY <1>13 DEF Killed, vars
    <2> QED BY <1>1, <2>1 DEF EntryTypes, ControlOK, procVars
<1> QED BY <1>2, <1>3, <1>4, <1>5, <1>6, <1>7, <1>8, <1>9, <1>10, <1>11, <1>12, <1>13
        DEF Next, Setup, Fuzz, Over

flags == <<in_place_resume, resuming_fuzz, a_extras, auto_changed, learned, tokenCut, statsCut,
           staleResume>>

\* The flags keep their types.
LEMMA FlagStep ==
    ASSUME TypeInv, [Next]_vars
    PROVE  FlagTypes'
<1>1. FlagTypes
    BY DEF TypeInv, TypeOK
<1>2. ASSUME UNCHANGED flags PROVE FlagTypes'
    BY <1>1, <1>2, Zenon DEF FlagTypes, flags
<1>3. CASE MoveQueue \/ WipeQueue \/ MakeQueue \/ MakeState \/ PivotCopy \/ PivotMark \/ PivotEnd
           \/ NukeResume \/ FindStartPosition \/ TruncateStats \/ FlushStats
    BY <1>2, <1>3 DEF MoveQueue, WipeQueue, MakeQueue, MakeState, PivotCopy, PivotMark, PivotEnd,
       NukeResume, FindStartPosition, TruncateStats, FlushStats, procVars, pastVars, cutVars, flags
<1>4. CASE SeekEntry \/ NextEntry \/ KeepCase \/ SaveOpen \/ SaveWrite \/ TrimUnlink \/ TrimOpen
           \/ TrimWrite \/ MarkDetDone \/ LeaveLoop \/ UNCHANGED vars
    BY <1>2, <1>4 DEF SeekEntry, NextEntry, KeepCase, SaveOpen, SaveWrite, TrimUnlink, TrimOpen,
       TrimWrite, MarkDetDone, LeaveLoop, vars, procVars, pastVars, cutVars, flags
<1>5. CASE Start
    BY <1>1, <1>5, Zenon DEF Start, pastVars, cutVars, FlagTypes
<1>6. CASE CheckStats
    BY <1>1, <1>6, Zenon DEF CheckStats, procVars, cutVars, FlagTypes
<1>7. CASE ReadTestcases
    BY <1>1, <1>7, Zenon DEF ReadTestcases, LoadedDirty, pastVars, cutVars, FlagTypes
<1>8. CASE PivotLink
    BY <1>1, <1>8, Zenon DEF PivotLink, pastVars, cutVars, FlagTypes
<1>9. CASE SaveAuto \/ WriteAuto
    BY <1>1, <1>9, Zenon DEF SaveAuto, WriteAuto, procVars, cutVars, pastVars, FlagTypes
<1>10. CASE LearnToken
    BY <1>1, <1>10, Zenon DEF LearnToken, cutVars, pastVars, FlagTypes
<1>11. CASE Killed
    BY <1>1, <1>11, Zenon DEF Killed, procVars, pastVars, FlagTypes
<1> QED BY <1>3, <1>4, <1>5, <1>6, <1>7, <1>8, <1>9, <1>10, <1>11 DEF Next, Setup, Fuzz, Over

\* The histories keep their types.
LEMMA PastStep ==
    ASSUME TypeInv, [Next]_vars
    PROVE  PastTypes'
<1>1. PastTypes /\ ControlOK
    BY DEF TypeInv, TypeOK
<1>2. ASSUME UNCHANGED <<starts, found>> \/ Start \/ KeepCase,
             kept' \subseteq Cases, detDone' \subseteq Cases, trimCut' \subseteq Cases,
             nukeCut' \subseteq Cases, why' \in {why, "none", "malformed", "atrisk", "leftover", "nocases"}
      PROVE  PastTypes'
    <2>1. starts' \in 0 .. MaxStarts /\ found' \in Seeds .. MaxCases
        <3>1. /\ starts' = starts \/ (starts < MaxStarts /\ starts' = starts + 1)
              /\ found' = found \/ (found < MaxCases /\ found' = found + 1)
            BY <1>2 DEF Start, KeepCase
        <3>2. /\ starts \in 0 .. MaxStarts /\ found \in Seeds .. MaxCases
              /\ MaxStarts \in Nat /\ Seeds \in Nat /\ MaxCases \in Nat
            BY <1>1, ResumeAssumption DEF PastTypes
        <3> QED BY <3>1, <3>2
    <2> QED BY <1>1, <1>2, <2>1 DEF PastTypes
<1>3. CASE CheckStats
    <2>1. kept' \subseteq kept /\ UNCHANGED <<starts, found, detDone, trimCut, nukeCut>>
        BY <1>3 DEF CheckStats, cutVars
    <2>2. why' \in {why, "malformed", "atrisk"}
        BY <1>3 DEF CheckStats, Refuse
    <2> QED BY <1>1, <1>2, <2>1, <2>2 DEF PastTypes
<1>4. CASE PivotMark \/ SaveWrite
    <2>1. \/ kept' \subseteq kept \cup {entries[pos + 1].case} /\ pos < Len(entries)
          \/ kept' \subseteq kept \cup {entries[Len(entries)].case} /\ Len(entries) > 0
        BY <1>1, <1>4, Positions
           DEF PivotMark, SaveWrite, Goto, ControlOK, Loaded, Looping, Tokening, Saving
    <2>2. kept' \subseteq Cases
        <3>1. CASE pos < Len(entries) /\ kept' \subseteq kept \cup {entries[pos + 1].case}
            BY <1>1, <3>1, Positions, EntryAt DEF PastTypes
        <3>2. CASE Len(entries) > 0 /\ kept' \subseteq kept \cup {entries[Len(entries)].case}
            <4>1. Len(entries) - 1 \in Nat /\ Len(entries) - 1 < Len(entries)
                BY <3>2, Positions
            <4>2. entries[(Len(entries) - 1) + 1].case \in Cases
                BY <4>1, EntryAt
            <4>3. (Len(entries) - 1) + 1 = Len(entries)
                BY Positions
            <4> QED BY <1>1, <3>2, <4>2, <4>3 DEF PastTypes
        <3> QED BY <2>1, <3>1, <3>2
    <2> QED BY <1>1, <1>2, <1>4, <2>2 DEF PivotMark, SaveWrite, cutVars, PastTypes
<1>5. CASE MarkDetDone
    <2>1. Current.case \in Cases
        BY <1>1, <1>5, Positions, EntryAt DEF MarkDetDone, Goto, ControlOK, Loaded, Looping, Current
    <2> QED BY <1>1, <1>2, <1>5, <2>1 DEF MarkDetDone, cutVars, PastTypes
<1>6. CASE Killed
    <2>1. pc \in Trimming => Current.case \in Cases
        BY <1>1, Positions, EntryAt DEF ControlOK, Loaded, Looping, Current
    <2>2. trimCut' \subseteq Cases /\ nukeCut' \subseteq Cases
        BY <1>1, <1>6, <2>1 DEF Killed, PastTypes, Trimming
    <2> QED BY <1>1, <1>2, <1>6, <2>2 DEF Killed, pastVars, PastTypes
<1>7. CASE MoveQueue \/ WipeQueue \/ MakeQueue \/ MakeState \/ NukeResume \/ PivotEnd
    BY <1>1, <1>2, <1>7 DEF MoveQueue, WipeQueue, MakeQueue, MakeState, NukeResume, PivotEnd, Delete,
       Refuse, pastVars, cutVars, PastTypes
<1>8. CASE Start \/ ReadTestcases \/ PivotLink \/ PivotCopy \/ FindStartPosition
    BY <1>1, <1>2, <1>8 DEF Start, ReadTestcases, PivotLink, PivotCopy, FindStartPosition, Refuse,
       pastVars, cutVars, PastTypes
<1>9. CASE TruncateStats \/ FlushStats \/ SeekEntry \/ NextEntry \/ KeepCase
    BY <1>1, <1>2, <1>9 DEF TruncateStats, FlushStats, SeekEntry, NextEntry, KeepCase,
       pastVars, cutVars, PastTypes
<1>10. CASE SaveOpen \/ TrimUnlink \/ TrimOpen \/ TrimWrite \/ LearnToken \/ LeaveLoop \/ UNCHANGED vars
    BY <1>1, <1>2, <1>10 DEF SaveOpen, TrimUnlink, TrimOpen, TrimWrite, LearnToken, LeaveLoop, vars,
       pastVars, cutVars, PastTypes
<1>11. CASE SaveAuto \/ WriteAuto
    BY <1>1, <1>2, <1>11, AutoStep DEF PastTypes
<1> QED BY <1>3, <1>4, <1>5, <1>6, <1>7, <1>8, <1>9, <1>10, <1>11 DEF Next, Setup, Fuzz, Over

\* The first session starts without a directory.
LEMMA InitType == Init => TypeInv /\ DiskOK
<1> SUFFICES ASSUME Init PROVE TypeInv /\ DiskOK
    OBVIOUS
<1>1. DiskTypes /\ DiskOK
    BY NoDirFields DEF Init, DiskTypes, StatsFiles, DiskOK, Holding, Loaded, Pivoting, Settling,
       Looping, Tokening, Saving, Trimming
<1>2. EntryTypes /\ PastTypes
    BY ResumeAssumption DEF Init, EntryTypes, PastTypes, Ids
<1>3. FlagTypes
    BY DEF Init, FlagTypes
<1>4. ControlOK
    BY DEF Init, ControlOK, Preparing, Loaded, Pivoting, Settling, Looping, Tokening, Saving, Trimming
<1> QED BY <1>1, <1>2, <1>3, <1>4 DEF TypeInv, TypeOK

\* Both are preserved by every step.
LEMMA TypeStep ==
    ASSUME TypeInv, DiskOK, [Next]_vars
    PROVE  TypeInv' /\ DiskOK'
<1>1. DiskTypes' /\ DiskOK'
    BY DiskStep
<1>2. EntryTypes' /\ ControlOK' /\ FlagTypes' /\ PastTypes'
    BY EntryStep, FlagStep, PastStep
<1> QED BY <1>1, <1>2 DEF TypeInv, TypeOK

\* Every variable has its type, the walk stays on the list of entries, also if it starts at
\* a position that an older fuzzer_stats names, and what is under .state/ is never left behind.
LEMMA TypeAlways == Spec => [](TypeInv /\ DiskOK)
<1>1. TypeInv /\ DiskOK /\ [Next]_vars => (TypeInv /\ DiskOK)'
    BY TypeStep
<1> QED BY <1>1, InitType, PTL DEF Spec

\* Every variable has its type, in any number of sessions on one output directory.
THEOREM TypeCorrect == Spec => []TypeOK
<1>1. TypeInv => TypeOK
    BY DEF TypeInv
<1> QED BY <1>1, TypeAlways, PTL

-----------------------------------------------------------------------------
(* The files of queue/ and the entries.                                     *)

\* Nothing happens to the files.
LEMMA SameFiles ==
    ASSUME MatchOK, pc \in Holding, queue'.file = queue.file,
           \A id \in Ids : id # Hole' => id # Hole /\ (id < Complete' <=> id < Complete),
           \A id \in Ids : id < Complete => entries'[id + 1].case = entries[id + 1].case
    PROVE  MatchOK'
BY DEF MatchOK

\* The file n is written; the other files keep up.
LEMMA OneFile ==
    ASSUME queue \in Dirs, MatchOK, pc \in Holding, UNCHANGED entries, NEW n \in Ids,
           NEW c \in {None, Empty} \cup Cases, queue' = [queue EXCEPT !.file[n] = c],
           \A id \in Ids \ {n} : id # Hole /\ (id < Complete' <=> id < Complete),
           Hole' = n \/ c = IF n < Complete' THEN entries[n + 1].case ELSE None
    PROVE  MatchOK'
<1>1. \A i \in Ids : queue'.file[i] = IF i = n THEN c ELSE queue.file[i]
    <2>1. queue.file \in [Ids -> {None, Empty} \cup Cases] /\ queue'.file = [queue.file EXCEPT ![n] = c]
        BY DEF Dirs
    <2> QED BY <2>1
<1> QED BY <1>1 DEF MatchOK

\* The files of queue/ follow the entries.
LEMMA MatchStep ==
    ASSUME TypeInv, DiskOK, MatchOK, [Next]_vars
    PROVE  MatchOK'
<1> USE Positions DEF Complete, Hole
<1>0. /\ queue \in Dirs /\ ControlOK /\ \A id \in Ids : id \in Nat /\ id # MaxCases
      /\ None \in {None, Empty} \cup Cases /\ Empty \in {None, Empty} \cup Cases
    BY ResumeAssumption DEF TypeInv, TypeOK, DiskTypes, Ids
<1>1. CASE Start \/ CheckStats \/ MoveQueue \/ WipeQueue \/ Killed
    <2>1. pc' \notin Holding
        BY <1>1 DEF Start, CheckStats, MoveQueue, WipeQueue, Killed, Delete, Refuse, Goto,
           Holding, Loaded, Pivoting, Settling, Looping, Tokening, Saving, Trimming
    <2> QED BY <2>1 DEF MatchOK
<1>2. CASE MakeQueue
    <2>1. /\ pc' = "mkstate" /\ UNCHANGED entries /\ Len(entries) = 0
          /\ queue' = [NoDir EXCEPT !.there = TRUE]
        BY <1>0, <1>2 DEF MakeQueue, Goto, procVars, ControlOK, Preparing
    <2>2. \A id \in Ids : queue'.file[id] = None
        BY <2>1 DEF NoDir
    <2>3. Complete' = 0
        BY <2>1 DEF Saving
    <2> HIDE DEF Complete, Hole
    <2>4. \A id \in Ids : ~(id < Complete')
        BY <1>0, <2>3
    <2> QED BY <2>2, <2>4 DEF MatchOK
<1>3. CASE MakeState \/ ReadTestcases
    <2>1. /\ pc \in {"mkstate", "read"} /\ Len(entries) = 0 /\ queue'.file = queue.file
        BY <1>0, <1>3 DEF MakeState, ReadTestcases, Goto, ControlOK, Preparing, Dirs, diskVars
    <2>2. \A id \in Ids : queue.file[id] = None
        BY <1>0, <2>1 DEF MatchOK, Holding, Saving, Trimming
    <2>3. pc' = "down" \/ Complete' = 0
        <3>1. CASE MakeState
            BY <2>1, <3>1 DEF MakeState, Goto, procVars, Saving
        <3>2. CASE ReadTestcases
            <4>1. pc' \in {"down", "pivot"} /\ pos' = 0
                BY <1>0, <3>2 DEF ReadTestcases, Refuse, ControlOK, Preparing
            <4> QED BY <4>1
        <3> QED BY <1>3, <3>1, <3>2
    <2>4. "down" \notin Holding
        BY DEF Holding, Loaded, Pivoting, Settling, Looping, Tokening, Saving, Trimming
    <2> HIDE DEF Complete, Hole
    <2>5. pc' # "down" => \A id \in Ids : ~(id < Complete')
        BY <1>0, <2>3
    <2> QED BY <2>1, <2>2, <2>4, <2>5 DEF MatchOK
<1>4. CASE PivotLink \/ PivotCopy
    <2>1. /\ pos < Len(entries) /\ UNCHANGED <<entries, pos>> /\ pc \in {"pivot", "copy"}
        BY <1>0, <1>4 DEF PivotLink, PivotCopy, Goto, procVars, ControlOK
    <2>2. pos \in Ids /\ entries[pos + 1].case \in Cases
        BY <2>1, EntryAt
    <2>3. \/ pc' = "mark" /\ queue' = [queue EXCEPT !.file[pos] = entries[pos + 1].case]
          \/ pc' = "copy" /\ queue' = [queue EXCEPT !.file[pos] = Empty]
        BY <1>4 DEF PivotLink, PivotCopy, Goto, WriteFile, NewName
    <2>4. pc \in Holding
        BY <2>1 DEF Holding, Loaded, Pivoting
    <2>5. \A id \in Ids \ {pos} : id # Hole /\ (id < Complete' <=> id < Complete)
        BY <1>0, <2>1, <2>3 DEF Saving, Trimming
    <2>6. CASE pc' = "mark" /\ queue' = [queue EXCEPT !.file[pos] = entries[pos + 1].case]
        <3>1. pos < Complete'
            BY <2>1, <2>6
        <3> HIDE DEF Complete, Hole
        <3> QED BY <1>0, <2>1, <2>2, <2>4, <2>5, <2>6, <3>1, OneFile
    <2>7. CASE pc' = "copy" /\ queue' = [queue EXCEPT !.file[pos] = Empty]
        <3>1. Hole' = pos
            BY <2>1, <2>7
        <3> HIDE DEF Complete, Hole
        <3> QED BY <1>0, <2>1, <2>2, <2>4, <2>5, <2>7, <3>1, OneFile
    <2> QED BY <2>3, <2>6, <2>7
<1>5. CASE PivotMark
    <2>1. /\ UNCHANGED entries /\ pos' = pos + 1 /\ pc = "mark" /\ pc' = "pivot"
        BY <1>5 DEF PivotMark, Goto
    <2>2. queue'.file = queue.file
        BY <1>0, <1>5 DEF PivotMark, Dirs
    <2>3. pc \in Holding /\ Complete' = Complete /\ Hole' = Hole
        BY <2>1 DEF Holding, Loaded, Pivoting, Saving, Trimming
    <2> HIDE DEF Complete, Hole
    <2> QED BY <2>1, <2>2, <2>3, SameFiles
<1>6. CASE PivotEnd \/ NukeResume \/ FindStartPosition \/ TruncateStats \/ FlushStats
    <2>1. \/ pc = "pivot" /\ pos = Len(entries)
          \/ pc \in (Settling \cup Looping) \ (Saving \cup Trimming)
        <3>1. CASE PivotEnd \/ NukeResume \/ FindStartPosition
            BY <3>1 DEF PivotEnd, NukeResume, FindStartPosition, Goto, Settling, Saving, Trimming
        <3>2. CASE TruncateStats \/ FlushStats
            <4>1. \E c \in StatsCalls : pc \in {c[1], c[2]}
                BY <3>2 DEF TruncateStats, FlushStats, Goto
            <4> QED BY <4>1 DEF StatsCalls, Settling, Looping, Tokening, Saving, Trimming
        <3> QED BY <1>6, <3>1, <3>2
    <2>2. pc' \in {"down"} \cup ((Settling \cup Looping) \ (Saving \cup Trimming))
        <3>1. CASE PivotEnd \/ NukeResume \/ FindStartPosition
            BY <3>1 DEF PivotEnd, NukeResume, Delete, Refuse, FindStartPosition, Goto, Settling,
               Saving, Trimming
        <3>2. CASE TruncateStats \/ FlushStats
            <4>1. \E c \in StatsCalls : pc' \in {c[2], c[3]}
                BY <3>2 DEF TruncateStats, FlushStats, Goto
            <4> QED BY <4>1 DEF StatsCalls, Settling, Looping, Tokening, Saving, Trimming
        <3> QED BY <1>6, <3>1, <3>2
    <2>3. UNCHANGED <<queue, entries>>
        BY <1>6 DEF PivotEnd, NukeResume, FindStartPosition, TruncateStats, FlushStats, diskVars,
           procVars
    <2>4. pc \in Holding
        BY <2>1 DEF Holding, Loaded, Pivoting
    <2>5. CASE pc' = "down"
        BY <2>5 DEF MatchOK, Holding, Loaded, Pivoting, Settling, Looping, Tokening, Saving, Trimming
    <2>6. CASE pc' # "down"
        <3>1. Complete' = Complete /\ Hole' = Hole
            BY <2>1, <2>2, <2>3, <2>6 DEF Settling, Looping, Tokening, Saving, Trimming
        <3> HIDE DEF Complete, Hole
        <3> QED BY <2>3, <2>4, <3>1, SameFiles
    <2> QED BY <2>5, <2>6
<1>7. CASE SaveAuto \/ WriteAuto \/ SeekEntry \/ NextEntry \/ LearnToken \/ LeaveLoop
    <2>1. /\ pc \in {"loop", "fuzz", "auto0", "auto", "auto1"} \cup Tokening
          /\ pc' \in {"loop", "fuzz", "exit", "down"} \cup Tokening
          /\ UNCHANGED entries /\ queue'.file = queue.file
        <3>1. CASE SaveAuto \/ WriteAuto
            BY <3>1, AutoStep
        <3>2. CASE ~(SaveAuto \/ WriteAuto)
            BY <1>7, <3>2 DEF SeekEntry, NextEntry, LearnToken, LeaveLoop, Goto, diskVars, procVars
        <3> QED BY <3>1, <3>2
    <2>2. pc \in Holding /\ Complete' = Complete /\ Hole' = Hole
        BY <2>1 DEF Holding, Loaded, Settling, Looping, Tokening, Saving, Trimming
    <2> HIDE DEF Complete, Hole
    <2> QED BY <2>1, <2>2, SameFiles
<1>8. CASE KeepCase
    <2>1. /\ pc = "fuzz" /\ pc' = "save_open" /\ UNCHANGED queue
          /\ entries' = Append(entries, Entry(found + 1, Len(entries), FALSE))
        BY <1>8 DEF KeepCase, Goto, diskVars
    <2>2. /\ Len(entries') = Len(entries) + 1
          /\ \A k \in 1 .. Len(entries) : entries'[k] = entries[k]
        BY <2>1
    <2>3. Complete' = Len(entries) /\ Hole' = Len(entries)
        BY <2>1, <2>2 DEF Saving, Trimming
    <2>4. pc \in Holding /\ Complete = Len(entries) /\ Hole = MaxCases
        BY <2>1 DEF Holding, Loaded, Looping, Tokening, Saving, Trimming
    <2> HIDE DEF Complete, Hole
    <2>5. \A id \in Ids : id < Complete => entries'[id + 1].case = entries[id + 1].case
        BY <1>0, <2>2, <2>4
    <2> QED BY <1>0, <2>1, <2>3, <2>4, <2>5, SameFiles
<1>9. CASE SaveOpen \/ SaveWrite
    <2>1. /\ UNCHANGED entries /\ Len(entries) > 0 /\ pc \in Saving
        BY <1>0, <1>9 DEF SaveOpen, SaveWrite, Goto, procVars, ControlOK, Loaded, Looping,
           Tokening, Saving
    <2> DEFINE n == Len(entries) - 1
    <2>2. n \in Ids /\ entries[n + 1] = entries[Len(entries)] /\ entries[Len(entries)].case \in Cases
        <3>1. n \in Nat /\ n < Len(entries) /\ n + 1 = Len(entries)
            BY <2>1
        <3> QED BY <3>1, EntryAt
    <2>3. \/ pc' = "save_write" /\ queue' = [queue EXCEPT !.file[n] = Empty]
          \/ pc' = "fuzz" /\ queue' = [queue EXCEPT !.file[n] = entries[Len(entries)].case]
        BY <1>9 DEF SaveOpen, SaveWrite, Goto, WriteFile
    <2>4. pc \in Holding
        BY <2>1 DEF Holding, Loaded, Looping
    <2>5. \A id \in Ids \ {n} : id # Hole /\ (id < Complete' <=> id < Complete)
        BY <1>0, <2>1, <2>3 DEF Saving, Trimming
    <2>6. (pc' = "save_write" => Hole' = n) /\ (pc' = "fuzz" => n < Complete')
        BY <2>1 DEF Saving, Trimming
    <2> HIDE DEF Complete, Hole, n
    <2> QED BY <1>0, <2>1, <2>2, <2>3, <2>4, <2>5, <2>6, OneFile
<1>10. CASE TrimUnlink \/ TrimOpen \/ TrimWrite
    <2>1. /\ UNCHANGED <<entries, current_entry>> /\ pc \in {"fuzz"} \cup Trimming
          /\ current_entry < Len(entries)
        BY <1>0, <1>10 DEF TrimUnlink, TrimOpen, TrimWrite, Goto, procVars, ControlOK, Loaded, Looping,
           Trimming
    <2>2. current_entry \in Ids /\ Current.case \in Cases
        BY <2>1, EntryAt DEF Current
    <2>3. \/ pc' \in Trimming /\ \E c \in {None, Empty} : queue' = [queue EXCEPT !.file[current_entry] = c]
          \/ pc' = "fuzz" /\ queue' = [queue EXCEPT !.file[current_entry] = Current.case]
        BY <1>10 DEF TrimUnlink, TrimOpen, TrimWrite, Goto, WriteFile, Trimming
    <2>4. pc \in Holding
        BY <2>1 DEF Holding, Loaded, Looping
    <2>5. \A id \in Ids \ {current_entry} : id # Hole /\ (id < Complete' <=> id < Complete)
        BY <1>0, <2>1, <2>3 DEF Saving, Trimming
    <2>6. (pc' \in Trimming => Hole' = current_entry) /\ (pc' = "fuzz" => current_entry < Complete')
        BY <2>1 DEF Saving, Trimming
    <2> HIDE DEF Complete, Hole
    <2>7. CASE pc' = "fuzz" /\ queue' = [queue EXCEPT !.file[current_entry] = Current.case]
        <3>1. Current.case = IF current_entry < Complete' THEN entries[current_entry + 1].case ELSE None
            BY <2>6, <2>7 DEF Current
        <3> HIDE DEF Current
        <3> QED BY <1>0, <2>1, <2>2, <2>4, <2>5, <2>7, <3>1, OneFile
    <2>8. CASE pc' \in Trimming /\ \E c \in {None, Empty} : queue' = [queue EXCEPT !.file[current_entry] = c]
        BY <1>0, <2>1, <2>2, <2>4, <2>5, <2>6, <2>8, OneFile
    <2> QED BY <2>3, <2>7, <2>8
<1>11. CASE MarkDetDone
    <2>1. /\ pc = "fuzz" /\ pc' = "fuzz" /\ queue'.file = queue.file
          /\ entries' = [entries EXCEPT ![current_entry + 1].passed_det = TRUE]
        BY <1>0, <1>11 DEF MarkDetDone, Goto, Dirs
    <2>2. Len(entries') = Len(entries) /\ \A k \in DOMAIN entries : entries'[k].case = entries[k].case
        <3>1. \A k \in DOMAIN entries : entries[k] \in EntryType
            OBVIOUS
        <3> QED BY <2>1, <3>1 DEF EntryType
    <2>3. /\ pc \in Holding /\ Complete' = Complete /\ Hole' = Hole /\ Complete = Len(entries)
        BY <2>1, <2>2 DEF Holding, Loaded, Looping, Tokening, Saving, Trimming
    <2> HIDE DEF Complete, Hole
    <2>4. \A id \in Ids : id < Complete => entries'[id + 1].case = entries[id + 1].case
        BY <1>0, <2>2, <2>3
    <2> QED BY <2>1, <2>3, <2>4, SameFiles
<1>12. CASE UNCHANGED vars
    BY <1>12 DEF vars, diskVars, procVars, MatchOK
<1> QED BY <1>1, <1>2, <1>3, <1>4, <1>5, <1>6, <1>7, <1>8, <1>9, <1>10, <1>11, <1>12
        DEF Next, Setup, Fuzz, Over

\* The files follow the entries in every session.
LEMMA MatchAlways == Spec => [](TypeInv /\ DiskOK /\ MatchOK)
<1>1. Init => MatchOK
    BY DEF Init, MatchOK, Holding, Loaded, Pivoting, Settling, Looping, Tokening, Saving, Trimming
<1>2. TypeInv /\ DiskOK /\ MatchOK /\ [Next]_vars => MatchOK'
    BY MatchStep
<1> QED BY <1>1, <1>2, TypeAlways, PTL DEF Spec

\* Between two finds queue/ holds exactly the entries, number by number, and the walk stands
\* on one of them, whatever crashes have left in the output directory.
THEOREM QueueMatchesAlways == Spec => []QueueMatchesEntries
<1>1. ASSUME TypeInv, MatchOK PROVE QueueMatchesEntries
    <2> SUFFICES ASSUME pc \in {"fuzz", "exit"}
                 PROVE  /\ current_entry < Len(entries)
                        /\ \A id \in Ids : queue.file[id] =
                              IF id < Len(entries) THEN entries[id + 1].case ELSE None
        BY DEF QueueMatchesEntries
    <2>1. current_entry < Len(entries)
        BY <1>1 DEF TypeInv, ControlOK, Loaded, Looping
    <2>2. pc \in Holding /\ Complete = Len(entries) /\ Hole \notin Ids
        BY <1>1, Positions DEF Holding, Loaded, Looping, Complete, Hole, Saving, Trimming, Ids
    <2> QED BY <1>1, <2>1, <2>2 DEF MatchOK
<1>2. TypeInv /\ MatchOK => QueueMatchesEntries
    BY <1>1
<1> QED BY <1>2, MatchAlways, PTL

-----------------------------------------------------------------------------
(* The marks of the deterministic stages.                                   *)

EntriesMarked == \A k \in DOMAIN entries : entries[k].passed_det => entries[k].case \in detDone
DirMarked(d) == \A id \in d.det : d.file[id] \in Cases => d.file[id] \in detDone
OnlyComplete ==
    pc \in Holding => \A id \in queue.det : id < Complete /\ entries[id + 1].passed_det

\* The entries in memory are marked truly.
LEMMA EntriesMarkedStep ==
    ASSUME TypeInv, DetInv, [Next]_vars
    PROVE  EntriesMarked' /\ detDone \subseteq detDone'
<1> USE Positions
<1>1. EntriesMarked /\ DirMarked(resume) /\ resume \in Dirs
    BY DEF DetInv, DetMarkTrue, EntriesMarked, DirMarked, TypeInv, TypeOK, DiskTypes
<1>2. CASE ReadTestcases
    <2>1. UNCHANGED detDone
        BY <1>2 DEF ReadTestcases, pastVars
    <2>2. CASE in_place_resume
        <3>1. entries' \in Scanned(resume)
            BY <1>2, <2>2 DEF ReadTestcases
        <3>2. ASSUME NEW k \in DOMAIN entries', entries'[k].passed_det
              PROVE  entries'[k].case \in detDone
            <4>1. PICK id \in Ids : entries'[k].case = resume.file[id] /\ id \in resume.det
                BY <1>1, <3>1, <3>2, ScannedEntries
            <4>2. entries'[k].case \in Cases
                <5>1. entries' \in Seq(EntryType)
                    BY <1>1, <3>1, ScannedEntries
                <5>2. entries'[k] \in EntryType
                    BY <3>2, <5>1
                <5> QED BY <5>2 DEF EntryType
            <4> QED BY <1>1, <4>1, <4>2 DEF DirMarked
        <3> QED BY <2>1, <3>2 DEF EntriesMarked
    <2>3. CASE ~in_place_resume
        <3>1. entries' = SeedEntries
            BY <1>2, <2>3 DEF ReadTestcases
        <3> QED BY <2>1, <3>1 DEF EntriesMarked, SeedEntries, Entry
    <2> QED BY <2>2, <2>3
<1>3. CASE KeepCase
    <2>1. UNCHANGED detDone /\ entries' = Append(entries, Entry(found + 1, Len(entries), FALSE))
        BY <1>3 DEF KeepCase
    <2>2. \A k \in DOMAIN entries' : entries'[k].passed_det => k \in DOMAIN entries /\ entries'[k] = entries[k]
        BY <2>1 DEF Entry
    <2> QED BY <1>1, <2>1, <2>2 DEF EntriesMarked
<1>4. CASE MarkDetDone
    <2>1. /\ detDone' = detDone \cup {Current.case} /\ pc = "fuzz"
          /\ entries' = [entries EXCEPT ![current_entry + 1].passed_det = TRUE]
        BY <1>4 DEF MarkDetDone, Goto
    <2>2. \A k \in DOMAIN entries : entries[k] \in EntryType
        OBVIOUS
    <2>3. /\ DOMAIN entries' = DOMAIN entries
          /\ \A k \in DOMAIN entries : entries'[k].case = entries[k].case
          /\ \A k \in DOMAIN entries : k # current_entry + 1 => entries'[k] = entries[k]
        BY <2>1, <2>2 DEF EntryType
    <2> QED BY <1>1, <2>1, <2>3 DEF EntriesMarked, Current
<1>5. CASE ~(ReadTestcases \/ KeepCase \/ MarkDetDone)
    <2>1. UNCHANGED detDone /\ (entries' = entries \/ entries' = <<>>)
        BY <1>5 DEF Next, Setup, Fuzz, Over, Start, CheckStats, MoveQueue, WipeQueue, MakeQueue,
           MakeState, PivotLink, PivotCopy, PivotMark, PivotEnd, NukeResume, FindStartPosition,
           TruncateStats, FlushStats, SaveAuto, WriteAuto, SeekEntry, NextEntry, SaveOpen, SaveWrite,
           TrimUnlink, TrimOpen, TrimWrite, LearnToken, LeaveLoop, Killed, vars, procVars, pastVars
    <2> QED BY <1>1, <2>1 DEF EntriesMarked
<1> QED BY <1>2, <1>3, <1>4, <1>5

\* Only files that are complete, of entries that passed, are marked in queue/.
LEMMA OnlyCompleteStep ==
    ASSUME TypeInv, TypeInv', DiskOK, DetInv, [Next]_vars
    PROVE  OnlyComplete'
<1> USE Positions DEF Complete
<1>0. /\ queue \in Dirs /\ OnlyComplete /\ ControlOK /\ queue.det \subseteq Ids
      /\ \A id \in Ids : id \in Nat /\ id < MaxCases
    BY DirFields DEF DetInv, OnlyComplete, TypeInv, TypeOK, DiskTypes, Ids
<1>1. ASSUME pc \in Holding, queue'.det = queue.det, UNCHANGED entries,
             \A id \in Ids : id < Complete => id < Complete'
      PROVE  OnlyComplete'
    BY <1>0, <1>1 DEF OnlyComplete
<1>2. CASE Start \/ CheckStats \/ MoveQueue \/ WipeQueue \/ Killed
    <2>1. pc' \notin Holding
        BY <1>2 DEF Start, CheckStats, MoveQueue, WipeQueue, Killed, Delete, Refuse, Goto,
           Holding, Loaded, Pivoting, Settling, Looping, Tokening, Saving, Trimming
    <2> QED BY <2>1 DEF OnlyComplete
<1>3. CASE MakeQueue
    <2>1. queue'.det = {}
        BY <1>3 DEF MakeQueue, NoDir
    <2> QED BY <2>1 DEF OnlyComplete
<1>4. CASE MakeState \/ ReadTestcases
    <2>1. /\ pc \in {"mkstate", "read"} /\ Len(entries) = 0 /\ queue'.det = queue.det
        BY <1>0, <1>4 DEF MakeState, ReadTestcases, Goto, ControlOK, Preparing, Dirs, diskVars
    <2>2. queue.det = {}
        BY <1>0, <2>1 DEF OnlyComplete, Holding, Saving
    <2> QED BY <2>1, <2>2 DEF OnlyComplete
<1>5. CASE PivotMark
    <2>1. /\ UNCHANGED entries /\ pos' = pos + 1 /\ pc = "mark" /\ pc' = "pivot"
          /\ queue' = (IF entries[pos + 1].passed_det THEN [queue EXCEPT !.det = @ \cup {pos}] ELSE queue)
        BY <1>5 DEF PivotMark, Goto, NewName
    <2>2. queue'.det = IF entries[pos + 1].passed_det THEN queue.det \cup {pos} ELSE queue.det
        BY <1>0, <2>1 DEF Dirs
    <2>3. pc \in Holding /\ Complete = pos + 1 /\ Complete' = pos + 1
        BY <2>1 DEF Holding, Loaded, Pivoting, Saving
    <2> HIDE DEF Complete
    <2> QED BY <1>0, <2>1, <2>2, <2>3 DEF OnlyComplete
<1>6. CASE MarkDetDone
    <2>1. /\ pc = "fuzz" /\ pc' = "fuzz" /\ queue' = [queue EXCEPT !.det = @ \cup {current_entry}]
          /\ entries' = [entries EXCEPT ![current_entry + 1].passed_det = TRUE]
          /\ current_entry < Len(entries)
        BY <1>0, <1>6 DEF MarkDetDone, Goto, ControlOK, Loaded, Looping
    <2>2. queue'.det = queue.det \cup {current_entry}
        BY <1>0, <2>1 DEF Dirs
    <2>3. \A k \in DOMAIN entries : entries[k] \in EntryType
        OBVIOUS
    <2>4. /\ Len(entries') = Len(entries) /\ entries'[current_entry + 1].passed_det
          /\ \A k \in DOMAIN entries : k # current_entry + 1 => entries'[k] = entries[k]
        BY <2>1, <2>3 DEF EntryType
    <2>5. pc \in Holding /\ Complete = Len(entries) /\ Complete' = Len(entries)
        BY <2>1, <2>4 DEF Holding, Loaded, Looping, Tokening, Saving
    <2> HIDE DEF Complete
    <2>6. ASSUME NEW id \in queue'.det PROVE id < Len(entries) /\ entries'[id + 1].passed_det
        <3>1. id < Len(entries) /\ (id = current_entry \/ entries[id + 1].passed_det) /\ id \in Nat
            BY <1>0, <2>1, <2>2, <2>5, <2>6 DEF OnlyComplete
        <3>2. id + 1 \in DOMAIN entries
            BY <3>1
        <3> QED BY <2>4, <3>1, <3>2
    <2> QED BY <2>5, <2>6 DEF OnlyComplete
<1>7. CASE KeepCase
    <2>1. /\ pc = "fuzz" /\ pc' = "save_open" /\ UNCHANGED queue
          /\ entries' = Append(entries, Entry(found + 1, Len(entries), FALSE))
        BY <1>7 DEF KeepCase, Goto, diskVars
    <2>2. /\ Len(entries') = Len(entries) + 1
          /\ \A k \in 1 .. Len(entries) : entries'[k] = entries[k]
        BY <2>1
    <2>3. pc \in Holding /\ Complete = Len(entries) /\ Complete' = Len(entries)
        BY <2>1, <2>2 DEF Holding, Loaded, Looping, Tokening, Saving
    <2> HIDE DEF Complete
    <2>4. ASSUME NEW id \in queue.det PROVE id < Len(entries) /\ entries'[id + 1].passed_det
        <3>1. id < Len(entries) /\ entries[id + 1].passed_det /\ id \in Nat
            BY <1>0, <2>3, <2>4 DEF OnlyComplete
        <3> QED BY <2>2, <3>1
    <2> QED BY <2>1, <2>3, <2>4 DEF OnlyComplete
<1>8. CASE SaveAuto \/ WriteAuto
    <2>1. /\ pc \in {"auto0", "auto", "auto1"} \cup Tokening
          /\ pc' \in {"loop", "fuzz", "down"} \cup Tokening
          /\ UNCHANGED entries /\ queue'.det = queue.det
        BY <1>8, AutoStep
    <2>2. pc \in Holding /\ Complete' = Complete
        BY <2>1 DEF Holding, Loaded, Settling, Looping, Tokening, Saving, Pivoting
    <2> QED BY <1>1, <2>1, <2>2
<1>9. CASE Writing
    <2>1. pc \in Holding /\ FileStep
        BY <1>9, WritingStep
    <2>2. queue'.det = queue.det
        BY <1>0, <2>1, FileWritten DEF FileStep
    <2>3. UNCHANGED <<entries, pos>>
        BY <1>9 DEF Writing, PivotLink, PivotCopy, SaveOpen, SaveWrite, TrimUnlink, TrimOpen, TrimWrite,
           procVars
    <2>4. \/ pc \in {"pivot", "copy"} /\ pc' \in {"copy", "mark"}
          \/ pc \in Saving /\ pc' \in {"save_write", "fuzz"}
          \/ pc \in {"fuzz"} \cup Trimming /\ pc' \in {"fuzz"} \cup Trimming
        BY <1>9 DEF Writing, PivotLink, PivotCopy, SaveOpen, SaveWrite, TrimUnlink, TrimOpen, TrimWrite,
           Goto, Saving, Trimming
    <2>5. \A id \in Ids : id < Complete => id < Complete'
        BY <1>0, <2>3, <2>4 DEF Saving, Trimming
    <2> HIDE DEF Complete
    <2> QED BY <1>1, <2>1, <2>2, <2>3, <2>5
<1>10. CASE PivotEnd \/ NukeResume \/ FindStartPosition \/ TruncateStats \/ FlushStats
    <2>1. \/ pc = "pivot" /\ pos = Len(entries)
          \/ pc \in (Settling \cup Looping) \ Saving
        <3>1. CASE PivotEnd \/ NukeResume \/ FindStartPosition
            BY <3>1 DEF PivotEnd, NukeResume, FindStartPosition, Goto, Settling, Saving
        <3>2. CASE TruncateStats \/ FlushStats
            <4>1. \E c \in StatsCalls : pc \in {c[1], c[2]}
                BY <3>2 DEF TruncateStats, FlushStats, Goto
            <4> QED BY <4>1 DEF StatsCalls, Settling, Looping, Tokening, Saving
        <3> QED BY <1>10, <3>1, <3>2
    <2>2. pc' \notin Saving \cup Pivoting
        <3>1. CASE PivotEnd \/ NukeResume \/ FindStartPosition
            BY <3>1 DEF PivotEnd, NukeResume, Delete, Refuse, FindStartPosition, Goto, Saving, Pivoting
        <3>2. CASE TruncateStats \/ FlushStats
            <4>1. \E c \in StatsCalls : pc' \in {c[2], c[3]}
                BY <3>2 DEF TruncateStats, FlushStats, Goto
            <4> QED BY <4>1 DEF StatsCalls, Saving, Pivoting
        <3> QED BY <1>10, <3>1, <3>2
    <2>3. UNCHANGED <<queue, entries>>
        BY <1>10 DEF PivotEnd, NukeResume, FindStartPosition, TruncateStats, FlushStats, diskVars,
           procVars
    <2>4. pc \in Holding /\ Complete' = Complete
        BY <2>1, <2>2, <2>3 DEF Holding, Loaded, Settling, Looping, Tokening, Pivoting, Saving, Trimming
    <2> HIDE DEF Complete
    <2> QED BY <1>1, <2>3, <2>4
<1>11. CASE SeekEntry \/ NextEntry \/ LearnToken \/ LeaveLoop
    <2>1. pc \in {"loop", "fuzz"} /\ pc' \in {"fuzz", "exit"} /\ UNCHANGED <<queue, entries>>
        BY <1>11 DEF SeekEntry, NextEntry, LearnToken, LeaveLoop, Goto, diskVars, procVars
    <2>2. pc \in Holding /\ Complete' = Complete
        BY <2>1 DEF Holding, Loaded, Looping, Tokening, Saving
    <2> HIDE DEF Complete
    <2> QED BY <1>1, <2>1, <2>2
<1>12. CASE UNCHANGED vars
    BY <1>0, <1>12 DEF vars, diskVars, procVars, OnlyComplete
<1> QED BY <1>2, <1>3, <1>4, <1>5, <1>6, <1>7, <1>8, <1>9, <1>10, <1>11, <1>12
        DEF Next, Setup, Fuzz, Over, Writing

\* What is only taken away is still marked truly.
LEMMA StillMarked ==
    ASSUME NEW d, DirMarked(d), NEW e, detDone \subseteq detDone', e.det \subseteq d.det, d.det \subseteq Ids,
           \A id \in Ids : e.file[id] \in {d.file[id], None, Empty}
    PROVE  \A id \in e.det : e.file[id] \in Cases => e.file[id] \in detDone'
<1>1. None \notin Cases /\ Empty \notin Cases
    BY ResumeAssumption DEF None, Empty, Cases
<1> QED BY <1>1 DEF DirMarked

\* The marks of both directories stay true.
LEMMA DetStep ==
    ASSUME TypeInv, TypeInv', DiskOK, MatchOK', DetInv, [Next]_vars
    PROVE  DetInv'
<1>1. /\ EntriesMarked' /\ detDone \subseteq detDone' /\ OnlyComplete'
    BY EntriesMarkedStep, OnlyCompleteStep
<1>2. /\ DirMarked(queue) /\ DirMarked(resume) /\ queue \in Dirs /\ resume \in Dirs
      /\ queue' \in Dirs /\ resume' \in Dirs
      /\ queue.det \subseteq Ids /\ resume.det \subseteq Ids /\ queue'.det \subseteq Ids
      /\ DirOK(queue) /\ DirOK(resume)
    BY DirFields DEF DetInv, DetMarkTrue, DirMarked, TypeInv, TypeOK, DiskTypes, DiskOK
<1>3. \A id \in queue'.det : queue'.file[id] \in Cases => queue'.file[id] \in detDone'
    <2>1. CASE pc' \in Holding \ Trimming
        <3>1. /\ Len(entries') \in Nat /\ Complete' <= Len(entries') /\ pos' \in Nat
              /\ (pc' = "copy" => Hole' = Complete') /\ (pc' \in Saving => Hole' = Complete')
              /\ (pc' \notin {"copy"} \cup Saving => Hole' = MaxCases)
            <4>1. /\ ControlOK' /\ pos' \in Nat /\ entries' \in Seq(EntryType)
                BY ResumeAssumption DEF TypeInv, TypeOK, EntryTypes, EntryType
            <4> QED BY <2>1, <4>1 DEF Complete, Hole, ControlOK, Saving, Trimming
        <3>2. ASSUME NEW id \in queue'.det PROVE queue'.file[id] \in detDone'
            <4>1. id \in Ids /\ id \in Nat /\ id # MaxCases
                BY <1>2, ResumeAssumption DEF Ids
            <4>2. id < Complete' /\ entries'[id + 1].passed_det
                BY <1>1, <2>1 DEF OnlyComplete
            <4>3. id + 1 \in DOMAIN entries' /\ id # Hole'
                <5>1. Complete' \in Int
                    BY <3>1, ResumeAssumption DEF Complete
                <5>2. entries' \in Seq(EntryType)
                    BY DEF TypeInv, TypeOK, EntryTypes, EntryType
                <5> QED BY <3>1, <4>1, <4>2, <5>1, <5>2
            <4>4. queue'.file[id] = entries'[id + 1].case
                BY <2>1, <4>1, <4>2, <4>3 DEF MatchOK
            <4> QED BY <1>1, <4>2, <4>3, <4>4 DEF EntriesMarked
        <3> QED BY <3>2
    <2>2. ASSUME queue'.det \subseteq queue.det,
                 \A id \in Ids : queue'.file[id] \in {queue.file[id], None, Empty}
          PROVE  \A id \in queue'.det : queue'.file[id] \in Cases => queue'.file[id] \in detDone'
        BY <1>1, <1>2, <2>2, StillMarked
    <2>3. CASE UNCHANGED queue
        BY <2>2, <2>3
    <2>4. CASE pc' \in Trimming /\ ~UNCHANGED queue
        <3>1. TrimUnlink \/ TrimOpen
            <4>1. ~(TruncateStats \/ FlushStats \/ SaveAuto \/ WriteAuto)
                <5>1. ~(SaveAuto \/ WriteAuto)
                    BY <2>4, AutoStep DEF Trimming, Tokening
                <5>2. \A c \in StatsCalls : {c[2], c[3]} \cap Trimming = {}
                    BY DEF StatsCalls, Trimming
                <5> QED BY <2>4, <5>1, <5>2 DEF TruncateStats, FlushStats, Goto
            <4>2. ~Setup
                BY <2>4 DEF Setup, Start, CheckStats, MoveQueue, WipeQueue, MakeQueue, MakeState,
                   ReadTestcases, PivotLink, PivotCopy, PivotMark, PivotEnd, NukeResume, Delete,
                   FindStartPosition, Refuse, Goto, Trimming
            <4>3. ~(Killed \/ UNCHANGED vars)
                BY <2>4 DEF Killed, Trimming, vars, diskVars
            <4> QED BY <2>4, <4>1, <4>2, <4>3 DEF Next, Fuzz, Over, SeekEntry, NextEntry, KeepCase,
                    SaveOpen, SaveWrite, TrimWrite, MarkDetDone, LearnToken, LeaveLoop, Goto, Trimming
        <3>2. current_entry \in Ids
            BY DEF TypeInv, TypeOK, EntryTypes
        <3>3. \E c \in {None, Empty} : queue' = [queue EXCEPT !.file[current_entry] = c]
            BY <3>1 DEF TrimUnlink, TrimOpen, WriteFile
        <3>4. queue'.det = queue.det /\ \A id \in Ids : queue'.file[id] \in {queue.file[id], None, Empty}
            BY <1>2, <3>2, <3>3, FileWritten
        <3> QED BY <2>2, <3>4
    <2>5. CASE pc' \notin Holding /\ ~UNCHANGED queue
        <3>1. MoveQueue \/ WipeQueue \/ SaveAuto \/ WriteAuto
            BY <2>5 DEF Next, Setup, Fuzz, Over, Start, CheckStats, MakeQueue, MakeState, ReadTestcases,
               PivotLink, PivotCopy, PivotMark, PivotEnd, NukeResume, FindStartPosition, TruncateStats,
               FlushStats, SeekEntry, NextEntry, KeepCase, SaveOpen, SaveWrite, TrimUnlink, TrimOpen,
               TrimWrite, MarkDetDone, LearnToken, LeaveLoop, Killed, Goto, vars, diskVars,
               Holding, Loaded, Pivoting, Settling, Looping, Tokening, Saving, Trimming
        <3>2. CASE MoveQueue
            <4>1. queue' = NoDir
                BY <2>5, <3>2 DEF MoveQueue
            <4> QED BY <4>1, NoDirFields
        <3>3. CASE WipeQueue
            <4>1. queue' \in Erased(queue)
                BY <2>5, <3>3 DEF WipeQueue, Delete
            <4> QED BY <1>2, <2>2, <4>1, ErasedDir
        <3>4. CASE SaveAuto \/ WriteAuto
            <4>1. queue'.det = queue.det /\ queue'.file = queue.file
                BY <3>4, AutoStep
            <4> QED BY <2>2, <4>1
        <3> QED BY <3>1, <3>2, <3>3, <3>4
    <2> QED BY <2>1, <2>3, <2>4, <2>5
<1>4. \A id \in resume'.det : resume'.file[id] \in Cases => resume'.file[id] \in detDone'
    <2>1. CASE MoveQueue
        <3>1. resume' \in {queue, resume}
            BY <2>1 DEF MoveQueue
        <3> QED BY <1>1, <1>2, <3>1 DEF DirMarked
    <2>2. CASE NukeResume
        <3>1. resume' \in Erased(resume) \/ resume' = resume
            BY <2>2 DEF NukeResume, Delete
        <3>2. CASE resume' \in Erased(resume)
            BY <1>1, <1>2, <3>2, ErasedDir, StillMarked
        <3> QED BY <1>1, <1>2, <3>1, <3>2 DEF DirMarked
    <2>3. CASE ~(MoveQueue \/ NukeResume)
        <3>1. UNCHANGED resume
            BY <2>3 DEF Next, Setup, Fuzz, Over, Start, CheckStats, WipeQueue, MakeQueue, MakeState,
               ReadTestcases, PivotLink, PivotCopy, PivotMark, PivotEnd, FindStartPosition,
               TruncateStats, FlushStats, SaveAuto, WriteAuto, SeekEntry, NextEntry, KeepCase,
               SaveOpen, SaveWrite, TrimUnlink, TrimOpen, TrimWrite, MarkDetDone, LearnToken, LeaveLoop, Killed, vars, diskVars
        <3> QED BY <1>1, <1>2, <3>1 DEF DirMarked
    <2> QED BY <2>1, <2>2, <2>3
<1> QED BY <1>1, <1>3, <1>4 DEF DetInv, DetMarkTrue, EntriesMarked, OnlyComplete

\* A mark under deterministic_done/ names a case that finished the deterministic stages,
\* however often gaps in the numbering have shifted the names.
THEOREM DetMarkAlways == Spec => []DetMarkTrue
<1>1. Init => DetInv
    BY NoDirFields DEF Init, DetInv, DetMarkTrue, Holding, Loaded, Pivoting, Settling, Looping,
       Tokening, Saving,
       Trimming
<1>2. TypeInv /\ DiskOK /\ MatchOK /\ DetInv /\ [Next]_vars => DetInv'
    BY TypeStep, MatchStep, DetStep
<1>3. DetInv => DetMarkTrue
    BY DEF DetInv
<1> QED BY <1>1, <1>2, <1>3, MatchAlways, PTL DEF Spec

-----------------------------------------------------------------------------
(* Which test cases a crash can cost.                                       *)

\* The cases of the entries whose file is complete are in queue/, but for one whose
\* trimmed version is being written.
LEMMA WrittenFound ==
    ASSUME TypeInv, MatchOK, pc \in Holding, NEW c \in Written
    PROVE  c \in CasesIn(queue) \/ (pc \in Trimming /\ c = Current.case)
<1> USE Positions
<1>1. PICK k \in 1 .. Complete : c = entries[k].case
    BY DEF Written
<1>2. /\ Complete \in Int /\ Complete <= Len(entries)
      /\ pc \notin Trimming => Hole >= Complete
      /\ pc \in Trimming => Hole = current_entry
    BY DEF Complete, Hole, Saving, Trimming, TypeInv, ControlOK
<1>3. k - 1 \in Nat /\ k - 1 < Len(entries) /\ k - 1 < Complete /\ (k - 1) + 1 = k
    BY <1>1, <1>2
<1>4. k - 1 \in Ids /\ entries[k].case \in Cases
    BY <1>3, EntryAt
<1>5. CASE k - 1 = Hole
    <2>1. pc \in Trimming /\ k = current_entry + 1
        BY <1>2, <1>3, <1>5 DEF Hole
    <2> QED BY <1>1, <2>1 DEF Current
<1>6. CASE k - 1 # Hole
    <2>1. queue.file[k - 1] = entries[k].case
        BY <1>3, <1>4, <1>6 DEF MatchOK
    <2> QED BY <1>1, <1>4, <2>1, DirFields DEF TypeInv, TypeOK, DiskTypes
<1> QED BY <1>5, <1>6

\* While the output directory is taken over.
LEMMA FillFrame ==
    ASSUME LossInv, pc \in Filling, pc' \in Filling, UNCHANGED <<in_place_resume, staleResume, Lost, resume>>,
           kept' \subseteq kept \cup (IF in_place_resume THEN {} ELSE Written'),
           Written \subseteq Written',
           in_place_resume /\ pc' \in Pivoting => CasesIn(resume) \subseteq EntryCases'
    PROVE  LossInv'
<1>1. UNCHANGED Vacant(resume) /\ UNCHANGED CasesIn(resume)
    BY DEF Vacant, CasesIn
<1>2. pc' \notin {"down", "check", "move"} \cup Late
    BY DEF Filling, Late, Pivoting, Settling, Looping, Tokening, Saving, Trimming
<1> QED BY <1>1, <1>2 DEF LossInv

\* After that.
LEMMA LateFrame ==
    ASSUME LossInv, pc \in Late, pc' \in Late, UNCHANGED <<in_place_resume, staleResume, Lost, resume>>,
           pc # "nuke", pc' # "nuke", kept' \subseteq kept \cup Written', Written \subseteq Written'
    PROVE  LossInv'
<1>1. UNCHANGED Vacant(resume)
    BY DEF Vacant
<1>2. pc' \notin {"down", "check", "move"} \cup Filling
    BY DEF Filling, Late, Pivoting, Settling, Looping, Tokening, Saving, Trimming
<1>3. kept \ Lost \subseteq Written /\ (~staleResume => Vacant(resume)) /\ (in_place_resume => ~staleResume)
    BY DEF LossInv
<1>4. kept' \ Lost' \subseteq Written'
    BY <1>3
<1>5. pc' \notin Pivoting
    BY <1>2 DEF Filling
<1> QED BY <1>1, <1>2, <1>3, <1>4, <1>5 DEF LossInv

\* Deleting a directory never fails, whatever an earlier process left of it.
LEMMA DeleteStep ==
    ASSUME NEW d \in Dirs, NEW e, NEW next, Delete(d, e, next)
    PROVE  /\ (e \in Erased(d) /\ pc' = pc) \/ (e = d /\ pc' = next /\ ~d.there)
           /\ why' = why
<1>1. Erased(d) = {} => ~d.there
    BY ErasedNone
<1>2. CASE e \in Erased(d) /\ UNCHANGED <<pc, why>>
    BY <1>2
<1>3. CASE /\ Erased(d) = {} /\ e = d
           /\ IF d.there THEN Refuse("leftover") ELSE pc' = next /\ UNCHANGED why
    BY <1>1, <1>3
<1> QED BY <1>2, <1>3 DEF Delete

\* No step loses a test case, outside the known windows.
LEMMA LossStep ==
    ASSUME TypeInv, TypeInv', DiskOK, DiskOK', MatchOK, LossInv, [Next]_vars
    PROVE  LossInv'
<1> USE Positions
<1>0. /\ queue \in Dirs /\ resume \in Dirs /\ DirOK(queue) /\ DirOK(resume) /\ ControlOK
      /\ CasesIn(NoDir) = {} /\ Vacant(NoDir)
    BY NoDirFields, VacantDir DEF TypeInv, TypeOK, DiskTypes, DiskOK
<1>1. CASE Start
    <2>1. pc = "down" /\ pc' = "check" /\ UNCHANGED <<queue, resume, kept, trimCut, nukeCut, staleResume>>
        BY <1>1 DEF Start, diskVars, cutVars
    <2>2. UNCHANGED Recoverable /\ UNCHANGED Lost
        BY <2>1 DEF Recoverable, Vacant, CasesIn, Lost
    <2> QED BY <2>1, <2>2 DEF LossInv, Filling, Late, Pivoting, Settling, Looping, Tokening,
       Saving, Trimming
<1>2. CASE CheckStats
    <2>1. pc = "check" /\ UNCHANGED <<queue, resume, trimCut, nukeCut, in_place_resume, entries>>
        BY <1>2 DEF CheckStats, diskVars, procVars, cutVars
    <2>2. UNCHANGED Recoverable /\ UNCHANGED Lost /\ UNCHANGED Vacant(resume)
        BY <2>1 DEF Recoverable, Vacant, CasesIn, Lost
    <2>3. \/ pc' = "down" /\ UNCHANGED <<kept, staleResume>>
          \/ in_place_resume /\ pc' = "move" /\ kept' = (IF staleResume THEN {} ELSE kept) /\ ~staleResume'
          \/ ~in_place_resume /\ pc' = "wipe" /\ kept' = {} /\ staleResume' = ~Vacant(resume)
        BY <1>2 DEF CheckStats, Refuse, cutVars
    <2>4. kept' \subseteq kept /\ (~staleResume \/ kept' = {} \/ staleResume')
        BY <2>3
    <2> QED BY <2>1, <2>2, <2>3, <2>4
            DEF LossInv, Filling, Late, Pivoting, Settling, Looping, Tokening, Saving, Trimming
<1>3. CASE MoveQueue
    <2>1. /\ pc = "move" /\ pc' = "wipe" /\ in_place_resume /\ ~staleResume
          /\ UNCHANGED <<in_place_resume, staleResume, kept, trimCut, nukeCut>>
        BY <1>0, <1>3 DEF MoveQueue, Goto, procVars, pastVars, cutVars, ControlOK, LossInv
    <2>2. kept \ Lost \subseteq Recoverable /\ UNCHANGED Lost
        BY <2>1 DEF LossInv, Lost
    <2>3. Recoverable \subseteq CasesIn(resume')
        <3>1. CASE Vacant(resume) /\ queue.there
            BY <1>3, <3>1 DEF MoveQueue, MoveSucceeds, Recoverable
        <3>2. CASE Vacant(resume) /\ ~queue.there
            BY <1>0, <3>2, VacantDir DEF DirOK, Recoverable
        <3>3. CASE ~Vacant(resume)
            BY <1>3, <3>3 DEF MoveQueue, MoveSucceeds, Recoverable
        <3> QED BY <3>1, <3>2, <3>3
    <2>4. kept' \ Lost' \subseteq CasesIn(resume)'
        BY <2>1, <2>2, <2>3 DEF CasesIn
    <2> QED BY <2>1, <2>4 DEF LossInv, Filling, Late, Pivoting, Settling, Looping, Tokening,
       Saving, Trimming
<1>4. CASE WipeQueue \/ MakeQueue \/ MakeState
    <2>1. /\ pc \in {"wipe", "mkdir", "mkstate"} /\ pc' \in {"wipe", "mkdir", "mkstate", "read"}
          /\ UNCHANGED <<resume, in_place_resume, entries, kept, trimCut, nukeCut, staleResume>>
        <3>1. CASE WipeQueue
            BY <1>0, <3>1, DeleteStep DEF WipeQueue, procVars, pastVars, cutVars
        <3>2. CASE MakeQueue \/ MakeState
            BY <3>2 DEF MakeQueue, MakeState, Goto, procVars, pastVars, cutVars
        <3> QED BY <1>4, <3>1, <3>2
    <2>2. UNCHANGED Written /\ UNCHANGED Lost
        BY <2>1 DEF Written, Complete, Lost, Saving
    <2>3. pc \in Filling /\ pc' \in Filling /\ pc' \notin Pivoting
        BY <2>1 DEF Filling, Pivoting
    <2> QED BY <2>1, <2>2, <2>3, FillFrame
<1>5. CASE ReadTestcases
    <2>1. /\ pc = "read" /\ UNCHANGED <<resume, in_place_resume, kept, trimCut, nukeCut, staleResume>>
          /\ pc' \in {"down", "pivot"}
        BY <1>5 DEF ReadTestcases, Refuse, diskVars, pastVars, cutVars
    <2>2. Written = {}
        BY <1>0, <2>1 DEF Written, Complete, Saving, ControlOK, Preparing
    <2>3. CASE in_place_resume
        <3>1. entries' \in Scanned(resume)
            BY <1>5, <2>3 DEF ReadTestcases
        <3>2. CasesIn(resume) = EntryCases'
            BY <1>0, <3>1, ScannedEntries DEF EntryCases
        <3>3. CASE pc' = "pivot"
            <4>1. UNCHANGED Lost
                BY <2>1 DEF Lost
            <4>2. Written \subseteq Written' /\ pc \in Filling /\ pc' \in Filling
                BY <2>1, <2>2, <3>3 DEF Filling, Pivoting
            <4> QED BY <2>1, <3>2, <4>1, <4>2, FillFrame
        <3>4. CASE pc' = "down"
            <4>1. entries' = <<>>
                BY <1>5, <3>4 DEF ReadTestcases
            <4>2. CasesIn(resume) = {}
                BY <3>2, <4>1 DEF EntryCases
            <4>3. kept \ Lost = {} /\ UNCHANGED Lost
                BY <2>1, <2>3, <4>2 DEF LossInv, Filling, Lost
            <4> QED BY <2>1, <3>4, <4>3 DEF LossInv, Filling, Late, Pivoting, Settling, Looping,
               Tokening, Saving,
                       Trimming
        <3> QED BY <2>1, <3>3, <3>4
    <2>4. CASE ~in_place_resume
        <3>1. kept \ Lost = {} /\ (~staleResume => Vacant(resume)) /\ UNCHANGED Lost
            BY <2>1, <2>2, <2>4 DEF LossInv, Filling, Lost
        <3>2. UNCHANGED Vacant(resume)
            BY <2>1 DEF Vacant
        <3> QED BY <2>1, <2>4, <3>1, <3>2 DEF LossInv, Filling, Late, Pivoting, Settling, Looping,
           Tokening, Saving,
                   Trimming
    <2> QED BY <2>3, <2>4
<1>6. CASE PivotLink \/ PivotCopy \/ PivotMark
    <2>1. /\ pc \in Pivoting /\ pc' \in Pivoting
          /\ UNCHANGED <<resume, in_place_resume, entries, trimCut, nukeCut, staleResume>>
        BY <1>6 DEF PivotLink, PivotCopy, PivotMark, Goto, Pivoting, procVars, cutVars
    <2>2. Complete <= Complete' /\ Complete \in Nat /\ Complete' \in Nat
        BY <1>6 DEF PivotLink, PivotCopy, PivotMark, Goto, Complete, procVars
    <2>3. Written \subseteq Written'
        BY <2>1, <2>2 DEF Written
    <2>4. kept' \subseteq kept \cup (IF in_place_resume THEN {} ELSE Written')
        <3>1. CASE PivotMark
            <4>1. /\ pc = "mark" /\ pos \in 0 .. Complete - 1
                  /\ kept' = IF in_place_resume THEN kept ELSE kept \cup {entries[pos + 1].case}
                BY <3>1 DEF PivotMark, Goto, Complete
            <4>2. entries[pos + 1].case \in Written
                BY <2>2, <4>1 DEF Written
            <4> QED BY <2>3, <4>1, <4>2
        <3>2. CASE PivotLink \/ PivotCopy
            BY <3>2 DEF PivotLink, PivotCopy, pastVars
        <3> QED BY <1>6, <3>1, <3>2
    <2>5. UNCHANGED Lost /\ UNCHANGED EntryCases
        BY <2>1 DEF Lost, EntryCases
    <2>6. in_place_resume => CasesIn(resume) \subseteq EntryCases'
        BY <2>1, <2>5 DEF LossInv
    <2> QED BY <2>1, <2>3, <2>4, <2>5, <2>6, FillFrame DEF Filling
<1>7. CASE PivotEnd
    <2>1. /\ pc = "pivot" /\ pos = Len(entries) /\ pc' = (IF in_place_resume THEN "nuke" ELSE "seek")
          /\ UNCHANGED <<resume, in_place_resume, entries, kept, trimCut, nukeCut, staleResume>>
        BY <1>7 DEF PivotEnd, diskVars, procVars, pastVars, cutVars
    <2>2. Complete = Len(entries) /\ Complete' = Len(entries)
        BY <2>1 DEF Complete, Saving
    <2>3. UNCHANGED Written /\ UNCHANGED Lost /\ Written = EntryCases /\ UNCHANGED Vacant(resume)
        BY <2>1, <2>2 DEF Written, EntryCases, Lost, Vacant
    <2>4. /\ kept' \ Lost' \subseteq Written' /\ (in_place_resume => ~staleResume)
          /\ ~in_place_resume /\ ~staleResume => Vacant(resume)
        <3>1. pc \in Filling /\ pc \in Pivoting
            BY <2>1 DEF Filling, Pivoting
        <3> QED BY <2>1, <2>3, <3>1 DEF LossInv
    <2> QED BY <2>1, <2>3, <2>4 DEF LossInv, Filling, Late, Pivoting, Settling, Looping, Tokening,
       Saving, Trimming
<1>8. CASE NukeResume
    <2>1. /\ pc = "nuke" /\ in_place_resume
          /\ UNCHANGED <<in_place_resume, entries, kept, trimCut, nukeCut, staleResume>>
        BY <1>0, <1>8 DEF NukeResume, procVars, pastVars, cutVars, ControlOK
    <2>2. pc' = "nuke" \/ (pc' = "seek" /\ UNCHANGED resume /\ ~resume.there)
        BY <1>0, <1>8, <2>1, DeleteStep DEF NukeResume
    <2>3. UNCHANGED Written /\ UNCHANGED Lost
        BY <2>1, <2>2 DEF Written, Complete, Lost, Saving
    <2>4. pc' = "seek" => Vacant(resume)'
        BY <1>0, <2>2 DEF DirOK, Vacant
    <2>5. kept \ Lost \subseteq Written /\ ~staleResume
        BY <2>1 DEF LossInv, Late, Settling
    <2> QED BY <2>1, <2>2, <2>3, <2>4, <2>5
            DEF LossInv, Filling, Late, Pivoting, Settling, Looping, Tokening, Saving, Trimming
<1>9. CASE FindStartPosition \/ TruncateStats \/ FlushStats \/ SeekEntry \/ NextEntry \/ LearnToken
           \/ LeaveLoop
    <2>1. UNCHANGED <<resume, in_place_resume, entries, kept, trimCut, nukeCut, staleResume>>
        BY <1>9 DEF FindStartPosition, TruncateStats, FlushStats, SeekEntry, NextEntry, LearnToken,
           LeaveLoop, diskVars, procVars, pastVars, cutVars
    <2>2. {pc, pc'} \subseteq Late \ ({"nuke"} \cup Saving)
        <3>1. CASE TruncateStats \/ FlushStats
            <4>1. \E c \in StatsCalls : pc \in {c[1], c[2]} /\ pc' \in {c[2], c[3]}
                BY <3>1 DEF TruncateStats, FlushStats, Goto
            <4> QED BY <4>1 DEF StatsCalls, Late, Settling, Looping, Tokening, Saving
        <3>2. CASE ~(TruncateStats \/ FlushStats)
            BY <1>9, <3>2 DEF FindStartPosition, SeekEntry, NextEntry, LearnToken, LeaveLoop, Goto, Late,
               Settling, Looping, Tokening, Saving
        <3> QED BY <3>1, <3>2
    <2>3. UNCHANGED Written /\ UNCHANGED Lost
        <3>1. Complete = Len(entries) /\ Complete' = Len(entries)
            BY <2>1, <2>2 DEF Complete, Late, Settling, Looping, Tokening, Saving, Trimming
        <3> QED BY <2>1, <3>1 DEF Written, Lost
    <2> QED BY <2>1, <2>2, <2>3, LateFrame
<1>10. CASE SaveAuto \/ WriteAuto
    <2>1. /\ UNCHANGED <<resume, in_place_resume, entries, kept, trimCut, nukeCut, staleResume>>
          /\ queue'.file = queue.file
        BY <1>10, AutoStep
    <2>2. /\ pc \in {"auto0", "auto", "auto1"} \cup Tokening
          /\ pc' \in {"loop", "fuzz", "down"} \cup Tokening
        BY <1>10, AutoStep
    <2>3. pc \in Late /\ pc \in Holding /\ pc \notin Trimming
        BY <2>2 DEF Late, Holding, Loaded, Settling, Looping, Tokening, Trimming
    <2>4. UNCHANGED Written /\ UNCHANGED Lost
        BY <2>1, <2>2 DEF Written, Complete, Lost, Saving, Tokening
    <2>5. CASE pc' # "down"
        <3>1. pc' \in Late /\ pc' # "nuke" /\ pc # "nuke"
            BY <2>2, <2>5 DEF Late, Looping, Tokening
        <3> QED BY <2>1, <2>3, <2>4, <3>1, LateFrame
    <2>6. CASE pc' = "down"
        <3>2. UNCHANGED CasesIn(queue) /\ UNCHANGED Vacant(resume)
            BY <2>1 DEF CasesIn, Vacant
        <3>3. kept \ Lost \subseteq CasesIn(queue) /\ (~staleResume => Vacant(resume))
            BY <2>2, <2>3, WrittenFound DEF LossInv, Tokening
        <3>4. ~staleResume' => kept' \ Lost' \subseteq Recoverable'
            BY <2>1, <2>4, <3>2, <3>3 DEF Recoverable
        <3> QED BY <2>6, <3>4 DEF LossInv, Filling, Late, Pivoting, Settling, Looping, Tokening,
           Saving, Trimming
    <2> QED BY <2>5, <2>6
<1>11. CASE KeepCase
    <2>1. /\ pc = "fuzz" /\ pc' = "save_open"
          /\ UNCHANGED <<resume, in_place_resume, kept, trimCut, nukeCut, staleResume>>
          /\ entries' = Append(entries, Entry(found + 1, Len(entries), FALSE))
        BY <1>11 DEF KeepCase, Goto, diskVars, cutVars
    <2>2. /\ Len(entries') = Len(entries) + 1
          /\ \A k \in 1 .. Len(entries) : entries'[k] = entries[k]
        BY <2>1
    <2>3. Complete = Len(entries) /\ Complete' = Len(entries)
        BY <2>1, <2>2 DEF Complete, Saving
    <2>4. UNCHANGED Written /\ UNCHANGED Lost
        BY <2>1, <2>2, <2>3 DEF Written, Lost
    <2>5. {pc, pc'} \subseteq Late \ {"nuke"}
        BY <2>1 DEF Late, Looping, Tokening, Saving
    <2> QED BY <2>1, <2>4, <2>5, LateFrame
<1>12. CASE SaveOpen \/ SaveWrite \/ TrimUnlink \/ TrimOpen \/ TrimWrite
    <2>1. UNCHANGED <<resume, in_place_resume, entries, trimCut, nukeCut, staleResume>>
        BY <1>12 DEF SaveOpen, SaveWrite, TrimUnlink, TrimOpen, TrimWrite, procVars, pastVars, cutVars
    <2>2. \/ SaveWrite /\ pc = "save_write" /\ pc' = "fuzz" /\ kept' = kept \cup {entries[Len(entries)].case}
          \/ pc = "save_open" /\ pc' = "save_write" /\ UNCHANGED kept
          \/ {pc, pc'} \subseteq {"fuzz"} \cup Trimming /\ UNCHANGED kept
        BY <1>12 DEF SaveOpen, SaveWrite, TrimUnlink, TrimOpen, TrimWrite, Goto, Trimming, pastVars
    <2>3. {pc, pc'} \subseteq Late \ {"nuke"} /\ UNCHANGED Lost
        BY <2>1, <2>2 DEF Late, Looping, Tokening, Saving, Trimming, Lost
    <2>4. /\ Complete \in Int /\ Complete' \in Int /\ Complete <= Complete'
          /\ pc = "save_write" /\ pc' = "fuzz" => Complete' = Len(entries)
        BY <2>1, <2>2 DEF Complete, Saving, Trimming
    <2>5. Written \subseteq Written'
        BY <2>1, <2>4 DEF Written
    <2>6. kept' \subseteq kept \cup Written'
        <3>1. CASE pc = "save_write" /\ pc' = "fuzz" /\ kept' = kept \cup {entries[Len(entries)].case}
            <4>1. Len(entries) \in 1 .. Complete'
                BY <1>0, <2>4, <3>1 DEF ControlOK, Loaded, Looping, Tokening, Saving
            <4> QED BY <2>1, <3>1, <4>1 DEF Written
        <3> QED BY <2>2, <3>1
    <2> QED BY <2>1, <2>3, <2>5, <2>6, LateFrame
<1>13. CASE MarkDetDone
    <2>1. /\ pc = "fuzz" /\ pc' = "fuzz"
          /\ UNCHANGED <<resume, in_place_resume, kept, trimCut, nukeCut, staleResume>>
          /\ entries' = [entries EXCEPT ![current_entry + 1].passed_det = TRUE]
        BY <1>13 DEF MarkDetDone, Goto, cutVars
    <2>2. Len(entries') = Len(entries) /\ \A k \in DOMAIN entries : entries'[k].case = entries[k].case
        <3>1. \A k \in DOMAIN entries : entries[k] \in EntryType
            OBVIOUS
        <3> QED BY <2>1, <3>1 DEF EntryType
    <2>3. Complete = Len(entries) /\ Complete' = Len(entries)
        BY <2>1, <2>2 DEF Complete, Saving
    <2>4. UNCHANGED Written /\ UNCHANGED Lost
        BY <2>1, <2>2, <2>3 DEF Written, Lost
    <2>5. {pc, pc'} \subseteq Late \ {"nuke"}
        BY <2>1 DEF Late, Looping
    <2> QED BY <2>1, <2>4, <2>5, LateFrame
<1>14. CASE Killed
    <2>1. pc # "down" /\ pc' = "down" /\ UNCHANGED <<queue, resume, kept, staleResume>>
        BY <1>14 DEF Killed, diskVars, pastVars
    <2>2. /\ trimCut' = IF pc \in Trimming THEN trimCut \cup {Current.case} ELSE trimCut
          /\ nukeCut' = IF pc = "nuke" /\ ~Vacant(resume) THEN nukeCut \cup (kept \ CasesIn(resume))
                                                          ELSE nukeCut
        BY <1>14 DEF Killed, Trimming
    <2>3. Lost \subseteq Lost'
        BY <2>2 DEF Lost
    <2>4. UNCHANGED Recoverable
        BY <2>1 DEF Recoverable, Vacant, CasesIn
    <2>5. ~staleResume => kept \ Lost' \subseteq Recoverable
        <3> SUFFICES ASSUME ~staleResume PROVE kept \ Lost' \subseteq Recoverable
            OBVIOUS
        <3>1. CASE pc \in {"check", "move"}
            BY <2>3, <3>1 DEF LossInv
        <3>2. CASE pc \in Filling /\ in_place_resume
            <4>1. kept \ Lost' \subseteq CasesIn(resume)
                BY <2>3, <3>2 DEF LossInv
            <4>2. Vacant(resume) => CasesIn(resume) = {}
                BY <1>0, VacantDir
            <4> QED BY <4>1, <4>2 DEF Recoverable
        <3>3. CASE pc \in Filling /\ ~in_place_resume
            <4>1. kept \ Lost \subseteq Written /\ Vacant(resume)
                BY <3>3 DEF LossInv
            <4>2. CASE pc \in {"wipe", "mkdir"}
                <5>1. Written = {}
                    BY <1>0, <4>2 DEF Written, Complete, Saving, ControlOK, Preparing
                <5> QED BY <2>3, <4>1, <5>1
            <4>3. CASE pc \notin {"wipe", "mkdir"}
                <5>1. pc \in Holding /\ pc \notin Trimming
                    BY <3>3, <4>3 DEF Filling, Holding, Loaded, Pivoting, Trimming
                <5> QED BY <2>3, <4>1, <5>1, WrittenFound DEF Recoverable
            <4> QED BY <4>2, <4>3
        <3>4. CASE pc \in Late
            <4>1. kept \ Lost \subseteq Written /\ pc \in Holding
                BY <3>4 DEF LossInv, Late, Holding, Loaded
            <4>2. CASE pc = "nuke" /\ ~Vacant(resume)
                BY <2>2, <4>2 DEF Lost, Recoverable
            <4>3. CASE pc # "nuke" \/ Vacant(resume)
                <5>1. Vacant(resume)
                    BY <3>4, <4>3 DEF LossInv
                <5>2. ASSUME NEW c \in kept \ Lost' PROVE c \in CasesIn(queue)
                    <6>1. c \in CasesIn(queue) \/ (pc \in Trimming /\ c = Current.case)
                        BY <2>3, <4>1, <5>2, WrittenFound
                    <6> QED BY <2>2, <5>2, <6>1 DEF Lost
                <5> QED BY <5>1, <5>2 DEF Recoverable
            <4> QED BY <4>2, <4>3
        <3>5. pc \in {"check", "move"} \cup Filling \cup Late
            BY <1>0, <2>1 DEF ControlOK, Preparing, Loaded, Filling, Late
        <3> QED BY <3>1, <3>2, <3>3, <3>4, <3>5
    <2> QED BY <2>1, <2>4, <2>5
            DEF LossInv, Filling, Late, Pivoting, Settling, Looping, Tokening, Saving, Trimming
<1>15. CASE UNCHANGED vars
    <2>1. /\ UNCHANGED <<queue, resume, kept, trimCut, nukeCut, staleResume, in_place_resume, pc>>
          /\ UNCHANGED <<entries, pos, current_entry>>
        BY <1>15 DEF vars, diskVars, procVars, pastVars, cutVars
    <2>2. /\ UNCHANGED Recoverable /\ UNCHANGED Lost /\ UNCHANGED Written /\ UNCHANGED EntryCases
          /\ UNCHANGED Vacant(resume) /\ UNCHANGED CasesIn(resume)
        BY <2>1 DEF Recoverable, Vacant, CasesIn, Lost, Written, Complete, EntryCases
    <2> QED BY <2>1, <2>2 DEF LossInv
<1> QED BY <1>1, <1>2, <1>3, <1>4, <1>5, <1>6, <1>7, <1>8, <1>9, <1>10, <1>11, <1>12, <1>13, <1>14, <1>15
        DEF Next, Setup, Fuzz, Over

\* Until the cases are linked, they are in _resume/; then they are in queue/.
LEMMA LossAlways == Spec => [](TypeInv /\ DiskOK /\ MatchOK /\ LossInv)
<1>1. Init => LossInv
    BY DEF Init, LossInv, Filling, Late, Pivoting, Settling, Looping, Tokening, Saving, Trimming
<1>2. TypeInv /\ DiskOK /\ MatchOK /\ LossInv /\ [Next]_vars => LossInv'
    BY TypeStep, LossStep
<1> QED BY <1>1, <1>2, MatchAlways, PTL DEF Spec

\* Whenever no process is running, every test case that was once complete can be resumed from,
\* but for those that the windows in trim_case and nuke_resume_dir have cost.
THEOREM KnownLossAlways == Spec => []KnownLossOnly
<1>1. LossInv => KnownLossOnly
    BY DEF LossInv, KnownLossOnly, Lost
<1> QED BY <1>1, LossAlways, PTL

\* fuzzer_stats is cut off only while write_stats_file is at work, or by a kill.
LEMMA StatsStep ==
    ASSUME TypeInv, StatsInv, [Next]_vars
    PROVE  StatsInv'
<1>1. CASE TruncateStats
    <2>1. \E c \in StatsCalls : pc' = c[2]
        BY <1>1 DEF TruncateStats, Goto
    <2> QED BY <2>1 DEF StatsCalls, StatsInv
<1>2. CASE FlushStats
    <2>1. stats'.kind = "whole"
        BY <1>2 DEF FlushStats
    <2> QED BY <2>1 DEF StatsInv
<1>3. CASE MakeQueue
    <2>1. pc = "mkdir" /\ UNCHANGED statsCut /\ (stats' = stats \/ stats'.kind = "absent")
        BY <1>3 DEF MakeQueue, Goto, cutVars
    <2> QED BY <2>1 DEF StatsInv
<1>4. CASE Killed
    BY <1>4 DEF Killed, StatsInv, diskVars
<1>5. CASE SaveAuto \/ WriteAuto
    <2>1. UNCHANGED <<stats, statsCut>> /\ pc \notin {"flush0", "flush", "flush1"}
        BY <1>5, AutoStep DEF Tokening
    <2> QED BY <2>1 DEF StatsInv
<1>6. CASE WipeQueue \/ NukeResume
    <2>1. UNCHANGED <<stats, statsCut>> /\ pc \notin {"flush0", "flush", "flush1"}
        BY <1>6 DEF WipeQueue, NukeResume, cutVars
    <2> QED BY <2>1 DEF StatsInv
<1>7. CASE UNCHANGED vars
    BY <1>7 DEF vars, diskVars, cutVars, StatsInv
<1>8. CASE Start \/ CheckStats \/ MoveQueue \/ MakeState \/ ReadTestcases \/ PivotLink \/ PivotCopy
           \/ PivotMark \/ PivotEnd \/ FindStartPosition
    <2>1. UNCHANGED <<stats, statsCut>> /\ pc \notin {"flush0", "flush", "flush1"}
        BY <1>8 DEF Start, CheckStats, MoveQueue, MakeState, ReadTestcases, PivotLink, PivotCopy,
           PivotMark, PivotEnd, FindStartPosition, Goto, diskVars, cutVars
    <2> QED BY <2>1 DEF StatsInv
<1>9. CASE SeekEntry \/ NextEntry \/ KeepCase \/ SaveOpen \/ SaveWrite \/ TrimUnlink \/ TrimOpen
           \/ TrimWrite \/ MarkDetDone \/ LearnToken \/ LeaveLoop
    <2>1. UNCHANGED <<stats, statsCut>> /\ pc \notin {"flush0", "flush", "flush1"}
        BY <1>9 DEF SeekEntry, NextEntry, KeepCase, SaveOpen, SaveWrite, TrimUnlink, TrimOpen,
           TrimWrite, MarkDetDone, LearnToken, LeaveLoop, Goto, diskVars, cutVars
    <2> QED BY <2>1 DEF StatsInv
<1> QED BY <1>1, <1>2, <1>3, <1>4, <1>5, <1>6, <1>7, <1>8, <1>9 DEF Next, Setup, Fuzz, Over

\* An in-place resume gives up for want of test cases only when the known windows have cost
\* them all; fuzzer_stats is malformed only after a process was killed in write_stats_file;
\* and delete_files and rmdir never fail on what earlier processes left in a directory.
THEOREM RefusalsAlways == Spec => []RefusalsKnown
<1>1. Init => RefusalsKnown /\ StatsInv
    BY DEF Init, RefusalsKnown, StatsInv
<1>2. ASSUME TypeInv, DiskOK, LossInv, StatsInv, RefusalsKnown, [Next]_vars PROVE RefusalsKnown'
    <2>1. queue \in Dirs /\ resume \in Dirs /\ ControlOK
        BY <1>2 DEF TypeInv, TypeOK, DiskTypes
    <2>2. CASE WipeQueue \/ NukeResume
        <3>1. UNCHANGED <<why, kept, trimCut, nukeCut, statsCut>>
            BY <2>1, <2>2, DeleteStep DEF WipeQueue, NukeResume, pastVars, cutVars
        <3> QED BY <1>2, <3>1 DEF RefusalsKnown
    <2>3. CASE ReadTestcases
        <3>1. UNCHANGED <<kept, trimCut, nukeCut, statsCut>> /\ pc = "read"
            BY <2>3 DEF ReadTestcases, pastVars, cutVars
        <3>2. CASE entries' = <<>> /\ in_place_resume
            <4>1. entries' \in Scanned(resume)
                BY <2>3, <3>2 DEF ReadTestcases
            <4>2. CasesIn(resume) = {}
                BY <2>1, <3>2, <4>1, ScannedEntries
            <4>3. kept \subseteq trimCut \cup nukeCut
                BY <1>2, <3>1, <3>2, <4>2 DEF LossInv, Filling, Lost
            <4>4. why' = "nocases"
                BY <2>3, <3>2 DEF ReadTestcases, Refuse
            <4> QED BY <3>1, <4>3, <4>4 DEF RefusalsKnown
        <3>3. CASE entries' = <<>> /\ ~in_place_resume
            <4>1. SeedEntries = <<>>
                BY <2>3, <3>3 DEF ReadTestcases
            <4>2. DOMAIN SeedEntries = 1 .. Seeds /\ 1 \in 1 .. Seeds
                BY ResumeAssumption DEF SeedEntries
            <4>3. DOMAIN <<>> = {}
                OBVIOUS
            <4> QED BY <4>1, <4>2, <4>3
        <3>4. CASE entries' # <<>>
            <4>1. UNCHANGED why
                BY <2>3, <3>4 DEF ReadTestcases
            <4> QED BY <1>2, <3>1, <4>1 DEF RefusalsKnown
        <3> QED BY <3>2, <3>3, <3>4
    <2>4. CASE Start \/ CheckStats
        <3>1. /\ why' \in {"none", "malformed", "atrisk"} \/ (why' = why /\ pc = "check")
              /\ why' = "malformed" /\ why # "malformed" => stats.kind = "torn" /\ pc = "check"
              /\ UNCHANGED statsCut
            BY <2>4 DEF Start, CheckStats, Refuse, cutVars
        <3>2. pc = "check" => why = "none"
            BY <2>1 DEF ControlOK
        <3>3. why' = "malformed" => statsCut'
            BY <1>2, <3>1, <3>2 DEF StatsInv, RefusalsKnown
        <3>4. why' \in {"none", "malformed", "atrisk"}
            BY <3>1, <3>2
        <3> QED BY <3>3, <3>4 DEF RefusalsKnown
    <2>5. CASE ~(WipeQueue \/ NukeResume \/ ReadTestcases \/ Start \/ CheckStats)
        <3>1. UNCHANGED why /\ (pc # "down" \/ UNCHANGED vars)
            <4>1. CASE TruncateStats \/ FlushStats \/ SaveAuto \/ WriteAuto
                <5>1. \A c \in StatsCalls : "down" \notin {c[1], c[2], c[3], c[4]}
                    BY DEF StatsCalls
                <5> QED BY <4>1, <5>1 DEF TruncateStats, FlushStats, SaveAuto, WriteAuto, Goto
            <4>2. CASE Setup
                BY <2>5, <4>2 DEF Setup, MoveQueue, MakeQueue, MakeState, PivotLink, PivotCopy, PivotMark,
                   PivotEnd, FindStartPosition, Goto
            <4>3. CASE Fuzz /\ ~(TruncateStats \/ FlushStats \/ SaveAuto \/ WriteAuto)
                BY <4>3 DEF Fuzz, SeekEntry, NextEntry, KeepCase, SaveOpen, SaveWrite, TrimUnlink, TrimOpen,
                   TrimWrite, MarkDetDone, LearnToken, LeaveLoop, Goto
            <4>4. CASE Killed \/ UNCHANGED vars
                BY <4>4 DEF Killed, vars
            <4> QED BY <1>2, <4>1, <4>2, <4>3, <4>4 DEF Next, Over
        <3>2. CASE pc # "down"
            BY <2>1, <3>1, <3>2 DEF ControlOK, RefusalsKnown
        <3>3. CASE UNCHANGED vars
            BY <1>2, <3>3 DEF vars, pastVars, cutVars, RefusalsKnown
        <3> QED BY <3>1, <3>2, <3>3
    <2> QED BY <2>2, <2>3, <2>4, <2>5
<1>3. TypeInv /\ DiskOK /\ LossInv /\ StatsInv /\ RefusalsKnown /\ [Next]_vars
         => (StatsInv /\ RefusalsKnown)'
    BY <1>2, StatsStep
<1> QED BY <1>1, <1>3, LossAlways, PTL DEF Spec

-----------------------------------------------------------------------------
(* The tokens.                                                              *)

\* Tokens that were saved stay saved.
LEMMA TokenStep ==
    ASSUME TypeInv, DiskOK, LossInv, LossInv', TokenInv, [Next]_vars
    PROVE  TokenInv'
<1>0. /\ queue \in Dirs /\ resume \in Dirs /\ DirOK(queue) /\ DirOK(resume) /\ ControlOK
      /\ Vacant(queue) => queue.auto = "none"
      /\ Vacant(resume) => resume.auto = "none"
    BY VacantDir DEF TypeInv, TypeOK, DiskTypes, DiskOK
<1> USE DEF Filling, Late, Pivoting, Settling, Looping, Tokening, Saving, Trimming
<1>1. CASE Start
    <2>1. pc = "down" /\ pc' = "check" /\ UNCHANGED <<queue, resume, learned, tokenCut, staleResume>>
        BY <1>1 DEF Start, diskVars, cutVars
    <2>2. UNCHANGED Vacant(resume)
        BY <2>1 DEF Vacant
    <2> QED BY <2>1, <2>2 DEF TokenInv, TokensSafe
<1>2. CASE CheckStats
    <2>1. pc = "check" /\ UNCHANGED <<queue, resume, tokenCut>>
        BY <1>2 DEF CheckStats, diskVars, cutVars
    <2>2. UNCHANGED Vacant(resume)
        BY <2>1 DEF Vacant
    <2>3. \/ pc' = "down" /\ UNCHANGED <<learned, staleResume>>
          \/ pc' = "move" /\ learned' = (IF staleResume THEN FALSE ELSE learned)
          \/ pc' = "wipe" /\ ~learned'
        BY <1>2 DEF CheckStats, Refuse, cutVars
    <2> QED BY <2>1, <2>2, <2>3 DEF TokenInv, TokensSafe
<1>3. CASE MoveQueue
    <2>1. /\ pc = "move" /\ pc' = "wipe" /\ in_place_resume /\ ~staleResume
          /\ UNCHANGED <<in_place_resume, learned, tokenCut>>
        BY <1>0, <1>3 DEF MoveQueue, Goto, procVars, pastVars, cutVars, ControlOK, LossInv
    <2>2. TokensSafe => resume'.auto = "whole"
        <3>1. TokensSafe => (IF Vacant(resume) THEN queue.auto ELSE resume.auto) = "whole"
            BY <2>1 DEF TokenInv
        <3>2. CASE Vacant(resume) /\ queue.there
            BY <1>3, <3>1, <3>2 DEF MoveQueue, MoveSucceeds
        <3>3. CASE Vacant(resume) /\ ~queue.there
            BY <1>0, <3>1, <3>3 DEF DirOK
        <3>4. CASE ~Vacant(resume)
            BY <1>3, <3>1, <3>4 DEF MoveQueue, MoveSucceeds
        <3> QED BY <3>2, <3>3, <3>4
    <2> QED BY <2>1, <2>2 DEF TokenInv, TokensSafe
<1>4. CASE WipeQueue \/ MakeQueue \/ MakeState
    <2>1. /\ pc \in {"wipe", "mkdir", "mkstate"} /\ pc' \in {"wipe", "mkdir", "mkstate", "read"}
          /\ UNCHANGED <<resume, in_place_resume, learned, tokenCut>>
        <3>1. CASE WipeQueue
            BY <1>0, <3>1, DeleteStep DEF WipeQueue, procVars, pastVars, cutVars
        <3>2. CASE MakeQueue \/ MakeState
            BY <3>2 DEF MakeQueue, MakeState, Goto, procVars, pastVars, cutVars
        <3> QED BY <1>4, <3>1, <3>2
    <2> QED BY <2>1 DEF TokenInv, TokensSafe
<1>5. CASE ReadTestcases
    <2>1. /\ pc = "read" /\ pc' \in {"down", "pivot"}
          /\ UNCHANGED <<queue, resume, in_place_resume, learned, tokenCut, staleResume>>
          /\ a_extras' = (in_place_resume /\ resume.auto = "whole")
          /\ auto_changed' = (in_place_resume /\ resume.auto = "whole")
        BY <1>5 DEF ReadTestcases, LoadedDirty, Refuse, diskVars, pastVars, cutVars
    <2>2. TokensSafe => in_place_resume /\ resume.auto = "whole" /\ ~Vacant(resume)
        BY <1>0, <2>1 DEF TokenInv
    <2>3. UNCHANGED Vacant(resume)
        BY <2>1 DEF Vacant
    <2>4. TokensSafe => a_extras' /\ auto_changed'
        BY <2>1, <2>2
    <2> QED BY <2>1, <2>2, <2>3, <2>4 DEF TokenInv, TokensSafe
<1>6. CASE PivotLink \/ PivotCopy \/ PivotMark \/ PivotEnd
    <2>1. /\ pc \in Pivoting /\ pc' \in Pivoting \cup {"nuke", "seek"}
          /\ UNCHANGED <<resume, in_place_resume, learned, tokenCut, a_extras, auto_changed>>
        BY <1>6 DEF PivotLink, PivotCopy, PivotMark, PivotEnd, Goto, diskVars, procVars, pastVars, cutVars
    <2> QED BY <2>1 DEF TokenInv, TokensSafe
<1>7. CASE NukeResume \/ FindStartPosition
    <2>1. /\ pc \in {"nuke", "seek"} /\ pc' \in {"nuke", "seek", "stats0"}
          /\ UNCHANGED <<learned, tokenCut, a_extras, auto_changed>>
        <3>1. CASE NukeResume
            BY <1>0, <3>1, DeleteStep DEF NukeResume, procVars, pastVars, cutVars
        <3>2. CASE FindStartPosition
            BY <3>2 DEF FindStartPosition, Goto, pastVars, cutVars
        <3> QED BY <1>7, <3>1, <3>2
    <2> QED BY <2>1 DEF TokenInv, TokensSafe
<1>8. CASE TruncateStats \/ FlushStats
    <2>1. \E c \in StatsCalls : \/ pc = c[1] /\ pc' = c[2]
                                \/ pc = c[2] /\ pc' = c[3]
        BY <1>8 DEF TruncateStats, FlushStats, Goto
    <2>2. \/ pc \in Settling /\ pc' \in Settling
          \/ pc \in Looping \ Tokening /\ pc' \in Looping \ Tokening
        BY <2>1 DEF StatsCalls
    <2>3. UNCHANGED <<queue, learned, tokenCut, a_extras, auto_changed>>
        BY <1>8 DEF TruncateStats, FlushStats, procVars, pastVars, cutVars
    <2>4. pc' \notin {"down", "check", "move", "wipe", "mkdir", "mkstate", "read"}
        BY <2>2
    <2> QED BY <2>2, <2>3, <2>4 DEF TokenInv, TokensSafe
<1>9. CASE SaveAuto
    <2>1. \E c \in StatsCalls :
             \/ auto_changed /\ a_extras /\ pc = c[3] /\ pc' = c[4]
             \/ ~(auto_changed /\ a_extras) /\ pc = c[3] /\ pc' = c[5] /\ UNCHANGED queue
        BY <1>9 DEF SaveAuto, Goto
    <2>2. \/ auto_changed /\ a_extras /\ pc' \in Tokening
          \/ /\ ~(auto_changed /\ a_extras) /\ UNCHANGED queue
             /\ pc \in {"auto0", "auto", "auto1"} /\ pc' \in {"loop", "fuzz", "down"}
        BY <2>1 DEF StatsCalls
    <2>3. UNCHANGED <<resume, learned, tokenCut, staleResume>> /\ UNCHANGED Vacant(resume)
        BY <1>9 DEF SaveAuto, pastVars, cutVars, Vacant
    <2>4. CASE auto_changed /\ a_extras /\ pc' \in Tokening
        BY <2>4 DEF TokenInv
    <2>5. CASE /\ ~(auto_changed /\ a_extras) /\ UNCHANGED queue
               /\ pc \in {"auto0", "auto", "auto1"} /\ pc' \in {"loop", "fuzz", "down"}
        <3>1. TokensSafe => queue.auto = "whole"
            BY <2>5 DEF TokenInv
        <3>2. pc' = "down" /\ ~staleResume => Vacant(resume)
            BY <2>5 DEF LossInv
        <3> QED BY <2>3, <2>5, <3>1, <3>2 DEF TokenInv, TokensSafe
    <2> QED BY <2>2, <2>4, <2>5
<1>10. CASE WriteAuto
    <2>1. pc \in Tokening /\ pc' \in {"loop", "fuzz", "down"}
        <3>1. \E c \in StatsCalls : pc = c[4] /\ pc' = c[5]
            BY <1>10 DEF WriteAuto, Goto
        <3> QED BY <3>1 DEF StatsCalls
    <2>2. queue'.auto = "whole" /\ UNCHANGED staleResume /\ UNCHANGED Vacant(resume)
        BY <1>0, <1>10 DEF WriteAuto, Dirs, Vacant
    <2>3. pc' = "down" /\ ~staleResume' => Vacant(resume)'
        BY <2>1, <2>2 DEF LossInv
    <2> QED BY <2>1, <2>2, <2>3 DEF TokenInv
<1>11. CASE Writing /\ pc \in Looping
    <2>1. /\ pc \in Looping \ Tokening /\ pc' \in Looping \ Tokening /\ UNCHANGED <<learned, tokenCut>>
        BY <1>11 DEF Writing, PivotLink, PivotCopy, SaveOpen, SaveWrite, TrimUnlink, TrimOpen, TrimWrite,
           Goto, pastVars, cutVars
    <2>2. queue'.auto = queue.auto
        BY <1>0, <1>11, WritingStep, FileWritten DEF FileStep
    <2> QED BY <2>1, <2>2 DEF TokenInv, TokensSafe
<1>12. CASE SeekEntry \/ NextEntry \/ KeepCase \/ MarkDetDone \/ LearnToken \/ LeaveLoop
    <2>1. /\ pc \in Looping \ Tokening /\ pc' \in Looping \ Tokening /\ UNCHANGED <<learned, tokenCut>>
        BY <1>12 DEF SeekEntry, NextEntry, KeepCase, MarkDetDone, LearnToken, LeaveLoop, Goto, pastVars,
           cutVars
    <2>2. queue'.auto = queue.auto
        BY <1>0, <1>12 DEF SeekEntry, NextEntry, KeepCase, MarkDetDone, LearnToken, LeaveLoop, diskVars,
           Dirs
    <2> QED BY <2>1, <2>2 DEF TokenInv, TokensSafe
<1>13. CASE Killed
    <2>1. pc # "down" /\ pc' = "down" /\ UNCHANGED <<queue, resume, staleResume, learned>>
        BY <1>13 DEF Killed, diskVars, pastVars
    <2>2. UNCHANGED Vacant(resume)
        BY <2>1 DEF Vacant
    <2>3. TokensSafe' => TokensSafe /\ ~TokensInMemory
        BY <1>13, Zenon DEF Killed, pastVars, TokensSafe
    <2>4. TokensSafe' /\ ~staleResume => (IF Vacant(resume) THEN queue.auto ELSE resume.auto) = "whole"
        <3>1. CASE pc \in {"check", "move"}
            BY <2>3, <3>1 DEF TokenInv
        <3>2. CASE pc \in Filling \cup Settling
            <4>1. TokensSafe' => resume.auto = "whole"
                BY <2>3, <3>2 DEF TokenInv, TokensInMemory
            <4> QED BY <1>0, <4>1
        <3>3. CASE pc \in Looping
            BY <2>3, <3>3 DEF TokenInv, LossInv, TokensInMemory
        <3> QED BY <1>0, <2>1, <3>1, <3>2, <3>3 DEF ControlOK, Preparing, Loaded
    <2> QED BY <2>1, <2>2, <2>4 DEF TokenInv
<1>14. CASE UNCHANGED vars
    <2>1. /\ UNCHANGED <<pc, queue, resume, in_place_resume, learned, tokenCut, staleResume>>
          /\ UNCHANGED <<a_extras, auto_changed>>
        BY <1>14 DEF vars, diskVars, procVars, pastVars, cutVars
    <2>2. UNCHANGED Vacant(resume)
        BY <2>1 DEF Vacant
    <2> QED BY <2>1, <2>2 DEF TokenInv, TokensSafe
<1>15. SaveOpen \/ SaveWrite \/ TrimUnlink \/ TrimOpen \/ TrimWrite => Writing /\ pc \in Looping
    BY DEF Writing, SaveOpen, SaveWrite, TrimUnlink, TrimOpen, TrimWrite, Goto
<1> QED BY <1>1, <1>2, <1>3, <1>4, <1>5, <1>6, <1>7, <1>8, <1>9, <1>10, <1>11, <1>12, <1>13, <1>14, <1>15
        DEF Next, Setup, Fuzz, Over

\* Tokens that were saved survive every crash but one between their deletion from _resume/ and
\* the next save_auto, or in the middle of a save_auto, which truncates its files first.
THEOREM TokensKeptAlways == Spec => []TokensKept
<1>1. Init => TokenInv
    BY DEF Init, TokenInv, TokensSafe, Filling, Pivoting, Settling, Looping, Tokening, Saving, Trimming
<1>2. TypeInv /\ DiskOK /\ LossInv /\ LossInv' /\ TokenInv /\ [Next]_vars => TokenInv'
    BY TokenStep
<1>3. TokenInv => TokensKept
    BY DEF TokenInv, TokensSafe, TokensKept
<1> QED BY <1>1, <1>2, <1>3, LossAlways, PTL DEF Spec
=============================================================================

----------------------------- MODULE ResumeDir -----------------------------
(***************************************************************************)
(* The output directory of afl-fuzz over several sessions.  A session      *)
(* starts afresh or resumes in place, turns the old directory into a new   *)
(* one file operation at a time, fuzzes, and may be killed between any two *)
(* operations.  The file system applies them in program order.             *)
(***************************************************************************)
EXTENDS Naturals, Sequences, FiniteSets

CONSTANTS
    Seeds,        \* test cases in the user's input directory
    MaxCases,     \* bound on test cases, the seeds included
    MaxStarts,    \* bound on sessions
    AllowFresh    \* may a session after the first be started without "-i -"?

ASSUME ResumeAssumption ==
    /\ Seeds \in Nat \ {0} /\ MaxCases \in Nat /\ Seeds <= MaxCases
    /\ MaxStarts \in Nat /\ AllowFresh \in BOOLEAN

Ids   == 0 .. MaxCases - 1       \* the number in a file name "id:000000..."
Cases == 1 .. MaxCases           \* what makes a test case worth keeping
None  == 0                       \* no such file
Empty == MaxCases + 1            \* a file of size zero

VARIABLES
    \* on disk: queue/, _resume/ and fuzzer_stats
    queue, resume, stats,
    \* the process: label, globals, the entries of the queue, the walk
    pc, in_place_resume, entries, pos, resuming_fuzz, seek_to, current_entry,
    trim_done, a_extras, auto_changed, why,
    \* history: sessions started, cases found, cases whose file was complete,
    \* cases that finished the deterministic stages, tokens once on disk
    starts, found, kept, detDone, learned,
    \* history: what the known windows cost
    trimCut, nukeCut, tokenCut, statsCut, staleResume

diskVars == <<queue, resume, stats>>
procVars == <<in_place_resume, entries, pos, resuming_fuzz, seek_to, current_entry,
              trim_done, a_extras, auto_changed>>
pastVars == <<starts, found, kept, detDone, learned>>
cutVars  == <<trimCut, nukeCut, tokenCut, statsCut, staleResume>>
vars == <<diskVars, pc, procVars, why, pastVars, cutVars>>

\* a directory: does it and its .state/ exist, its files, the names under
\* deterministic_done/, and what auto_extras/ holds of a token that stands for any:
\* nothing, a file that is cut off or is another token's by now, or the token
Dirs == [there : BOOLEAN, state : BOOLEAN, file : [Ids -> {None, Empty} \cup Cases],
         det : SUBSET Ids, auto : {"none", "torn", "whole"}]
NoDir == [there |-> FALSE, state |-> FALSE, file |-> [id \in Ids |-> None], det |-> {},
          auto |-> "none"]

Vacant(d) == ~d.state /\ \A id \in Ids : d.file[id] = None    \* rmdir would succeed
CasesIn(d) == {d.file[id] : id \in Ids} \ {None, Empty}

\* fuzzer_stats: absent, truncated, or the position of the walk and whether the
\* session had lasted longer than OUTPUT_GRACE
StatsFiles == {[kind |-> "absent"], [kind |-> "torn"]} \cup
              [kind : {"whole"}, cur_path : Ids, long : BOOLEAN]

Init ==
    /\ queue = NoDir /\ resume = NoDir /\ stats = [kind |-> "absent"]
    /\ pc = "down" /\ in_place_resume = FALSE /\ entries = <<>> /\ pos = 0
    /\ resuming_fuzz = FALSE /\ seek_to = 0 /\ current_entry = 0 /\ trim_done = {}
    /\ a_extras = FALSE /\ auto_changed = FALSE /\ why = "none"
    /\ starts = 0 /\ found = Seeds /\ kept = {} /\ detDone = {} /\ learned = FALSE
    /\ trimCut = {} /\ nukeCut = {} /\ tokenCut = FALSE /\ statsCut = FALSE
    /\ staleResume = FALSE

Goto(from, to) == pc = from /\ pc' = to

\* FATAL and PFATAL
Refuse(reason) == pc' = "down" /\ why' = reason

-----------------------------------------------------------------------------
(* maybe_delete_out_dir.                                                    *)

\* main clears all globals; only the first session has no output directory
Start ==
    /\ pc = "down" /\ starts < MaxStarts
    /\ starts' = starts + 1 /\ pc' = "check" /\ why' = "none"
    /\ in_place_resume' \in (IF starts = 0 THEN {FALSE}
                             ELSE IF AllowFresh THEN BOOLEAN ELSE {TRUE})
    /\ entries' = <<>> /\ pos' = 0 /\ resuming_fuzz' = FALSE /\ seek_to' = 0
    /\ current_entry' = 0 /\ trim_done' = {} /\ a_extras' = FALSE /\ auto_changed' = FALSE
    /\ UNCHANGED <<diskVars, found, kept, detDone, learned, cutVars>>

\* fuzzer_stats is read; a fresh start gives up what is there
CheckStats ==
    /\ pc = "check"
    /\ \/ /\ stats.kind = "torn" /\ Refuse("malformed")
          /\ UNCHANGED <<kept, learned, cutVars>>
       \/ /\ stats.kind = "whole" /\ ~in_place_resume /\ stats.long /\ Refuse("atrisk")
          /\ UNCHANGED <<kept, learned, cutVars>>
       \/ /\ stats.kind # "torn" /\ in_place_resume /\ pc' = "move"
          /\ kept' = IF staleResume THEN {} ELSE kept
          /\ learned' = IF staleResume THEN FALSE ELSE learned
          /\ staleResume' = FALSE
          /\ UNCHANGED <<why, trimCut, nukeCut, tokenCut, statsCut>>
       \/ /\ stats.kind = "whole" => ~stats.long
          /\ stats.kind # "torn" /\ ~in_place_resume /\ pc' = "wipe"
          /\ kept' = {} /\ learned' = FALSE
          /\ staleResume' = ~Vacant(resume)
          /\ UNCHANGED <<why, trimCut, nukeCut, tokenCut, statsCut>>
    /\ UNCHANGED <<diskVars, procVars, starts, found, detDone>>

\* rename(queue, _resume) fails, and that is ignored, if there is no queue/ or if
\* _resume/ exists and is not empty
MoveAlways == queue.there
MoveSucceeds == queue.there /\ Vacant(resume)

MoveQueue ==
    /\ Goto("move", "wipe")
    /\ resume' = IF MoveSucceeds THEN queue ELSE resume
    /\ queue'  = IF MoveSucceeds THEN NoDir ELSE queue
    /\ UNCHANGED <<stats, procVars, why, pastVars, cutVars>>

If(cond, S) == IF cond THEN S ELSE {}

\* delete_files and rmdir, one operation at a time in the order both callers use:
\* the marks, the tokens, .state/, the test cases, the directory.  The result is
\* the set of directories the next operation can leave: readdir has any order.
TokensForgotten(d) ==
    {[d EXCEPT !.det = @ \ {id}] : id \in d.det}
    \cup If(d.det = {} /\ d.auto = "none" /\ d.state, {[d EXCEPT !.state = FALSE]})
    \cup {[d EXCEPT !.file[id] = None] : id \in If(~d.state, {i \in Ids : d.file[i] # None})}
    \cup If(d.there /\ Vacant(d), {NoDir})
Erased(d) ==
    {[d EXCEPT !.det = @ \ {id}] : id \in d.det}
    \cup If(d.det = {} /\ d.auto # "none", {[d EXCEPT !.auto = "none"]})
    \cup If(d.det = {} /\ d.auto = "none" /\ d.state, {[d EXCEPT !.state = FALSE]})
    \cup {[d EXCEPT !.file[id] = None] : id \in If(~d.state, {i \in Ids : d.file[i] # None})}
    \cup If(d.there /\ Vacant(d), {NoDir})

\* nothing is done, and no error seen, for a directory that is not there; one that
\* still holds something makes rmdir fail
Delete(d, e, next) ==
    \/ e \in Erased(d) /\ UNCHANGED <<pc, why>>
    \/ Erased(d) = {} /\ e = d /\ IF d.there THEN Refuse("leftover")
                                             ELSE pc' = next /\ UNCHANGED why

WipeQueue ==
    /\ pc = "wipe" /\ Delete(queue, queue', "mkdir")
    /\ UNCHANGED <<resume, stats, procVars, pastVars, cutVars>>

\* a fresh start also unlinks fuzzer_stats; then setup_dirs_fds makes queue/
MakeQueue ==
    /\ Goto("mkdir", "mkstate")
    /\ stats' = IF in_place_resume THEN stats ELSE [kind |-> "absent"]
    /\ queue' = [NoDir EXCEPT !.there = TRUE]
    /\ UNCHANGED <<resume, procVars, why, pastVars, cutVars>>

MakeState ==
    /\ Goto("mkstate", "read") /\ queue' = [queue EXCEPT !.state = TRUE]
    /\ UNCHANGED <<resume, stats, procVars, why, pastVars, cutVars>>

-----------------------------------------------------------------------------
(* read_testcases, load_auto, pivot_inputs.                                 *)

Entry(case, id, det) == [case |-> case, id |-> id, passed_det |-> det]

\* the numbers in S in the order of the names: there is one such sequence
InOrder(S) == {ids \in [1 .. Cardinality(S) -> S] : \A i, j \in DOMAIN ids : i < j => ids[i] < ids[j]}
Usable(d) == {id \in Ids : d.file[id] \notin {None, Empty}}

\* the complete files of a directory, as queue entries
DetByPosition(d) ==
    {[i \in DOMAIN ids |-> Entry(d.file[ids[i]], ids[i], i - 1 \in d.det)] :
        ids \in InOrder(Usable(d))}
Scanned(d) ==
    {[i \in DOMAIN ids |-> Entry(d.file[ids[i]], ids[i], ids[i] \in d.det)] :
        ids \in InOrder(Usable(d))}

\* seeds have names of their own: no number equals their position
SeedEntries == [i \in 1 .. Seeds |-> Entry(i, MaxCases, FALSE)]

\* load_auto passes over a file of the wrong length, and adds the others through
\* maybe_add_auto, which sets auto_changed
LoadedClean == FALSE
LoadedDirty == in_place_resume /\ resume.auto = "whole"

ReadTestcases ==
    /\ pc = "read"
    /\ entries' \in (IF in_place_resume THEN Scanned(resume) ELSE {SeedEntries})
    /\ a_extras' = (in_place_resume /\ resume.auto = "whole") /\ auto_changed' = LoadedDirty
    /\ IF entries' = <<>> THEN Refuse("nocases") ELSE pc' = "pivot" /\ UNCHANGED why
    /\ UNCHANGED <<diskVars, in_place_resume, pos, resuming_fuzz, seek_to, current_entry,
                   trim_done, pastVars, cutVars>>

WriteFile(id, content) == queue' = [queue EXCEPT !.file[id] = content]

\* the number in the new name
OldName == IF in_place_resume THEN entries[pos + 1].id ELSE pos
NewName == pos

\* link(), or create and copy
PivotLink ==
    /\ pc = "pivot" /\ pos < Len(entries)
    /\ \/ WriteFile(NewName, entries[pos + 1].case) /\ pc' = "mark"
       \/ WriteFile(NewName, Empty) /\ pc' = "copy"
    /\ resuming_fuzz' = (resuming_fuzz \/ entries[pos + 1].id = pos)
    /\ UNCHANGED <<resume, stats, in_place_resume, entries, pos, seek_to, current_entry,
                   trim_done, a_extras, auto_changed, why, pastVars, cutVars>>

PivotCopy ==
    /\ Goto("copy", "mark") /\ WriteFile(NewName, entries[pos + 1].case)
    /\ UNCHANGED <<resume, stats, procVars, why, pastVars, cutVars>>

PivotMark ==
    /\ Goto("mark", "pivot")
    /\ queue' = IF entries[pos + 1].passed_det THEN [queue EXCEPT !.det = @ \cup {NewName}]
                                               ELSE queue
    /\ pos' = pos + 1
    /\ kept' = IF in_place_resume THEN kept ELSE kept \cup {entries[pos + 1].case}
    /\ UNCHANGED <<resume, stats, in_place_resume, entries, resuming_fuzz, seek_to,
                   current_entry, trim_done, a_extras, auto_changed, why, starts, found,
                   detDone, learned, cutVars>>

PivotEnd ==
    /\ pc = "pivot" /\ pos = Len(entries)
    /\ pc' = IF in_place_resume THEN "nuke" ELSE "seek"
    /\ UNCHANGED <<diskVars, procVars, why, pastVars, cutVars>>

\* nuke_resume_dir
NukeResume ==
    /\ pc = "nuke" /\ Delete(resume, resume', "seek")
    /\ UNCHANGED <<queue, stats, procVars, pastVars, cutVars>>

-----------------------------------------------------------------------------
(* The end of main's set-up, and the fuzzing loop.                          *)

\* find_start_position
StartPosition ==
    IF resuming_fuzz /\ in_place_resume /\ stats.kind = "whole"
       /\ stats.cur_path < Len(entries) THEN stats.cur_path ELSE 0

FindStartPosition ==
    /\ Goto("seek", "stats0") /\ seek_to' = StartPosition
    /\ UNCHANGED <<diskVars, in_place_resume, entries, pos, resuming_fuzz, current_entry,
                   trim_done, a_extras, auto_changed, why, pastVars, cutVars>>

\* write_stats_file truncates, and writes when the stream is closed; save_auto
\* follows each of its three calls
StatsCalls == {<<"stats0", "flush0", "auto0", "token0", "loop">>,
               <<"fuzz", "flush", "auto", "token", "fuzz">>,
               <<"exit", "flush1", "auto1", "token1", "down">>}

CountedFromOne == current_entry + 1
CurPath == current_entry

TruncateStats ==
    /\ \E c \in StatsCalls : Goto(c[1], c[2])
    /\ stats' = [kind |-> "torn"]
    /\ UNCHANGED <<queue, resume, procVars, why, pastVars, cutVars>>

FlushStats ==
    /\ \E c \in StatsCalls : Goto(c[2], c[3])
    /\ \E long \in BOOLEAN :
          stats' = [kind |-> "whole", cur_path |-> CurPath, long |-> long]
    /\ UNCHANGED <<queue, resume, procVars, why, pastVars, cutVars>>

\* the files are truncated and written one after the other, and the order of the
\* tokens may have changed: in between the token may be in none of them
SaveAuto ==
    /\ \E c \in StatsCalls :
          IF auto_changed /\ a_extras
             THEN Goto(c[3], c[4]) /\ queue' = [queue EXCEPT !.auto = "torn"]
             ELSE Goto(c[3], c[5]) /\ UNCHANGED queue
    /\ auto_changed' = FALSE
    /\ UNCHANGED <<resume, stats, in_place_resume, entries, pos, resuming_fuzz, seek_to,
                   current_entry, trim_done, a_extras, why, pastVars, cutVars>>

WriteAuto ==
    /\ \E c \in StatsCalls : Goto(c[4], c[5])
    /\ queue' = [queue EXCEPT !.auto = "whole"] /\ learned' = TRUE /\ tokenCut' = FALSE
    /\ UNCHANGED <<resume, stats, procVars, why, starts, found, kept, detDone, trimCut,
                   nukeCut, statsCut, staleResume>>

\* the first queue cycle starts at seek_to
SeekEntry ==
    /\ Goto("loop", "fuzz") /\ current_entry' = seek_to /\ seek_to' = 0
    /\ UNCHANGED <<diskVars, in_place_resume, entries, pos, resuming_fuzz, trim_done,
                   a_extras, auto_changed, why, pastVars, cutVars>>

NextEntry ==
    /\ Goto("fuzz", "fuzz")
    /\ current_entry' = IF current_entry + 1 < Len(entries) THEN current_entry + 1 ELSE 0
    /\ UNCHANGED <<diskVars, in_place_resume, entries, pos, resuming_fuzz, seek_to, trim_done,
                   a_extras, auto_changed, why, pastVars, cutVars>>

\* save_if_interesting: the entry is queued and calibrated, then its file made
KeepCase ==
    /\ Goto("fuzz", "save_open") /\ found < MaxCases /\ Len(entries) < MaxCases
    /\ entries' = Append(entries, Entry(found + 1, Len(entries), FALSE))
    /\ found' = found + 1
    /\ UNCHANGED <<diskVars, in_place_resume, pos, resuming_fuzz, seek_to, current_entry,
                   trim_done, a_extras, auto_changed, why, starts, kept, detDone, learned,
                   cutVars>>

SaveOpen ==
    /\ Goto("save_open", "save_write") /\ WriteFile(Len(entries) - 1, Empty)
    /\ UNCHANGED <<resume, stats, procVars, why, pastVars, cutVars>>

SaveWrite ==
    /\ Goto("save_write", "fuzz")
    /\ WriteFile(Len(entries) - 1, entries[Len(entries)].case)
    /\ kept' = kept \cup {entries[Len(entries)].case}
    /\ UNCHANGED <<resume, stats, procVars, why, starts, found, detDone, learned, cutVars>>

\* trim_case has shortened the entry
Current == entries[current_entry + 1]

TrimUnlink ==
    /\ Goto("fuzz", "trim_open") /\ current_entry \notin trim_done
    /\ WriteFile(current_entry, None) /\ trim_done' = trim_done \cup {current_entry}
    /\ UNCHANGED <<resume, stats, in_place_resume, entries, pos, resuming_fuzz, seek_to,
                   current_entry, a_extras, auto_changed, why, pastVars, cutVars>>

TrimOpen ==
    /\ Goto("trim_open", "trim_write") /\ WriteFile(current_entry, Empty)
    /\ UNCHANGED <<resume, stats, procVars, why, pastVars, cutVars>>

TrimWrite ==
    /\ Goto("trim_write", "fuzz") /\ WriteFile(current_entry, Current.case)
    /\ UNCHANGED <<resume, stats, procVars, why, pastVars, cutVars>>

\* mark_as_det_done at the end of the deterministic stages
MarkDetDone ==
    /\ Goto("fuzz", "fuzz") /\ ~Current.passed_det
    /\ queue' = [queue EXCEPT !.det = @ \cup {current_entry}]
    /\ entries' = [entries EXCEPT ![current_entry + 1].passed_det = TRUE]
    /\ detDone' = detDone \cup {Current.case}
    /\ UNCHANGED <<resume, stats, in_place_resume, pos, resuming_fuzz, seek_to,
                   current_entry, trim_done, a_extras, auto_changed, why, starts, found,
                   kept, learned, cutVars>>

\* maybe_add_auto, which sets auto_changed also for a token it knows, or for another
LearnToken ==
    /\ Goto("fuzz", "fuzz")
    /\ a_extras' \in {a_extras, TRUE} /\ auto_changed' = TRUE
    /\ UNCHANGED <<diskVars, in_place_resume, entries, pos, resuming_fuzz, seek_to,
                   current_entry, trim_done, why, pastVars, cutVars>>

\* stop_soon ends the loop in main
LeaveLoop == Goto("fuzz", "exit") /\ UNCHANGED <<diskVars, procVars, why, pastVars, cutVars>>

\* the tokens that were on disk are neither in the old directory nor in the new
TokensInMemory ==
    \/ pc \in {"token0", "token", "token1"}
    \/ pc \in {"nuke", "seek", "stats0", "flush0", "auto0"} /\ resume.auto # "whole"

\* the process is killed, or a run of the target ends it
Killed ==
    /\ pc # "down" /\ pc' = "down"
    /\ trimCut' = IF pc \in {"trim_open", "trim_write"} THEN trimCut \cup {Current.case}
                                                       ELSE trimCut
    /\ nukeCut' = IF pc = "nuke" /\ ~Vacant(resume) THEN nukeCut \cup (kept \ CasesIn(resume))
                                                    ELSE nukeCut
    /\ tokenCut' = (tokenCut \/ (learned /\ TokensInMemory))
    /\ statsCut' = (statsCut \/ pc \in {"flush0", "flush", "flush1"})
    /\ UNCHANGED <<diskVars, procVars, why, pastVars, staleResume>>

Setup == \/ Start \/ CheckStats \/ MoveQueue \/ WipeQueue \/ MakeQueue \/ MakeState
         \/ ReadTestcases \/ PivotLink \/ PivotCopy \/ PivotMark \/ PivotEnd \/ NukeResume
         \/ FindStartPosition

Fuzz == \/ TruncateStats \/ FlushStats \/ SaveAuto \/ WriteAuto \/ SeekEntry \/ NextEntry
        \/ KeepCase \/ SaveOpen \/ SaveWrite \/ TrimUnlink \/ TrimOpen \/ TrimWrite \/ MarkDetDone
        \/ LearnToken \/ LeaveLoop

\* no more sessions
Over == pc = "down" /\ starts = MaxStarts /\ UNCHANGED vars

Next == Setup \/ Fuzz \/ Killed \/ Over

Spec == Init /\ [][Next]_vars

-----------------------------------------------------------------------------
(* Properties.                                                              *)

DiskTypes == queue \in Dirs /\ resume \in Dirs /\ stats \in StatsFiles

EntryTypes ==
    /\ pos \in 0 .. MaxCases /\ seek_to \in Ids /\ current_entry \in Ids
    /\ entries \in Seq([case : Cases, id : 0 .. MaxCases, passed_det : BOOLEAN])
    /\ Len(entries) <= MaxCases /\ trim_done \subseteq Ids

FlagTypes ==
    /\ in_place_resume \in BOOLEAN /\ resuming_fuzz \in BOOLEAN /\ a_extras \in BOOLEAN
    /\ auto_changed \in BOOLEAN /\ learned \in BOOLEAN /\ tokenCut \in BOOLEAN
    /\ statsCut \in BOOLEAN /\ staleResume \in BOOLEAN

PastTypes ==
    /\ why \in {"none", "malformed", "atrisk", "leftover", "nocases"}
    /\ starts \in 0 .. MaxStarts /\ found \in Seeds .. MaxCases
    /\ kept \subseteq Cases /\ detDone \subseteq Cases
    /\ trimCut \subseteq Cases /\ nukeCut \subseteq Cases

\* Every variable has its type.
TypeOK == DiskTypes /\ EntryTypes /\ FlagTypes /\ PastTypes

\* What the next in-place resume would read: _resume/ if anything is left of it.  (It
\* must get past fuzzer_stats first: see RefusalsKnown.)
Recoverable == IF Vacant(resume) THEN CasesIn(queue) ELSE CasesIn(resume)

\* Whenever no process is running, every test case that was once complete in this
\* line of sessions can be resumed from, except: one whose trimmed version was being
\* written when the process was killed; those that nuke_resume_dir had already
\* deleted from _resume/ when it was killed; and everything, if a fresh start had
\* left an old _resume/ behind.
KnownLossOnly ==
    pc = "down" /\ ~staleResume => kept \ (trimCut \cup nukeCut) \subseteq Recoverable

\* "Any existing output directory can be also used to resume aborted jobs": only
\* the trimming window may cost a test case.
ResumeKeepsCases == pc = "down" /\ ~staleResume => kept \ trimCut \subseteq Recoverable

\* A mark under deterministic_done/ names a case that did finish the deterministic
\* stages, however often gaps in the numbering have shifted the names.
DetMarkTrue ==
    \A d \in {queue, resume} : \A id \in d.det :
        d.file[id] \in Cases => d.file[id] \in detDone

\* Between two finds queue/ holds exactly the entries, number by number: no gap, no
\* leftover, and the name of the next find is free.  The walk stands on one of them, also
\* if fuzzer_stats was written before cases were lost: main does not run off the list.
QueueMatchesEntries ==
    pc \in {"fuzz", "exit"} =>
        /\ current_entry < Len(entries)
        /\ \A id \in Ids :
              queue.file[id] = IF id < Len(entries) THEN entries[id + 1].case ELSE None

\* Why a start may refuse to go on with what earlier processes left half-done.
\* Cleaning up never stumbles over it; a resume misses its test cases only if the known
\* windows have cost them all; and fuzzer_stats is malformed only if some process was
\* killed after write_stats_file had truncated it and before the stream was closed.
\* (It then stays malformed, and every later start fails, "-i -" or not.)
RefusalsKnown ==
    /\ why # "leftover"
    /\ why = "nocases" => kept \subseteq trimCut \cup nukeCut
    /\ why = "malformed" => statsCut

\* Tokens that were saved survive, unless a process died after it had deleted them
\* from _resume/ and before it saved them again, or while it was rewriting them.
TokensKept ==
    pc = "down" /\ learned /\ ~tokenCut /\ ~staleResume
        => (IF Vacant(resume) THEN queue.auto ELSE resume.auto) = "whole"
=============================================================================

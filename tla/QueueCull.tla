------------------------------ MODULE QueueCull ------------------------------
(***************************************************************************)
(* The queue of afl-fuzz and the election of favored entries: scoring of a *)
(* calibrated entry (update_bitmap_score), election (cull_queue), and the  *)
(* main loop that calls them around fuzz_one.  The loops over the bitmap   *)
(* take one step per byte, so that every intermediate table is a state.    *)
(*                                                                         *)
(* Two programs are covered: hybrid_metric/afl-fuzz.c, run with or without *)
(* -s (TF_switch), and afl/afl-fuzz.c (Stock), which has no such switch.   *)
(***************************************************************************)
EXTENDS Integers, FiniteSets

CONSTANTS
    Stock,          \* the code of afl/afl-fuzz.c?
    Switches,       \* values of TF_switch considered
    MaxEntries,     \* bound on queued_paths
    SeedCounts,     \* numbers of entries read from the input directory considered
    MapSize,        \* MAP_SIZE: bytes of the coverage bitmap
    HybridMaps,     \* contents of hybrid_bits a run of the target may leave
    FavFactors,     \* values of exec_us * len
    CalChances,     \* CAL_CHANCES
    SkipPaths,      \* the 10 of "queued_paths > 10" in fuzz_one
    RefModulus,     \* 2^32: tc_ref is a u32
    VariableTraces  \* may two runs of one input leave different bitmaps?

NULL == 0
Slots == 0 .. MapSize - 1
Entries == 1 .. MaxEntries

ASSUME ConstantsAssumption ==
    /\ Stock \in BOOLEAN /\ Switches \subseteq BOOLEAN
    /\ Stock => Switches = {FALSE}
    /\ MaxEntries \in Nat /\ SeedCounts \subseteq 1 .. MaxEntries
    /\ MapSize \in Nat \ {0}
    /\ HybridMaps \subseteq [Slots -> Nat]
    /\ FavFactors \subseteq Nat
    /\ CalChances \in Nat \ {0}
    /\ SkipPaths \in Nat
    /\ RefModulus \in Nat \ {0}
    /\ VariableTraces \in BOOLEAN

VARIABLES
    queued_paths, queue_cur,
    \* fields of struct queue_entry, as functions of and sets of entries
    fav, hit, cal_failed, tc_ref, trace_mini,
    has_new_incorrect, trim_done, was_fuzzed, favored, fs_redundant,
    \* tables and globals
    top_rated, top_rated_orig, max_hybrid, score_changed,
    TF_switch, TF_top_null,
    queued_favored, pending_favored, pending_not_fuzzed,
    trace_bits, hybrid_bits, temp_v,
    \* control: label, return label, entry being calibrated, loop index
    pc, ret, entry, byte,
    \* history: bytes hit by a scored run
    seen

scoreVars == <<tc_ref, trace_mini, top_rated, top_rated_orig, max_hybrid,
               score_changed, seen>>
cullVars  == <<favored, fs_redundant, queued_favored, pending_favored, temp_v>>
entryVars == <<queued_paths, fav, hit, cal_failed, has_new_incorrect>>
fuzzVars  == <<queue_cur, trim_done, was_fuzzed, pending_not_fuzzed>>
runVars   == <<trace_bits, hybrid_bits>>
tfVars    == <<TF_switch, TF_top_null>>
vars == <<scoreVars, cullVars, entryVars, fuzzVars, runVars, tfVars,
          pc, ret, entry, byte>>

Queue == 1 .. queued_paths

ZeroMap == [s \in Slots |-> 0]

\* The bitmaps one run of the target leaves: the bytes hit, and the counts of
\* favored basic blocks, kept at the byte of the edge that entered the block.
RunsHitting(T) == {H \in HybridMaps : \A s \in Slots \ T : H[s] = 0}

Init ==
    /\ queued_paths \in SeedCounts /\ queue_cur = NULL
    /\ fav = [e \in Entries |-> 0]
    /\ hit = [e \in Entries |-> {}]
    /\ cal_failed = [e \in Entries |-> 0]
    /\ tc_ref = [e \in Entries |-> 0]
    /\ trace_mini = [e \in Entries |-> {}]
    /\ has_new_incorrect = {} /\ trim_done = {} /\ was_fuzzed = {}
    /\ favored = {} /\ fs_redundant = {}
    /\ top_rated = [s \in Slots |-> NULL]
    /\ top_rated_orig = [s \in Slots |-> NULL]
    /\ max_hybrid = ZeroMap
    /\ score_changed = FALSE /\ TF_switch \in Switches /\ TF_top_null = FALSE
    /\ queued_favored = 0 /\ pending_favored = 0
    /\ pending_not_fuzzed = queued_paths
    /\ trace_bits = {} /\ hybrid_bits = ZeroMap /\ temp_v = {}
    /\ pc = "dry" /\ ret = "dry" /\ entry = 1 /\ byte = 0
    /\ seen = {}

-----------------------------------------------------------------------------
(* update_bitmap_score(q): the bitmaps of the last run are in trace_bits    *)
(* and hybrid_bits.  trace_mini = {} is the NULL pointer: an allocated      *)
(* trace_mini holds at least the byte being scored.                         *)

\* --e->tc_ref, on a u32: below zero it wraps to RefModulus - 1
MissingDrop(ref, e) == ref
DropRef(ref, e) ==
    IF e = NULL THEN ref ELSE [ref EXCEPT ![e] = IF @ = 0 THEN RefModulus - 1 ELSE @ - 1]

\* discard e's trace_mini if its count has just reached zero
MissingDiscard(mini, ref, e) == mini
Discard(mini, ref, e) ==
    IF e # NULL /\ ref[e] = 0 THEN [mini EXCEPT ![e] = {}] ELSE mini

TakeRef(ref, e) == [ref EXCEPT ![e] = IF @ = RefModulus - 1 THEN 0 ELSE @ + 1]

KeepTrace(mini, e) == IF mini[e] = {} THEN [mini EXCEPT ![e] = trace_bits] ELSE mini

\* the incumbent o of a byte has a more favorable speed x size factor
InvertedNullCheck(o) == o = NULL \/ fav[entry] > fav[o]
InvertedOrder(o) == o # NULL /\ fav[entry] < fav[o]
LosesTo(o) == o # NULL /\ fav[entry] > fav[o]

\* update of the table of speed x size winners (label quit_tf), given the
\* reference counts and traces left by the update of top_rated
ScoreOrig(ref, mini) ==
    LET o     == top_rated_orig[byte]
        ref1  == DropRef(ref, o)
        mini1 == Discard(mini, ref1, o)
    IN  IF LosesTo(o)
        THEN /\ tc_ref' = ref /\ trace_mini' = mini
             /\ UNCHANGED top_rated_orig
        ELSE /\ top_rated_orig' = [top_rated_orig EXCEPT ![byte] = entry]
             /\ tc_ref' = TakeRef(ref1, entry)
             /\ trace_mini' = KeepTrace(mini1, entry)

\* the incumbent's historical maximum is larger: tag or leave, then continue
ScoreBelowMax ==
    /\ top_rated[byte] # NULL /\ max_hybrid[byte] > hybrid_bits[byte]
    /\ top_rated' = IF entry \in has_new_incorrect THEN [top_rated EXCEPT ![byte] = entry]
                                               ELSE top_rated
    /\ score_changed' = TRUE
    /\ UNCHANGED <<tc_ref, trace_mini, top_rated_orig, max_hybrid>>

\* equal to the maximum: nobody is favored for this byte now
ScoreTie ==
    /\ top_rated[byte] # NULL /\ max_hybrid[byte] = hybrid_bits[byte]
    /\ top_rated' = [top_rated EXCEPT ![byte] = NULL]
    /\ LET ref == DropRef(tc_ref, top_rated[byte])
       IN  ScoreOrig(ref, Discard(trace_mini, ref, top_rated[byte]))
    /\ UNCHANGED <<max_hybrid, score_changed>>

\* no incumbent, or a larger hybrid count than ever seen at this byte
ScoreWin ==
    LET above == max_hybrid[byte] < hybrid_bits[byte]
        quiet == ~above /\ entry \in has_new_incorrect
        ref   == DropRef(tc_ref, top_rated[byte])
        mini  == Discard(trace_mini, ref, top_rated[byte])
    IN  /\ top_rated[byte] = NULL \/ above
        /\ top_rated' = [top_rated EXCEPT ![byte] = entry]
        /\ max_hybrid' = IF above THEN [max_hybrid EXCEPT ![byte] = hybrid_bits[byte]]
                                  ELSE max_hybrid
        /\ score_changed' = (score_changed \/ ~quiet)
        /\ ScoreOrig(TakeRef(ref, entry), IF quiet THEN mini ELSE KeepTrace(mini, entry))

\* the byte in afl/afl-fuzz.c
ScoreStock ==
    LET o   == top_rated[byte]
        ref == DropRef(tc_ref, o)
    IN  /\ IF LosesTo(o)
           THEN UNCHANGED <<top_rated, tc_ref, trace_mini, score_changed>>
           ELSE /\ top_rated' = [top_rated EXCEPT ![byte] = entry]
                /\ tc_ref' = TakeRef(ref, entry)
                /\ trace_mini' = KeepTrace(Discard(trace_mini, ref, o), entry)
                /\ score_changed' = TRUE
        /\ UNCHANGED <<top_rated_orig, max_hybrid>>

\* the byte in hybrid_metric/afl-fuzz.c without -s: an incumbent would be
\* displaced, and nothing is inserted in its place
ScorePlain ==
    LET o   == top_rated[byte]
        ref == DropRef(tc_ref, o)
        won == o # NULL /\ ~LosesTo(o)
    IN  /\ tc_ref' = IF won THEN ref ELSE tc_ref
        /\ trace_mini' = IF won THEN Discard(trace_mini, ref, o) ELSE trace_mini
        /\ UNCHANGED <<top_rated, score_changed, top_rated_orig, max_hybrid>>

\* one iteration of the loop over the bitmap
ScoreSlot ==
    /\ pc = "score" /\ byte < MapSize
    /\ byte' = byte + 1
    /\ IF byte \in trace_bits
       THEN /\ seen' = seen \cup {byte}
            /\ \/ TF_switch /\ (ScoreBelowMax \/ ScoreTie \/ ScoreWin)
               \/ ~TF_switch /\ Stock /\ ScoreStock
               \/ ~TF_switch /\ ~Stock /\ ScorePlain
       ELSE UNCHANGED scoreVars
    /\ UNCHANGED <<cullVars, entryVars, fuzzVars, runVars, tfVars, pc, ret, entry>>

\* back to the caller; the bitmaps are dead until the next run clears them, and so is
\* the entry, but for the dry run's loop over the queue
ScoreDone ==
    /\ pc = "score" /\ byte = MapSize
    /\ pc' = ret /\ byte' = 0 /\ trace_bits' = {} /\ hybrid_bits' = ZeroMap
    /\ entry' = IF ret = "dry" THEN entry + 1 ELSE 1
    /\ UNCHANGED <<scoreVars, cullVars, entryVars, fuzzVars, tfVars, ret>>

-----------------------------------------------------------------------------
(* cull_queue(): called with a return label in ret.                         *)

ForgottenPending == favored' = {} /\ queued_favored' = 0 /\ UNCHANGED pending_favored
ResetFavored == favored' = {} /\ queued_favored' = 0 /\ pending_favored' = 0

Call(label, back) == pc' = label /\ ret' = back /\ byte' = 0

\* the scores have changed: elect from top_rated
CullRescan ==
    /\ pc = "cull" /\ score_changed
    /\ score_changed' = FALSE /\ TF_top_null' = FALSE
    /\ ResetFavored
    /\ temp_v' = Slots
    /\ Call(IF TF_switch THEN "cull_tf" ELSE "greedy", ret)
    /\ UNCHANGED <<tc_ref, trace_mini, top_rated, top_rated_orig, max_hybrid, seen,
                   fs_redundant, entryVars, fuzzVars, runVars, TF_switch, entry>>

\* label altern: elect from top_rated_orig, only while TF_top_null is set
CullAltern ==
    /\ \/ pc = "cull" /\ ~score_changed
       \/ pc = "altern"
    /\ IF TF_switch /\ TF_top_null
       THEN ResetFavored /\ temp_v' = Slots /\ Call("greedy", ret)
       ELSE /\ Call(ret, ret)
            /\ UNCHANGED <<favored, queued_favored, pending_favored, temp_v>>
    /\ UNCHANGED <<scoreVars, fs_redundant, entryVars, fuzzVars, runVars,
                   tfVars, entry>>

\* loop over top_rated with -s: every winner that was not fuzzed is favored
CullTF ==
    /\ pc = "cull_tf" /\ byte < MapSize
    /\ LET w    == top_rated[byte]
           take == w # NULL /\ w \notin was_fuzzed
           new  == take /\ w \notin favored
       IN  /\ favored' = IF take THEN favored \cup {w} ELSE favored
           /\ queued_favored' = queued_favored + (IF new THEN 1 ELSE 0)
           /\ pending_favored' = pending_favored + (IF new THEN 1 ELSE 0)
    /\ byte' = byte + 1
    /\ UNCHANGED <<scoreVars, fs_redundant, temp_v, entryVars, fuzzVars, runVars,
                   tfVars, pc, ret, entry>>

\* bytes left in temp_v once the trace of w is removed
WholeWord(w) == {}
Uncovered(w) == temp_v \ trace_mini[w]

GreedyTable == IF TF_switch THEN top_rated_orig ELSE top_rated

\* loop that takes the winner of each byte not yet covered by a winner's
\* trace; reading the trace of a winner whose trace_mini is NULL is fatal
GreedyTake ==
    /\ pc = "greedy" /\ byte < MapSize
    /\ LET w == GreedyTable[byte]
       IN  /\ w # NULL /\ byte \in temp_v
           /\ IF trace_mini[w] = {}
              THEN /\ pc' = "segv"
                   /\ UNCHANGED <<byte, favored, queued_favored, pending_favored, temp_v>>
              ELSE /\ temp_v' = Uncovered(w)
                   /\ favored' = favored \cup {w}
                   /\ queued_favored' = queued_favored + 1
                   /\ pending_favored' =
                        pending_favored + (IF w \in was_fuzzed THEN 0 ELSE 1)
                   /\ byte' = byte + 1
                   /\ UNCHANGED pc
    /\ UNCHANGED <<scoreVars, fs_redundant, entryVars, fuzzVars, runVars,
                   tfVars, ret, entry>>

GreedyPass ==
    /\ pc = "greedy" /\ byte < MapSize
    /\ GreedyTable[byte] = NULL \/ byte \notin temp_v
    /\ byte' = byte + 1
    /\ UNCHANGED <<scoreVars, cullVars, entryVars, fuzzVars, runVars, tfVars,
                   pc, ret, entry>>

\* mark_as_redundant(q, !q->favored) for the whole queue, then altern/return;
\* temp_v is dead from here to its next memset
CullMark ==
    /\ pc \in {"cull_tf", "greedy"} /\ byte = MapSize
    /\ fs_redundant' = Queue \ favored
    /\ temp_v' = {}
    /\ Call(IF pc = "cull_tf" THEN "altern" ELSE ret, ret)
    /\ UNCHANGED <<scoreVars, favored, queued_favored, pending_favored, entryVars,
                   fuzzVars, runVars, tfVars, entry>>

-----------------------------------------------------------------------------
(* Calibration and the callers of the two routines.                         *)

MissingReset(e) == cal_failed' = [cal_failed EXCEPT ![e] = @ + 1]
CalibrationReset(e) == cal_failed' = [cal_failed EXCEPT ![e] = 0]

\* calibrate_case(e) succeeds with these bitmaps: score e, return to back
Calibrated(e, back) ==
    /\ \E T \in (SUBSET Slots) \ {{}}, f \in FavFactors :
          /\ trace_bits' = T /\ hybrid_bits' \in RunsHitting(T)
          /\ fav' = [fav EXCEPT ![e] = f]
          /\ hit' = [hit EXCEPT ![e] = T]
    /\ CalibrationReset(e)
    /\ entry' = e
    /\ Call("score", back)

\* perform_dry_run, one seed; a seed that times out or crashes is given up
DryRun ==
    /\ pc = "dry" /\ entry <= queued_paths
    /\ \/ Calibrated(entry, "dry")
       \/ /\ cal_failed' = [cal_failed EXCEPT ![entry] = CalChances]
          /\ entry' = entry + 1
          /\ UNCHANGED <<fav, hit, runVars, pc, ret, byte>>
    /\ UNCHANGED <<scoreVars, cullVars, queued_paths, has_new_incorrect, fuzzVars,
                   tfVars>>

\* after the dry run: give up if no seed is usable, else cull_queue()
DryRunDone ==
    /\ pc = "dry" /\ entry > queued_paths
    /\ entry' = 1
    /\ IF \A e \in Queue : cal_failed[e] = CalChances
       THEN pc' = "halt" /\ UNCHANGED <<ret, byte>>
       ELSE Call("cull", "loop")
    /\ UNCHANGED <<scoreVars, cullVars, entryVars, fuzzVars, runVars, tfVars>>

\* top of the main loop
LoopTop ==
    /\ pc = "loop" /\ Call("cull", "pick")
    /\ UNCHANGED <<scoreVars, cullVars, entryVars, fuzzVars, runVars, tfVars, entry>>

\* continue with queue_cur, or start a new cycle at the head of the queue
Pick ==
    /\ pc = "pick"
    /\ IF queue_cur # NULL
       THEN pc' = "fuzz" /\ UNCHANGED <<queue_cur, TF_top_null, ret, byte>>
       ELSE /\ queue_cur' = 1
            /\ TF_top_null' = (TF_switch \/ TF_top_null)
            /\ IF TF_switch THEN Call("cull", "fuzz")
                            ELSE pc' = "fuzz" /\ UNCHANGED <<ret, byte>>
    /\ UNCHANGED <<scoreVars, cullVars, entryVars, runVars, trim_done, was_fuzzed,
                   pending_not_fuzzed, TF_switch, entry>>

PastTheEnd == IF queue_cur <= queued_paths THEN queue_cur + 1 ELSE NULL
LastMissed == IF queue_cur + 1 < queued_paths THEN queue_cur + 1 ELSE NULL
NextInQueue == IF queue_cur < queued_paths THEN queue_cur + 1 ELSE NULL

\* fuzz_one returns early: favored arrivals are pending, or dice say so
MaySkip ==
    IF pending_favored > 0 THEN queue_cur \in was_fuzzed \/ queue_cur \notin favored
                           ELSE queue_cur \notin favored /\ queued_paths > SkipPaths

FuzzSkip ==
    /\ pc = "fuzz" /\ MaySkip
    /\ queue_cur' = NextInQueue /\ pc' = "loop"
    /\ UNCHANGED <<scoreVars, cullVars, entryVars, runVars, trim_done, was_fuzzed,
                   pending_not_fuzzed, tfVars, ret, entry, byte>>

\* fuzz_one retries a failed calibration, at most CAL_CHANCES times in all; if
\* it fails again, abandon_entry counts nothing and the loop moves on
FuzzRecalibrate ==
    /\ pc = "fuzz" /\ cal_failed[queue_cur] > 0
    /\ \/ /\ cal_failed[queue_cur] < CalChances
          /\ Calibrated(queue_cur, "trim")
          /\ UNCHANGED queue_cur
       \/ /\ cal_failed' = IF cal_failed[queue_cur] < CalChances
                           THEN [cal_failed EXCEPT ![queue_cur] = @ + 1]
                           ELSE cal_failed
          /\ queue_cur' = NextInQueue /\ pc' = "loop"
          /\ UNCHANGED <<fav, hit, runVars, ret, entry, byte>>
    /\ UNCHANGED <<scoreVars, cullVars, queued_paths, has_new_incorrect, trim_done,
                   was_fuzzed, pending_not_fuzzed, tfVars>>

FuzzStart ==
    /\ pc = "fuzz" /\ cal_failed[queue_cur] = 0
    /\ pc' = "trim"
    /\ UNCHANGED <<scoreVars, cullVars, entryVars, fuzzVars, runVars, tfVars,
                   ret, entry, byte>>

\* trim_case, once per entry: a removal that keeps the checksum of trace_bits
\* (not of hybrid_bits) shrinks the entry, which is scored again
Trim ==
    /\ pc = "trim"
    /\ \/ /\ queue_cur \notin trim_done
          /\ \E T \in IF VariableTraces THEN (SUBSET Slots) \ {{}} ELSE {hit[queue_cur]},
                f \in FavFactors :
                /\ f <= fav[queue_cur]
                /\ trace_bits' = T /\ hybrid_bits' \in RunsHitting(T)
                /\ fav' = [fav EXCEPT ![queue_cur] = f]
          /\ entry' = queue_cur
          /\ Call("score", "havoc")
       \/ /\ pc' = "havoc"
          /\ UNCHANGED <<fav, runVars, entry, byte, ret>>
    /\ trim_done' = trim_done \cup {queue_cur}
    /\ UNCHANGED <<scoreVars, cullVars, queued_paths, hit, cal_failed,
                   has_new_incorrect, queue_cur, was_fuzzed, pending_not_fuzzed,
                   tfVars>>

\* save_if_interesting keeps a mutant (while fuzzing) or a case of another
\* fuzzer (sync_fuzzers): add_to_queue, tag, calibrate inline
Save ==
    /\ pc \in {"havoc", "sync"} /\ queued_paths < MaxEntries
    /\ queued_paths' = queued_paths + 1
    /\ pending_not_fuzzed' = pending_not_fuzzed + 1
    /\ has_new_incorrect' = IF TF_switch THEN has_new_incorrect \cup {queued_paths'}
                                         ELSE has_new_incorrect
    /\ \/ Calibrated(queued_paths', pc)
       \/ /\ cal_failed' = [cal_failed EXCEPT ![queued_paths'] = 1]
          /\ UNCHANGED <<fav, hit, runVars, pc, ret, entry, byte>>
    /\ UNCHANGED <<scoreVars, cullVars, queue_cur, trim_done, was_fuzzed, tfVars>>

\* abandon_entry at the end of fuzz_one
FuzzDone ==
    /\ pc = "havoc"
    /\ LET first == cal_failed[queue_cur] = 0 /\ queue_cur \notin was_fuzzed
       IN  /\ was_fuzzed' = IF first THEN was_fuzzed \cup {queue_cur} ELSE was_fuzzed
           /\ pending_not_fuzzed' = pending_not_fuzzed - (IF first THEN 1 ELSE 0)
           /\ pending_favored' =
                pending_favored - (IF first /\ queue_cur \in favored THEN 1 ELSE 0)
    /\ pc' = "sync"
    /\ UNCHANGED <<scoreVars, favored, fs_redundant, queued_favored, temp_v, entryVars,
                   queue_cur, trim_done, runVars, tfVars, ret, entry, byte>>

\* end of the loop body
Advance ==
    /\ pc = "sync" /\ pc' = "loop" /\ queue_cur' = NextInQueue
    /\ UNCHANGED <<scoreVars, cullVars, entryVars, runVars, trim_done, was_fuzzed,
                   pending_not_fuzzed, tfVars, ret, entry, byte>>

\* stop_soon is seen: abandon_entry counts nothing and the loop is left
Stop ==
    /\ pc \in {"dry", "fuzz", "trim", "havoc", "sync"} /\ pc' = "halt"
    /\ UNCHANGED <<scoreVars, cullVars, entryVars, fuzzVars, runVars, tfVars,
                   ret, entry, byte>>

Ended == pc \in {"halt", "segv"} /\ UNCHANGED vars

ScoreStep == ScoreSlot \/ ScoreDone
CullStep == CullRescan \/ CullAltern \/ CullTF \/ GreedyTake \/ GreedyPass \/ CullMark
FuzzStep == FuzzRecalibrate \/ FuzzStart \/ Trim \/ Save \/ FuzzDone
MainStep == DryRun \/ DryRunDone \/ LoopTop \/ Pick \/ FuzzSkip \/ Advance \/ Stop

Next == ScoreStep \/ CullStep \/ FuzzStep \/ MainStep \/ Ended

Spec == Init /\ [][Next]_vars

\* UR() is random: an entry met infinitely often is not skipped every time
Fairness ==
    /\ WF_vars(ScoreStep \/ CullStep \/ FuzzStep \/ DryRun \/ DryRunDone \/ LoopTop
               \/ Pick \/ FuzzSkip \/ Advance)
    /\ \A e \in Entries : SF_vars(queue_cur = e /\ (FuzzStart \/ FuzzRecalibrate))

FairSpec == Spec /\ Fairness

-----------------------------------------------------------------------------
(* Properties.                                                              *)

Labels == {"dry", "score", "cull", "altern", "cull_tf", "greedy", "loop", "pick",
           "fuzz", "trim", "havoc", "sync", "halt", "segv"}

EntryTypes ==
    /\ queued_paths \in 1 .. MaxEntries
    /\ fav \in [Entries -> Nat] /\ hit \in [Entries -> SUBSET Slots]
    /\ cal_failed \in [Entries -> 0 .. CalChances]
    /\ has_new_incorrect \subseteq Queue

ScoreTypes ==
    /\ tc_ref \in [Entries -> 0 .. RefModulus - 1]
    /\ trace_mini \in [Entries -> SUBSET Slots]
    /\ top_rated \in [Slots -> Queue \cup {NULL}]
    /\ top_rated_orig \in [Slots -> Queue \cup {NULL}]
    /\ max_hybrid \in [Slots -> Nat]
    /\ seen \subseteq Slots

CullTypes ==
    /\ favored \subseteq Queue /\ fs_redundant \subseteq Queue
    /\ queued_favored \in Nat /\ pending_favored \in Int
    /\ temp_v \subseteq Slots

FuzzTypes ==
    /\ queue_cur \in Queue \cup {NULL}
    /\ trim_done \subseteq Queue /\ was_fuzzed \subseteq Queue
    /\ pending_not_fuzzed \in Int

RunTypes == trace_bits \subseteq Slots /\ hybrid_bits \in [Slots -> Nat]

ControlTypes ==
    /\ pc \in Labels /\ ret \in {"dry", "loop", "pick", "fuzz", "trim", "havoc", "sync"}
    /\ entry \in 1 .. MaxEntries + 1 /\ byte \in 0 .. MapSize

FlagTypes ==
    /\ score_changed \in BOOLEAN /\ TF_top_null \in BOOLEAN
    /\ TF_switch \in Switches

\* Every variable has its type; entries named by tables and sets are queued,
\* and the walk of the queue (queue_cur) never leaves it.
TypeOK == /\ EntryTypes /\ ScoreTypes /\ CullTypes /\ FuzzTypes /\ RunTypes
          /\ ControlTypes /\ FlagTypes

\* update_bitmap_score leaves no byte ever hit without a winner that
\* cull_queue can elect, although several of its paths clear or skip a table.
SeenBytesHaveWinner == \A s \in seen : GreedyTable[s] # NULL

\* Only successfully calibrated entries sit in the tables: calibrate_case
\* scores nothing on its abort paths, so pending_favored can be worked off.
WinnersCalibrated ==
    \A s \in Slots : \A e \in {top_rated[s], top_rated_orig[s]} \ {NULL} : cal_failed[e] = 0

\* The counters cull_queue, add_to_queue and abandon_entry maintain are the
\* numbers of entries that they stand for, at every step of every loop.
CountersExact ==
    /\ queued_favored = Cardinality(favored)
    /\ pending_favored = Cardinality(favored \ was_fuzzed)
    /\ pending_not_fuzzed = Cardinality(Queue \ was_fuzzed)

\* When the greedy loop of cull_queue ends, the favored entries together hit
\* every byte seen so far.
FavoredCoverSeen ==
    pc = "greedy" /\ byte = MapSize => seen \subseteq UNION {hit[e] : e \in favored}

SlotsOf(e) == Cardinality({s \in Slots : top_rated[s] = e})
              + Cardinality({s \in Slots : top_rated_orig[s] = e})

\* tc_ref counts the table slots that name the entry, and an entry is in a
\* table exactly while its trace_mini is kept.
RefCountExact ==
    \A e \in Entries : tc_ref[e] = SlotsOf(e) /\ (trace_mini[e] # {} <=> tc_ref[e] > 0)

\* The reference counts are exact until the first find is tagged.  Tagged finds
\* enter the tables without being counted and displace others without their being
\* discounted; but only their own counts wrap or lose a trace that is needed.  An
\* entry without the tag never counts fewer slots than name it, and keeps its trace
\* as long as one does.
UntaggedRefCount ==
    /\ has_new_incorrect = {} => RefCountExact
    /\ \A e \in Entries \ has_new_incorrect :
          tc_ref[e] >= SlotsOf(e) /\ (SlotsOf(e) > 0 => trace_mini[e] # {})

\* Outside update_bitmap_score the winner of a byte has the smallest
\* exec_us * len of the scored entries that hit the byte.
WinnerSmallest ==
    \A e \in Entries : \A s \in hit[e] :
        (pc = "score" /\ entry = e => s < byte) =>
            GreedyTable[s] # NULL /\ fav[GreedyTable[s]] <= fav[e]

\* cull_queue never follows a NULL trace_mini.
NoNullTrace == pc # "segv"

\* Every table winner not fuzzed yet is favored when fuzz_one looks at the
\* queue, unless the election is from top_rated_orig: score_changed tells
\* cull_queue of every change of the winners.
WinnersFavored ==
    pc = "fuzz" /\ ~TF_top_null =>
        \A s \in Slots : top_rated[s] # NULL => top_rated[s] \in favored \cup was_fuzzed

\* Every queued entry is eventually fuzzed, unless its calibration failed
\* CAL_CHANCES times or the fuzzer ends.
EntriesFuzzed ==
    \A e \in Entries :
        e \in Queue ~> (e \in was_fuzzed \/ cal_failed[e] = CalChances \/ pc \in {"halt", "segv"})
=============================================================================

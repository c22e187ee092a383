-------------------------- MODULE QueueCullProofs --------------------------
(* Proofs about QueueCull, for every size of queue and bitmap.              *)
EXTENDS QueueCull, FiniteSetTheorems, TLAPS

InFuzz == {"fuzz", "trim", "havoc", "sync"}
InCall == {"score", "cull", "altern", "cull_tf", "greedy"}

\* What the labels say of the cursors: an entry being scored is queued, and
\* fuzz_one, with the routines it calls, works on a queued entry.
ControlOK ==
    /\ pc = "score" => entry \in Queue
    /\ pc \in InFuzz => queue_cur \in Queue
    /\ pc \in InCall /\ ret \in InFuzz => queue_cur \in Queue

TypeInv == TypeOK /\ ControlOK

-----------------------------------------------------------------------------
(* Type correctness.                                                        *)

\* The initial state has its types.
LEMMA InitType == Init => TypeInv
<1> SUFFICES ASSUME Init PROVE TypeInv
    OBVIOUS
<1> USE ConstantsAssumption
<1>1. EntryTypes
    BY DEF Init, EntryTypes, Queue, Entries
<1>2. ScoreTypes
    <2>1. [s \in Slots |-> 0] \in [Slots -> Nat]
        OBVIOUS
    <2> QED BY <2>1 DEF Init, ScoreTypes, ZeroMap, NULL
<1>3. CullTypes /\ FuzzTypes
    BY DEF Init, CullTypes, FuzzTypes
<1>4. RunTypes
    BY DEF Init, RunTypes, ZeroMap
<1>5. ControlTypes
    BY DEF Init, ControlTypes, Labels
<1>6. ControlOK
    BY DEF Init, ControlOK, InFuzz, InCall
<1>7. FlagTypes
    BY Zenon DEF Init, FlagTypes
<1> QED BY <1>1, <1>2, <1>3, <1>4, <1>5, <1>6, <1>7 DEF TypeInv, TypeOK

\* The helpers of update_bitmap_score preserve the types of their argument.
LEMMA DropType ==
    ASSUME NEW ref \in [Entries -> 0 .. RefModulus - 1], NEW e \in Entries \cup {NULL}
    PROVE  DropRef(ref, e) \in [Entries -> 0 .. RefModulus - 1]
BY ConstantsAssumption DEF DropRef, NULL, Entries

\* Taking a reference keeps every count in range.
LEMMA TakeType ==
    ASSUME NEW ref \in [Entries -> 0 .. RefModulus - 1], NEW e \in Entries
    PROVE  TakeRef(ref, e) \in [Entries -> 0 .. RefModulus - 1]
BY ConstantsAssumption DEF TakeRef

\* Freeing a trace leaves the others as they are.
LEMMA DiscardType ==
    ASSUME NEW mini \in [Entries -> SUBSET Slots], NEW ref, NEW e \in Entries \cup {NULL}
    PROVE  Discard(mini, ref, e) \in [Entries -> SUBSET Slots]
BY DEF Discard, NULL, Entries

\* Keeping the trace of a run stores the slots of that run.
LEMMA KeepType ==
    ASSUME NEW mini \in [Entries -> SUBSET Slots], NEW e \in Entries,
           trace_bits \in SUBSET Slots
    PROVE  KeepTrace(mini, e) \in [Entries -> SUBSET Slots]
BY DEF KeepTrace

\* An update of top_rated_orig at a byte of the map preserves the types.
LEMMA OrigType ==
    ASSUME TypeInv, byte \in Slots, entry \in Queue, UNCHANGED queued_paths,
           NEW ref \in [Entries -> 0 .. RefModulus - 1],
           NEW mini \in [Entries -> SUBSET Slots], ScoreOrig(ref, mini)
    PROVE  /\ tc_ref' \in [Entries -> 0 .. RefModulus - 1]
           /\ trace_mini' \in [Entries -> SUBSET Slots]
           /\ top_rated_orig' \in [Slots -> Queue \cup {NULL}]
<1> DEFINE o == top_rated_orig[byte]
           ref1 == DropRef(ref, o)
           mini1 == Discard(mini, ref1, o)
<1>q. Queue \subseteq Entries
    BY ConstantsAssumption DEF TypeInv, TypeOK, EntryTypes, Entries, Queue
<1>1. o \in Entries \cup {NULL} /\ entry \in Entries
    BY <1>q DEF TypeInv, TypeOK, ScoreTypes
<1>2. CASE LosesTo(o)
    BY <1>2 DEF ScoreOrig, TypeInv, TypeOK, ScoreTypes
<1>3. CASE ~LosesTo(o)
    <2>1. ref1 \in [Entries -> 0 .. RefModulus - 1]
        BY <1>1, DropType
    <2>2. mini1 \in [Entries -> SUBSET Slots]
        BY <1>1, DiscardType
    <2>3. /\ tc_ref' = TakeRef(ref1, entry)
          /\ trace_mini' = KeepTrace(mini1, entry)
          /\ top_rated_orig' = [top_rated_orig EXCEPT ![byte] = entry]
        BY <1>3 DEF ScoreOrig
    <2> HIDE DEF ref1, mini1
    <2>4. tc_ref' \in [Entries -> 0 .. RefModulus - 1]
        BY <2>1, <2>3, <1>1, TakeType
    <2>5. trace_mini' \in [Entries -> SUBSET Slots]
        BY <2>2, <2>3, <1>1, KeepType DEF TypeInv, TypeOK, RunTypes
    <2>6. top_rated_orig' \in [Slots -> Queue \cup {NULL}]
        BY <2>3 DEF TypeInv, TypeOK, ScoreTypes
    <2> QED BY <2>4, <2>5, <2>6
<1> QED BY <1>2, <1>3

\* One byte of update_bitmap_score preserves the types of the tables.
LEMMA ScoreSlotType ==
    ASSUME TypeInv, ScoreSlot
    PROVE  ScoreTypes' /\ FlagTypes'
<1> USE DEF TypeInv, TypeOK
<1> DEFINE t == top_rated[byte]
           ref == DropRef(tc_ref, t)
           mini == Discard(trace_mini, ref, t)
<1>1. UNCHANGED <<queued_paths, TF_switch, TF_top_null>> /\ seen' \subseteq Slots
    BY DEF ScoreSlot, entryVars, scoreVars, tfVars, ScoreTypes, RunTypes
<1>2. CASE byte \notin trace_bits
    <2>1. UNCHANGED scoreVars
        BY <1>2 DEF ScoreSlot
    <2>2. ScoreTypes'
        BY <1>1, <2>1 DEF scoreVars, ScoreTypes, Queue
    <2>3. FlagTypes'
        BY <1>1, <2>1 DEF scoreVars, FlagTypes
    <2> QED BY <2>2, <2>3
<1>3. CASE byte \in trace_bits
    <2>q. Queue \subseteq Entries
        BY ConstantsAssumption DEF EntryTypes, Entries, Queue
    <2>1. byte \in Slots /\ entry \in Queue /\ entry \in Entries
        BY <1>3, <2>q DEF ScoreSlot, ControlOK, RunTypes
    <2>2. t \in Queue \cup {NULL} /\ t \in Entries \cup {NULL}
        BY <2>1, <2>q DEF ScoreTypes
    <2>3. ref \in [Entries -> 0 .. RefModulus - 1]
        BY <2>2, DropType DEF ScoreTypes
    <2>4. mini \in [Entries -> SUBSET Slots]
        BY <2>2, DiscardType DEF ScoreTypes
    <2>5. /\ TakeRef(ref, entry) \in [Entries -> 0 .. RefModulus - 1]
          /\ KeepTrace(mini, entry) \in [Entries -> SUBSET Slots]
        BY <2>1, <2>3, <2>4, TakeType, KeepType DEF RunTypes
    <2>6. Queue' = Queue
        BY <1>1 DEF Queue
    <2>7. CASE ScoreBelowMax
        <3>1. ScoreTypes'
            BY <1>1, <2>1, <2>6, <2>7 DEF ScoreBelowMax, ScoreTypes
        <3>2. FlagTypes'
            BY <1>1, <2>7, Zenon DEF ScoreBelowMax, FlagTypes
        <3> QED BY <3>1, <3>2
    <2>8. CASE ScoreTie
        <3>1. ScoreOrig(ref, mini) /\ top_rated' = [top_rated EXCEPT ![byte] = NULL]
              /\ UNCHANGED <<max_hybrid, score_changed>>
            BY <2>8 DEF ScoreTie
        <3> HIDE DEF ref, mini
        <3>2. ScoreTypes'
            BY <1>1, <2>1, <2>3, <2>4, <2>6, <3>1, OrigType DEF ScoreTypes
        <3>3. FlagTypes'
            BY <1>1, <3>1, Zenon DEF FlagTypes
        <3> QED BY <3>2, <3>3
    <2>9. CASE ScoreWin
        <3> DEFINE quiet == ~(max_hybrid[byte] < hybrid_bits[byte]) /\ entry \in has_new_incorrect
                   kept == IF quiet THEN mini ELSE KeepTrace(mini, entry)
        <3>1. /\ top_rated' = [top_rated EXCEPT ![byte] = entry]
              /\ \/ UNCHANGED max_hybrid
                 \/ max_hybrid' = [max_hybrid EXCEPT ![byte] = hybrid_bits[byte]]
              /\ score_changed' = (score_changed \/ ~quiet)
              /\ ScoreOrig(TakeRef(ref, entry), kept)
            BY <2>9 DEF ScoreWin
        <3>2. kept \in [Entries -> SUBSET Slots]
            BY <2>4, <2>5
        <3>3. FlagTypes'
            BY <1>1, <3>1, Zenon DEF FlagTypes
        <3> HIDE DEF ref, mini, quiet, kept
        <3>4. ScoreTypes'
            BY <1>1, <2>1, <2>5, <2>6, <3>1, <3>2, OrigType DEF ScoreTypes, RunTypes
        <3> QED BY <3>3, <3>4
    <2>10. CASE ScoreStock
        <3>1. CASE LosesTo(t)
            <4>1. UNCHANGED <<top_rated, tc_ref, trace_mini, score_changed, top_rated_orig,
                              max_hybrid>>
                BY <2>10, <3>1 DEF ScoreStock
            <4>2. ScoreTypes'
                BY <1>1, <2>6, <4>1 DEF ScoreTypes
            <4>3. FlagTypes'
                BY <1>1, <4>1 DEF FlagTypes
            <4> QED BY <4>2, <4>3
        <3>2. CASE ~LosesTo(t)
            <4>1. /\ top_rated' = [top_rated EXCEPT ![byte] = entry]
                  /\ tc_ref' = TakeRef(ref, entry)
                  /\ trace_mini' = KeepTrace(mini, entry)
                  /\ score_changed' = TRUE
                  /\ UNCHANGED <<top_rated_orig, max_hybrid>>
                BY <2>10, <3>2 DEF ScoreStock
            <4> HIDE DEF ref, mini
            <4>2. ScoreTypes'
                BY <1>1, <2>1, <2>5, <2>6, <4>1 DEF ScoreTypes
            <4>3. FlagTypes'
                BY <1>1, <4>1, Zenon DEF FlagTypes
            <4> QED BY <4>2, <4>3
        <3> QED BY <3>1, <3>2
    <2>11. CASE ScorePlain
        <3>1. /\ tc_ref' \in {tc_ref, ref} /\ trace_mini' \in {trace_mini, mini}
              /\ UNCHANGED <<top_rated, score_changed, top_rated_orig, max_hybrid>>
            BY <2>11 DEF ScorePlain
        <3> HIDE DEF ref, mini
        <3>2. ScoreTypes'
            BY <1>1, <2>3, <2>4, <2>6, <3>1 DEF ScoreTypes
        <3>3. FlagTypes'
            BY <1>1, <3>1, Zenon DEF FlagTypes
        <3> QED BY <3>2, <3>3
    <2> QED BY <1>3, <2>7, <2>8, <2>9, <2>10, <2>11 DEF ScoreSlot
<1> QED BY <1>2, <1>3

\* A group of variables that a step leaves alone keeps its types, also while
\* the queue grows.
LEMMA Frame ==
    ASSUME TypeOK, queued_paths' \in Nat, queued_paths <= queued_paths'
    PROVE  /\ UNCHANGED scoreVars => ScoreTypes'
           /\ UNCHANGED cullVars => CullTypes'
           /\ UNCHANGED fuzzVars => FuzzTypes'
           /\ UNCHANGED entryVars => EntryTypes'
           /\ UNCHANGED runVars => RunTypes'
           /\ UNCHANGED <<score_changed, tfVars>> => FlagTypes'
           /\ UNCHANGED <<pc, ret, entry, byte>> => ControlTypes'
<1>q. Queue \subseteq Queue'
    BY ConstantsAssumption DEF Queue, TypeOK, EntryTypes
<1>1. UNCHANGED scoreVars => ScoreTypes'
    <2>1. \A f \in [Slots -> Queue \cup {NULL}] : f \in [Slots -> Queue' \cup {NULL}]
        BY <1>q
    <2> QED BY <2>1 DEF TypeOK, ScoreTypes, scoreVars
<1>2. UNCHANGED cullVars => CullTypes'
    BY <1>q DEF TypeOK, CullTypes, cullVars
<1>3. UNCHANGED fuzzVars => FuzzTypes'
    BY <1>q DEF TypeOK, FuzzTypes, fuzzVars
<1>4. UNCHANGED entryVars => EntryTypes'
    BY <1>q DEF TypeOK, EntryTypes, entryVars
<1>5. UNCHANGED runVars => RunTypes'
    BY DEF TypeOK, RunTypes, runVars
<1>6. UNCHANGED <<score_changed, tfVars>> => FlagTypes'
    BY DEF TypeOK, FlagTypes, tfVars
<1>7. UNCHANGED <<pc, ret, entry, byte>> => ControlTypes'
    BY DEF TypeOK, ControlTypes
<1> QED BY <1>1, <1>2, <1>3, <1>4, <1>5, <1>6, <1>7

\* The success tail of calibrate_case(e) preserves the types.
LEMMA CalibratedType ==
    ASSUME TypeOK, NEW e \in Entries,
           NEW back \in {"dry", "loop", "pick", "fuzz", "trim", "havoc", "sync"},
           Calibrated(e, back)
    PROVE  /\ fav' \in [Entries -> Nat] /\ hit' \in [Entries -> SUBSET Slots]
           /\ cal_failed' \in [Entries -> 0 .. CalChances]
           /\ RunTypes' /\ ControlTypes'
           /\ pc' = "score" /\ ret' = back /\ entry' = e
<1> USE ConstantsAssumption
<1>1. PICK T \in (SUBSET Slots) \ {{}}, f \in FavFactors :
          /\ trace_bits' = T /\ hybrid_bits' \in RunsHitting(T)
          /\ fav' = [fav EXCEPT ![e] = f]
          /\ hit' = [hit EXCEPT ![e] = T]
    BY DEF Calibrated
<1>2. RunTypes'
    BY <1>1 DEF RunsHitting, RunTypes
<1>3. fav' \in [Entries -> Nat] /\ hit' \in [Entries -> SUBSET Slots]
    BY <1>1 DEF TypeOK, EntryTypes
<1>4. cal_failed' \in [Entries -> 0 .. CalChances]
    BY DEF Calibrated, CalibrationReset, TypeOK, EntryTypes
<1>5. pc' = "score" /\ ret' = back /\ entry' = e /\ byte' = 0
    BY DEF Calibrated, Call
<1>6. ControlTypes'
    BY <1>5 DEF ControlTypes, Labels, Entries
<1> QED BY <1>2, <1>3, <1>4, <1>5, <1>6

\* Every step preserves the types and ControlOK.
LEMMA TypeStep == TypeInv /\ [Next]_vars => TypeInv'
<1> SUFFICES ASSUME TypeInv, [Next]_vars PROVE TypeInv'
    OBVIOUS
<1> USE ConstantsAssumption DEF TypeInv, TypeOK, Call
<1>q. Queue \subseteq Entries /\ queued_paths \in Nat /\ Queue = 1 .. queued_paths
    BY DEF EntryTypes, Entries, Queue
<1>1. CASE ScoreSlot
    <2>1. ScoreTypes' /\ FlagTypes'
        BY <1>1, ScoreSlotType
    <2>2. UNCHANGED <<cullVars, entryVars, fuzzVars, runVars, pc, ret, entry>>
        BY <1>1 DEF ScoreSlot
    <2>3. CullTypes' /\ EntryTypes' /\ FuzzTypes' /\ RunTypes'
        BY <2>2, <1>q, Frame DEF entryVars
    <2>4. ControlTypes'
        BY <1>1, <2>2 DEF ScoreSlot, ControlTypes
    <2>5. ControlOK'
        BY <2>2 DEF ControlOK, entryVars, fuzzVars, Queue
    <2> QED BY <2>1, <2>3, <2>4, <2>5
<1>2. CASE ScoreDone
    <2>1. UNCHANGED <<scoreVars, cullVars, entryVars, fuzzVars, tfVars>>
        BY <1>2 DEF ScoreDone
    <2>2. /\ ScoreTypes' /\ CullTypes' /\ EntryTypes' /\ FuzzTypes' /\ FlagTypes'
        BY <2>1, <1>q, Frame DEF entryVars, scoreVars
    <2>3. RunTypes'
        BY <1>2 DEF ScoreDone, RunTypes, ZeroMap
    <2>4. ControlTypes'
        BY <1>2, <1>q DEF ScoreDone, ControlTypes, ControlOK, Labels, Entries
    <2>5. ControlOK'
        BY <1>2, <2>1 DEF ScoreDone, ControlOK, ControlTypes, InFuzz, InCall, entryVars, fuzzVars,
           Queue
    <2> QED BY <2>2, <2>3, <2>4, <2>5
<1>3. CASE CullRescan
    <2>1. UNCHANGED <<entryVars, fuzzVars, runVars>>
        BY <1>3 DEF CullRescan
    <2>2. EntryTypes' /\ FuzzTypes' /\ RunTypes'
        BY <2>1, <1>q, Frame DEF entryVars
    <2>3. ScoreTypes' /\ CullTypes'
        BY <1>3, <2>1 DEF CullRescan, ResetFavored, ScoreTypes, CullTypes, entryVars, Queue
    <2>4. FlagTypes'
        BY <1>3, Zenon DEF CullRescan, FlagTypes
    <2>5. ControlTypes' /\ ControlOK'
        BY <1>3, <2>1 DEF CullRescan, ControlTypes, ControlOK, Labels, InFuzz, InCall,
           entryVars, fuzzVars, Queue
    <2> QED BY <2>2, <2>3, <2>4, <2>5
<1>4. CASE CullAltern
    <2>1. UNCHANGED <<scoreVars, entryVars, fuzzVars, runVars, tfVars>>
        BY <1>4 DEF CullAltern
    <2>2. ScoreTypes' /\ EntryTypes' /\ FuzzTypes' /\ RunTypes' /\ FlagTypes'
        BY <2>1, <1>q, Frame DEF entryVars, scoreVars
    <2>3. CullTypes'
        <3>1. /\ favored' \in {favored, {}} /\ fs_redundant' = fs_redundant
              /\ queued_favored' \in {queued_favored, 0}
              /\ pending_favored' \in {pending_favored, 0} /\ temp_v' \in {temp_v, Slots}
            BY <1>4 DEF CullAltern, ResetFavored
        <3> QED BY <2>1, <3>1 DEF CullTypes, entryVars, Queue
    <2>4. ControlTypes' /\ ControlOK'
        BY <1>4, <2>1 DEF CullAltern, ControlTypes, ControlOK, Labels, InFuzz, InCall,
           entryVars, fuzzVars, Queue
    <2> QED BY <2>2, <2>3, <2>4
<1>5. CASE CullTF
    <2>1. UNCHANGED <<scoreVars, entryVars, fuzzVars, runVars, tfVars>>
        BY <1>5 DEF CullTF
    <2>2. ScoreTypes' /\ EntryTypes' /\ FuzzTypes' /\ RunTypes' /\ FlagTypes'
        BY <2>1, <1>q, Frame DEF entryVars, scoreVars
    <2>3. byte \in Slots
        BY <1>5 DEF CullTF, ControlTypes, Slots
    <2>4. CullTypes'
        <3> DEFINE w == top_rated[byte]
        <3>1. w \in Queue \cup {NULL}
            BY <2>3 DEF ScoreTypes
        <3>2. /\ favored' = favored \/ (favored' = favored \cup {w} /\ w # NULL)
              /\ queued_favored' \in {queued_favored + 0, queued_favored + 1}
              /\ pending_favored' \in {pending_favored + 0, pending_favored + 1}
              /\ UNCHANGED <<fs_redundant, temp_v>>
            BY <1>5, Zenon DEF CullTF
        <3> HIDE DEF w
        <3>3. Queue' = Queue
            BY <2>1 DEF entryVars, Queue
        <3>4. favored' \subseteq Queue' /\ fs_redundant' \subseteq Queue' /\ temp_v' \subseteq Slots
            BY <3>1, <3>2, <3>3 DEF CullTypes
        <3>5. queued_favored' \in Nat /\ pending_favored' \in Int
            BY <3>2 DEF CullTypes
        <3> QED BY <3>4, <3>5 DEF CullTypes
    <2>5. ControlTypes' /\ ControlOK'
        BY <1>5, <2>1 DEF CullTF, ControlTypes, ControlOK, entryVars, fuzzVars, Queue
    <2> QED BY <2>2, <2>4, <2>5
<1>6. CASE GreedyTake
    <2>1. UNCHANGED <<scoreVars, entryVars, fuzzVars, runVars, tfVars>>
        BY <1>6 DEF GreedyTake
    <2>2. ScoreTypes' /\ EntryTypes' /\ FuzzTypes' /\ RunTypes' /\ FlagTypes'
        BY <2>1, <1>q, Frame DEF entryVars, scoreVars
    <2>3. byte \in Slots
        BY <1>6 DEF GreedyTake, ControlTypes, Slots
    <2>4. GreedyTable[byte] \in Queue \cup {NULL}
        BY <2>3 DEF GreedyTable, ScoreTypes
    <2>5. CullTypes'
        <3> DEFINE w == GreedyTable[byte]
        <3>1. /\ w # NULL /\ favored' \in {favored, favored \cup {w}}
              /\ queued_favored' \in {queued_favored, queued_favored + 1}
              /\ pending_favored' \in {pending_favored, pending_favored + 0, pending_favored + 1}
              /\ temp_v' \in {temp_v, Uncovered(w)} /\ UNCHANGED fs_redundant
            BY <1>6 DEF GreedyTake
        <3>2. Queue' = Queue
            BY <2>1 DEF entryVars, Queue
        <3> HIDE DEF w
        <3>3. favored' \subseteq Queue' /\ fs_redundant' \subseteq Queue' /\ temp_v' \subseteq Slots
            BY <2>4, <3>1, <3>2 DEF CullTypes, Uncovered, w
        <3>4. queued_favored' \in Nat /\ pending_favored' \in Int
            BY <3>1 DEF CullTypes
        <3> QED BY <3>3, <3>4 DEF CullTypes
    <2>6. ControlTypes' /\ ControlOK'
        BY <1>6, <2>1 DEF GreedyTake, ControlTypes, ControlOK, Labels, InFuzz, InCall,
           entryVars, fuzzVars, Queue
    <2> QED BY <2>2, <2>5, <2>6
<1>7. CASE GreedyPass
    <2>1. UNCHANGED <<scoreVars, cullVars, entryVars, fuzzVars, runVars, tfVars>>
        BY <1>7 DEF GreedyPass
    <2>2. /\ ScoreTypes' /\ CullTypes' /\ EntryTypes' /\ FuzzTypes' /\ RunTypes' /\ FlagTypes'
        BY <2>1, <1>q, Frame DEF entryVars, scoreVars
    <2>3. ControlTypes' /\ ControlOK'
        BY <1>7, <2>1 DEF GreedyPass, ControlTypes, ControlOK, entryVars, fuzzVars, Queue
    <2> QED BY <2>2, <2>3
<1>8. CASE CullMark
    <2>1. UNCHANGED <<scoreVars, entryVars, fuzzVars, runVars, tfVars>>
        BY <1>8 DEF CullMark
    <2>2. ScoreTypes' /\ EntryTypes' /\ FuzzTypes' /\ RunTypes' /\ FlagTypes'
        BY <2>1, <1>q, Frame DEF entryVars, scoreVars
    <2>3. CullTypes'
        BY <1>8, <2>1 DEF CullMark, CullTypes, entryVars, Queue
    <2>4. ControlTypes' /\ ControlOK'
        BY <1>8, <2>1 DEF CullMark, ControlTypes, ControlOK, Labels, InFuzz, InCall,
           entryVars, fuzzVars, Queue
    <2> QED BY <2>2, <2>3, <2>4
<1>9. CASE DryRun
    <2>1. /\ UNCHANGED <<scoreVars, cullVars, queued_paths, has_new_incorrect, fuzzVars,
                         tfVars>>
          /\ entry \in Queue /\ entry \in Entries
        BY <1>9, <1>q DEF DryRun, ControlTypes, EntryTypes
    <2>2. ScoreTypes' /\ CullTypes' /\ FuzzTypes' /\ FlagTypes'
        BY <2>1, <1>q, Frame DEF scoreVars
    <2>3. CASE Calibrated(entry, "dry")
        <3>1. EntryTypes' /\ RunTypes' /\ ControlTypes'
            BY <2>1, <2>3, CalibratedType DEF EntryTypes, Queue
        <3>2. ControlOK'
            BY <2>1, <2>3, CalibratedType DEF ControlOK, InFuzz, InCall, Queue
        <3> QED BY <2>2, <3>1, <3>2
    <2>4. CASE ~Calibrated(entry, "dry")
        <3>1. /\ cal_failed' = [cal_failed EXCEPT ![entry] = CalChances]
              /\ entry' = entry + 1 /\ pc = "dry"
              /\ UNCHANGED <<fav, hit, runVars, pc, ret, byte>>
            BY <1>9, <2>4 DEF DryRun
        <3>2. EntryTypes'
            BY <2>1, <3>1 DEF EntryTypes, Queue
        <3>3. RunTypes' /\ ControlTypes' /\ ControlOK'
            BY <2>1, <3>1, <1>q DEF RunTypes, runVars, ControlTypes, ControlOK, InFuzz,
               InCall, Entries
        <3> QED BY <2>2, <3>2, <3>3
    <2> QED BY <2>3, <2>4
<1>10. CASE DryRunDone
    <2>1. UNCHANGED <<scoreVars, cullVars, entryVars, fuzzVars, runVars, tfVars>>
        BY <1>10 DEF DryRunDone
    <2>2. /\ ScoreTypes' /\ CullTypes' /\ EntryTypes' /\ FuzzTypes' /\ RunTypes' /\ FlagTypes'
        BY <2>1, <1>q, Frame DEF entryVars, scoreVars
    <2>3. ControlTypes' /\ ControlOK'
        BY <1>10 DEF DryRunDone, ControlTypes, ControlOK, Labels, InFuzz, InCall
    <2> QED BY <2>2, <2>3
<1>11. CASE LoopTop
    <2>1. UNCHANGED <<scoreVars, cullVars, entryVars, fuzzVars, runVars, tfVars>>
        BY <1>11 DEF LoopTop
    <2>2. /\ ScoreTypes' /\ CullTypes' /\ EntryTypes' /\ FuzzTypes' /\ RunTypes' /\ FlagTypes'
        BY <2>1, <1>q, Frame DEF entryVars, scoreVars
    <2>3. ControlTypes' /\ ControlOK'
        BY <1>11 DEF LoopTop, ControlTypes, ControlOK, Labels, InFuzz, InCall
    <2> QED BY <2>2, <2>3
<1>12. CASE Pick
    <2>1. UNCHANGED <<scoreVars, cullVars, entryVars, runVars, trim_done, was_fuzzed,
                      pending_not_fuzzed>>
        BY <1>12 DEF Pick
    <2>2. /\ ScoreTypes' /\ CullTypes' /\ EntryTypes' /\ RunTypes'
        BY <2>1, <1>q, Frame DEF entryVars
    <2>3. queue_cur' \in Queue
        BY <1>12 DEF Pick, FuzzTypes, Queue, EntryTypes
    <2>4. FuzzTypes'
        BY <2>1, <2>3 DEF FuzzTypes, entryVars, Queue
    <2>5. score_changed' \in BOOLEAN
        BY <2>1 DEF scoreVars, FlagTypes
    <2>6. TF_top_null' \in BOOLEAN
        BY <1>12, Zenon DEF Pick, FlagTypes
    <2>7. FlagTypes'
        BY <1>12, <2>5, <2>6 DEF Pick, FlagTypes
    <2>8. ControlTypes' /\ ControlOK'
        BY <1>12, <2>1, <2>3 DEF Pick, ControlTypes, ControlOK, Labels, InFuzz, InCall,
           entryVars, Queue
    <2> QED BY <2>2, <2>4, <2>7, <2>8
<1>13. CASE FuzzSkip \/ Advance
    <2>1. /\ UNCHANGED <<scoreVars, cullVars, entryVars, runVars, trim_done, was_fuzzed,
                         pending_not_fuzzed, tfVars, ret, entry, byte>>
          /\ queue_cur' = NextInQueue /\ pc' = "loop" /\ queue_cur \in Queue
        BY <1>13 DEF FuzzSkip, Advance, ControlOK, InFuzz
    <2>2. ScoreTypes' /\ CullTypes' /\ EntryTypes' /\ RunTypes' /\ FlagTypes'
        BY <2>1, <1>q, Frame DEF entryVars, scoreVars
    <2>3. FuzzTypes'
        BY <2>1, <1>q DEF FuzzTypes, NextInQueue, NULL, entryVars, Queue
    <2>4. ControlTypes' /\ ControlOK'
        BY <2>1 DEF ControlTypes, ControlOK, Labels, InFuzz, InCall
    <2> QED BY <2>2, <2>3, <2>4
<1>14. CASE FuzzRecalibrate
    <2>1. /\ UNCHANGED <<scoreVars, cullVars, queued_paths, has_new_incorrect, trim_done,
                         was_fuzzed, pending_not_fuzzed, tfVars>>
          /\ queue_cur \in Queue /\ queue_cur \in Entries
        BY <1>14, <1>q DEF FuzzRecalibrate, ControlOK, InFuzz
    <2>2. ScoreTypes' /\ CullTypes' /\ FlagTypes'
        BY <2>1, <1>q, Frame DEF scoreVars
    <2>3. CASE Calibrated(queue_cur, "trim") /\ UNCHANGED queue_cur
        <3>1. EntryTypes' /\ RunTypes' /\ ControlTypes'
            BY <2>1, <2>3, CalibratedType DEF EntryTypes, Queue
        <3>2. ControlOK'
            BY <2>1, <2>3, CalibratedType DEF ControlOK, InFuzz, InCall, Queue
        <3>3. FuzzTypes'
            BY <2>1, <2>3 DEF FuzzTypes, Queue
        <3> QED BY <2>2, <3>1, <3>2, <3>3
    <2>4. CASE ~(Calibrated(queue_cur, "trim") /\ UNCHANGED queue_cur)
        <3>1. /\ cal_failed' = IF cal_failed[queue_cur] < CalChances
                               THEN [cal_failed EXCEPT ![queue_cur] = @ + 1]
                               ELSE cal_failed
              /\ pc' = "loop" /\ queue_cur' = NextInQueue
              /\ UNCHANGED <<fav, hit, runVars, ret, entry, byte>>
            BY <1>14, <2>4 DEF FuzzRecalibrate
        <3>2. EntryTypes'
            BY <2>1, <3>1 DEF EntryTypes, Queue
        <3>3. RunTypes' /\ ControlTypes'
            BY <3>1 DEF RunTypes, runVars, ControlTypes, Labels
        <3>4. ControlOK'
            BY <3>1 DEF ControlOK, InFuzz, InCall
        <3>5. FuzzTypes'
            BY <2>1, <3>1, <1>q DEF FuzzTypes, NextInQueue, NULL, Queue
        <3> QED BY <2>2, <3>2, <3>3, <3>4, <3>5
    <2> QED BY <2>3, <2>4
<1>15. CASE FuzzStart \/ Stop
    <2>1. /\ UNCHANGED <<scoreVars, cullVars, entryVars, fuzzVars, runVars, tfVars, ret,
                         entry, byte>>
          /\ pc' \in {"trim", "halt"} /\ (pc' = "trim" => queue_cur \in Queue)
        BY <1>15 DEF FuzzStart, Stop, ControlOK, InFuzz
    <2>2. /\ ScoreTypes' /\ CullTypes' /\ EntryTypes' /\ FuzzTypes' /\ RunTypes' /\ FlagTypes'
        BY <2>1, <1>q, Frame DEF entryVars, scoreVars
    <2>3. ControlTypes' /\ ControlOK'
        BY <2>1 DEF ControlTypes, ControlOK, Labels, InFuzz, InCall, entryVars, fuzzVars, Queue
    <2> QED BY <2>2, <2>3
<1>16. CASE Trim
    <2>1. /\ UNCHANGED <<scoreVars, cullVars, queued_paths, hit, cal_failed, has_new_incorrect,
                         queue_cur, was_fuzzed, pending_not_fuzzed, tfVars>>
          /\ trim_done' = trim_done \cup {queue_cur}
          /\ queue_cur \in Queue /\ queue_cur \in Entries
        BY <1>16, <1>q DEF Trim, ControlOK, InFuzz
    <2>2. ScoreTypes' /\ CullTypes' /\ FlagTypes'
        BY <2>1, <1>q, Frame DEF scoreVars
    <2>3. FuzzTypes'
        BY <2>1 DEF FuzzTypes, Queue
    <2>4. fav' \in [Entries -> Nat] /\ RunTypes'
        <3>1. CASE UNCHANGED <<fav, runVars>>
            BY <3>1 DEF EntryTypes, RunTypes, runVars
        <3>2. CASE \E T \in SUBSET Slots, f \in FavFactors :
                      /\ trace_bits' = T /\ hybrid_bits' \in RunsHitting(T)
                      /\ fav' = [fav EXCEPT ![queue_cur] = f]
            BY <3>2 DEF EntryTypes, RunTypes, RunsHitting
        <3>3. {hit[queue_cur]} \subseteq SUBSET Slots
            BY <2>1 DEF EntryTypes
        <3> QED BY <1>16, <3>1, <3>2, <3>3 DEF Trim
    <2>5. EntryTypes'
        BY <2>1, <2>4 DEF EntryTypes, Queue
    <2>6. ControlTypes' /\ ControlOK'
        BY <1>16, <2>1, <1>q DEF Trim, ControlTypes, ControlOK, Labels, InFuzz, InCall, Queue,
           Entries
    <2> QED BY <2>2, <2>3, <2>4, <2>5, <2>6
<1>17. CASE Save
    <2>1. /\ UNCHANGED <<scoreVars, cullVars, queue_cur, trim_done, was_fuzzed, tfVars>>
          /\ queued_paths' = queued_paths + 1 /\ queued_paths < MaxEntries
          /\ pending_not_fuzzed' = pending_not_fuzzed + 1
          /\ has_new_incorrect' \in {has_new_incorrect, has_new_incorrect \cup {queued_paths'}}
          /\ queue_cur \in Queue /\ pc \in {"havoc", "sync"}
        BY <1>17 DEF Save, ControlOK, InFuzz
    <2>2. /\ queued_paths' \in Entries /\ queued_paths' \in Queue' /\ Queue \subseteq Queue'
          /\ queued_paths' \in 1 .. MaxEntries
        BY <2>1, <1>q DEF Entries, Queue, EntryTypes
    <2>3. ScoreTypes' /\ CullTypes' /\ FlagTypes'
        BY <2>1, <1>q, Frame DEF scoreVars
    <2>4. FuzzTypes'
        BY <2>1, <2>2 DEF FuzzTypes
    <2>5. has_new_incorrect' \subseteq Queue'
        BY <2>1, <2>2 DEF EntryTypes
    <2>6. CASE Calibrated(queued_paths', pc)
        <3>1. EntryTypes' /\ RunTypes' /\ ControlTypes'
            BY <2>1, <2>2, <2>5, <2>6, CalibratedType DEF EntryTypes
        <3>2. pc' = "score" /\ entry' = queued_paths'
            BY <2>1, <2>2, <2>6, CalibratedType
        <3>3. ControlOK'
            BY <2>1, <2>2, <3>2 DEF ControlOK, InFuzz
        <3> QED BY <2>3, <2>4, <3>1, <3>3
    <2>7. CASE ~Calibrated(queued_paths', pc)
        <3>1. /\ cal_failed' = [cal_failed EXCEPT ![queued_paths'] = 1]
              /\ UNCHANGED <<fav, hit, runVars, pc, ret, entry, byte>>
            BY <1>17, <2>7 DEF Save
        <3>2. EntryTypes'
            BY <2>2, <2>5, <3>1 DEF EntryTypes
        <3>3. RunTypes' /\ ControlTypes'
            BY <3>1 DEF RunTypes, runVars, ControlTypes
        <3>4. ControlOK'
            BY <2>1, <2>2, <3>1 DEF ControlOK
        <3> QED BY <2>3, <2>4, <3>2, <3>3, <3>4
    <2> QED BY <2>6, <2>7
<1>18. CASE FuzzDone
    <2>1. /\ UNCHANGED <<scoreVars, favored, fs_redundant, queued_favored, temp_v, entryVars,
                         queue_cur, trim_done, runVars, tfVars, ret, entry, byte>>
          /\ pc' = "sync" /\ queue_cur \in Queue
        BY <1>18 DEF FuzzDone, ControlOK, InFuzz
    <2>2. ScoreTypes' /\ EntryTypes' /\ RunTypes' /\ FlagTypes'
        BY <2>1, <1>q, Frame DEF entryVars, scoreVars
    <2>3. CullTypes' /\ FuzzTypes'
        BY <1>18, <2>1 DEF FuzzDone, CullTypes, FuzzTypes, entryVars, Queue
    <2>4. ControlTypes' /\ ControlOK'
        BY <2>1 DEF ControlTypes, ControlOK, Labels, InCall, entryVars, Queue
    <2> QED BY <2>2, <2>3, <2>4
<1>19. CASE UNCHANGED vars
    <2>1. /\ UNCHANGED <<scoreVars, cullVars, entryVars, fuzzVars, runVars, tfVars>>
          /\ UNCHANGED <<pc, ret, entry, byte>>
        BY <1>19 DEF vars
    <2>2. TypeOK'
        BY <2>1, <1>q, Frame DEF entryVars, scoreVars
    <2>3. ControlOK'
        BY <2>1 DEF ControlOK, entryVars, fuzzVars, Queue
    <2> QED BY <2>2, <2>3
<1> QED BY <1>1, <1>2, <1>3, <1>4, <1>5, <1>6, <1>7, <1>8, <1>9, <1>10, <1>11, <1>12, <1>13,
           <1>14, <1>15, <1>16, <1>17, <1>18, <1>19
        DEF Next, ScoreStep, CullStep, FuzzStep, MainStep, Ended

\* afl-fuzz keeps every variable in its type and walks only queued entries,
\* for any number of entries, size of the bitmap, and target behaviour.
THEOREM TypeCorrect == Spec => []TypeOK
<1>1. Spec => []TypeInv
    BY InitType, TypeStep, PTL DEF Spec
<1>2. TypeInv => TypeOK
    BY DEF TypeInv
<1> QED BY <1>1, <1>2, PTL

-----------------------------------------------------------------------------
(* The tables.                                                              *)

tables == <<tc_ref, trace_mini, top_rated, top_rated_orig, max_hybrid, seen>>

\* Only update_bitmap_score writes to the tables.
LEMMA OnlyScoreWrites == [Next]_vars => ScoreSlot \/ UNCHANGED tables
<1> SUFFICES ASSUME [Next]_vars, ~ScoreSlot PROVE UNCHANGED tables
    OBVIOUS
<1>1. CASE UNCHANGED scoreVars
    BY <1>1 DEF scoreVars, tables
<1>2. CASE CullRescan
    BY <1>2 DEF CullRescan, tables
<1>3. CASE ScoreDone \/ CullAltern \/ CullTF \/ GreedyTake \/ GreedyPass \/ CullMark
    BY <1>1, <1>3 DEF ScoreDone, CullAltern, CullTF, GreedyTake, GreedyPass, CullMark
<1>4. CASE FuzzStep
    BY <1>1, <1>4 DEF FuzzStep, FuzzRecalibrate, FuzzStart, Trim, Save, FuzzDone
<1>5. CASE MainStep
    BY <1>1, <1>5 DEF MainStep, DryRun, DryRunDone, LoopTop, Pick, FuzzSkip, Advance, Stop
<1>6. CASE UNCHANGED vars
    BY <1>1, <1>6 DEF vars
<1> QED BY <1>2, <1>3, <1>4, <1>5, <1>6 DEF Next, ScoreStep, CullStep, Ended

\* TF_switch is set once, from the command line.
LEMMA SwitchFixed == [Next]_vars => UNCHANGED TF_switch
<1> SUFFICES ASSUME [Next]_vars PROVE UNCHANGED TF_switch
    OBVIOUS
<1>1. CASE UNCHANGED tfVars
    BY <1>1 DEF tfVars
<1>2. CASE ScoreStep
    BY <1>1, <1>2 DEF ScoreStep, ScoreSlot, ScoreDone
<1>3. CASE CullStep
    BY <1>1, <1>3 DEF CullStep, CullRescan, CullAltern, CullTF, GreedyTake, GreedyPass, CullMark
<1>4. CASE FuzzStep
    BY <1>1, <1>4 DEF FuzzStep, FuzzRecalibrate, FuzzStart, Trim, Save, FuzzDone
<1>5. CASE MainStep
    BY <1>1, <1>5 DEF MainStep, DryRun, DryRunDone, LoopTop, Pick, FuzzSkip, Advance, Stop
<1>6. CASE UNCHANGED vars
    BY <1>1, <1>6 DEF vars
<1> QED BY <1>2, <1>3, <1>4, <1>5, <1>6 DEF Next, Ended

\* The inductive form of SeenBytesHaveWinner: with -s, a byte that has an
\* incumbent in top_rated has one in top_rated_orig, so the "continue" of the
\* below-maximum branch never skips the first insertion.
WinnerInv ==
    \A s \in Slots : s \in seen \/ (TF_switch /\ top_rated[s] # NULL) => GreedyTable[s] # NULL

\* One byte of update_bitmap_score preserves WinnerInv.
LEMMA WinnerScore ==
    ASSUME Stock \/ TF_switch, TypeInv, WinnerInv, ScoreSlot, UNCHANGED TF_switch
    PROVE  WinnerInv'
<1>1. CASE byte \notin trace_bits
    BY <1>1 DEF ScoreSlot, WinnerInv, scoreVars, GreedyTable
<1>2. CASE byte \in trace_bits
    <2>1. byte \in Slots /\ entry # NULL /\ seen' = seen \cup {byte}
        BY <1>2 DEF ScoreSlot, TypeInv, TypeOK, RunTypes, ControlOK, Queue, NULL
    <2>2. top_rated \in [Slots -> Queue \cup {NULL}] /\ top_rated_orig \in [Slots -> Queue \cup {NULL}]
        BY DEF TypeInv, TypeOK, ScoreTypes
    <2>3. ASSUME NEW ref, NEW mini, ScoreOrig(ref, mini)
          PROVE  /\ top_rated_orig'[byte] # NULL
                 /\ \A s \in Slots \ {byte} : top_rated_orig'[s] = top_rated_orig[s]
        BY <2>1, <2>2, <2>3 DEF ScoreOrig, LosesTo
    <2>4. CASE TF_switch
        <3>1. /\ top_rated_orig'[byte] # NULL
              /\ \A s \in Slots \ {byte} : top_rated_orig'[s] = top_rated_orig[s]
            <4>1. CASE ScoreBelowMax
                BY <2>1, <2>4, <4>1 DEF ScoreBelowMax, WinnerInv, GreedyTable
            <4>2. CASE ScoreTie
                BY <2>3, <4>2 DEF ScoreTie
            <4>3. CASE ScoreWin
                BY <2>3, <4>3 DEF ScoreWin
            <4> QED BY <1>2, <2>4, <4>1, <4>2, <4>3 DEF ScoreSlot
        <3>2. \A s \in Slots \ {byte} : top_rated'[s] = top_rated[s]
            BY <1>2, <2>1, <2>2, <2>4 DEF ScoreSlot, ScoreBelowMax, ScoreTie, ScoreWin
        <3> QED BY <2>1, <2>4, <3>1, <3>2 DEF WinnerInv, GreedyTable
    <2>5. CASE ~TF_switch
        <3>1. ScoreStock
            BY <1>2, <2>5 DEF ScoreSlot
        <3>2. /\ top_rated'[byte] # NULL
              /\ \A s \in Slots \ {byte} : top_rated'[s] = top_rated[s]
            BY <2>1, <2>2, <3>1 DEF ScoreStock, LosesTo
        <3> QED BY <2>1, <2>5, <3>2 DEF WinnerInv, GreedyTable
    <2> QED BY <2>4, <2>5
<1> QED BY <1>1, <1>2

\* In afl/afl-fuzz.c, and in hybrid_metric/afl-fuzz.c run with -s, every byte
\* ever hit by a scored run has a winner from which cull_queue can elect.
THEOREM WinnerAlways ==
    ASSUME Stock \/ FALSE \notin Switches PROVE Spec => []SeenBytesHaveWinner
<1>1. Init => WinnerInv
    BY DEF Init, WinnerInv
<1>2. TypeInv /\ WinnerInv /\ [Next]_vars => WinnerInv'
    <2> SUFFICES ASSUME TypeInv, WinnerInv, [Next]_vars PROVE WinnerInv'
        OBVIOUS
    <2>1. Stock \/ TF_switch
        BY ConstantsAssumption, Zenon DEF TypeInv, TypeOK, FlagTypes
    <2>2. CASE ScoreSlot
        BY <2>1, <2>2, WinnerScore, SwitchFixed
    <2>3. CASE UNCHANGED tables
        BY <2>3, SwitchFixed DEF tables, WinnerInv, GreedyTable
    <2> QED BY <2>2, <2>3, OnlyScoreWrites
<1>3. TypeInv /\ WinnerInv => SeenBytesHaveWinner
    BY DEF TypeInv, TypeOK, ScoreTypes, WinnerInv, SeenBytesHaveWinner
<1> QED BY InitType, TypeStep, <1>1, <1>2, <1>3, PTL DEF Spec

\* update_bitmap_score puts nobody but the entry it scores into a table.
LEMMA OnlyEntryEnters ==
    ASSUME TypeInv, ScoreSlot, NEW s \in Slots
    PROVE  /\ top_rated'[s] \in {top_rated[s], entry, NULL}
           /\ top_rated_orig'[s] \in {top_rated_orig[s], entry}
<1>1. top_rated \in [Slots -> Queue \cup {NULL}] /\ top_rated_orig \in [Slots -> Queue \cup {NULL}]
    BY DEF TypeInv, TypeOK, ScoreTypes
<1>2. CASE byte \notin trace_bits
    BY <1>2 DEF ScoreSlot, scoreVars
<1>3. CASE byte \in trace_bits
    <2>1. ASSUME NEW ref, NEW mini, ScoreOrig(ref, mini)
          PROVE  top_rated_orig'[s] \in {top_rated_orig[s], entry}
        BY <1>1, <2>1 DEF ScoreOrig
    <2>2. CASE ScoreBelowMax
        BY <1>1, <2>2 DEF ScoreBelowMax
    <2>3. CASE ScoreTie
        BY <1>1, <2>1, <2>3 DEF ScoreTie
    <2>4. CASE ScoreWin
        BY <1>1, <2>1, <2>4 DEF ScoreWin
    <2>5. CASE ScoreStock \/ ScorePlain
        BY <1>1, <2>5 DEF ScoreStock, ScorePlain
    <2> QED BY <1>3, <2>2, <2>3, <2>4, <2>5 DEF ScoreSlot
<1> QED BY <1>2, <1>3

\* The inductive form of WinnersCalibrated: the entry being scored or trimmed
\* is calibrated, and the dry run has scored only the seeds it has passed.
CalInv ==
    /\ WinnersCalibrated
    /\ pc = "score" => cal_failed[entry] = 0
    /\ pc = "trim" \/ (pc = "score" /\ ret = "trim") => cal_failed[queue_cur] = 0
    /\ pc = "dry" => \A s \in Slots : top_rated[s] < entry /\ top_rated_orig[s] < entry
    /\ pc = "score" /\ ret = "dry" =>
          \A s \in Slots : top_rated[s] <= entry /\ top_rated_orig[s] <= entry
    /\ pc \in {"cull", "altern", "cull_tf", "greedy"} => ret \in {"loop", "pick", "fuzz"}

\* Every step preserves CalInv.
LEMMA CalStep == TypeInv /\ CalInv /\ [Next]_vars => CalInv'
<1> SUFFICES ASSUME TypeInv, CalInv, [Next]_vars PROVE CalInv'
    OBVIOUS
<1> USE ConstantsAssumption DEF TypeInv, TypeOK
<1>q. /\ Queue = 1 .. queued_paths /\ queued_paths \in Nat /\ Queue \subseteq Entries
      /\ \A s \in Slots : top_rated[s] \in Queue \cup {NULL} /\ top_rated_orig[s] \in Queue \cup {NULL}
      /\ entry \in Nat /\ NULL = 0
    BY DEF EntryTypes, ScoreTypes, ControlTypes, Queue, Entries, NULL
<1>1. CASE ScoreSlot
    <2>1. /\ UNCHANGED <<cal_failed, queue_cur, pc, ret, entry>> /\ pc = "score"
        BY <1>1 DEF ScoreSlot, entryVars, fuzzVars
    <2>2. WinnersCalibrated'
        BY <1>1, <2>1, OnlyEntryEnters DEF CalInv, WinnersCalibrated
    <2>3. ret = "dry" => (\A s \in Slots : top_rated[s] <= entry /\ top_rated_orig[s] <= entry)'
        BY <1>1, <1>q, <2>1, OnlyEntryEnters DEF CalInv
    <2> QED BY <2>1, <2>2, <2>3 DEF CalInv
<1>2. ASSUME UNCHANGED tables, UNCHANGED cal_failed
      PROVE  WinnersCalibrated'
    BY <1>2 DEF CalInv, WinnersCalibrated, tables
<1>3. ASSUME UNCHANGED tables, NEW e \in Entries, NEW n,
             cal_failed' = [cal_failed EXCEPT ![e] = n],
             n = 0 \/ \A s \in Slots : top_rated[s] # e /\ top_rated_orig[s] # e
      PROVE  WinnersCalibrated'
    <2>1. cal_failed \in [Entries -> 0 .. CalChances]
        BY DEF EntryTypes
    <2> QED BY <1>3, <1>q, <2>1 DEF CalInv, WinnersCalibrated, tables
<1>4. CASE ScoreDone
    <2>1. UNCHANGED tables /\ UNCHANGED <<cal_failed, queue_cur>>
        BY <1>4 DEF ScoreDone, scoreVars, tables, entryVars, fuzzVars
    <2>2. pc' = "dry" => \A s \in Slots : top_rated[s] < entry' /\ top_rated_orig[s] < entry'
        BY <1>4, <1>q DEF ScoreDone, CalInv
    <2>3. /\ pc' \notin InCall
          /\ pc' = "trim" => cal_failed[queue_cur] = 0
        BY <1>4 DEF ScoreDone, CalInv, ControlTypes, InCall
    <2> QED BY <1>2, <2>1, <2>2, <2>3 DEF CalInv, tables, InCall
<1>5. CASE CullStep
    <2>1. UNCHANGED tables /\ UNCHANGED <<cal_failed, queue_cur>>
        BY <1>5 DEF CullStep, CullRescan, CullAltern, CullTF, GreedyTake, GreedyPass, CullMark,
           scoreVars, tables, entryVars, fuzzVars
    <2>2. /\ pc' \notin {"score", "trim", "dry"}
          /\ pc' \in {"cull", "altern", "cull_tf", "greedy"} => ret' \in {"loop", "pick", "fuzz"}
        BY <1>5 DEF CullStep, CullRescan, CullAltern, CullTF, GreedyTake, GreedyPass, CullMark,
           Call, CalInv
    <2> QED BY <1>2, <2>1, <2>2 DEF CalInv
<1>6. ASSUME UNCHANGED tables, NEW e \in Entries, NEW back, Calibrated(e, back),
             back = "trim" => e = queue_cur /\ UNCHANGED queue_cur,
             back = "dry" => e = entry /\ pc = "dry"
      PROVE  CalInv'
    <2>1. /\ cal_failed' = [cal_failed EXCEPT ![e] = 0] /\ entry' = e
          /\ pc' = "score" /\ ret' = back
        BY <1>6 DEF Calibrated, CalibrationReset, Call
    <2>2. WinnersCalibrated'
        BY <1>3, <1>6, <2>1
    <2>3. cal_failed'[e] = 0
        BY <2>1 DEF EntryTypes
    <2>4. back = "dry" => (\A s \in Slots : top_rated[s] <= entry /\ top_rated_orig[s] <= entry)'
        BY <1>6, <1>q, <2>1 DEF CalInv, tables
    <2> QED BY <1>6, <2>1, <2>2, <2>3, <2>4 DEF CalInv
<1>7. CASE DryRun
    <2>1. UNCHANGED tables /\ entry \in Entries /\ pc = "dry"
        BY <1>7, <1>q DEF DryRun, scoreVars, tables, EntryTypes, Entries, ControlTypes
    <2>2. CASE Calibrated(entry, "dry")
        BY <1>6, <2>1, <2>2
    <2>3. CASE ~Calibrated(entry, "dry")
        <3>1. /\ cal_failed' = [cal_failed EXCEPT ![entry] = CalChances]
              /\ entry' = entry + 1 /\ UNCHANGED pc
            BY <1>7, <2>3 DEF DryRun
        <3>2. \A s \in Slots : top_rated[s] # entry /\ top_rated_orig[s] # entry
            BY <1>q, <2>1 DEF CalInv
        <3>3. WinnersCalibrated'
            BY <1>3, <2>1, <3>1, <3>2
        <3>4. \A s \in Slots : top_rated[s] < entry + 1 /\ top_rated_orig[s] < entry + 1
            BY <1>q, <2>1 DEF CalInv
        <3> QED BY <2>1, <3>1, <3>3, <3>4 DEF CalInv, tables
    <2> QED BY <2>2, <2>3
<1>8. CASE DryRunDone \/ LoopTop \/ Pick \/ FuzzSkip \/ Advance
    <2>1. UNCHANGED tables /\ UNCHANGED cal_failed
        BY <1>8 DEF DryRunDone, LoopTop, Pick, FuzzSkip, Advance, scoreVars, tables, entryVars
    <2>2. /\ pc' \notin {"score", "trim", "dry"}
          /\ pc' \in {"cull", "altern", "cull_tf", "greedy"} => ret' \in {"loop", "pick", "fuzz"}
        BY <1>8 DEF DryRunDone, LoopTop, Pick, FuzzSkip, Advance, Call
    <2> QED BY <1>2, <2>1, <2>2 DEF CalInv
<1>9. CASE Stop \/ FuzzDone
    <2>1. UNCHANGED tables /\ UNCHANGED cal_failed /\ pc' \in {"halt", "sync"}
        BY <1>9 DEF Stop, FuzzDone, scoreVars, tables, entryVars
    <2> QED BY <1>2, <2>1 DEF CalInv
<1>10. CASE FuzzRecalibrate
    <2>1. /\ UNCHANGED tables /\ cal_failed[queue_cur] > 0
          /\ queue_cur \in Entries /\ queue_cur # NULL
        BY <1>10, <1>q DEF FuzzRecalibrate, scoreVars, tables, ControlOK, InFuzz
    <2>2. CASE Calibrated(queue_cur, "trim") /\ UNCHANGED queue_cur
        BY <1>6, <2>1, <2>2
    <2>3. CASE ~(Calibrated(queue_cur, "trim") /\ UNCHANGED queue_cur)
        <3>1. /\ pc' = "loop"
              /\ \/ UNCHANGED cal_failed
                 \/ cal_failed' = [cal_failed EXCEPT ![queue_cur] = cal_failed[queue_cur] + 1]
            BY <1>10, <2>3 DEF FuzzRecalibrate
        <3>2. \A s \in Slots : top_rated[s] # queue_cur /\ top_rated_orig[s] # queue_cur
            BY <2>1 DEF CalInv, WinnersCalibrated
        <3>3. WinnersCalibrated'
            BY <1>2, <1>3, <2>1, <3>1, <3>2
        <3> QED BY <3>1, <3>3 DEF CalInv
    <2> QED BY <2>2, <2>3
<1>11. CASE FuzzStart
    <2>1. UNCHANGED tables /\ UNCHANGED <<cal_failed, queue_cur>>
          /\ pc' = "trim" /\ cal_failed[queue_cur] = 0
        BY <1>11 DEF FuzzStart, scoreVars, tables, entryVars, fuzzVars
    <2> QED BY <1>2, <2>1 DEF CalInv
<1>12. CASE Trim
    <2>1. /\ UNCHANGED tables /\ UNCHANGED <<cal_failed, queue_cur>>
          /\ pc' = "havoc" \/ (pc' = "score" /\ ret' = "havoc" /\ entry' = queue_cur)
          /\ cal_failed[queue_cur] = 0
        BY <1>12 DEF Trim, Call, scoreVars, tables, CalInv
    <2> QED BY <1>2, <2>1 DEF CalInv
<1>13. CASE Save
    <2>1. /\ UNCHANGED tables /\ pc \in {"havoc", "sync"} /\ queued_paths' = queued_paths + 1
          /\ queued_paths' \in Entries /\ queued_paths' \notin Queue /\ queued_paths' # NULL
        BY <1>13, <1>q DEF Save, scoreVars, tables, Entries
    <2>2. CASE Calibrated(queued_paths', pc)
        BY <1>6, <2>1, <2>2
    <2>3. CASE ~Calibrated(queued_paths', pc)
        <3>1. cal_failed' = [cal_failed EXCEPT ![queued_paths'] = 1] /\ UNCHANGED pc
            BY <1>13, <2>3 DEF Save
        <3>2. WinnersCalibrated'
            BY <1>3, <1>q, <2>1, <3>1
        <3> QED BY <2>1, <3>1, <3>2 DEF CalInv
    <2> QED BY <2>2, <2>3
<1>14. CASE UNCHANGED vars
    BY <1>2, <1>14 DEF vars, CalInv, scoreVars, tables, entryVars, fuzzVars
<1> QED BY <1>1, <1>4, <1>5, <1>7, <1>8, <1>9, <1>10, <1>11, <1>12, <1>13, <1>14
        DEF Next, ScoreStep, FuzzStep, MainStep, Ended

\* Whatever calibrations fail, are retried or given up, the tables name only
\* entries whose last calibration succeeded.
THEOREM CalibratedAlways == Spec => []WinnersCalibrated
<1>1. Init => CalInv
    BY DEF Init, CalInv, WinnersCalibrated, NULL
<1>2. CalInv => WinnersCalibrated
    BY DEF CalInv
<1> QED BY InitType, TypeStep, CalStep, <1>1, <1>2, PTL DEF Spec
=============================================================================

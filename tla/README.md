# Verification of the SEDiff fuzzer

SEDiff finds semantic differences between two versions of a program: a static
part (`static/juxta`) collects symbolic paths and ranks functions, a fuzzer
(`afl/hybrid_metric`, AFL 2.52 with the TortoiseFuzz metric) steers towards
the selected code. This directory holds TLA+ models of the fuzzer's core logic,
the TLC runs that check them and TLAPS proofs about them.

In what follows *hybrid fuzzer* is `afl/hybrid_metric/afl-fuzz.c`, *stock
fuzzer* is `afl/afl-fuzz.c`, *runtime* is
`afl/hybrid_metric/llvm_mode/afl-llvm-rt.o.c`.

## 1. The system

| component | state | operations | interacts with | what makes it correct |
|---|---|---|---|---|
| favored-entry election | `top_rated`, `top_rated_orig`, `max_hybrid`, `tc_ref`, `trace_mini`, `score_changed`, counters | `update_bitmap_score`, `cull_queue` | called by calibration, trimming, main loop | every byte seen has a winner; favored entries cover all bytes; references, traces and counters agree |
| main loop and queue walk | `queue`, `queue_cur`, `was_fuzzed`, `favored` | `main`, skip rules and `abandon_entry` of `fuzz_one` | election, sync | no entry is starved; the walk stays in the queue |
| calibration, trimming, saving | `cal_failed`, `exec_us`, `len`, `virgin_bits`, `var_bytes` | `calibrate_case`, `trim_case`, `save_if_interesting`, `perform_dry_run` | `run_target`, election, files | only calibrated entries are scored; retries end |
| fork-server protocol | two pipes, `child_pid`, `child_timed_out`, `prev_timed_out`, timer | `init_forkserver`, `run_target`, `handle_timeout`, `handle_stop_sig` | runtime in the target | each run gets its own verdict and its own map; every run returns |
| runtime, persistent mode | `child_stopped`, `was_killed`, `cycle_cnt`, shared maps | `__afl_start_forkserver`, `__afl_persistent_loop` | fork-server protocol | reaps before it forks; never mixes what runs around the loop with its body |
| parallel synchronisation | peers' `queue/`, own `.synced/` marks | `sync_fuzzers` | unlocked files of a running peer | loses nothing but in known races; repeats only after an interruption |
| output directory and resume | `queue/`, `_resume/`, `fuzzer_stats`, `.state/` | `maybe_delete_out_dir`, `setup_dirs_fds`, `read_testcases`, `pivot_inputs`, `nuke_resume_dir`, `find_start_position`, `write_stats_file`, `mark_as_det_done` | file system; all that saves files | a kill at any point leaves a directory that can be resumed; marks, names and tokens stay with their cases |
| bitmap algorithms | `virgin_bits`, `virgin_tmout`, `virgin_crash`, `var_bytes` | `has_new_bits`, `simplify_trace`, `classify_counts`, `has_new_metric`, `has_max_metric`, `count_*` | calibration, saving | the virgin maps lack exactly what was seen |
| mutation stages | `out_buf`, effector map, `stage_*` | deterministic stages, `could_be_*`, havoc, splice | saving, dictionaries | no mutation lost by a filter; the buffer is restored |
| dictionaries | `extras`, `a_extras`, `auto_changed` | `load_extras`, `maybe_add_auto`, `save_auto`, `load_auto` | mutation stages, resume | no duplicates, bounded, tokens in use survive |
| statistics and UI | counters for display | `show_stats` | ends the run if `AFL_EXIT_WHEN_DONE` asks for it | |
| LLVM pass, compiler wrapper | none | code generation | runtime | |
| tools, Juxta analyzer, call-site printers | | offline, sequential | files | |

The hard behaviours are: signals (timer, Ctrl-C) that arrive between any two
steps of `run_target`; three processes joined by pipes; a target that hangs,
dies or stops itself at any point; a peer that rewrites its queue while it is
read; failed and retried calibrations; and long sequences of scorings that
update two tables, reference counts, kept traces and a change flag through six
branches; calibrations cut short after they have changed the virgin maps; a
process killed between two file operations, several sessions in a row; and
word arithmetic in two byte orders whose filters must agree with one another.
`PROJECT.json` lists each as a hazard, at its line.

## 2. Modules

| module | models | lines |
|---|---|---|
| `QueueCull` | election, main loop, calibration outcome, trimming, saving | hybrid 1316-1585, 2885-2901, 2969-3168, 3393-3469, 4769-4889, 5270-5351, 6905-6926, 8298-8389; stock 1237-1338 |
| `MCQueueCull` | the set of hybrid maps for TLC | |
| `QueueCullProofs`, `FavoredProofs` | theorems about `QueueCull`: types, winners; counters, cover, reference counts | |
| `ForkServer` | parent, fork server and target processes, signals | hybrid 2352-2380, 2515-2720, 7073-7107; runtime 102-233 |
| `ForkServerProofs` | theorems about `ForkServer`, and that it implements `TargetRun` | |
| `TargetRun` | what `run_target` promises its callers, refined by `ForkServer` | hybrid 2515-2720, 7073-7080 |
| `SyncFuzzers` | `sync_fuzzers` against one running peer | hybrid 3421-3465, 4862-4876, 6935-7068 |
| `SyncFuzzersProofs` | theorems about `SyncFuzzers` | |
| `ResumeDir` | the output directory over several sessions | hybrid 714-729, 1659-1757, 2134-2200, 3173-3291, 3421-3465, 3605-3752, 3797-3823, 3881-4047, 4862-4876, 7427-7463, 8304-8389 |
| `ResumeDirProofs` | theorems about `ResumeDir` | |
| `Novelty`, `MCNovelty` | virgin maps, calibration run by run, the verdict switch | hybrid 894-960, 1057-1120, 2790-2945, 2969-3168, 3393-3585, 5329-5351 |
| `NoveltyProofs` | theorems about `Novelty` | |
| `WordStages` | the mutations of the deterministic stages and the `could_be_*` filters, as operators | hybrid 5066-5242, 5404-6181; `config.h`, `types.h` |
| `DetStages`, `MCDetStages` | the deterministic part of `fuzz_one` and the automatic dictionary | hybrid 1762-1774, 2018-2200, 5299-6353 |
| `WordStagesProofs` | what the filters of `WordStages` accept, and that they lose nothing | |
| `DetStagesProofs` | theorems about `DetStages` | |

The modules meet where the code's parts meet: `QueueCull` keeps every case a run may
keep and lets a calibration end either way, `Novelty` says which runs are kept and how
calibrations end, `ForkServer` gives the verdicts that `Novelty` takes as given (`TargetRun` is
that interface), `SyncFuzzers` and `ResumeDir` read the files that saving and
trimming write, `DetStages` produces the inputs.

### QueueCull

`pc` is a label of the program, `ret` the label a called routine returns to,
`entry` the argument `q` of `update_bitmap_score`, `byte` the index `i` of the loops
over the bitmap: each iteration is a step, so that every intermediate table is
a state. An entry is a number, its struct fields are functions (`fav` is
`exec_us * len`, `hit` the bytes its calibrated run hit, `tc_ref`, `trace_mini`,
`cal_failed`) or sets (`favored`, `was_fuzzed`, `trim_done`, `has_new_incorrect`).
`NULL` is 0; `trace_mini = {}` is the NULL pointer. `tc_ref` wraps at `RefModulus`
(2^32 in the code).

`Stock` selects the stock fuzzer's branch of the byte loop, `TF_switch` is the `-s`
option. Abstracted: hit counts (a byte of the bitmap is hit or not), the novelty test that
makes `save_if_interesting` keep a case (any run may be kept), the random
numbers of the skip rules (either outcome), `exec_us` and `len` separately, the bytes of test cases. Dead data is
reset (`trace_bits` after scoring, `temp_v` after an election) to keep the state space small.
Left out: dumb and crash mode, `seek_to`, `AFL_IMPORT_FIRST`.

### ForkServer

Three processes with their own labels: `ppc` (afl-fuzz), `fpc` (fork server),
`cstate` (target). The pipes are sequences. `Alarm` and `StopSignal` are the
signal handlers and may run between any two steps of afl-fuzz. The shared maps
are sets of writes, each tagged with the run and the phase (before, in or
after the loop) that made it, so that a caller's reading somebody else's data
is visible. `outcome` is a history variable: how the execution really ended.
The sanitizer branch is present (`uses_asan` true). Process numbers are not reused; `kill` takes
effect at once. Not modelled: the branch of `run_target` that forks by itself, and the `stop_soon = 2`
by which `show_stats` ends a run (4252-4257).

The target executes code before it reaches the loop (`ChildStarts`), which writes to both maps; only then does the
first `__afl_persistent_loop` erase the trace (`FirstPass`). In between (`setup`) it may hang, die or be killed.

`stop_soon` is tested when a call of `run_target` has returned (4911, 7040) and not again before the next one.
So a call that is about to be made when Ctrl-C comes is still made (`StartRun` from `idle`), and finds the pipe broken or, if its
request was already in the pipe, gets no answer. Worse, some functions go on to another call without the test:
`save_if_interesting` to a calibration or to the second run of a hang (4935, 3457, 3506), `sync_fuzzers`
to `save_if_interesting` (7043), and `main` to `fuzz_one` after the `sync_fuzzers` of `AFL_IMPORT_FIRST` (8363-8367).
`unheeding` counts how many such functions stand around the present call: at most two (`Unheeding`). The callers
are otherwise not modelled: any call may be any of these.

`TargetRun` has a call counter, the phase of the current call, how its execution
ended, the answer and whether Ctrl-C came. `ForkServer` implements it (`Abstract ==
INSTANCE TargetRun WITH ...`): `run` is the counter, `phase` reads the label of afl-fuzz,
`end` is the recorded end of this run's execution, `fault` the answer, `stop_soon` the
stop, `left` how many calls may still begin after it: at most three, which are `doomed` to execute nothing. Pipes, timer, fork server and the reuse of a stopped process are hidden.
`stop_pid` remembers which process the stop handler knew: Ctrl-C between the fork
server's writing of a pid and its reading leaves that target behind (`OrphansUnknown`
says it is the only one).

### SyncFuzzers

A peer saves cases (create, then write) and trims them (unlink, create,
write), the reader scans. `readdir` returns the names that were there at
`opendir` and still exist, in any order, and may or may not return names
created or unlinked meanwhile. The reader may be stopped or killed anywhere and resumed in place.

### ResumeDir

A session starts afresh or with `-i -`, checks `fuzzer_stats`, moves `queue/` away, wipes what
is left, makes the new directories, reads and pivots the cases, deletes `_resume/`, looks up its
start position and fuzzes: saving, trimming, marking, learning a token, walking on and writing statistics. Every
file operation is a step, and `Killed` is possible before each. A directory is a record: does it exist, does its `.state/`, the
content behind each number, the numbers marked as deterministically done, and
what `auto_extras/` holds. One token stands for any, and there are fewer than `USE_AUTO_EXTRAS`, so that it is among those
`save_auto` writes. `save_auto` truncates every file and writes it again (`SaveAuto`, `WriteAuto`), and since each hit of a token sorts the list
and sets `auto_changed` (2078), this goes on for the whole session; until it is done the token may be in no file (`torn`). A name is its number; a seed's name has none. `scandir` returns the names of a
set in sorted order: `Scanned` is the set of the increasing sequences over it, which has one element. A test case is what makes it worth keeping, so
trimming rewrites the file with the same case. History variables tell the known losing windows apart: `trimCut` (killed
while a trimmed file was being rewritten), `nukeCut` (killed while `_resume/` was being deleted), `tokenCut` (killed while the saved tokens were in memory only or being
rewritten), `statsCut` (killed while `fuzzer_stats` was truncated and not yet written), `staleResume` (a
fresh start that left an old `_resume/` behind). The start position is looked up as `find_start_position` does and must be an
entry of the queue; it need not be where the last session stopped, since the `write_stats_file` that follows (8306) puts
`cur_path` back to 0 until the next one. Operations on one file are atomic and ordered; lost writes after a power cut are not
modelled.

### Novelty

A byte of a virgin map is the set of hit count classes not yet seen; the bitmap is
divided into words, since `has_new_bits` looks at whole words first. `calibrate_case`
is one step per run, with its locals in the record `cal`; each run ends as it
likes (any trace, any fault, Ctrl-C). A checksum is the trace itself. All the branches of `save_if_interesting`
are there: keep and calibrate, hang with its second run, crash, and both limits. `seen`, `firstHit` and `crashes` record what the runs really showed.
The bookkeeping of hybrid counts in the same functions only labels entries and is left out here.

### WordStages and DetStages

A word is a sequence of bytes, least significant first, so that 32-bit values
stay within the range of TLC; adding and subtracting carry through it and wrap
at its end. Each stage is the set of buffers it executes. `Meant` is the reference: every sum
up to `ARITH_MAX` and every interesting value in every window, byte order and width, without filters.
An exclusive or is the set of the bits in which two words differ, so that a filter's shifts and masks
become statements about a set: `could_be_bitflip` asks for a run of 1, 2, 4, 8, 16 or 32 bits.
`DetStages` runs the stages in order. The target's answer to each flip is a
nondeterministic checksum. `maybe_add_auto` returns the set of dictionaries that the two
unstable sorts may leave. Where the code stores what the next stage relies on (the effector map, the
collected run, the clobbered buffer) the model does too; where a stage leaves nothing behind (`flip2` to `int32`) it is one
step.

## 3. Runs

| run | property | shows |
|---|---|---|
| `queue_tf` | `TypeOK`, `SeenBytesHaveWinner`, `WinnersCalibrated`, `CountersExact`, `FavoredCoverSeen`, `UntaggedRefCount` | with `-s`, up to the points below, election and bookkeeping are consistent |
| `queue_stock` | `RefCountExact`, `WinnerSmallest`, `FavoredCoverSeen` | the stock algorithm does what its comments say |
| `queue_live` | `EntriesFuzzed` | every queued entry is fuzzed or its calibration is given up, with varying traces too |
| `queue_null_trace` | `NoNullTrace` violated | a tagged entry that enters `top_rated` without a reference makes `cull_queue` read a freed trace |
| `queue_stale` | `WinnersFavored` violated | a change of `top_rated` that does not set `score_changed` is not elected |
| `fork` | `TypeOK`, `ResultOfThisRun`, `ForkAfterReap`, `TraceOfThisRun`, `OrphansUnknown`, `RunReturns`, `ImplementsTargetRun` | no race of timeout, stop, death (also before the loop) and Ctrl-C mixes up runs or blocks; calls begun after Ctrl-C execute nothing; one window leaves a process behind; `TargetRun` is implemented |
| `fork_hybrid` | `HybridOfThisRun` violated | the hybrid counts are neither cleared before the loop nor pivoted away after it |
| `sync` | `TypeOK`, `LossOnlyByRace`, `DuplicatesBounded`, `CaseExecuted` | imports are lost only in races on the file itself, repeated only after an interruption |
| `resume` | `TypeOK`, `KnownLossOnly`, `DetMarkTrue`, `QueueMatchesEntries`, `RefusalsKnown`, `TokensKept` | kills between any two file operations of four sessions lose cases and tokens, and make a start refuse, only through the named windows, and never confuse marks and names |
| `resume_loss` | `ResumeKeepsCases` violated | a kill inside `nuke_resume_dir` makes the next resume prefer the half-deleted `_resume/` to the complete `queue/` |
| `novelty` | `TypeOK`, `VirginExact`, `NewCovExact`, `VariableExact`, `VarBytesExact`, `UniqueCrashRule` | aborted, retried and varying calibrations leave the virgin maps and the marks exact; unique crashes follow the documented rule |
| `stages` | `TypeOK`, `FilterSound`, `TokensAreRuns`, `BufferRestored`, `TokensTried`, `DictionaryClean`, `UsedSurvive` | no filter or effector map loses a mutation that matters; tokens are collected, kept and tried as intended |

`expect: violation` runs state what a comment or document promises and the
code does not keep; `findings` quotes both sides.

**Bounds.** Queue: three entries (two for the liveness run), with `-s` two of them seeds, which are
never tagged, and two bytes. Two entries and one byte suffice for
an incumbent to be displaced; the second byte gives an entry that keeps one
slot while it loses another, which is what reference counts and greedy cover
are about; the third entry displaces an entry that displaced one. Hybrid counts 0 and 1 make below, equal and above the
maximum possible. `CalChances` is 2 (3 in the code): one retry, then giving up. `SkipPaths` is lowered from 10 so that the
skip rule for long queues applies within the bound. Fork server: four runs and
two passes per process, so that a process is stopped, continued, leaves the
loop and is replaced. Sync: two cases and two interruptions. Resume: one seed, one find and four sessions: the
first makes a directory, the second is killed in its resume, the third acts
on what that left, the fourth reads the result; `resume_loss` needs three. Novelty: two entries,
seven runs, two classes, two words, calibrations of two runs (three if they vary; 8 and 40 in the code): enough for an aborted
calibration, other runs, and its retry. The traces include none, one that
another one extends, and two that differ in class and in bytes. Stages: two entries of four and three
bytes, two of them fuzzed, a user dictionary of two tokens and two saved ones. A block of the effector map is
one byte here (`EffBlock`, 1 << EFF_MAP_SCALE2, is 8 in the code), so that four bytes give a dense, a sparse and a full map. With blocks of
two bytes a dense map that is not full needs four blocks, an entry of seven bytes, which is too many states; that the rounding
of lengths to blocks is right rests on the theorems of `DetStagesProofs`, which are for every block. `MAX_FILE` is 5, so that a token of two
bytes can no longer be inserted into an entry of four.
`ARITH_MAX` is the code's 35 and the
interesting values are all of `config.h`; the entries are chosen next to carries and borrows. The dictionary has room for four tokens of which
two are in use (500 and 50 in the code).

**Fairness.** `QueueCull`: the process runs (weak fairness of its steps), and
an entry met infinitely often is not skipped each time, since each skip is
decided by an independent random number below 100% (strong fairness of
starting it). `ForkServer`: afl-fuzz and the fork server are scheduled, an armed
timer expires; the target has no fairness, it may hang. `SyncFuzzers`: the
reader runs; `readdir` ends since it returns each name once.

`ResumeDir`, `Novelty` and `DetStages` are checked for safety only.

Deadlock is checked in all runs; ended programs stutter.

## 4. Proofs

The theorems hold for every value of the constants that satisfies the module's named
assumption. An invariant that a run checks is seldom inductive; each proof
strengthens it by what the other actors and the routines in progress guarantee,
and that strengthening was checked by TLC before it was proved. In each module
there is one lemma per action or group of actions and one step per
conjunct the action can disturb.

### QueueCullProofs

* `TypeCorrect`: `Spec => []TypeOK`. `TypeOK` is not inductive: that `queue_cur` stays queued
  needs to know that `fuzz_one` and the routines it calls work on a queued entry.
  `ControlOK` adds that. Lemmas `DropType`, `TakeType`, `DiscardType`, `KeepType`,
  `OrigType` and `ScoreSlotType` do the byte step, `CalibratedType` the calibration,
  `Frame` what an action leaves alone; `TypeStep` has one case per action.
* `WinnerAlways`: `Spec => []SeenBytesHaveWinner` for the stock fuzzer and for the hybrid one with
  `-s`. The invariant `WinnerInv` adds: with `-s`, a byte with an incumbent in `top_rated`
  has one in `top_rated_orig`. Without it the `continue` at line 1352, which skips the
  second table, could leave a byte without a winner. The
  assumption is needed: without `-s` the hybrid fuzzer inserts nothing (see the observations).
* `CalibratedAlways`: `Spec => []WinnersCalibrated`. `CalInv` adds that the entry
  being scored or trimmed is calibrated, that the dry run has scored only seeds it has
  passed, and where `cull_queue` can return to.

### FavoredProofs

These build on the invariants above. Their hypotheses say for which program each one is
true; each is a case of the code, and each excluded case has a counterexample.

* `CountersAlways` (`CountersExact`) and `CoverAlways` (`FavoredCoverSeen`) assume
  `VariableTraces = FALSE`: every run of an entry hits the same bytes. Otherwise an entry can be
  counted twice (section 5). `HitInv` says that what `trace_mini` keeps and the bytes a table names an
  entry for are of the one trace its runs leave; `ElectInv` is the loop invariant of the greedy loop: `temp_v` has lost exactly the kept traces of the
  entries taken, so an entry elected now was not elected before. `CoverAlways` also assumes the stock fuzzer or `-s`.
* `UntaggedRefCountAlways` (`UntaggedRefCount`) is for every run, with and without `-s`. A tagged entry enters a table without a
  reference, and displaces another without giving up that one's: so an untagged entry can only count too many. `SafeInv`
  says so in the middle of a scoring too; `OnceInv` says that an entry is scored at most twice (calibration and
  trimming), so that what it still owes and gains keeps its count below the modulus. Hence the hypothesis
  `4 * MapSize < RefModulus` (2^18 and 2^32 in the code). The counts of tagged entries are not bounded so: they do wrap.
* `RefCountAlways` (`RefCountExact`) assumes `2 * MapSize < RefModulus`. The invariant relates `tc_ref` to the number of
  slots of both tables in the middle of a scoring too, where an old winner has
  been dropped and the new one has not been entered. It is for runs
  without `-s`, as is `TraceKept`: there `cull_queue` follows no NULL trace. With `-s` the run `queue_null_trace` shows that it does.
* `SmallestAlways` (`WinnerSmallest`) is for the stock fuzzer. While an entry is being scored the bytes from
  the index on are still to be compared with it; the invariant says which.

### ForkServerProofs

`IInv` has one conjunct per idea: `PipeOK` ties what is in the pipes to the labels of the two processes at
their ends; `DeathOK` says what can have ended the fork server, `ChildOK` that the process it believes in is the one there is;
`TimerOK` says which process an armed timer can hit, `LateKillOK` that a late `SIGKILL` to a stopped target is
remembered until the fork server has reaped it; `StatusOK` follows the verdict from the death of the target through the fork server and the pipe to `run_target`;
`TraceOK` the shared map: before the first pass it holds what ran before the loop, and an execution that ended there did not stop itself; after it, the body alone. From it follow `TypeCorrect`,
`ForkAfterReapAlways`, `ResultAlways`, `TraceAlways`, `OrphansAlways`, and
`Refinement`: `Spec => ImplementsTargetRun`, the initial state and every step of the three processes and the
signals mapped to a step of `TargetRun` or a stutter.

### SyncFuzzersProofs

`TypeCorrect`, `LossOnlyByRaceAlways` and `DuplicatesAlways`. `ScanOK` relates the marks and the case in hand during a scan; `ScanCovers` says that
every queued case is settled (run, or lost in a race), still to be returned by `readdir`, or in hand; `DupInv`
accounts for each execution by a restart, the interruption under way, or the scan that returned the name.

### NoveltyProofs

* `TypeCorrect` (`TypeOK`), with the history variables' types.
* `VirginAlways`, `NewCovAlways`, `VariableAlways`, `VarBytesAlways`: one invariant per property, each
  stated for the middle of a calibration as well, where `cal` holds what the entry is not marked with yet.
  `SeenOK` says that the checksum of an entry is that of a trace which was compared; this is what makes the checksum
  test, which skips `has_new_bits`, lose nothing. `VarBytesInv` adds that a calibration no retry has spoiled compares with the
  trace whose checksum the entry has.
* `UniqueCrashAlways`, an action property, from `CrashMapInv`: `virgin_crash` lacks the highest class of a
  byte where some crash hit it and the lowest where some crash did not.

`NoveltyAssumption` asks for a nonempty bitmap and no more seeds than entries.

### ResumeDirProofs

No hypotheses beyond `ResumeAssumption`, for any number of sessions, seeds and cases.

* `TypeInv` (`TypeOK` and that walk and pivot stand on entries) and `DiskOK` (a directory that does not exist is empty)
  give `TypeCorrect`.
* `MatchOK` gives `QueueMatchesAlways`: at every label, which numbers queue/ has and what is
  behind them, with the entry being saved or trimmed as the only hole.
* `DetInv` gives `DetMarkAlways`: the mark of an entry in memory is true, and only complete files are marked; it is stated
  over contents, since a resume renumbers the files.
* `LossInv` gives `KnownLossAlways` and `RefusalsAlways`: a case is in `_resume/` until all have been
  linked, from then on in `queue/`, else one of the history flags is set.
  `RefusalsAlways` adds `StatsInv`: `fuzzer_stats` is torn only while it is being written or after `statsCut`.
* `TokenInv` gives `TokensKeptAlways`: what was saved is whole in the directory the next resume reads, or in memory
  with `auto_changed` set, so that the next `save_auto` completes it.

`Scanned` is defined by its property, not computed by recursion, so that these
proofs need no induction over the listing.

### WordStagesProofs

`FiltersLoseNothing`: for every buffer, set of effective bytes `E`, `ARITH_MAX` below 256 and width, whatever the
arithmetic and interesting-value stages are meant to try (`Meant`) is executed by some stage, or differs from the buffer in no
byte of `E`, or is one of the two exceptions of section 5: a run of bits across two bytes, or, with
`AFL_NO_ARITH`, a close value. `Covered` names these alternatives but the last. The argument goes up through the filters in the order in which they trust one another:

* Words and buffers: a part of a word is a part of the buffer (`PartOfWord`, `PutPart`), swapping bytes swaps
  the halves (`SwapHalf`).
* Carries: `Sub(Add(w, d), d) = w` for one to four bytes (`SubUndoesAdd`), and a sum whose carry does not leave the lower half
  is the sum of that half (`LowerHalfOnly`).
* `could_be_bitflip`: `FlipCovered`. A byte is determined by its bits (`SameBits`), so a buffer with the right
  bits changed is the one `FLIP_BIT` makes (`FlippedIs`); of the runs that are accepted only
  those across two bytes are none of the walking flips.
* The arithmetic stages: `SumsOfAllWidths`. `arith8` tries every sum; the wider stages leave out
  those with no carry into the upper half, which the narrower stage has done in that half.
* `could_be_arith`: `ArithCovered`. If one aligned part alone differs, the word is the old one with that part replaced
  (`OnePart`), and values within `ARITH_MAX` of each other are sums of each other (`WithinIsSum`).
* `could_be_interest`: `IntsOfAllWidths`, from `InterestSeen`: what it recognises was inserted by a narrower stage, or by the
  same stage with the low byte first, which is why the second half of `int16` and `int32` asks with `check_le`.

### DetStagesProofs

For every entry, dictionary, block size and answer of the target. `DetAssumption` asks of the dictionaries that they are sequences of byte
sequences and that `load_extras` has sorted the user's. Of the bounds it asks what
`config.h` gives: tokens have at least two bytes, and at most half of the dictionary is in use (500 and 50).

* `TypeCorrect`, `DictionaryAlways`, `UsedAlways`: `TypeInv` is `TypeOK` with the position in each loop (`ControlOK`) and with a
  dictionary that is free of duplicates and sorted after every addition (`DictOK`). `SortedKeeps` says of the
  two calls of `qsort` that they reorder the tokens and lose none; `AddKeeps` says what `maybe_add_auto` keeps in each of its three
  cases: counting a known token, appending, evicting.
* `BufferAlwaysRestored`: by `BufferInv` `out_buf` is the entry with at most one token laid over it, although several were
  written, since each is no shorter than the one below it (`PutHides`). This is where the order by size is needed.
* `TokensAlwaysTried`: `EffectorInv` says that a byte whose flag is not set was flipped to no effect, `TriedInv` is the
  property up to the current token and position. A token that covers no flagged block touches only inert bytes, because the flags of a range of bytes lie
  between those of its ends.
* `FiltersAlwaysSound` (`FilterSound`): `FiltersLoseNothing` with the flagged bytes for `E`; by `EffectorInv` the
  rest are inert.
* `TokensAlwaysRuns`: `RunsInv` says that the tokens are those of the runs that ended before the current byte and that `a_collect`
  is the run still open.

### Only model-checked

* Liveness (`EntriesFuzzed`, `RunReturns`, `CaseExecuted`): it rests on fairness and ENABLED, which the prover
  does not handle.
* The four violations: a counterexample needs no proof.

## 5. Observations without a run of their own

These were met while modelling; the models contain them, and where a property has
an exception for one, its comment says so.

* Without `-s`, `update_bitmap_score` inserts nothing into `top_rated` (hybrid 1385), although the
  comment at 1313 describes the insertion: no entry is ever favored.
* With varying traces the greedy loop of `cull_queue` can count one entry
  as favored several times (1573), since the winner's kept `trace_mini` may lack the byte.
* A case that `sync_fuzzers` meets in the middle of a write is passed over for good (7009), where
  `docs/parallel_fuzzing.txt` line 50 promises that cases found by others are incorporated. `LossOnlyByRace` allows exactly this.
* `has_max_metric` never makes `save_if_interesting` keep a case, despite the comment at 3403.
* A retried calibration copies the trace of whatever ran last into `first_trace` (2823), so
  `var_bytes` may name bytes that do not vary. `VarBytesExact` holds up to that.
* `find_timeout` looks for `exec_timeout` with three blanks where `write_stats_file` writes six (3661, 3729): it never finds it.
* `could_be_bitflip` takes two or four neighbouring bits of a little endian word that lie in
  two bytes for a walking flip (5078); the walking flips number bits from the top of
  each byte and do not produce them. With `AFL_NO_ARITH`, `int8` still leaves out what `arith8` would have done (6022).
* A kill between the truncation of `fuzzer_stats` (3683) and the closing of the stream leaves it empty. Every later start, also with
  `-i -`, then ends at 3955-3957 with "Malformed data", where `docs/README` line 246 promises that any existing output directory
  can be resumed; the test cases are intact, but the user has to remove the file first. `RefusalsKnown` allows exactly this (`statsCut`).
* A kill between the truncation and the writing of a file in `auto_extras/` (2146-2150) loses a token that was saved before;
  `TokensKept` allows it (`tokenCut`).
* With `-s`, `tc_ref` of a tagged entry may wrap (1370): it enters without a reference and gives one up when displaced. `UntaggedRefCount` says
  that others are not harmed.
* A persistent target that dies or is killed before its first `__AFL_LOOP` leaves in `trace_bits` what ran before the
  loop, which the runtime means to erase (190); `TraceOfThisRun` allows it for such an execution.
* After Ctrl-C up to three calls of `run_target` may still begin; they execute nothing and do no harm.
* Ctrl-C between the fork server's writing of a pid and its reading leaves the target running (7077).

## 6. Plan

Every safety property of a passing run is proved. What is left is more of the system: the
chunk-by-chunk search of `trim_case`, the minimisation passes of `afl-tmin`, the worker pool of the Juxta analyzer.

## 7. Not modelled

In the fuzzer: havoc and splicing (random, and they leave no state
behind), the random skipping of tokens beyond `MAX_DET_EXTRAS`, the parsing of dictionary files, the renaming of old `crashes/` and
`hangs/`, `plot_data`, the lock on the output directory, shuffled queues, resuming into
another directory, dumb mode and the branch of `run_target` without a fork server,
`has_new_metric`, the lookup tables behind `classify_counts`, the `count_*` statistics and the performance score.

Elsewhere: terminal output, the LLVM pass (its effect on the maps is in
`ForkServer`), the compiler wrapper, the companion tools, the Juxta analyzer and the
call-site printers (offline and sequential), vendored LLVM, Z3, pycparser and
data sets.

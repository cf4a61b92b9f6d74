# OBC-Zero: a TLA+ verification project

OBC-Zero is the flight software of a small on-board computer, in C for one
RISC-V hart (`flight/`), with the host tools that judge its runs (`harness/`).
This directory models its core in TLA+: the modules are translated from the
source, TLC checks them on small instances, and TLAPS proves the properties
that matter most for every value of the constants. Paths below are relative to
the repository.

## 1. The system

One hart, no operating system, no interrupt in normal operation. `obc_main`
brings the machine up, restores what the previous boot left, runs one window
of sixteen minor frames through the cyclic executive and parks. What is
concurrent with the program is the hardware (timer, watchdog, serial ports,
corruption of RAM), and, across time, its own previous boots.

| Component | State it keeps | Operations | What is hard |
|---|---|---|---|
| Timer reader, `hal/mtime.c` | a count of refusals | `obc_mtime_read` | the 64-bit timer advances between the loads of its two halves |
| Clock self-check, `core/main.c` | the readings so far | `check_tick_counter`, `measure_instr_per_tick` | it must refuse a torn reader and never a sound one; a timer may stand still |
| Critical state, `core/critical.c` | three copies of each item, each with a seeded checksum; per-item history; counters | `set`, `get`, `scrub` | copies are corrupted at any moment, between two loads of one vote included; two corrupted copies might agree; a broken item is read many times |
| Cyclic executive, `core/sched.c` | frame and row, trace, overrun counters, frame of entry to safe mode | `obc_sched_run`, one dispatch per due row | late frames, hung tasks, a clock that stops or does not settle, a mode that changes between two rows |
| Escalation ladder and watchdog, `core/recover.c` | one pending suspension, the suspension log, the boot record | suspend, reset subsystem, reset machine; arm, feed, disarm | a feed withheld for the wrong reason; a ladder that resets for ever |
| Operating mode, `core/mode.c` | a critical item, an announcement latch, the mode record | `is_safe`, `enter_safe`, `restore` | the vote that answers "safe" when it is broken; a record half written at a reset |
| Fault record and trap path, `boot/trap.S`, `core/fault.c` | the fault record in `.noinit` | handler stores, validate, consume | a trap or a reset between any two stores |
| Boot sequence, `core/main.c` | the three surviving records | the steps of `obc_main` | crash recovery: each step may be the last of its boot |
| Boot report, `core/main.c`, console of `hal/uart.c` | three statuses, the line being written | one line per step, the verdict | any byte may be refused; the verdict must not lie in either direction; a trap's record must not be destroyed unread, and a second trap may fall before it is read |
| Command path, `cmd/frame.c`, `cmd/queue.c` | the partial frame, counters, the replay counter, the queue, the arming | `obc_cmd_poll`, `obc_cmd_ingest`, `obc_cmd_queue_put`, `obc_cmd_queue_run` | bytes lost, replayed or late; a full queue; an arm that expires; a suspended dispatch |
| Telemetry, `tlm/frame.c`, `tlm/sensor.c`, `hal/uart.c` | sequence, drop counters, layout verdict, sensor histories | sample, emit, subsystem reset | a port that refuses in the middle of a frame; shed and lost frames look alike |
| Host checkers, `harness/runner/` | none | `trace_check`, `tlm_decode`, `tlm_check`, `stall_check`, `cmd_check`, `uplink` | they must accept every correct run and no other |
| Broken variants, `harness/broken/` | that of what each replaces | a file linked in place of the flight one | each must fail the check meant for it, and only that one |

How they interact. The executive calls the tasks through a table
(`core/tasks.c`), reads the mode through the voter once per row and the clock
once per frame. An overrun calls the ladder, which suspends a task, calls the
subsystem reset of the task's row, or resets the machine. A missed boundary, an
unsettled clock, a recorded trap, a full streak of short boots or a failed
layout audit enters safe mode, which writes the mode record. A reset, by the
ladder, the trap handler or the watchdog, starts the next boot on the three
records. The host reads the trace, the log and the frames that came down.

What makes each correct. *Timer*: a value returned was the time at some instant
of the call. *Critical state*: an answer is the value the item holds, which a
set changes, and a vote only when a copy is corrupted while it runs; otherwise
there is none. *Executive*: what was dispatched is what the table, the announced
suspensions and the frame of entry to safe mode dictate, and the window ends.
*Watchdog*: it resets only a machine that stopped. *Mode*: once safe, safe, in
this boot and the next; the first reason stays. *Boot*: no trap is forgotten, no
noise is believed, the resets stop. *Commands*: everything examined is accepted
or refused under one reason; what is accepted runs once, in its frame, in order,
or is dropped by a reset that is counted; critical commands need an arm.
*Telemetry*: an unflagged reading is real, a wrong layout is silent, waiting is
bounded, and the ground tells shed from lost. *Clock check*: a clock that passed
was sound, one that was accused was not, and the check ends. *Report*: "ok" and
"FAULT" are both true, and every boot comes to say one of them, or to have been
refused. *Broken variants*: the host's checks tell each from the flight image.

## 2. The modules

| Module | Models | Notes |
|---|---|---|
| `Mtime` | the timer reader, and the two broken ones, against their timer | one action per load; the timer moves between any two |
| `TickCheck` | the boot's two clock checks over whichever reader is linked | extends `Mtime`; the composition of both is what runs |
| `VotedRegister` | what the critical state promises | abstract: write, read the value, refuse, and misread at most once in a read that is disturbed |
| `Critical` | the voter, load by load, under corruption | implements `VotedRegister` (an `INSTANCE ... WITH`, a property of the run) |
| `Executive` | one window of the executive, the ladder, the mode decision and the watchdog | one action per row, return, feed, clock reading, boundary |
| `TraceCheck` | the host's judgement of a window | extends `Executive` with `trace_check.py` |
| `SchedSkip` | the executive that drops a dispatch, `broken/sched_skip.c` | extends `TraceCheck`; shares the actions the copy shares |
| `Boot` | boots in sequence over the surviving records | one action per step of `obc_main`, one per store of a writer |
| `Report` | what a boot prints, line by line, and its verdict | one action per line and per poll of the console |
| `CommandLedger` | what the command path promises | abstract: orders that wait, run in their turn, or are dropped and counted |
| `Command` | parser, checks, queue and arming over a stalling, losing uplink | implements `CommandLedger`; one action per byte and per pass of the queue |
| `TlmCheck` | the ground's decoder, sequence and sensor checks | pure operators over a capture |
| `Telemetry` | sampling, emission, shedding, its announcement, reset | one action per poll of either port |
| `TlmBuilds` | the telemetry task in the flight image and five broken ones | extends `Telemetry` with what each file replaces |
| `MCCritical`, `MCExecutive`, `MCConform`, `MCCommand`, `MCTelemetry` | the symmetry of values, task tables, ground frames and field tables for TLC | the other modules are instantiated by their `.cfg` alone |
| `TickCheck_proof`, `Critical_proof`, `Executive_proof`, `SchedSkip_proof`, `Boot_proof`, `Report_proof`, `Command_proof`, `Telemetry_proof` | theorems | each extends the module it is about; `TickCheck_proof` covers `Mtime`, `SchedSkip_proof` covers `TraceCheck` and extends `Executive_proof`, `Telemetry_proof` covers `TlmCheck` and `TlmBuilds` |

Names follow the source. An action with the name of a function is that whole
function; where a function is split (the executive's row loop, `obc_cmd_poll`)
the actions are the points between which something else may happen. Variables
marked *history* record the past for a property and never guard a step of the
program. Operators commented "a mistake to tell apart" or "mutant" are wrong
variants of the definition that follows them, one for each property; no
specification uses them.

**TraceCheck.** The host folds over rows and frames; here the expected trace is
a set of slots (frame, row), and the trace is in order when each entry is the
row of the slot with that many expected slots before it. A fold would say the
same and could not be reasoned about for every table.

**Mtime.** Words are `0 .. Words-1` and carry at `Words`. A call of the flight
reader loads high, low, high, and retries up to `Attempts` times; the naive one
loads low then high and keeps the pair; the unstable one is the flight reader
until its `FailsAfter`th call. `Advance` is the hardware, which may also never
move.

**TickCheck.** A call is entered, its loads run, and what it returned is judged.
`Elapsed` is the 32-bit difference the code takes. Whether the measured ratio is
inside its tolerance is a choice; that it is asked for only when enough ticks
went by, and that the loop has a guard, is not. Two histories record the torn
values each of the two checks was handed, `torn` and `tornBase`.

**Critical.** A copy is a value and a checksum word; a checksum is the pair of
value and seed, and `Junk` matches nothing, so a checksum collision is out of
the model. Corruption is an upset of one word of one copy, or a burst that
writes one pattern over several. Two limits are stated in the model: an upset
does not forge a valid checksum by itself, and a second burst does not come
while an item still holds a forged copy of the first. The checksum and the
distinct seeds are there for exactly these cases and no more.

The copies are volatile and `vote` loads a word each time it needs one: the two
of an intactness test in either order, the two values of an agreement, the
winner once more when the count is two (`critical.c` 134), and every copy again
when it repairs. One action is one load, so corruption falls between any two
of them, in particular between the agreement and the load of the winner. What
that can do is part of the register's contract: a vote that was hit before it
loaded its winner may take another value, once, and writes it over all three
copies, so that the item holds it from then on (`Settle`); a vote that was left
alone, or hit later, may not. The stores of one copy are one action, since no load
of the program lies between them. The array of per-item history has `MaxItems` slots, and an
item past them would share slot 0; the model has that rule, and
`CriticalAssumption` says the registry is no longer than the array
(`critical.c` 49: four slots, one item).

**Executive.** `Dispatch` pushes to the trace and starts the task; the task
returns in budget, overruns its budget or hangs. Time passes while tasks run
and to the boundary. The mode is the last value set and the number of damaged
copies: with two or more the vote fails and answers "safe", otherwise it
repairs. Corruption falls between two votes here, the case in which `Critical`
leaves the value alone. The watchdog runs on its own
clock and bites `WdogTicks` after the last feed, also when the core hangs or is
parked with it armed. What the frame overruns of a window do to later windows is
out of scope: `obc_main` runs one window.

**SchedSkip.** `build` says which executive was linked. The broken one neither
arms nor feeds the watchdog and its overruns do not climb the ladder, because
the file is a copy made before both; its own first lines say that everything
else is identical.

**Boot.** A writer is the list of its stores (`todo`), done one at a time; a trap
or a reset may come between any two. The handler abandons what was running and
resets; a trap inside it writes the double-fault magic. The executive is
reduced to how it may end: it degrades, returns, climbs to rung 3, traps, or is
reset from outside. A record torn by a reset between two of its stores is in
`torn`, the only excuse a property accepts.

**Report.** A line is a sequence of texts, checked (a refusal ends the line and
sets the status) or ignored. `said` is what reached the console of each line,
`torn` when only part did. What a line finds is a choice; the other modules say
what the finding is worth. Three things restart it: a reset from outside, which
leaves the record; a trap, whose handler stores over whatever the record holds;
and a reset between two of the handler's stores, which over a record still in
memory leaves a corrupt one up to the checksum and the new one after it.
`unread` says the record is a trap's and was not printed whole.

**Command.** A ground frame is a command, a time tag, a counter and the first
check it would fail, if any; a byte is a frame and a position. A window of bytes
that is not one frame fails its sync word or, when it begins where a frame did,
its length or its sum. Bytes that arrive between two polls wait in the receive
FIFO. `Ledger` maps the state to `CommandLedger`: the occupied slots, as a set,
are the orders that wait, the history of executions is what ran, and a frame is
served unless the task is suspended in it. A byte, a refusal, the parser's
position and the arming are not in the ledger, so their steps stutter there;
the frame accepted, the pass that executes, rung 2 and the frame boundary are its
four actions. The orders are those of frames the ground built: nothing the line
does to the bytes can enter another.

**Telemetry.** A byte is a frame number and a position; the sum comes out right
for the bytes of one frame in order and for nothing else. The field table is
chosen among a right one and the defects `obc_tlm_init` looks for. A shed frame
is announced on the console from inside the dispatch, each byte with its own
allowance.

**TlmBuilds.** An image is the flight one with one operator replaced: what a
sensor makes of a reading, what allowance a write is granted, when a port is
given up, or a row of the field table.

## 3. What the runs show

| Run | Instance and bounds | Shows |
|---|---|---|
| `tick` | three readers, words of 4 values, 2 attempts, 2 carries, checks of 2 readings | a value is an instant of the call, a refusal means a carry in every attempt; a clock that passed was sound and advanced, one accused was not; the check ends |
| `critical` | 2 items, 2 values, 2 corruption events, 3 failed votes | load by load, the voter implements the register; one struck copy is masked; events are not passages; items do not mask each other |
| `exec_conform` | both executives, the flight table, 16 frames, one overrun, one damaged copy, one tick of lag | the host accepts a finished window exactly when no dispatch was dropped |
| `exec_ladder` | 2 rows, 6 frames, five overruns, two strikes, every fault | no entry lost, no spurious reset; a missed boundary degrades for good, announced and dated unless the vote is broken; the frame of entry says what was dispatched; under fairness every window ends |
| `boot_records` | streak limit 2, two trap contents, two traps, two outside resets | records are never mixed or believed wrongly, no double fault is invented, degradation and streaks survive and are exact, the ladder stops |
| `report` | texts of one byte, one poll each, two traps or resets | the verdict is honest both ways; an unread record is lost to a refused line or to a later trap and to nothing else; every boot ends |
| `command` | 3 frames of 2 bytes, 3 minor frames, queue of 2, one lost byte, one suspension, one reset | the ledger of orders, the accounting identity, execution once, order and frame, arming, resynchronisation |
| `telemetry` | six images, 4 frames of 3 bytes, one sensor, allowance 2, one spoilt frame, one reset | honest readings, a wait is the allowance and no longer, silence on a wrong layout, shed told from lost, and each broken image fails its check |

The four other runs are the disagreements of section 4.

**Why the bounds are enough.** *tick*: a call may see more carries than it has attempts,
which separates the budgets; a carry may fall between the loads of any reading, two
consecutive ones included; the unstable reader fails in the second of the two checks.
*critical*: two events are what it takes to break a majority, and what it takes to break
the two copies a vote has just found equal; three items or values add no case the code
distinguishes; the seeds are all three. Every load of every vote is a state, 6.9 million
of them, to a depth of 109. The two values are interchangeable (`ValueSymmetry`), and
every property of the run is safety. *exec_conform* uses the real table and window, so
every phase of the periods 1, 2, 4 and 8 occurs, and the dropped dispatch is the one the
file drops. *exec_ladder*: five overruns take a task to rung 3 and leave two for the
other; six frames are longer than the watchdog's four; two strikes break the vote.
*boot_records*: with a limit of two, traps and resets together exceed it, and each may
fall between any two stores; a trap inside the handler is among them. *report*: every
text may be taken or refused, so every line may be whole, torn or missing; a second trap
or reset falls in the boot that reads the first one's record, before or after it is
printed. *command*: three frames fill a queue of two and arm, use and outlive an arm of
one frame; the counters saturate at 2, so a third frame finds them full. Each kind of
command is given the counters it can do something with (a critical one never the first,
an arm never the last). *telemetry*: four frames make a pair around a gap that holds
both a shed and a spoilt frame, and a stuck run of three with a reset inside. The flight
values (eight readings, 91 bytes, 256 polls) are larger and enter the code only through
the comparisons the small ones exercise; `tlm_budget`, which is about the figures, uses
them in groups. The theorems of section 5 remove the bounds from every safety property
of these runs; what stays bounded is liveness.

**Fairness.** `exec_ladder`: `WF(Software)`, because one hart runs
straight through `run_window` and nothing preempts it, and
`WF(WatchdogBites)`, because the always-on counter counts whatever the core
does. A hung task disables `Software`, so no fairness is claimed for it.
`tick`: `WF(SelfCheck)`, the same hart before the executive; none for the timer,
which may stand still, and the check ends all the same. `report`:
`WF(PutText \/ obc_main)`, the program itself; the console takes or refuses as
it likes. `command`: `SilenceRealigns` is an action property and needs none.

**Deadlock** is checked in every run but the two of `TlmBuilds`, where the bound
on dispatches stops the model (`CHECK_DEADLOCK FALSE`). A machine that parks, or
a window that is over, is an explicit stutter.

## 4. Disagreements between the code and its documents

Four are runs whose only property is the claim, with TLC's counterexample.

- `exec_slot`: `recover.h` 56 says every entry of the suspension log has a
  matching gap. The code keeps one pending suspension; a second task's overrun
  replaces the first one's, whose entry stays, and the first task is dispatched
  in the frame the log says it is withheld in.
- `boot_nominal`: `mode.h` 78 says the mode never returns to nominal. Each
  degraded boot rewrites the mode record with the magic cleared first; a reset
  before it is set again leaves no record, and the next boot is nominal.
- `command_arm`: `queue.c` 90 says a critical command queued while armed still
  meets an expired arm. The arm is cleared there, and never asked for again when
  the command runs.

- `tlm_budget`: `tasks.c` 295 asserts at build time that a stalled downlink
  fits the telemetry task's budget, and counts one allowance. A refused frame is
  announced on the console inside the same dispatch, where each character may
  wait as long again: with the figures of the build, 256 polls and another 256
  at 5 instructions exceed what the budget leaves.

Others have no run of their own. The properties are stated around them, as each
entry says:

- `critical.h` 118 says that `obc_critical_get` returns OBC_OK with the agreed
  value. The winner is loaded again after the agreement is counted
  (`critical.c` 134), so a copy hit in between is what is returned, and what the
  repair writes over the two that agreed. `VotedRegister` allows this as a
  misread, in a vote disturbed before that load and in no other.
- `mode.c` 22 keeps a latch of its own for the announcement, because a broken
  vote answers "safe" and would suppress "the very announcement that says the
  vote broke". A missed boundary asks the mode first all the same (`sched.c`
  264): with the vote broken it is neither announced nor dated.
  `MissedBoundaryIsAnnounced` names this one case.
- `queue.h` 70 says a critical command is refused unless the immediately
  preceding accepted command armed its opcode. An arm is kept while other
  commands are accepted and run, until it expires or another arm replaces it, and
  it is not consumed by the command it authorises. `CriticalNeedsArm` asks for an
  arm in force, of that opcode, and no more.
- `queue.h` 43 and `frame.h` 84 say a time tag of zero means the next frame. The
  poll comes before the pass of the queue in the same dispatch, so such a
  command runs in the frame it arrived in; `RunsInItsFrame` follows the code.
- `recover.h` 56 says every entry of the suspension log has a matching gap. Rung 2
  logs an entry (`recover.c` 210) for the frame that is running, whose dispatch
  happened; the host reads it as a gap and rejects the window. The conformance
  run therefore allows one overrun.
- `sched.c` 190 dates a restored degradation to frame 0 "so the host holds the
  whole window to the essential subset". The host holds only the frames after
  the entry (`trace_check.py` 177), expects a full frame 0 and rejects the
  window. The conformance run starts nominal.
- `recover.h` 166 says that rung 3 increments the short-boot count; it is the
  next boot that does, on finding the flag raised. `recover.h` 121 calls a short
  boot one that did not get far; one that ran its window and died before
  `obc_main` lowers the flag is counted too.
- `main.c` 32 and `mtime_naive.c` 18 call the naive reader's jumps monotonic.
  They are not when a carry falls inside one reading and not the next: the tick
  check refuses such a pair as going backwards, not as a jump.
- `queue.h` says `obc_cmd_queue_init` is called at init and by nothing else, but
  the task table names it as rung 2. `sched_skip.c` 5 says everything but the
  dropped dispatch is identical; the watchdog and the ladder are not there.

Observed in the model, where no line promises otherwise or the case is narrow:

- A task of long period that overruns late in the window logs a suspension
  beyond the window, which the host refuses.
- With two damaged copies, tasks that are not essential are passed over without
  a dated degradation, for as long as the vote fails (`SafeEntryIsHonest`).
- A second trap before `print_reset_cause` has run stores over the first one's
  record, and a reset between the stores of its handler leaves neither
  (`trap.S` 90); a torn record is reported as corrupt. `CauseIsReported` allows
  this loss and says when it can happen.
- A suspended task that the mode then excludes still counts as suspended, not as
  due, and the feed is withheld. So it is when a second overrun replaces a
  suspension that was already passed over. Neither can happen in many frames
  running with the flight table; `NoSpuriousResetHolds` (section 5) says what a
  table must have. With three rows of period one, two of them outside the essential
  subset, or with four essential ones, TLC finds the watchdog biting a machine
  that runs.
- A reset while the boot record is half written loses the streak; a reset in
  the handler before its first store completes leaves the old record's magic
  over new words, which the checksum refuses.
- A command tagged 0 is counted late once more than one frame has passed;
  commands with equal tags run in slot order, not in order of arrival; one
  frame sent can be examined twice when the line stalls inside it; after a
  machine reset the replay counter starts again at zero.
- The poll comes before the expiry of the arm, so a command arriving in the frame
  of expiry is still accepted.
- The sequence check takes 0 for a subsystem reset. When the first frame after a
  reset is the one shed, the ground sees 1 after a larger number and reports
  lost frames; `SheddingIsAccepted` excludes this case by name.
- The time-base check does not look at the high words: a torn reading of the
  naive reader in that phase passes, and its 32-bit difference is right all the
  same. `PassedClockWasSound` says which torn readings a passed clock may have
  given.
- A refusal of the reader is printed as an "implausible jump of 0": the branch
  that says "unreadable" (`main.c` 338) is not reached, because both arrive as
  the same status.
- The audits of the telemetry layout and of the opcode table degrade or print,
  and do not enter the verdict "boot : ok".
- `reason_text` has no text for the reason `OBC_SAFE_TELEMETRY`.
- With the console refusing early, the boot stops printing and opens no window:
  the executive runs only after lines that came out whole.

## 5. What is proved

TLAPS checks these for every value of the constants that satisfies the named
assumptions of the modules. They say what the code's own constants satisfy:
`MtimeAssumption`, `TickCheckAssumption`, `CriticalAssumption`,
`ExecutiveAssumption`, `SchedSkipAssumption`, `BootAssumption`,
`ReportAssumption`, `CommandAssumption`, `VacantIsNoCommand` (an empty slot is
not taken for a command), `FrameLenAssumption`, `TelemetryAssumption`,
`StaticAssertion` and `TlmBuildsAssumption`. `TelemetryAssumption` asks for a
positive allowance (256 in `uart.h`): with none, a port that gives up at once
and one that waits are the same. Two theorems need more and say so in their
statements: `NoSpuriousResetHolds` and `ConformanceHolds`.

Recursion over data is avoided by stating what a definition computes, not how:
a position is the number of slots before it, a stuck run is a suffix, the order
of frames found is a least number not yet found. The inductions that remain
are over the steps of a behaviour, or over naturals by their least element
(`LeastNumber`).

**TickCheck_proof.** First the reader alone (`Mtime`). `TypeCorrect`.
`ReadIsAnInstantHolds`: the inductive invariant says that each half the reader
holds lies between the timer at entry and now, and that equal high words
around the low load pin the pair. `RetryBudgetIsEnough`: the invariant counts
the carries behind each attempt, so a refusal has seen a carry in each. Both
are about the module with the three readers, and say of the naive one nothing.
Then the reader inside the boot's checks: `CheckReadsInstants` and
`CheckIsRefusedForCarries` carry the two over, since a step of the check is a
step of the reader or starts a call. `PassedClockWasSoundHolds` and
`AlarmIsRealHolds` cover the naive reader too, whose value may be wrong. What is
known of it (`ReadOK`) is that the low word is right and the high word is not
behind: for some high word the pair was on the timer during the call. The
readers that do retry hand the time-base check instants (`TornBaseHolds`). The
invariant `CheckInv` follows a wrong reading: it is ahead by at least a high word
(`TickOK`), so the next one goes backwards and is caught, unless the timer too
went a whole high word on; the 32-bit difference the timebase check takes does
not depend on the high words at all (`BaseOK`).

**Critical_proof.** `TypeCorrect`, with the control of the vote (`Control`). The
register refinement and masking share `SafetyInv`: a copy not hit since it was
written or surveyed holds what the item holds (`UntouchedAgree`), and at most
one copy is a valid-looking lie (`OneForgery`). That is about the memory; the
rest is about a vote half done, whose locals may already be stale. A loaded word
is what the copy still holds, and a surveyed copy still intact, unless it was hit
since (`LoadedIsCurrent`, `SurveyIsCurrent`). A vote that nothing has disturbed
before its winner is loaded has two copies that agree behind its count
(`UndisturbedSees`), and two copies that agree cannot both be lies: so the winner
is what the item holds (`WinnerIsKept`). A candidate that was passed over was hit,
or both the others were (`PassedWereStruck`), so a refusal has two copies hit.
`VoterImplementsRegister` is the refinement, step by step, where the load of the
winner is `Settle` when the vote was disturbed and a stutter when it was not;
`OneStrikeIsMaskedHolds` follows from the same invariant.
`EventsNeedCorruptionHolds` needs one more: events counted, plus items hit
and not yet counted (`Pending`), never exceed the corruptions; a copy hit after
its survey stays hit when the vote resolves, and keeps its claim.
`NoItemMasksAnotherHolds`
counts the items whose last vote failed: an item enters that set in the step that
counts an event, and no step of another item takes it out uncounted. It rests on
`OwnIndex`, one slot per item, and so on the registry being no longer than the
array.

**Executive_proof.** `TypeCorrect`, with the fact that no frame is run beyond the
window. `MissedBoundaryIsAnnouncedHolds`, for any number of corruptions: a missed
boundary leaves the mode announced or the vote broken, and either way the mode answers
"safe" from then on, since a vote that fails repairs nothing and only entering safe mode
writes the copies again. `FirstReasonStaysHolds`, from the type invariant and the
announcement latch. `SafeEntryIsHonestHolds`: a frame of entry that is written means a
mode that answers "safe" whatever happens to its copies. `LogNeverOverflowsHolds`: a
task logs at most once per rung, so the log is bounded by a sum over tasks.
`TraceNeverOverflowsHolds`: the length of the trace is at most the rows gone by.
`NoSpuriousResetHolds` is the deepest of them. The feed is withheld in a frame whose
count of due rows is not that of the rows run, and a suspension can move under that
count, because there is one slot for it. `FeedInv` follows what may stand in the slot
(`SuspensionOK`), how many due rows of the frame were passed over (`AccountOK`: none or
one, and which), the clock (`ClockOK`) and the age of the last feed (`FedOK`: one frame,
or two when the frame under way will be fed). The theorem asks for two things.
`TableFeeds`: the rows due in every frame, the first apart, are the last row, and it is
essential. The flight table (`tasks.c`) satisfies it, and so do the tables of the runs;
the tables named in section 4, which do not, are reset. `WatchdogOutlasts`: three frames
and the lag of a boundary fit in the watchdog's period. The code has four frames (4096
ticks, `recover.c` 33, against 1024, `sched.h` 33), so the lag is less than a frame: a
later boundary is the hang the watchdog is there for.

**SchedSkip_proof.** `ConformanceHolds`: the host accepts a finished window
exactly when no dispatch was dropped, for every table, window, place of the
dropped dispatch and of the faults. `ConformInv` says that the trace so far is the
expected one as far as it has been examined (`TraceMatches`, by position), that the
log is empty or has the one entry that stands suspended (`WithheldOK`), and that
the frame of entry the host will read separates what was judged nominal from what was
judged safe (`EntryOK`). The expected trace changes while the window runs, when
an overrun suspends a row or a boundary is missed, but only for slots that
are still to come (`WantedIsSettled`); that is what makes it inductive. A broken
executive's trace is one short of what is expected, so its count gives it away.
The hypotheses are those of a campaign whose log can be believed. One overrun,
not late, one damaged copy, a nominal start (`OneOfEach`): section 4 says what
goes wrong without each. Buffers as large as the table needs
(`TheBuffersAreLargeEnough`); a dropped dispatch that was due, of an essential
row (`TheDropIsDue`), since a host cannot miss what was not expected. The
constants of `exec_conform` satisfy them, with the file's own drop.

**Boot_proof.** All seven properties of `boot_records`, for every streak limit,
every set of traps and any number of traps and resets, and `TypeCorrect`. None
of them is inductive alone, because between two stores a record is neither the
old one nor the new. `WriterOK` says which suffix of which writer is left to do
at each step of `obc_main`, and what the stores before it have put in memory:
the payload is whole before the checksum, the checksum before the magic. On it
rest one invariant per record: `FaultOK` (the checksum word is empty or that of
the last trap to reach it), `OwedOK` (a recorded trap still validates, is being
written over, or has degraded the boot), `ModeOK`, `StreakOK` and `RungOK` (the
count is the streak, and a full streak has set the rung that degrades). A trap
or a reset in the middle puts the record in `torn`, and the lemma `Interrupted`
says that nothing else is lost. The proof has one lemma per record written
(`FaultStore`, `ModeStore`, `BootStore`), one per way a boot ends (`DieStep`,
`TrapStep`) and one per step of the boot.

**Command_proof.** All eight properties of `command`, for every set of ground frames,
every length of frame, FIFO and queue, and any number of bytes lost, dispatches missed
and resets of the subsystem, and `TypeCorrect`, which ties `queued` to the number of
occupied slots and stands here in place of the run. The lemma `Steps` says what a step
does to the orders, so the invariants need no case for a byte: an order accepted into a
free slot, the oldest due one executed, a pass that finds nothing due, rung 2, a frame
boundary. `NothingFellBetweenHolds` and `AcceptedIsAccountedForHolds` follow the sums
through saturation at any ceiling (`UpToMax`). The others are parts of four invariants:
`CountersOK` (the replay counter bounds every counter let through, so all orders
differ), `WaitingOK` (what waits was early in every frame served since), `OrderOK` (what
is due is not older than what this dispatch has executed) and `ArmOK` (which execution
made the arming in force, and every critical command that waits was accepted under one).
`CommandImplementsLedger` maps these steps to the actions of the ledger, or a stutter;
since orders differ, the number of occupied slots is the number of orders
(`PendingIsCounted`). `LineOK`, for `SilenceRealigns`, sees the partial frame, the FIFO
and the bytes still to arrive as one stream: once a silence fell between two frames,
whatever starts in it is a frame in full, until a byte is lost or the ground stops
inside one.

**Report_proof.** `TypeCorrect`, and both verdict properties for every length of
text and any number of traps and resets. `ReportInv` ties the console to the
statuses in both directions: a status that is not good has its reason on the
console (`ShownOK`), a status that is good has had all its lines come out whole
(`WholeOK`), a check that failed is in a status or in the line being written
(`FailedOK`), and a line whose turn has not come has said nothing (`OrderOK`).
The verdict compares three statuses, so `VerdictIsHonestHolds` follows at the
sentinel. `CauseIsReportedHolds` adds `CauseOK`, which holds across resets: an
unread record is still there and its boot has not got past the consumption, and
past its printing only with a torn line behind it. So what the program destroys
it has printed, or could not (`ProgramKeepsTheRecord`), and a trap that stores
over one falls before its printing (`TrapOverwritesEarly`).

**Telemetry_proof.** All six properties of `telemetry`, in the flight image and
the five broken ones, for every number of dispatches, resets and losses, every
field table, set of sensors and length of frame, and `TypeCorrect`, with the
drop counter equal to the frames shed. `WaitIsBracketedHolds`: polls made and
allowance left sum to the allowance granted (`WaitOK`). `ReadingsAreHonestHolds`:
the run counter is the length of the equal suffix of what the sensor gave since
the reset, up to its width (`SensorOK`). `WrongLayoutIsSilentHolds`: the audit
compares each row with the end of the one before it; that this names every byte
once is an induction over the rows, and the verdict is that of the table whatever
resets came between (`LayoutOK`). `EveryWholeFrameIsFoundHolds` is about the line:
bytes are in order of frame and position (`SentInOrder`), a whole frame lies in
one piece (`WholeOnes`), a torn one lacks a byte that is never sent any more
(`TornOnes`), and the frame being sent ends the line (`TheOneBeingSent`), so a
window of the frame's length matches at whole frames and nowhere else.
`ShedIsToldFromLostHolds` rests on that, on `NumbersOK` (sequence numbers are
consecutive in a life of the subsystem and start at zero) and on the drop
counter: between two frames found the gap in numbers is the frames shed plus the
frames lost, and the drops say which.

**Only model-checked**: liveness (`WindowEnds`, `SelfCheckEnds`, `BootEnds`),
which TLAPS does not reach under fairness, and the four violations of section 4,
which are counterexamples. Every invariant and action property of the other runs
has a theorem.

## 6. What is not modelled

- The instructions of `start.S` before `mtvec` is set: a trap there does not
  reach the handler. `obc_fault_reset_with_cause`, which only the debugger
  scripts call.
- The arithmetic of checksums and sums: a wrong word fails, a right one passes.
- The wording of lines, number formatting, stack and RAM reports. The ratio of
  the timebase check is inside its tolerance or not.
- The bodies of housekeeping and audit, which burn time. Instruction budgets
  are a task's choice to overrun or not.
- The 32-bit wrap of time tags and the 16-bit ceiling of counters in a frame,
  out of reach of a window of 16 frames.
- Fields of a frame that copy counters owned elsewhere; per-sensor rejection
  counters; the clock read in `obc_tlm_emit`, which only fills a field. The
  emission of `tlm_layout_wrong.c` is not reached, its audit fails first; the
  flag that switches `uart_stalled.c` on is its allowance being nonzero.
- The audit of the opcode table at init (constants, always passes).
- Process control, text parsing and campaign statistics of the host; the linker
  script; the fault scripts, and the two broken task tables, whose corruptions,
  hangs and overruns are environment actions here.

## 7. Plan

Done, in this order because each rests on the one before: `Mtime`, `Critical`
with its abstract register, `Executive` with the host's checker, `Boot`,
`Command` with the ledger it implements, `Telemetry`; the clock checks
(`TickCheck`), the report (`Report`), the broken images (`SchedSkip`,
`TlmBuilds`); theorems for all of them.

Next:

1. A composition of `Executive` with the command task's suspension and rung 2,
   in place of the environment choices `Command` makes for them now.
2. `Critical` under the mode of `Executive`, so that the interface between the
   two (a vote fails from two damaged copies on) is a theorem about both.
3. The converse of `NoSpuriousResetHolds`: a core that hangs is reset, a liveness
   property, of which the safety part is a bound on the time since the last
   feed.

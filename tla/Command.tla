------------------------------ MODULE Command ------------------------------
(***************************************************************************)
(* The command path of OBC-Zero: flight/cmd/frame.c, queue.c and table.c,  *)
(* as task_command (tasks.c) runs them once a minor frame over an uplink   *)
(* that stalls and loses bytes.                                            *)
(*                                                                         *)
(* A ground frame is FrameLen bytes on the line; a byte is its frame and   *)
(* its position.  What the checks of obc_cmd_ingest find wrong with the    *)
(* contents of a frame is its "flaw", the first of them it fails.  Ticks   *)
(* count from the start of the window.  One boot: none of this state       *)
(* survives a reset, after which Init holds again.                         *)
(***************************************************************************)
EXTENDS Integers, Sequences, FiniteSets

CONSTANTS
  GroundFrames,(* what the ground may send                                 *)
  FrameLen,    (* OBC_CMD_FRAME_LEN                                        *)
  FifoDepth,   (* the receive FIFO                                         *)
  RxBytes,     (* OBC_CMD_RX_BYTES                                         *)
  QueueLen,    (* OBC_CMD_QUEUE_LEN                                        *)
  ArmFrames,   (* OBC_CMD_ARM_FRAMES                                       *)
  FrameTicks,  (* OBC_FRAME_TICKS, and OBC_CMD_LATE_TICKS                  *)
  CounterMax,  (* OBC_CMD_COUNTER_MAX                                      *)
  Vacant,      (* a queue slot that is not occupied                        *)
  Window,      (* bound: frames of the window                              *)
  MaxSent,     (* bound: frames the ground sends                           *)
  MaxLost,     (* bound: bytes the line loses                              *)
  MaxSkips,    (* bound: frames the task is suspended in, by rung 1        *)
  MaxResets    (* bound: rung 2 resets of the subsystem                    *)

ContentFlaws == {"SYNC", "LENGTH", "SUM", "OPCODE", "ARG"}
Reasons == ContentFlaws \cup {"REPLAY", "QUEUE", "NOT_ARMED"}
Opcodes == {"ping", "arm", "safe"}   \* "ping" stands for set too: not critical

(* What obc_cmd_table admits: arm names an opcode, the others name none.   *)
Calls == [op : {"ping", "safe"}, arg : {"none"}] \cup [op : {"arm"}, arg : Opcodes]
Frames == [call : Calls, when : Nat, counter : Nat \ {0}, flaw : ContentFlaws \cup {"NONE"}]

ASSUME CommandAssumption ==
  /\ GroundFrames \subseteq Frames
  /\ FrameLen \in Nat \ {0, 1} /\ FifoDepth \in Nat \ {0} /\ RxBytes \in Nat \ {0}
  /\ QueueLen \in Nat \ {0} /\ ArmFrames \in Nat \ {0} /\ FrameTicks \in Nat \ {0}
  /\ CounterMax \in Nat \ {0} /\ Window \in Nat \ {0}
  /\ MaxSent \in Nat /\ MaxLost \in Nat /\ MaxSkips \in Nat /\ MaxResets \in Nat

(* A queue slot that is occupied: the command, and as history the frame it *)
(* was accepted in, the commands executed before, and the rung 2 resets.   *)
Entry == [call : Calls, when : Nat, counter : Nat \ {0}, at : 0 .. Window - 1,
          after : Nat, era : Nat]

ASSUME VacantIsNoCommand == Vacant \notin Entry

VARIABLES
  sent, lost,           \* history: frames sent and bytes lost so far
  sending,              \* the bytes of the current frame still to arrive
  fifo,                 \* the receive FIFO
  pc,                   \* "poll", "run", or "idle" until the next frame
  frame,                \* obc_frames_run
  rx, taken,            \* s_rx up to s_fill; bytes taken in this dispatch
  examined, accepted, rejected,  \* the counters of frame.c
  last_counter,         \* s_last_counter
  queue, queued,        \* obc_cmd_queue, obc_cmd_queued
  executed, late,       \* the counters of queue.c
  armed_opcode, armed_until,
  done,                 \* history: the commands executed, in order
  skipped,              \* history: frames the task was not dispatched in
  resets, emptied,      \* history: rung 2 resets, and commands they dropped
  clean                 \* history: the line is where s_fill says it is

lineVars == <<sent, lost, sending, fifo, clean>>
counts == <<examined, accepted, rejected, last_counter>>
queueVars == <<queue, queued, executed, late, armed_opcode, armed_until, done>>
frameVars == <<frame, skipped, resets, emptied>>
vars == <<lineVars, pc, rx, taken, counts, queueVars, frameVars>>

Slots == 1 .. QueueLen
Now(f) == f * FrameTicks               \* obc_cmd_now_ticks in frame f

bump(n) == IF n < CounterMax THEN n + 1 ELSE n

Bytes(g) == [k \in 1 .. FrameLen |-> [of |-> g, part |-> k]]
Whole(w) == w = Bytes(w[1].of)

(* The line stands between two frames of the ground.                       *)
BetweenFrames == {<<>>} \cup {Bytes(g) : g \in GroundFrames}

(* What the checks make of FrameLen bytes.  A window that is not one frame *)
(* fails its sync word, or another check if it begins where a frame did.   *)
Readings(w) ==
  IF Whole(w) THEN {w[1].of}
  ELSE {[w[1].of EXCEPT !.flaw = x] :
          x \in IF w[1].part = 1 THEN {"LENGTH", "SUM"} ELSE {"SYNC"}}

(* obc_cmd_init, and the start of the first dispatch.                      *)
Init ==
  /\ sent = 0 /\ lost = 0 /\ sending = <<>> /\ fifo = <<>>
  /\ pc = "poll" /\ frame = 0 /\ rx = <<>> /\ taken = 0
  /\ examined = 0 /\ accepted = 0 /\ rejected = [r \in Reasons |-> 0]
  /\ last_counter = 0
  /\ queue = [i \in Slots |-> Vacant] /\ queued = 0
  /\ executed = 0 /\ late = 0
  /\ armed_opcode = "none" /\ armed_until = 0
  /\ done = <<>> /\ skipped = {} /\ resets = 0 /\ emptied = 0
  /\ clean = TRUE

-----------------------------------------------------------------------------
(* The ground and the line.  Bytes that arrive outside a poll wait for the *)
(* next one, so they arrive as it begins.                                  *)
Send(g) ==
  /\ pc = "poll" /\ sending = <<>> /\ sent < MaxSent
  /\ sending' = Bytes(g) /\ sent' = sent + 1
  /\ UNCHANGED <<lost, fifo, clean, pc, rx, taken, counts, queueVars, frameVars>>

Arrive ==
  /\ pc = "poll" /\ sending # <<>> /\ Len(fifo) < FifoDepth
  /\ fifo' = Append(fifo, Head(sending)) /\ sending' = Tail(sending)
  /\ UNCHANGED <<sent, lost, clean, pc, rx, taken, counts, queueVars, frameVars>>

Lose ==
  /\ pc = "poll" /\ sending # <<>> /\ lost < MaxLost
  /\ sending' = Tail(sending) /\ lost' = lost + 1 /\ clean' = FALSE
  /\ UNCHANGED <<sent, fifo, pc, rx, taken, counts, queueVars, frameVars>>

-----------------------------------------------------------------------------
(* A mistake to tell apart: a counter compared the wrong way round.        *)
ReplayOfTheLast(g) == g.counter < last_counter
IsReplay(g) == g.counter <= last_counter

(* Why obc_cmd_ingest refuses g, in the order of its checks.               *)
Refusal(g) ==
  IF g.flaw # "NONE" THEN g.flaw
  ELSE IF IsReplay(g) THEN "REPLAY"
  ELSE IF g.call.op = "safe" /\ armed_opcode # "safe" THEN "NOT_ARMED"
  ELSE IF \A i \in Slots : queue[i] # Vacant THEN "QUEUE"
  ELSE "NONE"

refuse(reason) ==
  /\ rejected' = [rejected EXCEPT ![reason] = bump(@)]
  /\ UNCHANGED <<accepted, last_counter, queue, queued>>

Slot(g) == [call |-> g.call, when |-> g.when, counter |-> g.counter,
            at |-> frame, after |-> Len(done), era |-> resets]

(* A mistake to tell apart: a queue that makes room.                       *)
put_evicting(g) ==
  /\ queue' = [queue EXCEPT ![1] = Slot(g)]
  /\ queued' = Cardinality({i \in Slots : i = 1 \/ queue[i] # Vacant})

(* obc_cmd_queue_put: the first vacant slot.                               *)
obc_cmd_queue_put(g) ==
  \E i \in Slots :
    /\ queue[i] = Vacant /\ \A j \in 1 .. i - 1 : queue[j] # Vacant
    /\ queue' = [queue EXCEPT ![i] = Slot(g)]
    /\ queued' = queued + 1

(* A mistake to tell apart: a counter spent on a frame the full queue      *)
(* refuses, which then can never be sent again.                            *)
IngestSpendsTheCounter(g) ==
  /\ examined' = bump(examined)
  /\ IF Refusal(g) \notin {"NONE", "QUEUE"}
     THEN refuse(Refusal(g))
     ELSE /\ last_counter' = g.counter
          /\ IF Refusal(g) = "NONE"
             THEN obc_cmd_queue_put(g) /\ accepted' = bump(accepted) /\ UNCHANGED rejected
             ELSE /\ rejected' = [rejected EXCEPT !["QUEUE"] = bump(@)]
                  /\ UNCHANGED <<accepted, queue, queued>>

obc_cmd_ingest(g) ==
  /\ examined' = bump(examined)
  /\ IF Refusal(g) # "NONE"
     THEN refuse(Refusal(g))
     ELSE /\ obc_cmd_queue_put(g)
          /\ last_counter' = g.counter
          /\ accepted' = bump(accepted)
          /\ UNCHANGED rejected

(* One turn of the loop of obc_cmd_poll: a byte, and the frame it ends.    *)
Take ==
  /\ pc = "poll" /\ fifo # <<>> /\ taken < RxBytes
  /\ fifo' = Tail(fifo) /\ taken' = taken + 1
  /\ LET w == Append(rx, Head(fifo)) IN
     IF Len(w) = FrameLen
     THEN rx' = <<>> /\ \E g \in Readings(w) : obc_cmd_ingest(g)
     ELSE rx' = w /\ UNCHANGED <<counts, queue, queued>>
  /\ UNCHANGED <<sent, lost, sending, clean, pc, frameVars, executed, late,
                 armed_opcode, armed_until, done>>

(* Nothing waiting and a partial frame held: examined, and a length error. *)
Truncated == taken = 0 /\ rx # <<>>

(* A mistake to tell apart: an arm that never expires.                     *)
ArmingKept == UNCHANGED <<armed_opcode, armed_until>>

(* What obc_cmd_queue_run does first: an arm expires on a frame count.     *)
ArmingExpires ==
  /\ armed_opcode' = IF frame >= armed_until THEN "none" ELSE armed_opcode
  /\ UNCHANGED armed_until

(* A mistake to tell apart: the truncated frame refused and not examined.  *)
PollEndsUnexamined ==
  /\ pc = "poll" /\ (fifo = <<>> \/ taken = RxBytes)
  /\ pc' = "run" /\ taken' = 0
  /\ IF Truncated
     THEN rx' = <<>> /\ UNCHANGED examined /\ refuse("LENGTH")
     ELSE UNCHANGED <<rx, counts, queue, queued>>
  /\ clean' = IF taken = 0 THEN sending \in BetweenFrames ELSE clean
  /\ ArmingExpires
  /\ UNCHANGED <<sent, lost, sending, fifo, executed, late, done, frameVars>>

(* A mistake to tell apart: the partial frame kept for the bytes to come.  *)
PollEndsHolding ==
  /\ pc = "poll" /\ (fifo = <<>> \/ taken = RxBytes)
  /\ pc' = "run" /\ taken' = 0
  /\ clean' = IF taken = 0 THEN sending \in BetweenFrames ELSE clean
  /\ ArmingExpires
  /\ UNCHANGED <<sent, lost, sending, fifo, rx, counts, queue, queued, executed, late,
                 done, frameVars>>

(* The loop of obc_cmd_poll ends, and obc_cmd_queue_run begins.  Silence   *)
(* realigns the parser if the ground is between two frames.                *)
PollEnds ==
  /\ pc = "poll" /\ (fifo = <<>> \/ taken = RxBytes)
  /\ pc' = "run" /\ taken' = 0
  /\ IF Truncated
     THEN rx' = <<>> /\ examined' = bump(examined) /\ refuse("LENGTH")
     ELSE UNCHANGED <<rx, counts, queue, queued>>
  /\ clean' = IF taken = 0 THEN sending \in BetweenFrames ELSE clean
  /\ ArmingExpires
  /\ UNCHANGED <<sent, lost, sending, fifo, executed, late, done, frameVars>>

-----------------------------------------------------------------------------
IsDue(i) == queue[i] # Vacant /\ queue[i].when <= Now(frame)

(* A mistake to tell apart: the first due slot, whatever its tag.          *)
FirstDue(i) == IsDue(i) /\ \A j \in Slots : IsDue(j) => i <= j

(* The slot a pass of obc_cmd_queue_run selects: the earliest tag, and the *)
(* lowest slot of those.                                                   *)
Oldest(i) ==
  /\ IsDue(i)
  /\ \A j \in Slots : IsDue(j) =>
       queue[i].when < queue[j].when \/ (queue[i].when = queue[j].when /\ i <= j)

(* One pass: the slot is freed, the handler runs, and only then is the     *)
(* arming established.  No pass adds a slot, so QueueLen passes are never  *)
(* too few.                                                                *)
RunOldest ==
  /\ pc = "run"
  /\ \E i \in Slots :
       LET c == queue[i] IN
       /\ Oldest(i)
       /\ queue' = [queue EXCEPT ![i] = Vacant] /\ queued' = queued - 1
       /\ late' = IF Now(frame) > c.when + FrameTicks THEN bump(late) ELSE late
       /\ executed' = bump(executed)
       /\ done' = Append(done, [slot |-> c, frame |-> frame, armed |-> armed_opcode])
       /\ IF c.call.op = "arm"
          THEN armed_opcode' = c.call.arg /\ armed_until' = frame + ArmFrames
          ELSE UNCHANGED <<armed_opcode, armed_until>>
  /\ UNCHANGED <<pc, rx, taken, lineVars, counts, frameVars>>

(* A mistake to tell apart: one command a dispatch.                        *)
RunEndsEarly ==
  /\ pc = "run"
  /\ \/ \A i \in Slots : ~IsDue(i)
     \/ done # <<>> /\ done[Len(done)].frame = frame
  /\ pc' = "idle"
  /\ UNCHANGED <<rx, taken, lineVars, counts, queueVars, frameVars>>

RunEnds ==
  /\ pc = "run" /\ \A i \in Slots : ~IsDue(i)
  /\ pc' = "idle"
  /\ UNCHANGED <<rx, taken, lineVars, counts, queueVars, frameVars>>

obc_cmd_queue_init ==
  /\ queue' = [i \in Slots |-> Vacant] /\ queued' = 0
  /\ armed_opcode' = "none" /\ armed_until' = 0

(* Rung 2, after the task returned from a second overrun.                  *)
SubsystemReset ==
  /\ pc = "idle" /\ frame \notin skipped /\ resets < MaxResets
  /\ obc_cmd_queue_init
  /\ resets' = resets + 1 /\ emptied' = emptied + queued
  /\ UNCHANGED <<pc, rx, taken, lineVars, counts, executed, late, done, frame, skipped>>

(* The next minor frame: the task is dispatched, or suspended by rung 1.   *)
NextFrame ==
  /\ pc = "idle" /\ frame + 1 < Window
  /\ frame' = frame + 1
  /\ \/ pc' = "poll" /\ UNCHANGED skipped
     \/ /\ Cardinality(skipped) < MaxSkips
        /\ pc' = "idle" /\ skipped' = skipped \cup {frame + 1}
  /\ UNCHANGED <<rx, taken, lineVars, counts, queueVars, resets, emptied>>

WindowOver == pc = "idle" /\ frame + 1 = Window /\ UNCHANGED vars

Line == (\E g \in GroundFrames : Send(g)) \/ Arrive \/ Lose
Task == Take \/ PollEnds \/ RunOldest \/ RunEnds

Next == Line \/ Task \/ SubsystemReset \/ NextFrame \/ WindowOver

Spec == Init /\ [][Next]_vars

-----------------------------------------------------------------------------
Byte == [of : GroundFrames, part : 1 .. FrameLen]
Execution == [slot : Entry, frame : 0 .. Window - 1, armed : {"none"} \cup Opcodes]

TypeOK ==
  /\ sent \in 0 .. MaxSent /\ lost \in 0 .. MaxLost
  /\ sending \in Seq(Byte) /\ fifo \in Seq(Byte) /\ rx \in Seq(Byte)
  /\ Len(fifo) <= FifoDepth /\ Len(rx) < FrameLen /\ taken \in 0 .. RxBytes
  /\ pc \in {"poll", "run", "idle"} /\ frame \in 0 .. Window - 1
  /\ examined \in 0 .. CounterMax /\ accepted \in 0 .. CounterMax
  /\ rejected \in [Reasons -> 0 .. CounterMax]
  /\ last_counter \in Nat
  /\ queue \in [Slots -> {Vacant} \cup Entry]
  /\ queued = Cardinality({i \in Slots : queue[i] # Vacant})
  /\ executed \in 0 .. CounterMax /\ late \in 0 .. CounterMax
  /\ armed_opcode \in {"none"} \cup Opcodes /\ armed_until \in Nat
  /\ done \in Seq(Execution) /\ skipped \subseteq 1 .. frame
  /\ resets \in 0 .. MaxResets /\ emptied \in Nat /\ clean \in BOOLEAN

Columns ==
  accepted + rejected["SYNC"] + rejected["LENGTH"] + rejected["SUM"] + rejected["OPCODE"]
    + rejected["ARG"] + rejected["REPLAY"] + rejected["QUEUE"] + rejected["NOT_ARMED"]

(* ADR 0013, obligation 2: nothing is examined that is neither accepted    *)
(* nor refused, truncated and misaligned frames included.  Once examined   *)
(* has saturated it still says "at least this many".                       *)
NothingFellBetween ==
  IF examined < CounterMax THEN examined = Columns ELSE Columns >= CounterMax

(* What a counter that stops at its ceiling says of n.                     *)
UpToMax(n) == IF n < CounterMax THEN n ELSE CounterMax

(* An accepted command is executed, waits, or was dropped by rung 2: the   *)
(* queue refuses when it is full and never makes room.  The counters say   *)
(* how many, and still say it of the ceiling they stop at (ADR 0012).      *)
AcceptedIsAccountedFor ==
  /\ executed = UpToMax(Len(done))
  /\ accepted = UpToMax(Len(done) + queued + emptied)

(* A frame duplicated by the link or sent again is executed once.          *)
ExecutedOnce ==
  \A j, k \in DOMAIN done : done[j].slot.counter = done[k].slot.counter => j = k

(* A critical command that runs was accepted under the last arm executed   *)
(* before it, which named it, in the same era of the queue, and at the     *)
(* latest in the first dispatch ArmFrames frames after that arm.  This is  *)
(* less than queue.h 70 says: a critical command is refused "unless the    *)
(* immediately preceding accepted command armed that exact opcode".  The   *)
(* code keeps an arm until it expires or another arm runs, so any commands *)
(* accepted or executed in between are allowed here.                       *)
ArmedWhenAccepted(c) ==
  \E j \in 1 .. c.after :
    /\ done[j].slot.call = [op |-> "arm", arg |-> c.call.op]
    /\ \A m \in j + 1 .. c.after : done[m].slot.call.op # "arm"
    /\ done[j].slot.era = c.era
    /\ \A f \in done[j].frame + ArmFrames .. c.at - 1 : f \in skipped

CriticalNeedsArm ==
  \A k \in DOMAIN done :
    done[k].slot.call.op = "safe" => ArmedWhenAccepted(done[k].slot)

(* A command runs in the first frame the task is dispatched in whose start *)
(* is not before its tag: the frame it was accepted in at the earliest,    *)
(* and never a later one however many are due together.                    *)
RunsInItsFrame ==
  /\ \A k \in DOMAIN done :
       \A f \in done[k].slot.at .. done[k].frame - 1 :
         f \in skipped \/ Now(f) < done[k].slot.when
  /\ pc = "idle" => frame \in skipped \/ \A i \in Slots : ~IsDue(i)

(* Commands that fall due together run in the order of their tags.         *)
OldestFirst ==
  \A j, k \in DOMAIN done :
    j < k /\ done[j].frame = done[k].frame => done[j].slot.when <= done[k].slot.when

(* Resynchronised by silence: once a dispatch found the line silent        *)
(* between two frames, what is examined is a frame as the ground sent it,  *)
(* until a byte is lost or the ground falls silent inside a frame.         *)
SilenceRealigns ==
  [][clean /\ fifo' # fifo /\ Len(rx) = FrameLen - 1 /\ rx' = <<>>
       => Whole(Append(rx, Head(fifo)))]_<<rx, fifo>>

-----------------------------------------------------------------------------
(* The command path is a ledger of orders: behind the parser, the slots,   *)
(* the passes, the arming and rung 2, what was accepted waits, runs in its *)
(* turn and its frame, or is dropped and counted, and nothing else is.     *)
Order(c) == [call |-> c.call, when |-> c.when, counter |-> c.counter]

Ledger == INSTANCE CommandLedger WITH
  Orders <- {Order(g) : g \in GroundFrames},
  Capacity <- QueueLen,
  Period <- FrameTicks,
  pending <- {Order(queue[i]) : i \in {j \in Slots : queue[j] # Vacant}},
  ran <- [k \in DOMAIN done |-> Order(done[k].slot)],
  dropped <- emptied,
  last <- last_counter,
  now <- Now(frame),
  served <- frame \notin skipped

ImplementsLedger == Ledger!Spec

-----------------------------------------------------------------------------
(* queue.c 90: a critical command queued while armed still meets an        *)
(* expired arm if its tick has moved past the window.  A critical command  *)
(* runs only while its opcode is armed; the code does not ask again.       *)
CriticalRunsArmed ==
  \A k \in DOMAIN done : done[k].slot.call.op = "safe" => done[k].armed = "safe"
=============================================================================

--------------------------- MODULE Command_proof ---------------------------
(***************************************************************************)
(* Theorems about the command path, for every set of ground frames, every  *)
(* length of frame, FIFO and queue, and any number of frames sent, bytes   *)
(* lost, dispatches missed and rung 2 resets.                              *)
(***************************************************************************)
EXTENDS Command, FiniteSetTheorems, TLAPS

-----------------------------------------------------------------------------
(* Types.                                                                  *)

Occupied == {i \in Slots : queue[i] # Vacant}

LEMMA SlotsAreFinite == IsFiniteSet(Slots) /\ Cardinality(Slots) = QueueLen
  BY FS_Interval, CommandAssumption DEF Slots

LEMMA OccupiedIsFinite == IsFiniteSet(Occupied) /\ Cardinality(Occupied) \in Nat
  BY SlotsAreFinite, FS_Subset, FS_CardinalityType DEF Occupied

(* What the parser makes of the bytes at hand is a frame, and one without  *)
(* a flaw is a frame the ground sent.                                      *)
LEMMA ReadingIsAFrame ==
  ASSUME TypeOK, fifo # <<>>, NEW g \in Readings(Append(rx, Head(fifo)))
  PROVE  g \in Frames /\ (g.flaw = "NONE" => g \in GroundFrames)
<1> DEFINE w == Append(rx, Head(fifo))
<1>1. Head(fifo) \in Byte
  BY DEF TypeOK
<1>2. w[1] \in Byte
  <2>1. CASE rx = <<>>
    BY <1>1, <2>1
  <2>2. CASE rx # <<>>
    BY <1>1, <2>2 DEF TypeOK
  <2> QED
    BY <2>1, <2>2
<1>3. w[1].of \in GroundFrames
  BY <1>2 DEF Byte
<1>4. w[1].of \in Frames
  BY <1>3, CommandAssumption
<1>5. g = w[1].of \/ \E x \in {"LENGTH", "SUM", "SYNC"} : g = [w[1].of EXCEPT !.flaw = x]
  BY DEF Readings
<1> QED
  BY <1>3, <1>4, <1>5 DEF Frames, ContentFlaws

LEMMA BumpIsBounded ==
  ASSUME NEW n \in 0 .. CounterMax
  PROVE  bump(n) \in 0 .. CounterMax
  BY CommandAssumption DEF bump

LEMMA RefusalIsAReason ==
  ASSUME NEW g \in Frames
  PROVE  Refusal(g) \in Reasons \cup {"NONE"}
  BY DEF Refusal, Frames, Reasons, ContentFlaws

LEMMA RefuseTypes ==
  ASSUME TypeOK, NEW r \in Reasons, refuse(r)
  PROVE  rejected' \in [Reasons -> 0 .. CounterMax]
  BY BumpIsBounded DEF refuse, TypeOK

(* One more command in the queue, and one more in its count.               *)
LEMMA PutTypes ==
  ASSUME TypeOK, NEW g \in Frames, obc_cmd_queue_put(g)
  PROVE  /\ queue' \in [Slots -> {Vacant} \cup Entry]
         /\ queued' = Cardinality(Occupied')
<1>1. PICK i \in Slots : queue[i] = Vacant /\ queue' = [queue EXCEPT ![i] = Slot(g)]
                         /\ queued' = queued + 1
  BY DEF obc_cmd_queue_put
<1>2. Slot(g) \in Entry
  BY DEF Slot, Entry, TypeOK, Frames
<1>3. queue' \in [Slots -> {Vacant} \cup Entry]
  BY <1>1, <1>2 DEF TypeOK
<1>4. Occupied' = Occupied \cup {i} /\ i \notin Occupied
  BY <1>1, <1>2, VacantIsNoCommand DEF Occupied, TypeOK
<1>5. Cardinality(Occupied \cup {i}) = Cardinality(Occupied) + 1
  BY <1>4, OccupiedIsFinite, FS_AddElement
<1> QED
  BY <1>1, <1>3, <1>4, <1>5 DEF TypeOK, Occupied

(* A frame examined leaves every counter in its range and the queue typed. *)
LEMMA IngestTypes ==
  ASSUME TypeOK, NEW g \in Frames, obc_cmd_ingest(g)
  PROVE  /\ examined' \in 0 .. CounterMax /\ accepted' \in 0 .. CounterMax
         /\ rejected' \in [Reasons -> 0 .. CounterMax] /\ last_counter' \in Nat
         /\ queue' \in [Slots -> {Vacant} \cup Entry]
         /\ queued' = Cardinality(Occupied')
<1>1. examined' \in 0 .. CounterMax
  BY BumpIsBounded DEF obc_cmd_ingest, TypeOK
<1>2. CASE Refusal(g) # "NONE"
  <2>1. refuse(Refusal(g)) /\ Refusal(g) \in Reasons
    BY <1>2, RefusalIsAReason DEF obc_cmd_ingest
  <2>2. Occupied' = Occupied
    BY <2>1 DEF refuse, Occupied
  <2> QED
    BY <1>1, <2>1, <2>2, RefuseTypes DEF refuse, TypeOK, Occupied
<1>3. CASE Refusal(g) = "NONE"
  <2>1. /\ obc_cmd_queue_put(g) /\ last_counter' = g.counter
        /\ accepted' = bump(accepted) /\ UNCHANGED rejected
    BY <1>3 DEF obc_cmd_ingest
  <2> QED
    BY <1>1, <2>1, PutTypes, BumpIsBounded DEF TypeOK, Frames
<1> QED
  BY <1>2, <1>3

(* A slot freed is one command fewer in the count.                         *)
LEMMA FreeTypes ==
  ASSUME TypeOK, NEW i \in Slots, queue[i] # Vacant,
         queue' = [queue EXCEPT ![i] = Vacant], queued' = queued - 1
  PROVE  /\ queue' \in [Slots -> {Vacant} \cup Entry]
         /\ queued' = Cardinality(Occupied')
<1>1. Occupied' = Occupied \ {i} /\ i \in Occupied
  BY DEF Occupied, TypeOK
<1>2. Cardinality(Occupied \ {i}) = Cardinality(Occupied) - 1
  BY <1>1, OccupiedIsFinite, FS_RemoveElement
<1> QED
  BY <1>1, <1>2 DEF TypeOK, Occupied

(* The counters, the queue, the parser and the arming keep their types,    *)
(* the counters saturate at CounterMax, and obc_cmd_queued is at all times *)
(* the number of occupied slots.                                           *)
THEOREM TypeCorrect == Spec => []TypeOK
<1>1. Init => TypeOK
  <2> SUFFICES ASSUME Init PROVE TypeOK
    OBVIOUS
  <2>1. Cardinality({i \in Slots : queue[i] # Vacant}) = 0
    <3>1. {i \in Slots : queue[i] # Vacant} = {}
      BY DEF Init
    <3> QED
      BY <3>1, FS_EmptySet
  <2> QED
    BY <2>1, CommandAssumption DEF Init, TypeOK, Reasons, ContentFlaws
<1>2. TypeOK /\ [Next]_vars => TypeOK'
  <2> SUFFICES ASSUME TypeOK, [Next]_vars PROVE TypeOK'
    OBVIOUS
  <2> USE CommandAssumption
  <2>1. ASSUME NEW g \in GroundFrames, Send(g) PROVE TypeOK'
    <3>1. Bytes(g) \in Seq(Byte)
      BY DEF Bytes, Byte
    <3> QED
      BY <2>1, <3>1 DEF Send, TypeOK, counts, queueVars, frameVars
  <2>2. CASE Arrive
    BY <2>2 DEF Arrive, TypeOK, counts, queueVars, frameVars
  <2>3. CASE Lose
    <3>1. sending' \in Seq(Byte) /\ lost' \in 0 .. MaxLost
      BY <2>3 DEF Lose, TypeOK
    <3>2. clean' \in BOOLEAN
      BY <2>3 DEF Lose
    <3> QED
      BY <2>3, <3>1, <3>2 DEF Lose, TypeOK, counts, queueVars, frameVars
  <2>4. CASE Take
    <3> DEFINE w == Append(rx, Head(fifo))
    <3>1. /\ fifo # <<>> /\ taken < RxBytes
          /\ fifo' = Tail(fifo) /\ taken' = taken + 1
          /\ UNCHANGED <<sent, lost, sending, clean, pc, frameVars, executed, late,
                         armed_opcode, armed_until, done>>
      BY <2>4 DEF Take
    <3>2. fifo' \in Seq(Byte) /\ Len(fifo') <= FifoDepth /\ w \in Seq(Byte)
          /\ Len(w) = Len(rx) + 1
      BY <3>1 DEF TypeOK
    <3>3. CASE Len(w) = FrameLen
      <4>1. PICK g \in Readings(w) : obc_cmd_ingest(g)
        BY <2>4, <3>3 DEF Take
      <4>2. g \in Frames
        BY <3>1, ReadingIsAFrame
      <4>3. rx' = <<>>
        BY <2>4, <3>3 DEF Take
      <4>4. /\ examined' \in 0 .. CounterMax /\ accepted' \in 0 .. CounterMax
            /\ rejected' \in [Reasons -> 0 .. CounterMax] /\ last_counter' \in Nat
            /\ queue' \in [Slots -> {Vacant} \cup Entry]
            /\ queued' = Cardinality(Occupied')
        BY <4>1, <4>2, IngestTypes
      <4> QED
        BY <3>1, <3>2, <4>3, <4>4 DEF TypeOK, frameVars, Occupied
    <3>4. CASE Len(w) # FrameLen
      <4>1. rx' = w /\ UNCHANGED <<counts, queue, queued>>
        BY <2>4, <3>4 DEF Take
      <4> QED
        BY <3>1, <3>2, <3>4, <4>1 DEF TypeOK, frameVars, counts
    <3> QED
      BY <3>3, <3>4
  <2>5. CASE PollEnds
    <3>1. /\ rx' \in Seq(Byte) /\ Len(rx') < FrameLen /\ examined' \in 0 .. CounterMax
          /\ rejected' \in [Reasons -> 0 .. CounterMax]
          /\ UNCHANGED <<accepted, last_counter, queue, queued>>
      <4>1. CASE Truncated
        <5>1. rx' = <<>> /\ examined' = bump(examined) /\ refuse("LENGTH")
          BY <2>5, <4>1 DEF PollEnds
        <5>2. "LENGTH" \in Reasons
          BY DEF Reasons, ContentFlaws
        <5>3. rejected' \in [Reasons -> 0 .. CounterMax]
          BY <5>1, <5>2, RefuseTypes
        <5>4. examined' \in 0 .. CounterMax
          BY <5>1, BumpIsBounded DEF TypeOK
        <5>5. rx' \in Seq(Byte) /\ Len(rx') < FrameLen
          BY <5>1, CommandAssumption
        <5> QED
          BY <5>1, <5>3, <5>4, <5>5 DEF refuse
      <4>2. CASE ~Truncated
        BY <2>5, <4>2 DEF PollEnds, TypeOK, counts
      <4> QED
        BY <4>1, <4>2
    <3>2. clean' \in BOOLEAN
      <4>1. CASE taken = 0
        <5>1. CASE sending \in BetweenFrames
          BY <2>5, <4>1, <5>1 DEF PollEnds
        <5>2. CASE sending \notin BetweenFrames
          BY <2>5, <4>1, <5>2 DEF PollEnds
        <5> QED
          BY <5>1, <5>2
      <4>2. CASE taken # 0
        BY <2>5, <4>2, Zenon DEF PollEnds, TypeOK
      <4> QED
        BY <4>1, <4>2
    <3>3. armed_opcode' \in {"none"} \cup Opcodes /\ armed_until' = armed_until
      BY <2>5 DEF PollEnds, ArmingExpires, TypeOK
    <3> QED
      BY <2>5, <3>1, <3>2, <3>3 DEF PollEnds, TypeOK, frameVars
  <2>6. CASE RunOldest
    <3>1. PICK i \in Slots :
            /\ queue[i] # Vacant
            /\ queue' = [queue EXCEPT ![i] = Vacant] /\ queued' = queued - 1
            /\ late' \in {late, bump(late)} /\ executed' = bump(executed)
            /\ done' = Append(done, [slot |-> queue[i], frame |-> frame,
                                     armed |-> armed_opcode])
            /\ IF queue[i].call.op = "arm"
               THEN armed_opcode' = queue[i].call.arg /\ armed_until' = frame + ArmFrames
               ELSE UNCHANGED <<armed_opcode, armed_until>>
      BY <2>6 DEF RunOldest, Oldest, IsDue
    <3>2. queue[i] \in Entry
      BY <3>1 DEF TypeOK
    <3>3. [slot |-> queue[i], frame |-> frame, armed |-> armed_opcode] \in Execution
      BY <3>2 DEF Execution, TypeOK
    <3>4. done' \in Seq(Execution)
      BY <3>1, <3>3 DEF TypeOK
    <3>5. armed_opcode' \in {"none"} \cup Opcodes /\ armed_until' \in Nat
      <4>1. CASE queue[i].call.op = "arm"
        <5>1. queue[i].call \in Calls
          BY <3>2 DEF Entry
        <5>2. queue[i].call.arg \in Opcodes
          BY <4>1, <5>1 DEF Calls
        <5>3. frame + ArmFrames \in Nat
          BY CommandAssumption DEF TypeOK
        <5> QED
          BY <3>1, <4>1, <5>2, <5>3
      <4>2. CASE queue[i].call.op # "arm"
        BY <3>1, <4>2 DEF TypeOK
      <4> QED
        BY <4>1, <4>2
    <3>6. executed' \in 0 .. CounterMax /\ late' \in 0 .. CounterMax
      BY <3>1, BumpIsBounded DEF TypeOK
    <3>7. queue' \in [Slots -> {Vacant} \cup Entry] /\ queued' = Cardinality(Occupied')
      BY <3>1, FreeTypes
    <3> QED
      BY <2>6, <3>4, <3>5, <3>6, <3>7
      DEF RunOldest, TypeOK, lineVars, counts, frameVars, Occupied
  <2>7. CASE RunEnds
    BY <2>7 DEF RunEnds, TypeOK, lineVars, counts, queueVars, frameVars
  <2>8. CASE SubsystemReset
    <3>1. queue' = [i \in Slots |-> Vacant] /\ queued' = 0
          /\ armed_opcode' = "none" /\ armed_until' = 0
      BY <2>8 DEF SubsystemReset, obc_cmd_queue_init
    <3>2. queued' = Cardinality(Occupied')
      <4>1. Occupied' = {}
        BY <3>1 DEF Occupied
      <4> QED
        BY <3>1, <4>1, FS_EmptySet
    <3>3. emptied' \in Nat
      BY <2>8, OccupiedIsFinite DEF SubsystemReset, TypeOK, Occupied
    <3> QED
      BY <2>8, <3>1, <3>2, <3>3 DEF SubsystemReset, TypeOK, lineVars, counts, Occupied
  <2>9. CASE NextFrame
    <3>1. frame' = frame + 1 /\ frame' \in 0 .. Window - 1
      BY <2>9 DEF NextFrame, TypeOK
    <3>2. skipped' \subseteq 1 .. frame' /\ pc' \in {"poll", "run", "idle"}
      <4>1. skipped' \subseteq skipped \cup {frame + 1}
        BY <2>9 DEF NextFrame
      <4>2. skipped \subseteq 1 .. frame /\ frame \in Nat
        BY DEF TypeOK
      <4>3. 1 .. frame \subseteq 1 .. frame + 1 /\ frame + 1 \in 1 .. frame + 1
        BY <4>2
      <4>4. pc' \in {"poll", "run", "idle"}
        BY <2>9 DEF NextFrame
      <4> QED
        BY <3>1, <4>1, <4>2, <4>3, <4>4
    <3>3. UNCHANGED <<rx, taken, sent, lost, sending, fifo, clean, examined, accepted,
                      rejected, last_counter, queue, queued, executed, late,
                      armed_opcode, armed_until, done, resets, emptied>>
      BY <2>9 DEF NextFrame, lineVars, counts, queueVars
    <3> QED
      BY <3>1, <3>2, <3>3 DEF TypeOK
  <2>10. CASE UNCHANGED vars
    BY <2>10 DEF vars, TypeOK, lineVars, counts, queueVars, frameVars
  <2> QED
    BY <2>1, <2>2, <2>3, <2>4, <2>5, <2>6, <2>7, <2>8, <2>9, <2>10
    DEF Next, Line, Task, WindowOver
<1> QED
  BY <1>1, <1>2, PTL DEF Spec

-----------------------------------------------------------------------------
(* The accounting identity.                                                *)

(* The steps that count, each with the one column it counts in.            *)
LEMMA RefuseCounts ==
  ASSUME TypeOK, NothingFellBetween, NEW r \in Reasons, refuse(r),
         examined' = bump(examined)
  PROVE  NothingFellBetween'
<1> DEFINE n(x) == rejected[x]
<1>1. \A x \in Reasons : n(x) \in Nat /\ n(x) <= CounterMax
  BY CommandAssumption DEF TypeOK
<1>2. /\ n("SYNC") \in Nat /\ n("LENGTH") \in Nat /\ n("SUM") \in Nat
      /\ n("OPCODE") \in Nat /\ n("ARG") \in Nat /\ n("REPLAY") \in Nat
      /\ n("QUEUE") \in Nat /\ n("NOT_ARMED") \in Nat
      /\ accepted \in Nat /\ examined \in Nat
  BY <1>1, CommandAssumption DEF Reasons, ContentFlaws, TypeOK
<1>3. n(r) \in Nat /\ n(r) <= CounterMax /\ n(r) <= Columns
  BY <1>1, <1>2 DEF Columns, Reasons, ContentFlaws
<1>4. Columns' = Columns + (bump(n(r)) - n(r))
  <2>1. /\ accepted' = accepted
        /\ \A x \in Reasons : rejected'[x] = IF x = r THEN bump(n(r)) ELSE n(x)
    BY DEF refuse, TypeOK
  <2>2. bump(n(r)) \in Nat
    BY <1>3 DEF bump
  <2>3. \A x \in Reasons : rejected'[x] = n(x) + IF x = r THEN bump(n(r)) - n(r) ELSE 0
    BY <1>1, <2>1, <2>2
  <2> DEFINE d(x) == IF x = r THEN bump(n(r)) - n(r) ELSE 0
  <2>4. /\ rejected'["SYNC"] = n("SYNC") + d("SYNC")
        /\ rejected'["LENGTH"] = n("LENGTH") + d("LENGTH")
        /\ rejected'["SUM"] = n("SUM") + d("SUM")
        /\ rejected'["OPCODE"] = n("OPCODE") + d("OPCODE")
        /\ rejected'["ARG"] = n("ARG") + d("ARG")
        /\ rejected'["REPLAY"] = n("REPLAY") + d("REPLAY")
        /\ rejected'["QUEUE"] = n("QUEUE") + d("QUEUE")
        /\ rejected'["NOT_ARMED"] = n("NOT_ARMED") + d("NOT_ARMED")
    BY <2>3 DEF Reasons, ContentFlaws
  <2>5. /\ d(r) = bump(n(r)) - n(r)
        /\ d("SYNC") + d("LENGTH") + d("SUM") + d("OPCODE") + d("ARG") + d("REPLAY")
             + d("QUEUE") + d("NOT_ARMED") = d(r)
        /\ \A x \in Reasons : d(x) \in Int
    BY <1>3, <2>2 DEF Reasons, ContentFlaws
  <2>6. /\ d("SYNC") \in Int /\ d("LENGTH") \in Int /\ d("SUM") \in Int
        /\ d("OPCODE") \in Int /\ d("ARG") \in Int /\ d("REPLAY") \in Int
        /\ d("QUEUE") \in Int /\ d("NOT_ARMED") \in Int
    BY <2>5 DEF Reasons, ContentFlaws
  <2>7. Columns = accepted + n("SYNC") + n("LENGTH") + n("SUM") + n("OPCODE") + n("ARG")
                    + n("REPLAY") + n("QUEUE") + n("NOT_ARMED")
    BY DEF Columns
  <2>8. Columns' = accepted' + rejected'["SYNC"] + rejected'["LENGTH"] + rejected'["SUM"]
          + rejected'["OPCODE"] + rejected'["ARG"] + rejected'["REPLAY"]
          + rejected'["QUEUE"] + rejected'["NOT_ARMED"]
    BY DEF Columns
  <2> HIDE DEF n, d
  <2>9. Columns' = Columns + d(r)
    BY <1>2, <2>1, <2>4, <2>5, <2>6, <2>7, <2>8
  <2> QED
    BY <2>5, <2>9
<1>5. Columns \in Nat
  BY <1>2 DEF Columns
<1> QED
  BY <1>2, <1>3, <1>4, <1>5, CommandAssumption DEF NothingFellBetween, bump

LEMMA AcceptCounts ==
  ASSUME TypeOK, NothingFellBetween,
         examined' = bump(examined), accepted' = bump(accepted), UNCHANGED rejected
  PROVE  NothingFellBetween'
<1>1. \A x \in Reasons : rejected[x] \in Nat
  BY CommandAssumption DEF TypeOK
<1>2. /\ rejected["SYNC"] \in Nat /\ rejected["LENGTH"] \in Nat /\ rejected["SUM"] \in Nat
      /\ rejected["OPCODE"] \in Nat /\ rejected["ARG"] \in Nat
      /\ rejected["REPLAY"] \in Nat /\ rejected["QUEUE"] \in Nat
      /\ rejected["NOT_ARMED"] \in Nat
      /\ accepted \in Nat /\ accepted <= CounterMax /\ examined \in Nat
  BY <1>1 DEF Reasons, ContentFlaws, TypeOK
<1>3. Columns \in Nat /\ accepted <= Columns
  BY <1>2 DEF Columns
<1>4. bump(accepted) \in Nat
  BY <1>2 DEF bump
<1>5. Columns' = Columns + (bump(accepted) - accepted)
  BY <1>2, <1>4 DEF Columns
<1> QED
  BY <1>2, <1>3, <1>5, CommandAssumption DEF NothingFellBetween, bump

(* The steps that neither examine nor decide.                              *)
LEMMA SameColumns ==
  ASSUME NothingFellBetween, UNCHANGED <<examined, accepted, rejected>>
  PROVE  NothingFellBetween'
  BY DEF NothingFellBetween, Columns

(* Everything examined is accepted or refused for one reason, and both     *)
(* sides stay comparable when the counters saturate.                       *)
THEOREM NothingFellBetweenHolds == Spec => []NothingFellBetween
<1>1. Init => NothingFellBetween
  BY CommandAssumption DEF Init, NothingFellBetween, Columns, Reasons, ContentFlaws
<1>2. TypeOK /\ NothingFellBetween /\ [Next]_vars => NothingFellBetween'
  <2> SUFFICES ASSUME TypeOK, NothingFellBetween, [Next]_vars PROVE NothingFellBetween'
    OBVIOUS
  <2>1. CASE Take
    <3>1. CASE Len(Append(rx, Head(fifo))) = FrameLen
      <4>1. PICK g \in Readings(Append(rx, Head(fifo))) : obc_cmd_ingest(g)
        BY <2>1, <3>1 DEF Take
      <4>2. g \in Frames
        BY <2>1, ReadingIsAFrame DEF Take
      <4>3. CASE Refusal(g) # "NONE"
        BY <4>1, <4>2, <4>3, RefuseCounts, RefusalIsAReason DEF obc_cmd_ingest
      <4>4. CASE Refusal(g) = "NONE"
        BY <4>1, <4>4, AcceptCounts DEF obc_cmd_ingest
      <4> QED
        BY <4>3, <4>4
    <3>2. CASE Len(Append(rx, Head(fifo))) # FrameLen
      BY <2>1, <3>2, SameColumns DEF Take, counts
    <3> QED
      BY <3>1, <3>2
  <2>2. CASE PollEnds
    <3>1. CASE Truncated
      <4>1. "LENGTH" \in Reasons
        BY DEF Reasons, ContentFlaws
      <4> QED
        BY <2>2, <3>1, <4>1, RefuseCounts DEF PollEnds
    <3>2. CASE ~Truncated
      BY <2>2, <3>2, SameColumns DEF PollEnds, counts
    <3> QED
      BY <3>1, <3>2
  <2>3. CASE ~(Take \/ PollEnds)
    <3>1. UNCHANGED <<examined, accepted, rejected>>
      BY <2>3 DEF Next, Line, Task, WindowOver, Send, Arrive, Lose, RunOldest, RunEnds,
         SubsystemReset, NextFrame, vars, counts
    <3> QED
      BY <3>1, SameColumns
  <2> QED
    BY <2>1, <2>2, <2>3
<1> QED
  BY <1>1, <1>2, TypeCorrect, PTL DEF Spec

LEMMA BumpStopsAtMax ==
  ASSUME NEW n \in Nat
  PROVE  bump(UpToMax(n)) = UpToMax(n + 1)
  BY CommandAssumption DEF bump, UpToMax

(* What the queue took in was executed, waits, or was dropped by rung 2,   *)
(* and the counters say so up to their ceiling: a full queue makes no      *)
(* room, and no slot is lost.                                              *)
THEOREM AcceptedIsAccountedForHolds == Spec => []AcceptedIsAccountedFor
<1>1. Init => AcceptedIsAccountedFor
  BY CommandAssumption DEF Init, AcceptedIsAccountedFor, UpToMax
<1>2. TypeOK /\ AcceptedIsAccountedFor /\ [Next]_vars => AcceptedIsAccountedFor'
  <2> SUFFICES ASSUME TypeOK, AcceptedIsAccountedFor, [Next]_vars
               PROVE  AcceptedIsAccountedFor'
    OBVIOUS
  <2>1. /\ Len(done) \in Nat /\ queued \in Nat /\ emptied \in Nat
        /\ executed = UpToMax(Len(done))
        /\ accepted = UpToMax(Len(done) + queued + emptied)
    BY OccupiedIsFinite DEF TypeOK, Occupied, AcceptedIsAccountedFor
  <2>2. CASE Take
    <3>1. UNCHANGED <<executed, done, emptied>>
      BY <2>2 DEF Take, frameVars
    <3>2. CASE UNCHANGED <<accepted, queue, queued>>
      BY <3>1, <3>2 DEF AcceptedIsAccountedFor, UpToMax
    <3>3. ASSUME NEW g, obc_cmd_queue_put(g), accepted' = bump(accepted)
          PROVE  AcceptedIsAccountedFor'
      <4>1. queued' = queued + 1
        BY <3>3 DEF obc_cmd_queue_put
      <4>2. accepted' = UpToMax(Len(done) + queued + emptied + 1)
        BY <2>1, <3>3, BumpStopsAtMax
      <4>3. Len(done) + queued + emptied + 1 = Len(done') + queued' + emptied'
        BY <2>1, <3>1, <4>1
      <4>4. executed' = UpToMax(Len(done'))
        BY <2>1, <3>1
      <4> QED
        BY <4>2, <4>3, <4>4 DEF AcceptedIsAccountedFor, UpToMax
    <3> QED
      BY <2>2, <3>2, <3>3 DEF Take, obc_cmd_ingest, refuse, counts
  <2>3. CASE RunOldest
    <3>1. /\ accepted' = accepted /\ executed' = bump(executed)
          /\ emptied' = emptied /\ queued' = queued - 1
          /\ \E e : done' = Append(done, e)
      BY <2>3 DEF RunOldest, counts, frameVars
    <3>2. Len(done') = Len(done) + 1
      BY <3>1 DEF TypeOK
    <3>3. executed' = UpToMax(Len(done'))
      BY <2>1, <3>1, <3>2, BumpStopsAtMax
    <3>4. Len(done') + queued' + emptied' = Len(done) + queued + emptied
      BY <2>1, <3>1, <3>2
    <3> QED
      BY <2>1, <3>1, <3>3, <3>4 DEF AcceptedIsAccountedFor, UpToMax
  <2>4. CASE SubsystemReset
    <3>1. UNCHANGED <<accepted, executed, done>> /\ queued' = 0 /\ emptied' = emptied + queued
      BY <2>4 DEF SubsystemReset, obc_cmd_queue_init, counts
    <3>2. Len(done') + queued' + emptied' = Len(done) + queued + emptied
      BY <2>1, <3>1
    <3> QED
      BY <2>1, <3>1, <3>2 DEF AcceptedIsAccountedFor, UpToMax
  <2>5. CASE PollEnds
    BY <2>5 DEF PollEnds, refuse, counts, frameVars, AcceptedIsAccountedFor, UpToMax
  <2>6. CASE ~(Take \/ PollEnds \/ RunOldest \/ SubsystemReset)
    BY <2>6 DEF Next, Line, Task, WindowOver, Send, Arrive, Lose, RunEnds, NextFrame,
       vars, counts, queueVars, frameVars, AcceptedIsAccountedFor, UpToMax
  <2> QED
    BY <2>2, <2>3, <2>4, <2>5, <2>6
<1> QED
  BY <1>1, <1>2, TypeCorrect, PTL DEF Spec

-----------------------------------------------------------------------------
(* The invariant.                                                          *)

(* Every counter the path has accepted is at most s_last_counter, and no   *)
(* two commands, waiting or executed, have the same.                       *)
CountersOK ==
  /\ \A i \in Occupied : queue[i].counter <= last_counter
  /\ \A k \in DOMAIN done : done[k].slot.counter <= last_counter
  /\ \A i, j \in Occupied : queue[i].counter = queue[j].counter => i = j
  /\ \A i \in Occupied : \A k \in DOMAIN done : queue[i].counter # done[k].slot.counter
  /\ ExecutedOnce

(* What waits was never due at the start of a frame that is over and was   *)
(* not skipped, and a task that runs is not suspended.                     *)
WaitingOK ==
  /\ pc # "idle" => frame \notin skipped
  /\ \A i \in Occupied : \A f \in queue[i].at .. frame - 1 :
       f \in skipped \/ Now(f) < queue[i].when
  /\ RunsInItsFrame

(* Within a dispatch, what was executed is not younger than what is due.   *)
OrderOK ==
  /\ \A k \in DOMAIN done : done[k].frame <= frame
  /\ pc = "poll" => \A k \in DOMAIN done : done[k].frame < frame
  /\ pc = "run" =>
       \A k \in DOMAIN done : \A i \in Slots :
         done[k].frame = frame /\ IsDue(i) => done[k].slot.when <= queue[i].when
  /\ OldestFirst

(* The execution that established the arming now in force.                 *)
IsTheArm(j) ==
  /\ done[j].slot.call = [op |-> "arm", arg |-> armed_opcode]
  /\ \A m \in j + 1 .. Len(done) : done[m].slot.call.op # "arm"
  /\ done[j].slot.era = resets
  /\ armed_until = done[j].frame + ArmFrames
  /\ \A f \in armed_until .. frame - 1 : f \in skipped

ArmOK ==
  /\ armed_opcode # "none" => \E j \in 1 .. Len(done) : IsTheArm(j)
  /\ pc # "poll" /\ frame \notin skipped => armed_opcode = "none" \/ frame < armed_until
  /\ \A i \in Occupied :
       /\ queue[i].era = resets /\ queue[i].after <= Len(done)
       /\ queue[i].call.op = "safe" => ArmedWhenAccepted(queue[i])
  /\ \A k \in DOMAIN done : done[k].slot.after <= Len(done)
  /\ CriticalNeedsArm

-----------------------------------------------------------------------------
(* What a step does to the orders: five actions of Command touch them, and *)
(* the bytes of a frame only when the last one arrives.                    *)

Accepts(g) ==
  /\ pc = "poll" /\ Refusal(g) = "NONE"
  /\ obc_cmd_queue_put(g) /\ last_counter' = g.counter
  /\ UNCHANGED <<pc, frame, armed_opcode, armed_until, done, skipped, resets, emptied>>

orders == <<pc, frame, last_counter, queue, queued, armed_opcode, armed_until, done, skipped,
            resets, emptied>>

LEMMA Steps ==
  ASSUME TypeOK, [Next]_vars
  PROVE  \/ \E g \in GroundFrames : Accepts(g)
         \/ PollEnds \/ RunOldest \/ RunEnds \/ SubsystemReset \/ NextFrame
         \/ UNCHANGED orders
<1>1. CASE Take
  <2>1. /\ pc = "poll"
        /\ UNCHANGED <<pc, frame, armed_opcode, armed_until, done, skipped, resets, emptied>>
    BY <1>1 DEF Take, frameVars
  <2>2. CASE UNCHANGED <<last_counter, queue, queued>>
    BY <2>1, <2>2 DEF orders
  <2>3. ASSUME NEW g \in Readings(Append(rx, Head(fifo))), obc_cmd_ingest(g),
               Refusal(g) = "NONE"
        PROVE  \E h \in GroundFrames : Accepts(h)
    <3>1. g.flaw = "NONE"
      BY <2>3 DEF Refusal
    <3>2. g \in GroundFrames
      BY <1>1, <3>1, ReadingIsAFrame DEF Take
    <3> QED
      BY <2>1, <2>3, <3>2 DEF obc_cmd_ingest, Accepts
  <2>4. ASSUME NEW g \in Readings(Append(rx, Head(fifo))), obc_cmd_ingest(g),
               Refusal(g) # "NONE"
        PROVE  UNCHANGED <<last_counter, queue, queued>>
    BY <2>4 DEF obc_cmd_ingest, refuse
  <2> QED
    BY <1>1, <2>2, <2>3, <2>4 DEF Take, counts
<1>2. CASE ~Take
  BY <1>2 DEF Next, Line, Task, WindowOver, Send, Arrive, Lose, vars, counts, queueVars,
     frameVars, orders
<1> QED
  BY <1>1, <1>2

LEMMA PollEndsKeeps ==
  ASSUME PollEnds
  PROVE  /\ pc = "poll" /\ pc' = "run" /\ ArmingExpires
         /\ UNCHANGED <<frame, last_counter, queue, queued, done, skipped, resets, emptied>>
  BY DEF PollEnds, refuse, counts, frameVars

(* A command accepted takes a vacant slot and disturbs no other.           *)
LEMMA PutSlot ==
  ASSUME TypeOK, NEW g \in GroundFrames, Accepts(g)
  PROVE  \E i \in Slots :
           /\ i \notin Occupied /\ Occupied' = Occupied \cup {i}
           /\ queue'[i] = Slot(g) /\ \A j \in Occupied : queue'[j] = queue[j]
<1>1. PICK i \in Slots : queue[i] = Vacant /\ queue' = [queue EXCEPT ![i] = Slot(g)]
  BY DEF Accepts, obc_cmd_queue_put
<1>2. Slot(g) \in Entry
  BY CommandAssumption DEF Slot, Entry, TypeOK, Frames
<1> QED
  BY <1>1, <1>2, VacantIsNoCommand DEF Occupied, TypeOK

(* A command executed frees its slot, disturbs no other, and is the next   *)
(* of the history.                                                         *)
LEMMA RunSlot ==
  ASSUME TypeOK, RunOldest
  PROVE  \E i \in Occupied :
           /\ Oldest(i) /\ Occupied' = Occupied \ {i}
           /\ \A j \in Occupied' : queue'[j] = queue[j]
           /\ queue[i] \in Entry
           /\ Len(done') = Len(done) + 1 /\ DOMAIN done' = 1 .. Len(done) + 1
           /\ \A k \in 1 .. Len(done) : done'[k] = done[k]
           /\ done'[Len(done) + 1] = [slot |-> queue[i], frame |-> frame,
                                      armed |-> armed_opcode]
           /\ IF queue[i].call.op = "arm"
              THEN armed_opcode' = queue[i].call.arg /\ armed_until' = frame + ArmFrames
              ELSE UNCHANGED <<armed_opcode, armed_until>>
<1>1. PICK i \in Slots :
        /\ Oldest(i) /\ queue' = [queue EXCEPT ![i] = Vacant]
        /\ done' = Append(done, [slot |-> queue[i], frame |-> frame,
                                 armed |-> armed_opcode])
        /\ IF queue[i].call.op = "arm"
           THEN armed_opcode' = queue[i].call.arg /\ armed_until' = frame + ArmFrames
           ELSE UNCHANGED <<armed_opcode, armed_until>>
  BY DEF RunOldest
<1>2. i \in Occupied
  BY <1>1 DEF Oldest, IsDue, Occupied
<1>3. Occupied' = Occupied \ {i} /\ \A j \in Occupied' : queue'[j] = queue[j]
  BY <1>1 DEF Occupied, TypeOK
<1>4. queue[i] \in Entry
  BY <1>2 DEF Occupied, TypeOK
<1>5. /\ Len(done') = Len(done) + 1 /\ DOMAIN done' = 1 .. Len(done) + 1
      /\ \A k \in 1 .. Len(done) : done'[k] = done[k]
      /\ done'[Len(done) + 1] = [slot |-> queue[i], frame |-> frame,
                                 armed |-> armed_opcode]
  BY <1>1 DEF TypeOK
<1> QED
  BY <1>1, <1>2, <1>3, <1>4, <1>5

LEMMA RunKeeps ==
  ASSUME RunOldest
  PROVE  pc = "run" /\ UNCHANGED <<pc, last_counter, frame, skipped, resets, emptied>>
  BY DEF RunOldest, counts, frameVars

LEMMA ResetEmpties ==
  ASSUME SubsystemReset
  PROVE  /\ Occupied' = {} /\ armed_opcode' = "none" /\ armed_until' = 0
         /\ pc = "idle" /\ frame \notin skipped /\ resets' = resets + 1
         /\ UNCHANGED <<pc, last_counter, done, frame, skipped>>
  BY DEF SubsystemReset, obc_cmd_queue_init, Occupied, counts

LEMMA FrameKeeps ==
  ASSUME NextFrame
  PROVE  /\ pc = "idle" /\ frame' = frame + 1
         /\ \/ pc' = "poll" /\ skipped' = skipped
            \/ pc' = "idle" /\ skipped' = skipped \cup {frame + 1}
         /\ UNCHANGED <<queue, queued, last_counter, done, resets, emptied, armed_opcode,
                        armed_until>>
  BY DEF NextFrame, counts, queueVars

LEMMA RunEndsKeeps ==
  ASSUME RunEnds
  PROVE  /\ pc = "run" /\ pc' = "idle" /\ \A i \in Slots : ~IsDue(i)
         /\ UNCHANGED <<queue, queued, last_counter, done, frame, skipped, resets, emptied,
                        armed_opcode, armed_until>>
  BY DEF RunEnds, counts, queueVars, frameVars

-----------------------------------------------------------------------------
(* Counters.                                                               *)

LEMMA CountersAreNumbers ==
  ASSUME TypeOK
  PROVE  /\ last_counter \in Nat
         /\ \A i \in Occupied : queue[i].counter \in Nat
         /\ \A k \in DOMAIN done : done[k].slot.counter \in Nat
<1>1. \A i \in Occupied : queue[i] \in Entry
  BY DEF TypeOK, Occupied
<1>2. \A k \in DOMAIN done : done[k] \in Execution
  BY DEF TypeOK
<1> QED
  BY <1>1, <1>2 DEF TypeOK, Entry, Execution

(* Commands waiting, commands executed and the replay counter depend on    *)
(* nothing else.                                                           *)
LEMMA SameCounters ==
  ASSUME CountersOK, UNCHANGED <<last_counter, queue, done>>
  PROVE  CountersOK'
  BY DEF CountersOK, ExecutedOnce, Occupied

(* The replay check of obc_cmd_ingest: s_last_counter bounds every counter *)
(* let through, so what waits and what ran are told apart by theirs.       *)
THEOREM CountersHold == Spec => []CountersOK
<1>1. Init => CountersOK
  BY DEF Init, CountersOK, ExecutedOnce, Occupied
<1>2. TypeOK /\ CountersOK /\ [Next]_vars => CountersOK'
  <2> SUFFICES ASSUME TypeOK, CountersOK, [Next]_vars PROVE CountersOK'
    OBVIOUS
  <2>1. ASSUME NEW g \in GroundFrames, Accepts(g) PROVE CountersOK'
    <3>1. PICK i \in Slots :
            /\ i \notin Occupied /\ Occupied' = Occupied \cup {i}
            /\ queue'[i] = Slot(g) /\ \A j \in Occupied : queue'[j] = queue[j]
      BY <2>1, PutSlot
    <3>2. g.counter \in Nat /\ g.counter > last_counter
      BY <2>1, CommandAssumption DEF Accepts, Refusal, IsReplay, Frames, TypeOK
    <3>3. queue'[i].counter = g.counter /\ last_counter' = g.counter /\ done' = done
      BY <2>1, <3>1 DEF Slot, Accepts
    <3> QED
      BY <3>1, <3>2, <3>3, CountersAreNumbers DEF CountersOK, ExecutedOnce
  <2>2. CASE RunOldest
    <3>1. PICK i \in Occupied :
            /\ Occupied' = Occupied \ {i}
            /\ \A j \in Occupied' : queue'[j] = queue[j]
            /\ DOMAIN done' = 1 .. Len(done) + 1
            /\ \A k \in 1 .. Len(done) : done'[k] = done[k]
            /\ done'[Len(done) + 1] = [slot |-> queue[i], frame |-> frame,
                                       armed |-> armed_opcode]
      BY <2>2, RunSlot
    <3>2. last_counter' = last_counter
      BY <2>2, RunKeeps
    <3>3. DOMAIN done = 1 .. Len(done) /\ Len(done) \in Nat
      BY DEF TypeOK
    <3>4. \A k \in DOMAIN done' :
            (k \in DOMAIN done /\ done'[k] = done[k]) \/ k = Len(done) + 1
      BY <3>1, <3>3
    <3>5. /\ \A j \in Occupied' : queue'[j].counter <= last_counter'
          /\ \A j, h \in Occupied' : queue'[j].counter = queue'[h].counter => j = h
      BY <3>1, <3>2 DEF CountersOK
    <3>6. \A k \in DOMAIN done' : done'[k].slot.counter <= last_counter'
      BY <3>1, <3>2, <3>4 DEF CountersOK
    <3>7. \A j \in Occupied' : \A k \in DOMAIN done' :
            queue'[j].counter # done'[k].slot.counter
      BY <3>1, <3>4 DEF CountersOK
    <3>8. ExecutedOnce'
      BY <3>1, <3>4 DEF CountersOK, ExecutedOnce
    <3> QED
      BY <3>5, <3>6, <3>7, <3>8 DEF CountersOK
  <2>3. CASE SubsystemReset
    BY <2>3, ResetEmpties DEF CountersOK, ExecutedOnce
  <2>4. CASE UNCHANGED <<last_counter, queue, done>>
    BY <2>4, SameCounters
  <2> QED
    BY <2>1, <2>2, <2>3, <2>4, Steps, PollEndsKeeps, FrameKeeps, RunEndsKeeps DEF orders
<1> QED
  BY <1>1, <1>2, TypeCorrect, PTL DEF Spec

(* A frame duplicated by the link, or sent again, is executed at most      *)
(* once, whatever else the line does.                                      *)
THEOREM ExecutedOnceHolds == Spec => []ExecutedOnce
<1>1. CountersOK => ExecutedOnce
  BY DEF CountersOK
<1> QED
  BY <1>1, CountersHold, PTL

-----------------------------------------------------------------------------
(* Frames.                                                                 *)

LEMMA FramesAreNumbers ==
  ASSUME TypeOK
  PROVE  /\ frame \in Nat /\ FrameTicks \in Nat /\ Now(frame) \in Nat
         /\ skipped \subseteq 1 .. frame
         /\ DOMAIN done = 1 .. Len(done) /\ Len(done) \in Nat
         /\ \A i \in Occupied : queue[i].when \in Nat /\ queue[i].at \in Nat
         /\ \A k \in DOMAIN done :
              done[k].slot.when \in Nat /\ done[k].slot.at \in Nat /\ done[k].frame \in Nat
<1>1. \A i \in Occupied : queue[i] \in Entry
  BY DEF TypeOK, Occupied
<1>2. \A k \in DOMAIN done : done[k] \in Execution
  BY DEF TypeOK
<1>3. frame \in Nat /\ FrameTicks \in Nat /\ Now(frame) \in Nat
  BY CommandAssumption DEF TypeOK, Now
<1>4. \A i \in Occupied : queue[i].when \in Nat /\ queue[i].at \in Nat
  BY <1>1, CommandAssumption DEF Entry
<1>5. \A k \in DOMAIN done :
        done[k].slot.when \in Nat /\ done[k].slot.at \in Nat /\ done[k].frame \in Nat
  BY <1>2, CommandAssumption DEF Entry, Execution
<1>6. DOMAIN done = 1 .. Len(done) /\ Len(done) \in Nat /\ skipped \subseteq 1 .. frame
  BY DEF TypeOK
<1> QED
  BY <1>3, <1>4, <1>5, <1>6

LEMMA NobodyIsDue ==
  ASSUME \A i \in Slots : ~IsDue(i), TypeOK
  PROVE  \A i \in Occupied : Now(frame) < queue[i].when
  BY FramesAreNumbers DEF IsDue, Occupied

(* obc_cmd_queue_run leaves nothing due behind it: a command that waits was*)
(* early in every frame served since it was accepted.                      *)
THEOREM WaitingHolds == Spec => []WaitingOK
<1>1. Init => WaitingOK
  BY DEF Init, WaitingOK, RunsInItsFrame, Occupied
<1>2. TypeOK /\ WaitingOK /\ [Next]_vars => WaitingOK'
  <2> SUFFICES ASSUME TypeOK, WaitingOK, [Next]_vars PROVE WaitingOK'
    OBVIOUS
  <2> DEFINE Kept(c, f) == f \in skipped \/ Now(f) < c.when
  <2>1. ASSUME NEW g \in GroundFrames, Accepts(g) PROVE WaitingOK'
    <3>1. PICK i \in Slots :
            /\ i \notin Occupied /\ Occupied' = Occupied \cup {i}
            /\ queue'[i] = Slot(g) /\ \A j \in Occupied : queue'[j] = queue[j]
      BY <2>1, PutSlot
    <3>2. pc' = "poll" /\ UNCHANGED <<pc, frame, skipped, done>>
      BY <2>1 DEF Accepts
    <3>3. queue'[i].at = frame /\ frame .. frame - 1 = {}
      BY <3>1, FramesAreNumbers DEF Slot
    <3>4. \A j \in Occupied' : \A f \in queue'[j].at .. frame' - 1 :
            f \in skipped' \/ Now(f) < queue'[j].when
      BY <3>1, <3>2, <3>3 DEF WaitingOK
    <3> QED
      BY <3>2, <3>4 DEF WaitingOK, RunsInItsFrame
  <2>2. CASE RunOldest
    <3>1. PICK i \in Occupied :
            /\ Occupied' = Occupied \ {i}
            /\ \A j \in Occupied' : queue'[j] = queue[j]
            /\ DOMAIN done' = 1 .. Len(done) + 1
            /\ \A k \in 1 .. Len(done) : done'[k] = done[k]
            /\ done'[Len(done) + 1] = [slot |-> queue[i], frame |-> frame,
                                       armed |-> armed_opcode]
      BY <2>2, RunSlot
    <3>2. pc' = "run" /\ UNCHANGED <<pc, frame, skipped>>
      BY <2>2, RunKeeps
    <3>3. \A k \in DOMAIN done' :
            (k \in DOMAIN done /\ done'[k] = done[k]) \/ k = Len(done) + 1
      BY <3>1, FramesAreNumbers
    <3>4. \A j \in Occupied' : \A f \in queue'[j].at .. frame' - 1 :
            f \in skipped' \/ Now(f) < queue'[j].when
      BY <3>1, <3>2 DEF WaitingOK
    <3>5. \A k \in DOMAIN done' : \A f \in done'[k].slot.at .. done'[k].frame - 1 :
            f \in skipped' \/ Now(f) < done'[k].slot.when
      BY <3>1, <3>2, <3>3 DEF WaitingOK, RunsInItsFrame
    <3> QED
      BY <3>2, <3>4, <3>5 DEF WaitingOK, RunsInItsFrame
  <2>3. CASE SubsystemReset
    <3>1. \A i \in Slots : ~IsDue(i)'
      BY <2>3, ResetEmpties DEF Occupied, IsDue
    <3> QED
      BY <2>3, <3>1, ResetEmpties DEF WaitingOK, RunsInItsFrame
  <2>4. CASE NextFrame
    <3>1. /\ pc = "idle" /\ frame' = frame + 1
          /\ \/ pc' = "poll" /\ skipped' = skipped
             \/ pc' = "idle" /\ skipped' = skipped \cup {frame + 1}
          /\ UNCHANGED <<queue, done>>
      BY <2>4, FrameKeeps
    <3>2. skipped \subseteq skipped'
      BY <3>1
    <3>3. \A i \in Occupied : Kept(queue[i], frame)
      BY <3>1, NobodyIsDue DEF WaitingOK, RunsInItsFrame
    <3>4. \A i \in Occupied : \A f \in queue[i].at .. frame : Kept(queue[i], f)
      <4> SUFFICES ASSUME NEW i \in Occupied, NEW f \in queue[i].at .. frame
                   PROVE  Kept(queue[i], f)
        OBVIOUS
      <4>1. f = frame \/ f \in queue[i].at .. frame - 1
        BY FramesAreNumbers
      <4> QED
        BY <3>3, <4>1 DEF WaitingOK
    <3>5. Occupied' = Occupied /\ frame' - 1 = frame
      BY <3>1, FramesAreNumbers DEF Occupied
    <3>6. \A i \in Occupied' : \A f \in queue'[i].at .. frame' - 1 :
            f \in skipped' \/ Now(f) < queue'[i].when
      BY <3>1, <3>2, <3>4, <3>5
    <3>7. \A k \in DOMAIN done' : \A f \in done'[k].slot.at .. done'[k].frame - 1 :
            f \in skipped' \/ Now(f) < done'[k].slot.when
      BY <3>1, <3>2 DEF WaitingOK, RunsInItsFrame
    <3>8. pc' = "idle" => frame' \in skipped'
      BY <3>1
    <3>9. pc' # "idle" => frame' \notin skipped'
      BY <3>1, FramesAreNumbers
    <3> QED
      BY <3>6, <3>7, <3>8, <3>9 DEF WaitingOK, RunsInItsFrame
  <2>5. CASE PollEnds
    BY <2>5, PollEndsKeeps DEF WaitingOK, RunsInItsFrame, Occupied
  <2>6. CASE RunEnds
    BY <2>6, RunEndsKeeps DEF WaitingOK, RunsInItsFrame, Occupied, IsDue
  <2>7. CASE UNCHANGED orders
    BY <2>7 DEF orders, WaitingOK, RunsInItsFrame, Occupied, IsDue
  <2> QED
    BY <2>1, <2>2, <2>3, <2>4, <2>5, <2>6, <2>7, Steps
<1> QED
  BY <1>1, <1>2, TypeCorrect, PTL DEF Spec

(* A command runs in the first frame served that starts no earlier than    *)
(* its tag: a dispatch ends with nothing due, and only a suspended frame   *)
(* may make a command late.                                                *)
THEOREM RunsInItsFrameHolds == Spec => []RunsInItsFrame
<1>1. WaitingOK => RunsInItsFrame
  BY DEF WaitingOK
<1> QED
  BY <1>1, WaitingHolds, PTL

(* The passes of obc_cmd_queue_run: within a dispatch, what is still due is*)
(* never older than what that dispatch has already executed.               *)
THEOREM OrderHolds == Spec => []OrderOK
<1>1. Init => OrderOK
  BY DEF Init, OrderOK, OldestFirst
<1>2. TypeOK /\ OrderOK /\ [Next]_vars => OrderOK'
  <2> SUFFICES ASSUME TypeOK, OrderOK, [Next]_vars PROVE OrderOK'
    OBVIOUS
  <2>1. ASSUME NEW g \in GroundFrames, Accepts(g) PROVE OrderOK'
    BY <2>1 DEF Accepts, OrderOK, OldestFirst
  <2>2. CASE RunOldest
    <3>1. PICK i \in Occupied :
            /\ Oldest(i) /\ Occupied' = Occupied \ {i}
            /\ \A j \in Occupied' : queue'[j] = queue[j]
            /\ DOMAIN done' = 1 .. Len(done) + 1
            /\ \A k \in 1 .. Len(done) : done'[k] = done[k]
            /\ done'[Len(done) + 1] = [slot |-> queue[i], frame |-> frame,
                                       armed |-> armed_opcode]
      BY <2>2, RunSlot
    <3>2. pc = "run" /\ pc' = "run" /\ frame' = frame
      BY <2>2, RunKeeps
    <3>3. \A k \in DOMAIN done' :
            (k \in DOMAIN done /\ done'[k] = done[k]) \/ k = Len(done) + 1
      BY <3>1, FramesAreNumbers
    <3>4. \A j \in Slots : IsDue(j)' =>
            j \in Occupied /\ queue'[j] = queue[j] /\ IsDue(j)
      BY <3>1, <3>2 DEF IsDue, Occupied
    <3>5. \A j \in Slots : IsDue(j) => queue[i].when <= queue[j].when
      <4> SUFFICES ASSUME NEW j \in Slots, IsDue(j) PROVE queue[i].when <= queue[j].when
        OBVIOUS
      <4>1. j \in Occupied
        BY DEF IsDue, Occupied
      <4> QED
        BY <3>1, <4>1, FramesAreNumbers DEF Oldest
    <3>6. i \in Slots /\ IsDue(i)
      BY <3>1 DEF Oldest, Occupied
    <3>7. \A k \in DOMAIN done' : done'[k].frame <= frame'
      BY <3>1, <3>2, <3>3, FramesAreNumbers DEF OrderOK
    <3>8. \A k \in DOMAIN done' : \A j \in Slots :
            done'[k].frame = frame' /\ IsDue(j)' => done'[k].slot.when <= queue'[j].when
      BY <3>1, <3>2, <3>3, <3>4, <3>5 DEF OrderOK
    <3>9. OldestFirst'
      <4> SUFFICES ASSUME NEW j \in DOMAIN done', NEW k \in DOMAIN done', j < k,
                          done'[j].frame = done'[k].frame
                   PROVE  done'[j].slot.when <= done'[k].slot.when
        BY DEF OldestFirst
      <4>1. j \in DOMAIN done
        BY <3>1, FramesAreNumbers
      <4>2. CASE k \in DOMAIN done
        BY <3>1, <4>1, <4>2, FramesAreNumbers DEF OrderOK, OldestFirst
      <4>3. CASE k = Len(done) + 1
        <5>1. done[j].frame = frame /\ done'[j] = done[j]
          BY <3>1, <4>1, <4>3, FramesAreNumbers
        <5> QED
          BY <3>1, <3>2, <3>6, <4>1, <4>3, <5>1 DEF OrderOK
      <4> QED
        BY <3>3, <4>2, <4>3
    <3> QED
      BY <3>2, <3>7, <3>8, <3>9 DEF OrderOK
  <2>3. CASE SubsystemReset
    BY <2>3, ResetEmpties DEF OrderOK, OldestFirst
  <2>4. CASE NextFrame
    <3>1. pc' # "run" /\ frame' = frame + 1 /\ done' = done
      BY <2>4, FrameKeeps
    <3>2. \A k \in DOMAIN done : done[k].frame < frame'
      BY <3>1, FramesAreNumbers DEF OrderOK
    <3> QED
      BY <3>1, <3>2, FramesAreNumbers DEF OrderOK, OldestFirst
  <2>5. CASE PollEnds
    <3>1. pc = "poll" /\ pc' = "run" /\ frame' = frame /\ done' = done /\ queue' = queue
      BY <2>5, PollEndsKeeps
    <3> QED
      BY <3>1, FramesAreNumbers DEF OrderOK, OldestFirst
  <2>6. CASE RunEnds
    BY <2>6, RunEndsKeeps DEF OrderOK, OldestFirst
  <2>7. CASE UNCHANGED orders
    BY <2>7 DEF orders, OrderOK, OldestFirst, IsDue
  <2> QED
    BY <2>1, <2>2, <2>3, <2>4, <2>5, <2>6, <2>7, Steps
<1> QED
  BY <1>1, <1>2, TypeCorrect, PTL DEF Spec

(* Commands that run in one dispatch run in the order of their tags,       *)
(* whatever slots and whatever order they arrived in.                      *)
THEOREM OldestFirstHolds == Spec => []OldestFirst
<1>1. OrderOK => OldestFirst
  BY DEF OrderOK
<1> QED
  BY <1>1, OrderHolds, PTL

-----------------------------------------------------------------------------
(* The arming.                                                             *)

(* The history only grows, and so do the frames the task missed.           *)
Grows ==
  /\ Len(done) \in Nat /\ Len(done') \in Nat /\ Len(done) <= Len(done')
  /\ \A k \in 1 .. Len(done) : done'[k] = done[k]
  /\ skipped \subseteq skipped'

(* The arm a command was accepted under is in the past: nothing undoes it. *)
LEMMA ArmStays ==
  ASSUME Grows, NEW c, c.after \in Nat, c.after <= Len(done), ArmedWhenAccepted(c)
  PROVE  ArmedWhenAccepted(c)'
  BY DEF Grows, ArmedWhenAccepted

LEMMA AfterIsANumber ==
  ASSUME TypeOK
  PROVE  /\ \A i \in Occupied : queue[i] \in Entry /\ queue[i].after \in Nat
         /\ \A k \in DOMAIN done : done[k].slot \in Entry /\ done[k].slot.after \in Nat
         /\ DOMAIN done = 1 .. Len(done) /\ Len(done) \in Nat
<1>1. \A i \in Occupied : queue[i] \in Entry
  BY DEF TypeOK, Occupied
<1>2. \A k \in DOMAIN done : done[k].slot \in Entry
  <2>1. \A k \in DOMAIN done : done[k] \in Execution
    BY DEF TypeOK
  <2> QED
    BY <2>1 DEF Execution
<1> QED
  BY <1>1, <1>2 DEF TypeOK, Entry

(* What remains to show of a step that leaves the queue and the history    *)
(* alone: the arming in force.                                             *)
ArmingOK ==
  /\ armed_opcode # "none" => \E j \in 1 .. Len(done) : IsTheArm(j)
  /\ pc # "poll" /\ frame \notin skipped => armed_opcode = "none" \/ frame < armed_until

LEMMA OldCommandsStayArmed ==
  ASSUME TypeOK, ArmOK, ArmingOK', Occupied' \subseteq Occupied,
         \A i \in Occupied' : queue'[i] = queue[i],
         UNCHANGED done, skipped \subseteq skipped', Occupied' # {} => resets' = resets
  PROVE  ArmOK'
<1>1. Grows
  BY AfterIsANumber DEF Grows
<1>2. \A i \in Occupied' :
        /\ queue'[i].era = resets' /\ queue'[i].after <= Len(done')
        /\ queue'[i].call.op = "safe" => ArmedWhenAccepted(queue[i])'
  <2> SUFFICES ASSUME NEW i \in Occupied'
               PROVE  /\ queue'[i].era = resets' /\ queue'[i].after <= Len(done')
                      /\ queue'[i].call.op = "safe" => ArmedWhenAccepted(queue[i])'
    OBVIOUS
  <2>1. i \in Occupied /\ queue'[i] = queue[i] /\ resets' = resets
    OBVIOUS
  <2>2. queue'[i].call.op = "safe" => ArmedWhenAccepted(queue[i])
    BY <2>1 DEF ArmOK
  <2>3. queue[i].after \in Nat /\ queue[i].after <= Len(done)
    BY <2>1, AfterIsANumber DEF ArmOK
  <2>4. ArmedWhenAccepted(queue[i]) => ArmedWhenAccepted(queue[i])'
    BY <1>1, <2>1, <2>3, ArmStays DEF ArmedWhenAccepted
  <2> QED
    BY <2>1, <2>2, <2>3, <2>4 DEF ArmOK
<1>3. \A k \in DOMAIN done' : done'[k].slot.after <= Len(done')
  BY DEF ArmOK
<1>4. CriticalNeedsArm'
  <2> SUFFICES ASSUME NEW k \in DOMAIN done', done'[k].slot.call.op = "safe"
               PROVE  ArmedWhenAccepted(done[k].slot)'
    BY DEF CriticalNeedsArm
  <2>1. ArmedWhenAccepted(done[k].slot) /\ done[k].slot.after \in Nat
        /\ done[k].slot.after <= Len(done)
    BY AfterIsANumber DEF ArmOK, CriticalNeedsArm
  <2> QED
    BY <1>1, <2>1, ArmStays DEF ArmedWhenAccepted
<1> QED
  BY <1>2, <1>3, <1>4 DEF ArmOK, ArmingOK

(* A command accepted is accepted under the arm in force.                  *)
LEMMA AcceptedUnderArm ==
  ASSUME TypeOK, ArmOK, NEW g \in GroundFrames, Accepts(g), g.call.op = "safe"
  PROVE  ArmedWhenAccepted(Slot(g))
<1>1. armed_opcode = "safe"
  BY DEF Accepts, Refusal, Frames
<1>2. PICK j \in 1 .. Len(done) : IsTheArm(j)
  BY <1>1 DEF ArmOK
<1>3. Slot(g).after = Len(done) /\ Slot(g).at = frame /\ Slot(g).call.op = "safe"
      /\ Slot(g).era = resets
  BY DEF Slot
<1> QED
  BY <1>1, <1>2, <1>3 DEF ArmedWhenAccepted, IsTheArm

LEMMA AcceptKeepsArmOK ==
  ASSUME TypeOK, ArmOK, NEW g \in GroundFrames, Accepts(g)
  PROVE  ArmOK'
<1>1. PICK i \in Slots :
        /\ i \notin Occupied /\ Occupied' = Occupied \cup {i}
        /\ queue'[i] = Slot(g) /\ \A j \in Occupied : queue'[j] = queue[j]
  BY PutSlot
<1>2. UNCHANGED <<pc, frame, armed_opcode, armed_until, done, skipped, resets>>
  BY DEF Accepts
<1>3. ArmingOK'
  BY <1>2 DEF ArmOK, ArmingOK, IsTheArm
<1>4. ASSUME NEW j \in Occupied'
      PROVE  /\ queue'[j].era = resets' /\ queue'[j].after <= Len(done')
             /\ queue'[j].call.op = "safe" => ArmedWhenAccepted(queue[j])'
  <2>1. CASE j = i
    <3>1. queue'[j].era = resets' /\ queue'[j].after = Len(done)
      BY <1>1, <1>2, <2>1 DEF Slot
    <3>2. queue'[j].call.op = "safe" => ArmedWhenAccepted(Slot(g))
      BY <1>1, <2>1, AcceptedUnderArm DEF Slot
    <3> QED
      BY <1>1, <1>2, <2>1, <3>1, <3>2, AfterIsANumber DEF ArmedWhenAccepted
  <2>2. CASE j \in Occupied
    BY <1>1, <1>2, <2>2 DEF ArmOK, ArmedWhenAccepted
  <2> QED
    BY <1>1, <2>1, <2>2
<1> QED
  BY <1>2, <1>3, <1>4 DEF ArmOK, ArmingOK, CriticalNeedsArm, ArmedWhenAccepted

(* What runs was waiting; if it is an arm, it is the arm now in force.     *)
LEMMA RunKeepsArmOK ==
  ASSUME TypeOK, ArmOK, RunOldest
  PROVE  ArmOK'
<1> DEFINE last == Len(done) + 1
<1>1. PICK i \in Occupied :
        /\ Oldest(i) /\ Occupied' = Occupied \ {i}
        /\ \A j \in Occupied' : queue'[j] = queue[j]
        /\ queue[i] \in Entry
        /\ Len(done') = last /\ DOMAIN done' = 1 .. last
        /\ \A k \in 1 .. Len(done) : done'[k] = done[k]
        /\ done'[last] = [slot |-> queue[i], frame |-> frame, armed |-> armed_opcode]
        /\ IF queue[i].call.op = "arm"
           THEN armed_opcode' = queue[i].call.arg /\ armed_until' = frame + ArmFrames
           ELSE UNCHANGED <<armed_opcode, armed_until>>
  BY RunSlot
<1>2. pc = "run" /\ UNCHANGED <<pc, frame, skipped, resets>>
  BY RunKeeps
<1>3. Grows
  BY <1>1, <1>2, AfterIsANumber DEF Grows
<1>4. ArmingOK'
  <2>1. CASE queue[i].call.op = "arm"
    <3>1. armed_opcode' = queue[i].call.arg /\ armed_until' = frame + ArmFrames
      BY <1>1, <2>1
    <3>2. queue[i].call = [op |-> "arm", arg |-> armed_opcode']
      BY <1>1, <2>1, <3>1 DEF Entry, Calls
    <3>3. queue[i].era = resets
      BY <1>1 DEF ArmOK
    <3>4. last + 1 .. last = {} /\ armed_until' .. frame - 1 = {} /\ frame < armed_until'
      BY <3>1, FramesAreNumbers, CommandAssumption
    <3>5. last \in 1 .. Len(done') /\ Len(done') = last
      BY <1>1, AfterIsANumber
    <3> HIDE DEF last
    <3>6. ASSUME NEW j \in 1 .. Len(done'), j = last PROVE IsTheArm(j)'
      <4>1. done'[j] = [slot |-> queue[i], frame |-> frame, armed |-> armed_opcode]
        BY <1>1, <3>6
      <4>2. j + 1 .. Len(done') = {}
        BY <3>4, <3>5, <3>6
      <4>3. done'[j].slot = queue[i] /\ done'[j].frame = frame
        BY <4>1
      <4>4. done'[j].slot.call = [op |-> "arm", arg |-> armed_opcode']
        BY <3>2, <4>3, Zenon
      <4>5. done'[j].slot.era = resets'
        BY <1>2, <3>3, <4>3, Zenon
      <4>6. armed_until' = done'[j].frame + ArmFrames
        BY <3>1, <4>3, Zenon
      <4>7. \A f \in armed_until' .. frame' - 1 : f \in skipped'
        BY <1>2, <3>4
      <4> QED
        BY <4>2, <4>4, <4>5, <4>6, <4>7 DEF IsTheArm
    <3>7. \E j \in 1 .. Len(done') : IsTheArm(j)'
      BY <3>5, <3>6
    <3> QED
      BY <1>2, <3>4, <3>7 DEF ArmingOK
  <2>2. CASE queue[i].call.op # "arm"
    <3>1. UNCHANGED <<armed_opcode, armed_until>>
      BY <1>1, <2>2
    <3>2. ASSUME NEW j \in 1 .. Len(done), IsTheArm(j) PROVE IsTheArm(j)'
      <4>1. done'[j] = done[j]
        BY <1>1
      <4>2. \A m \in j + 1 .. last : m \in j + 1 .. Len(done) \/ m = last
        BY AfterIsANumber
      <4>3. \A m \in j + 1 .. last : done'[m].slot.call.op # "arm"
        BY <1>1, <2>2, <3>2, <4>2 DEF IsTheArm
      <4> QED
        BY <1>1, <1>2, <3>1, <3>2, <4>1, <4>3 DEF IsTheArm
    <3>3. 1 .. Len(done) \subseteq 1 .. Len(done')
      BY <1>1, AfterIsANumber
    <3>4. armed_opcode' # "none" => \E j \in 1 .. Len(done') : IsTheArm(j)'
      BY <3>1, <3>2, <3>3 DEF ArmOK
    <3> QED
      BY <1>2, <3>1, <3>4 DEF ArmOK, ArmingOK
  <2> QED
    BY <2>1, <2>2
<1>5. ASSUME NEW j \in Occupied'
      PROVE  /\ queue'[j].era = resets' /\ queue'[j].after <= Len(done')
             /\ queue'[j].call.op = "safe" => ArmedWhenAccepted(queue[j])'
  <2>1. j \in Occupied /\ queue'[j] = queue[j]
    BY <1>1
  <2>2. queue[j].after \in Nat /\ queue[j].after <= Len(done)
    BY <2>1, AfterIsANumber DEF ArmOK
  <2>3. ArmedWhenAccepted(queue[j]) => ArmedWhenAccepted(queue[j])'
    BY <1>3, <2>1, <2>2, ArmStays DEF ArmedWhenAccepted
  <2> QED
    BY <1>1, <1>2, <2>1, <2>2, <2>3, AfterIsANumber DEF ArmOK
<1>6. ASSUME NEW k \in DOMAIN done'
      PROVE  /\ done'[k].slot.after <= Len(done')
             /\ done'[k].slot.call.op = "safe" => ArmedWhenAccepted(done[k].slot)'
  <2>1. CASE k \in DOMAIN done
    <3>1. done'[k] = done[k] /\ done[k].slot.after \in Nat
          /\ done[k].slot.after <= Len(done)
      BY <1>1, <2>1, AfterIsANumber DEF ArmOK
    <3>2. ArmedWhenAccepted(done[k].slot) => ArmedWhenAccepted(done[k].slot)'
      BY <1>3, <3>1, ArmStays DEF ArmedWhenAccepted
    <3> QED
      BY <1>1, <2>1, <3>1, <3>2, AfterIsANumber DEF ArmOK, CriticalNeedsArm
  <2>2. CASE k = last
    <3>1. done'[k].slot = queue[i]
      BY <1>1, <2>2
    <3>2. queue[i].after \in Nat /\ queue[i].after <= Len(done)
      BY AfterIsANumber DEF ArmOK
    <3>3. ArmedWhenAccepted(queue[i]) => ArmedWhenAccepted(done[k].slot)'
      BY <1>3, <3>1, <3>2, ArmStays DEF ArmedWhenAccepted
    <3> QED
      BY <1>1, <3>1, <3>2, <3>3, AfterIsANumber DEF ArmOK
  <2> QED
    BY <1>1, <2>1, <2>2, AfterIsANumber
<1> QED
  BY <1>4, <1>5, <1>6 DEF ArmOK, ArmingOK, CriticalNeedsArm

(* The arming in force is the last arm executed, in this era of the queue, *)
(* and it outlives its frames only while the task is suspended.            *)
THEOREM ArmHolds == Spec => []ArmOK
<1>1. Init => ArmOK
  BY DEF Init, ArmOK, Occupied, CriticalNeedsArm
<1>2. TypeOK /\ ArmOK /\ [Next]_vars => ArmOK'
  <2> SUFFICES ASSUME TypeOK, ArmOK, [Next]_vars PROVE ArmOK'
    OBVIOUS
  <2>1. ASSUME NEW g \in GroundFrames, Accepts(g) PROVE ArmOK'
    BY <2>1, AcceptKeepsArmOK
  <2>2. CASE RunOldest
    BY <2>2, RunKeepsArmOK
  <2>3. CASE SubsystemReset
    <3>1. ArmingOK'
      BY <2>3, ResetEmpties DEF ArmingOK
    <3> QED
      BY <2>3, <3>1, ResetEmpties, OldCommandsStayArmed
  <2>4. CASE NextFrame
    <3>1. /\ pc = "idle" /\ frame' = frame + 1
          /\ \/ pc' = "poll" /\ skipped' = skipped
             \/ pc' = "idle" /\ skipped' = skipped \cup {frame + 1}
          /\ UNCHANGED <<queue, done, resets, armed_opcode, armed_until>>
      BY <2>4, FrameKeeps
    <3>2. armed_opcode # "none" => frame \in skipped \/ frame < armed_until
      BY <3>1 DEF ArmOK
    <3>3. ASSUME NEW j \in 1 .. Len(done), IsTheArm(j), armed_opcode # "none"
          PROVE  IsTheArm(j)'
      <4>1. \A f \in armed_until .. frame : f \in skipped
        <5> SUFFICES ASSUME NEW f \in armed_until .. frame PROVE f \in skipped
          OBVIOUS
        <5>1. CASE f = frame
          BY <3>2, <3>3, <5>1, FramesAreNumbers DEF TypeOK
        <5>2. CASE f # frame
          BY <3>3, <5>2, FramesAreNumbers DEF IsTheArm, TypeOK
        <5> QED
          BY <5>1, <5>2
      <4>2. frame' - 1 = frame /\ skipped \subseteq skipped'
        BY <3>1, FramesAreNumbers
      <4> QED
        BY <3>1, <3>3, <4>1, <4>2 DEF IsTheArm
    <3>4. ArmingOK'
      BY <3>1, <3>3 DEF ArmOK, ArmingOK
    <3>5. Occupied' = Occupied /\ skipped \subseteq skipped'
      BY <3>1 DEF Occupied
    <3> QED
      BY <3>1, <3>4, <3>5, OldCommandsStayArmed
  <2>5. CASE PollEnds
    <3>1. /\ pc = "poll" /\ pc' = "run" /\ ArmingExpires
          /\ UNCHANGED <<frame, queue, done, skipped, resets>>
      BY <2>5, PollEndsKeeps
    <3>2. /\ armed_until' = armed_until
          /\ armed_opcode' = IF frame >= armed_until THEN "none" ELSE armed_opcode
      BY <3>1 DEF ArmingExpires
    <3>3. armed_opcode' # "none" => armed_opcode' = armed_opcode /\ frame < armed_until
      BY <3>2, FramesAreNumbers DEF TypeOK
    <3>4. ArmingOK'
      BY <3>1, <3>2, <3>3 DEF ArmOK, ArmingOK, IsTheArm
    <3> QED
      BY <3>1, <3>4, OldCommandsStayArmed DEF Occupied
  <2>6. CASE RunEnds
    <3>1. /\ pc = "run" /\ pc' = "idle"
          /\ UNCHANGED <<frame, queue, done, skipped, resets, armed_opcode, armed_until>>
      BY <2>6, RunEndsKeeps
    <3>2. ArmingOK'
      BY <3>1 DEF ArmOK, ArmingOK, IsTheArm
    <3> QED
      BY <3>1, <3>2, OldCommandsStayArmed DEF Occupied
  <2>7. CASE UNCHANGED orders
    <3>1. ArmingOK'
      BY <2>7 DEF orders, ArmOK, ArmingOK, IsTheArm
    <3> QED
      BY <2>7, <3>1, OldCommandsStayArmed DEF orders, Occupied
  <2> QED
    BY <2>1, <2>2, <2>3, <2>4, <2>5, <2>6, <2>7, Steps
<1> QED
  BY <1>1, <1>2, TypeCorrect, PTL DEF Spec

(* No critical command runs that was not accepted under an arm that named  *)
(* it, in the same era of the queue and within ArmFrames frames, unless    *)
(* the task was suspended from the end of the arm on.                      *)
THEOREM CriticalNeedsArmHolds == Spec => []CriticalNeedsArm
<1>1. ArmOK => CriticalNeedsArm
  BY DEF ArmOK
<1> QED
  BY <1>1, ArmHolds, PTL

-----------------------------------------------------------------------------
(* The ledger.                                                             *)

Pending == {Order(queue[i]) : i \in Occupied}
Ran == [k \in DOMAIN done |-> Order(done[k].slot)]

(* The orders that wait are the occupied slots, one for one, because no    *)
(* two commands have the same counter.                                     *)
LEMMA PendingIsCounted ==
  ASSUME TypeOK, CountersOK
  PROVE  IsFiniteSet(Pending) /\ Cardinality(Pending) = queued
<1> DEFINE f == [i \in Occupied |-> Order(queue[i])]
<1>1. f \in Bijection(Occupied, Pending)
  <2>1. \A i, j \in Occupied : Order(queue[i]) = Order(queue[j]) => i = j
    BY DEF CountersOK, Order
  <2>2. f \in [Occupied -> Pending]
    BY DEF Pending
  <2>3. f \in Injection(Occupied, Pending)
    BY <2>1, <2>2 DEF Injection, IsInjective
  <2>4. f \in Surjection(Occupied, Pending)
    BY <2>2 DEF Surjection, Pending
  <2> QED
    BY <2>3, <2>4 DEF Bijection
<1>2. ExistsBijection(Occupied, Pending)
  BY <1>1 DEF ExistsBijection
<1> QED
  BY <1>2, OccupiedIsFinite, FS_Bijection DEF TypeOK, Occupied

(* While a slot is vacant there is room in the ledger.                     *)
LEMMA VacantIsRoom ==
  ASSUME TypeOK, CountersOK, NEW i \in Slots, i \notin Occupied
  PROVE  Cardinality(Pending) < QueueLen
<1>1. Occupied \subseteq Slots /\ Occupied # Slots
  BY DEF Occupied
<1>2. Cardinality(Occupied) < Cardinality(Slots)
  BY <1>1, SlotsAreFinite, FS_Subset, FS_CardinalityType
<1> QED
  BY <1>2, SlotsAreFinite, PendingIsCounted DEF TypeOK, Occupied

(* The ledger counts as this module does.                                  *)
LEMMA LedgerCounts ==
  ASSUME NEW S
  PROVE  Ledger!Cardinality(S) = Cardinality(S)
  BY DEF Ledger!Cardinality, Cardinality

LEMMA AcceptEnters ==
  ASSUME TypeOK, CountersOK, WaitingOK, NEW g \in GroundFrames, Accepts(g)
  PROVE  \E o \in {Order(h) : h \in GroundFrames} : Ledger!Enter(o)
<1>1. PICK i \in Slots :
        /\ i \notin Occupied /\ Occupied' = Occupied \cup {i}
        /\ queue'[i] = Slot(g) /\ \A j \in Occupied : queue'[j] = queue[j]
  BY PutSlot
<1>2. frame \notin skipped
  BY DEF Accepts, WaitingOK
<1>3. Order(g).counter > last_counter
  BY CommandAssumption DEF Accepts, Refusal, IsReplay, Frames, TypeOK, Order
<1>4. Cardinality(Pending) < QueueLen
  BY <1>1, VacantIsRoom
<1>5. Pending' = Pending \cup {Order(g)}
  <2>1. Order(queue[i])' = Order(g)
    BY <1>1 DEF Order, Slot
  <2>2. \A j \in Occupied : Order(queue[j])' = Order(queue[j])
    BY <1>1 DEF Order
  <2> QED
    BY <1>1, <2>1, <2>2 DEF Pending
<1>6. last_counter' = Order(g).counter
  BY DEF Accepts, Order
<1>7. UNCHANGED <<done, emptied, frame, skipped>>
  BY DEF Accepts
<1>8. UNCHANGED <<Ran, Now(frame), frame \notin skipped>>
  BY <1>7 DEF Ran, Now, Order
<1>9. ASSUME NEW o \in {Order(h) : h \in GroundFrames}, o = Order(g) PROVE Ledger!Enter(o)
  <2>1. frame \notin skipped /\ o.counter > last_counter /\ last_counter' = o.counter
    BY <1>2, <1>3, <1>6, <1>9
  <2>2. Cardinality(Pending) < QueueLen /\ Pending' = Pending \cup {o}
    BY <1>4, <1>5, <1>9
  <2> QED
    BY <1>7, <1>8, <2>1, <2>2, LedgerCounts DEF Ledger!Enter, Pending, Ran, Occupied
<1> QED
  BY <1>9

LEMMA RunExecutes ==
  ASSUME TypeOK, CountersOK, WaitingOK, RunOldest
  PROVE  \E o \in Pending : Ledger!Execute(o)
<1>1. PICK i \in Occupied :
        /\ Oldest(i) /\ Occupied' = Occupied \ {i}
        /\ \A j \in Occupied' : queue'[j] = queue[j]
        /\ queue[i] \in Entry
        /\ DOMAIN done' = 1 .. Len(done) + 1
        /\ \A k \in 1 .. Len(done) : done'[k] = done[k]
        /\ done'[Len(done) + 1] = [slot |-> queue[i], frame |-> frame,
                                   armed |-> armed_opcode]
  BY RunSlot
<1>2. pc = "run" /\ UNCHANGED <<pc, last_counter, frame, skipped, emptied>>
  BY RunKeeps
<1> DEFINE o == Order(queue[i])
<1>3. o \in Pending
  BY DEF Pending
<1>4. frame \notin skipped
  BY <1>2 DEF WaitingOK
<1>5. o.when = queue[i].when /\ o.when <= Now(frame)
  BY <1>1 DEF Oldest, IsDue, Order
<1>6. \A p \in Pending : o.when <= p.when
  <2> SUFFICES ASSUME NEW j \in Occupied PROVE queue[i].when <= queue[j].when
    BY <1>5 DEF Pending, Order
  <2>1. CASE IsDue(j)
    BY <1>1, <2>1, FramesAreNumbers DEF Oldest, Occupied
  <2>2. CASE ~IsDue(j)
    BY <1>5, <2>2, FramesAreNumbers DEF IsDue, Occupied
  <2> QED
    BY <2>1, <2>2
<1>7. Pending' = Pending \ {o}
  <2>1. \A j \in Occupied : Order(queue[j]) = o => j = i
    BY DEF CountersOK, Order
  <2>2. \A j \in Occupied' : Order(queue[j])' = Order(queue[j])
    BY <1>1 DEF Order
  <2> QED
    BY <1>1, <2>1, <2>2 DEF Pending
<1>8. Ran' = Append(Ran, o)
  <2>1. DOMAIN done = 1 .. Len(done) /\ Len(done) \in Nat
    BY DEF TypeOK
  <2>2. Ran' = [k \in 1 .. Len(done) + 1 |->
                 IF k <= Len(done) THEN Order(done[k].slot) ELSE o]
    <3>1. \A k \in 1 .. Len(done) + 1 :
            Order(done'[k].slot) = IF k <= Len(done) THEN Order(done[k].slot) ELSE o
      BY <1>1, <2>1
    <3> QED
      BY <1>1, <3>1 DEF Ran, Order
  <2>3. Ran = [k \in 1 .. Len(done) |-> Order(done[k].slot)]
    BY <2>1 DEF Ran
  <2> HIDE DEF o
  <2> QED
    BY <2>1, <2>2, <2>3
<1>9. ASSUME NEW p \in Pending, p = o PROVE Ledger!Execute(p)
  BY <1>2, <1>4, <1>5, <1>6, <1>7, <1>8, <1>9
  DEF Ledger!Execute, Ledger!IsDue, Pending, Ran, Occupied, Now
<1> QED
  BY <1>3, <1>9

LEMMA ResetDrops ==
  ASSUME TypeOK, CountersOK, SubsystemReset
  PROVE  Ledger!Drop
<1>1. Pending' = {}
  BY ResetEmpties DEF Pending
<1>2. emptied' = emptied + Cardinality(Pending)
  BY PendingIsCounted DEF SubsystemReset
<1>3. UNCHANGED <<Ran, last_counter, Now(frame), frame \notin skipped>>
  BY ResetEmpties DEF Ran, Order, Now
<1> QED
  BY <1>1, <1>2, <1>3, LedgerCounts DEF Ledger!Drop, Pending, Ran, Occupied

LEMMA FramePasses ==
  ASSUME TypeOK, WaitingOK, NextFrame
  PROVE  Ledger!NextFrame
<1>1. /\ pc = "idle" /\ frame' = frame + 1
      /\ UNCHANGED <<queue, done, last_counter, emptied>>
  BY FrameKeeps
<1>2. frame \notin skipped => \A p \in Pending : ~(p.when <= Now(frame))
  <2> SUFFICES ASSUME frame \notin skipped, NEW i \in Occupied
               PROVE  ~(queue[i].when <= Now(frame))
    BY DEF Pending, Order
  <2> QED
    BY <1>1 DEF WaitingOK, RunsInItsFrame, IsDue, Occupied
<1>3. Now(frame)' = Now(frame) + FrameTicks
  BY <1>1, FramesAreNumbers DEF Now
<1>4. UNCHANGED <<Pending, Ran>>
  BY <1>1 DEF Pending, Ran, Occupied, Order
<1>5. (frame \notin skipped)' \in BOOLEAN
  OBVIOUS
<1> QED
  BY <1>1, <1>2, <1>3, <1>4, <1>5
  DEF Ledger!NextFrame, Ledger!IsDue, Pending, Ran, Occupied

(* The parser, the slots, the passes of obc_cmd_queue_run, the arming and  *)
(* rung 2 together keep the ledger: what the ground had accepted is        *)
(* executed once, in its turn and its frame, or dropped and counted.       *)
THEOREM CommandImplementsLedger == Spec => ImplementsLedger
<1>1. Init => Ledger!Init
  <2> SUFFICES ASSUME Init PROVE Ledger!Init
    OBVIOUS
  <2>1. Pending = {}
    BY DEF Init, Pending, Occupied
  <2>2. Ran = <<>>
    BY DEF Init, Ran
  <2>3. Now(frame) = 0
    BY CommandAssumption DEF Init, Now
  <2>4. (frame \notin skipped) = TRUE
    BY DEF Init
  <2> QED
    BY <2>1, <2>2, <2>3, <2>4 DEF Init, Ledger!Init, Pending, Ran, Occupied
<1>2. TypeOK /\ CountersOK /\ WaitingOK /\ [Next]_vars => [Ledger!Next]_(Ledger!ledger)
  <2> SUFFICES ASSUME TypeOK, CountersOK, WaitingOK, [Next]_vars
               PROVE  Ledger!Next \/ UNCHANGED Ledger!ledger
    OBVIOUS
  <2>1. CASE \E g \in GroundFrames : Accepts(g)
    BY <2>1, AcceptEnters DEF Ledger!Next
  <2>2. CASE RunOldest
    BY <2>2, RunExecutes DEF Ledger!Next, Pending, Occupied
  <2>3. CASE SubsystemReset
    BY <2>3, ResetDrops DEF Ledger!Next
  <2>4. CASE NextFrame
    BY <2>4, FramePasses DEF Ledger!Next
  <2>5. ASSUME UNCHANGED <<queue, done, emptied, last_counter, frame, skipped>>
        PROVE  UNCHANGED Ledger!ledger
    BY <2>5 DEF Ledger!ledger, Order, Now
  <2> QED
    BY <2>1, <2>2, <2>3, <2>4, <2>5, Steps, PollEndsKeeps, RunEndsKeeps DEF orders
<1> QED
  BY <1>1, <1>2, TypeCorrect, CountersHold, WaitingHolds, PTL
  DEF Spec, ImplementsLedger, Ledger!Spec

-----------------------------------------------------------------------------
(* The line.                                                               *)

(* The bytes not examined yet: held by the parser, in the receive FIFO,    *)
(* and still to come of the frame being sent.                              *)
Waiting == Len(rx) + Len(fifo) + Len(sending)
Stream ==
  [k \in 1 .. Waiting |->
     IF k <= Len(rx) THEN rx[k]
     ELSE IF k <= Len(rx) + Len(fifo) THEN fifo[k - Len(rx)]
     ELSE sending[k - Len(rx) - Len(fifo)]]

(* n bytes that are whole frames, one after the other.                     *)
Aligned(s, n) ==
  /\ n > 0 => s[1].part = 1 /\ s[n].part = FrameLen
  /\ \A j, k \in 1 .. n :
       s[j].part = 1 /\ j <= k /\ k < j + FrameLen
         => s[k] = [of |-> s[j].of, part |-> k - j + 1]
  /\ \A k \in 1 .. n - 1 : s[k].part = FrameLen => s[k + 1].part = 1

LineOK == clean => Aligned(Stream, Waiting)

LEMMA SameBytesSameAlignment ==
  ASSUME NEW n \in Nat, NEW s, NEW t, Aligned(s, n), \A k \in 1 .. n : t[k] = s[k]
  PROVE  Aligned(t, n)
  BY DEF Aligned

(* One frame more, behind whole frames.                                    *)
LEMMA FrameAppended ==
  ASSUME NEW n \in Nat, NEW s, NEW t, NEW g, Aligned(s, n),
         \A k \in 1 .. n : t[k] = s[k],
         \A k \in 1 .. FrameLen : t[n + k] = [of |-> g, part |-> k]
  PROVE  Aligned(t, n + FrameLen)
<1> DEFINE m == n + FrameLen
<1>1. FrameLen \in Nat /\ FrameLen >= 2
  BY CommandAssumption
<1>2. \A k \in 1 .. m : k \in 1 .. n \/ k - n \in 1 .. FrameLen
  BY <1>1
<1>3. \A k \in n + 1 .. m :
        t[k] = [of |-> g, part |-> k - n] /\ t[k].of = g /\ t[k].part = k - n
  <2> SUFFICES ASSUME NEW k \in n + 1 .. m PROVE t[k] = [of |-> g, part |-> k - n]
    OBVIOUS
  <2>1. k - n \in 1 .. FrameLen /\ n + (k - n) = k
    BY <1>1
  <2>2. t[n + (k - n)] = [of |-> g, part |-> k - n]
    BY <2>1
  <2> QED
    BY <2>1, <2>2
<1>4. m \in Nat /\ n < m /\ m - n = FrameLen /\ n + 1 \in n + 1 .. m /\ m \in n + 1 .. m
  BY <1>1
<1> HIDE DEF m
<1>5. t[1].part = 1 /\ t[m].part = FrameLen
  <2>1. t[m].part = FrameLen
    BY <1>3, <1>4
  <2>2. CASE n = 0
    <3>1. t[n + 1].part = (n + 1) - n
      BY <1>3, <1>4
    <3> QED
      BY <2>1, <2>2, <3>1
  <2>3. CASE n > 0
    BY <2>1, <2>3 DEF Aligned
  <2> QED
    BY <2>1, <2>2, <2>3
<1>6. ASSUME NEW j \in 1 .. m, NEW k \in 1 .. m, t[j].part = 1, j <= k, k < j + FrameLen
      PROVE  t[k] = [of |-> t[j].of, part |-> k - j + 1]
  <2>1. CASE j \in 1 .. n
    <3>1. s[j].part = 1
      BY <1>6, <2>1
    <3>2. j + FrameLen - 1 <= n
      <4> SUFFICES ASSUME n < j + FrameLen - 1 PROVE FALSE
        BY <1>1, <2>1
      <4>1. s[n] = [of |-> s[j].of, part |-> n - j + 1]
        BY <1>1, <2>1, <3>1 DEF Aligned
      <4>2. s[n].part = FrameLen
        BY <2>1 DEF Aligned
      <4> QED
        BY <1>1, <2>1, <4>1, <4>2
    <3>3. k \in 1 .. n
      BY <1>1, <1>6, <2>1, <3>2
    <3> QED
      BY <1>6, <2>1, <3>1, <3>3 DEF Aligned
  <2>2. CASE j \in n + 1 .. m
    <3>1. j = n + 1
      <4>1. t[j].part = j - n
        BY <1>3, <2>2
      <4> QED
        BY <1>6, <1>4, <2>2, <4>1
    <3>2. k \in n + 1 .. m /\ k - n = k - j + 1
      BY <1>1, <1>6, <1>4, <3>1
    <3>3. t[k] = [of |-> g, part |-> k - n] /\ t[j].of = g
      BY <1>3, <2>2, <3>2
    <3> QED
      BY <3>2, <3>3
  <2> QED
    BY <1>1, <2>1, <2>2
<1>7. ASSUME NEW k \in 1 .. m - 1, t[k].part = FrameLen
      PROVE  t[k + 1].part = 1
  <2>1. CASE k \in 1 .. n - 1
    BY <1>7, <2>1 DEF Aligned
  <2>2. CASE k = n
    <3>1. t[n + 1].part = (n + 1) - n
      BY <1>3, <1>4
    <3> QED
      BY <2>2, <3>1
  <2>3. CASE k \in n + 1 .. m - 1
    <3>1. k \in n + 1 .. m /\ k < m
      BY <1>4, <2>3
    <3>2. t[k].part = k - n
      BY <1>3, <3>1
    <3> QED
      BY <1>1, <1>7, <1>4, <3>1, <3>2
  <2> QED
    BY <1>1, <1>4, <2>1, <2>2, <2>3
<1> QED
  BY <1>5, <1>6, <1>7 DEF Aligned, m

(* The first frame examined, and whole frames behind it.                   *)
LEMMA FrameExamined ==
  ASSUME NEW n \in Nat, NEW s, NEW t, Aligned(s, n), FrameLen <= n,
         \A k \in 1 .. n - FrameLen : t[k] = s[k + FrameLen]
  PROVE  /\ Aligned(t, n - FrameLen)
         /\ \A k \in 1 .. FrameLen : s[k] = [of |-> s[1].of, part |-> k]
<1>1. FrameLen \in Nat /\ FrameLen >= 2
  BY CommandAssumption
<1>2. \A k \in 1 .. FrameLen : s[k] = [of |-> s[1].of, part |-> k]
  BY <1>1 DEF Aligned
<1>3. s[FrameLen].part = FrameLen
  <2>1. s[FrameLen] = [of |-> s[1].of, part |-> FrameLen]
    BY <1>1, <1>2
  <2> QED
    BY <2>1
<1>4. n - FrameLen > 0 => t[1].part = 1 /\ t[n - FrameLen].part = FrameLen
  BY <1>1, <1>3 DEF Aligned
<1>5. ASSUME NEW j \in 1 .. n - FrameLen, NEW k \in 1 .. n - FrameLen,
             t[j].part = 1, j <= k, k < j + FrameLen
      PROVE  t[k] = [of |-> t[j].of, part |-> k - j + 1]
  <2>1. /\ j + FrameLen \in 1 .. n /\ k + FrameLen \in 1 .. n
        /\ (k + FrameLen) - (j + FrameLen) + 1 = k - j + 1
        /\ j + FrameLen <= k + FrameLen /\ k + FrameLen < (j + FrameLen) + FrameLen
    BY <1>1, <1>5
  <2>2. t[j] = s[j + FrameLen] /\ t[k] = s[k + FrameLen]
    OBVIOUS
  <2> QED
    BY <1>5, <2>1, <2>2 DEF Aligned
<1>6. ASSUME NEW k \in 1 .. n - FrameLen - 1, t[k].part = FrameLen
      PROVE  t[k + 1].part = 1
  <2>1. /\ k \in 1 .. n - FrameLen /\ k + 1 \in 1 .. n - FrameLen
        /\ k + FrameLen \in 1 .. n - 1 /\ (k + 1) + FrameLen = (k + FrameLen) + 1
    BY <1>1
  <2> QED
    BY <1>6, <2>1 DEF Aligned
<1> QED
  BY <1>2, <1>4, <1>5, <1>6 DEF Aligned

(* The parser's next byte, and what is left of the stream.                 *)
LEMMA NextByte ==
  ASSUME TypeOK, fifo # <<>>, fifo' = Tail(fifo)
  PROVE  LET w == Append(rx, Head(fifo)) IN
         /\ Len(w) = Len(rx) + 1 /\ w[Len(rx) + 1] = fifo[1]
         /\ \A k \in 1 .. Len(rx) : w[k] = rx[k]
         /\ Len(fifo) > 0 /\ Len(fifo') = Len(fifo) - 1
         /\ \A k \in 1 .. Len(fifo) - 1 : fifo'[k] = fifo[k + 1]
  BY DEF TypeOK

LEMMA LineTypes ==
  ASSUME TypeOK
  PROVE  /\ Len(rx) \in Nat /\ Len(fifo) \in Nat /\ Len(sending) \in Nat
         /\ Waiting \in Nat
  BY DEF TypeOK, Waiting

(* A byte that moves along the line stays where it is in the stream.       *)
LEMMA SameStream ==
  ASSUME TypeOK, LineOK, clean' => clean, Waiting' = Waiting,
         \A k \in 1 .. Waiting : Stream'[k] = Stream[k]
  PROVE  LineOK'
<1> HIDE DEF Stream, Waiting
<1> QED
  BY LineTypes, SameBytesSameAlignment DEF LineOK

(* The frame examined leaves the stream, and the rest moves to its front.  *)
LEMMA StreamShifts ==
  ASSUME TypeOK, fifo # <<>>, fifo' = Tail(fifo), rx' = <<>>, sending' = sending,
         Len(rx) + 1 = FrameLen
  PROVE  /\ Waiting' = Waiting - FrameLen /\ FrameLen <= Waiting
         /\ \A k \in 1 .. Waiting - FrameLen : Stream'[k] = Stream[k + FrameLen]
<1>1. /\ Len(fifo) > 0 /\ Len(fifo') = Len(fifo) - 1 /\ Len(rx') = 0
      /\ \A k \in 1 .. Len(fifo) - 1 : fifo'[k] = fifo[k + 1]
  BY NextByte
<1>2. Waiting' = Waiting - FrameLen /\ FrameLen <= Waiting
  BY <1>1, LineTypes, CommandAssumption DEF Waiting
<1>3. ASSUME NEW k \in 1 .. Waiting - FrameLen PROVE Stream'[k] = Stream[k + FrameLen]
  <2>1. k \in Int /\ k \in 1 .. Waiting' /\ k + FrameLen \in 1 .. Waiting
    BY <1>2, LineTypes, CommandAssumption
  <2>2. CASE k <= Len(fifo) - 1
    <3>1. Stream'[k] = fifo'[k]
      BY <1>1, <2>1, <2>2, LineTypes DEF Stream
    <3>2. Stream[k + FrameLen] = fifo[k + 1]
      BY <2>1, <2>2, LineTypes, CommandAssumption DEF Stream
    <3> QED
      BY <1>1, <2>1, <2>2, <3>1, <3>2
  <2>3. CASE ~(k <= Len(fifo) - 1)
    <3>1. Stream'[k] = sending'[k + 1 - Len(fifo)]
      <4>1. k - Len(rx') - Len(fifo') = k + 1 - Len(fifo)
        BY <1>1, <2>1, LineTypes
      <4> QED
        BY <1>1, <2>1, <2>3, <4>1, LineTypes DEF Stream
    <3>2. Stream[k + FrameLen] = sending[k + 1 - Len(fifo)]
      <4>1. /\ ~(k + FrameLen <= Len(rx)) /\ ~(k + FrameLen <= Len(rx) + Len(fifo))
            /\ k + FrameLen - Len(rx) - Len(fifo) = k + 1 - Len(fifo)
        BY <2>1, <2>3, LineTypes, CommandAssumption
      <4> HIDE DEF Waiting
      <4> QED
        BY <2>1, <4>1, LineTypes, CommandAssumption DEF Stream
    <3> QED
      BY <3>1, <3>2
  <2> QED
    BY <2>2, <2>3
<1> QED
  BY <1>2, <1>3

(* After a silence between two frames, the partial frame of obc_cmd_poll,  *)
(* the port's bytes and those being sent are whole frames, end to end.     *)
THEOREM LineHolds == Spec => []LineOK
<1>1. Init => LineOK
  BY DEF Init, LineOK, Aligned, Waiting
<1>2. TypeOK /\ TypeOK' /\ LineOK /\ [Next]_vars => LineOK'
  <2> SUFFICES ASSUME TypeOK, TypeOK', LineOK, [Next]_vars PROVE LineOK'
    OBVIOUS
  <2>1. ASSUME NEW g \in GroundFrames, Send(g) PROVE LineOK'
    <3>1. sending = <<>> /\ sending' = Bytes(g) /\ UNCHANGED <<clean, rx, fifo>>
      BY <2>1 DEF Send
    <3>2. Len(Bytes(g)) = FrameLen /\ Len(sending) = 0
      BY <3>1, CommandAssumption DEF Bytes
    <3>3. Waiting' = Waiting + FrameLen /\ Waiting = Len(rx) + Len(fifo)
      BY <3>1, <3>2, LineTypes, CommandAssumption DEF Waiting
    <3>4. \A k \in 1 .. Waiting : Stream'[k] = Stream[k]
      BY <3>1, <3>3, LineTypes, CommandAssumption DEF Stream
    <3>5. \A k \in 1 .. FrameLen : Stream'[Waiting + k] = [of |-> g, part |-> k]
      <4> SUFFICES ASSUME NEW k \in 1 .. FrameLen
                   PROVE  Stream'[Waiting + k] = [of |-> g, part |-> k]
        OBVIOUS
      <4>1. /\ Waiting + k \in 1 .. Waiting' /\ ~(Waiting + k <= Len(rx))
            /\ ~(Waiting + k <= Len(rx) + Len(fifo))
            /\ Waiting + k - Len(rx) - Len(fifo) = k
        BY <3>3, LineTypes, CommandAssumption
      <4>2. Stream'[Waiting + k] = sending'[Waiting + k - Len(rx) - Len(fifo)]
        <5>1. Stream' = [i \in 1 .. Waiting' |->
                          IF i <= Len(rx) THEN rx[i]
                          ELSE IF i <= Len(rx) + Len(fifo) THEN fifo[i - Len(rx)]
                          ELSE sending'[i - Len(rx) - Len(fifo)]]
          BY <3>1 DEF Stream
        <5>2. Waiting \in Nat /\ Len(rx) \in Nat /\ Len(fifo) \in Nat /\ k \in Nat
          BY LineTypes, CommandAssumption
        <5> HIDE DEF Stream, Waiting
        <5> QED
          BY <4>1, <5>1, <5>2
      <4> QED
        BY <3>1, <4>1, <4>2 DEF Bytes
    <3> QED
      BY <3>1, <3>3, <3>4, <3>5, LineTypes, FrameAppended DEF LineOK
  <2>2. CASE Arrive
    <3>1. /\ sending # <<>> /\ fifo' = Append(fifo, Head(sending)) /\ sending' = Tail(sending)
          /\ UNCHANGED <<clean, rx>>
      BY <2>2 DEF Arrive
    <3>2. /\ Len(fifo') = Len(fifo) + 1 /\ Len(sending') = Len(sending) - 1
          /\ Len(sending) > 0
          /\ \A k \in 1 .. Len(fifo) : fifo'[k] = fifo[k]
          /\ fifo'[Len(fifo) + 1] = sending[1]
          /\ \A k \in 1 .. Len(sending) - 1 : sending'[k] = sending[k + 1]
      <4>1. sending \in Seq(Byte) /\ fifo \in Seq(Byte)
        BY DEF TypeOK
      <4>2. Len(sending) > 0 /\ Head(sending) = sending[1]
        BY <3>1, <4>1
      <4>3. /\ Len(sending') = Len(sending) - 1
            /\ \A k \in 1 .. Len(sending) - 1 : sending'[k] = sending[k + 1]
        BY <3>1, <4>1, <4>2
      <4>4. /\ Len(fifo') = Len(fifo) + 1 /\ fifo'[Len(fifo) + 1] = Head(sending)
            /\ \A k \in 1 .. Len(fifo) : fifo'[k] = fifo[k]
        BY <3>1, <4>1
      <4> QED
        BY <4>2, <4>3, <4>4
    <3>3. Waiting' = Waiting
      BY <3>1, <3>2, LineTypes DEF Waiting
    <3>4. \A k \in 1 .. Waiting : Stream'[k] = Stream[k]
      BY <3>1, <3>2, <3>3, LineTypes DEF Stream, Waiting
    <3> QED
      BY <3>1, <3>3, <3>4, SameStream
  <2>3. CASE Lose
    BY <2>3 DEF Lose, LineOK
  <2>4. CASE Take
    <3> DEFINE w == Append(rx, Head(fifo))
    <3>1. fifo # <<>> /\ fifo' = Tail(fifo) /\ UNCHANGED <<sending, clean>>
      BY <2>4 DEF Take
    <3>2. /\ Len(w) = Len(rx) + 1 /\ w[Len(rx) + 1] = fifo[1]
          /\ \A k \in 1 .. Len(rx) : w[k] = rx[k]
          /\ Len(fifo) > 0 /\ Len(fifo') = Len(fifo) - 1
          /\ \A k \in 1 .. Len(fifo) - 1 : fifo'[k] = fifo[k + 1]
      BY <3>1, NextByte
    <3>3. CASE Len(w) # FrameLen
      <4>1. rx' = w
        BY <2>4, <3>3 DEF Take
      <4> HIDE DEF w
      <4>2. Waiting' = Waiting
        BY <3>1, <3>2, <4>1, LineTypes DEF Waiting
      <4>3. \A k \in 1 .. Waiting : Stream'[k] = Stream[k]
        BY <3>1, <3>2, <4>1, <4>2, LineTypes DEF Stream, Waiting
      <4> QED
        BY <3>1, <4>2, <4>3, SameStream
    <3>4. CASE Len(w) = FrameLen
      <4>1. rx' = <<>> /\ Len(rx) + 1 = FrameLen
        BY <2>4, <3>2, <3>4 DEF Take
      <4>2. /\ Waiting' = Waiting - FrameLen /\ FrameLen <= Waiting
            /\ \A k \in 1 .. Waiting - FrameLen : Stream'[k] = Stream[k + FrameLen]
        BY <3>1, <4>1, StreamShifts
      <4> QED
        BY <3>1, <4>2, LineTypes, FrameExamined DEF LineOK
    <3> QED
      BY <3>3, <3>4
  <2>5. CASE PollEnds
    <3>1. CASE taken = 0
      <4>1. rx' = <<>> /\ fifo' = <<>> /\ sending' = sending
        BY <2>5, <3>1, CommandAssumption DEF PollEnds, Truncated
      <4>2. CASE sending = <<>>
        BY <4>1, <4>2 DEF LineOK, Aligned, Waiting
      <4>3. ASSUME NEW g \in GroundFrames, sending = Bytes(g) PROVE LineOK'
        <5>1. Waiting' = 0 + FrameLen
          BY <4>1, <4>3, CommandAssumption DEF Waiting, Bytes
        <5>2. \A k \in 1 .. FrameLen : Stream'[0 + k] = [of |-> g, part |-> k]
          BY <4>1, <4>3, <5>1, CommandAssumption DEF Stream, Bytes
        <5>3. Aligned(Stream', 0) /\ \A k \in 1 .. 0 : Stream'[k] = Stream'[k]
          BY DEF Aligned
        <5> QED
          BY <5>1, <5>2, <5>3, FrameAppended DEF LineOK
      <4>4. CASE sending \notin BetweenFrames
        BY <2>5, <3>1, <4>4 DEF PollEnds, LineOK
      <4> QED
        BY <4>2, <4>3, <4>4 DEF BetweenFrames
    <3>2. CASE taken # 0
      <4>1. UNCHANGED <<rx, fifo, sending, clean>>
        BY <2>5, <3>2 DEF PollEnds, Truncated
      <4> QED
        BY <4>1 DEF LineOK, Stream, Waiting
    <3> QED
      BY <3>1, <3>2
  <2>6. CASE UNCHANGED <<rx, fifo, sending, clean>>
    BY <2>6 DEF LineOK, Stream, Waiting
  <2> QED
    BY <2>1, <2>2, <2>3, <2>4, <2>5, <2>6
    DEF Next, Line, Task, WindowOver, RunOldest, RunEnds, SubsystemReset, NextFrame, vars,
        lineVars
<1> QED
  BY <1>1, <1>2, TypeCorrect, PTL DEF Spec

(* Silence realigns the parser: from a dispatch that found the line silent *)
(* between two frames on, what is examined is a frame as it was sent, until*)
(* a byte is lost or the ground falls silent inside a frame.               *)
THEOREM SilenceRealignsHolds == Spec => SilenceRealigns
<1>1. TypeOK /\ LineOK /\ [Next]_vars
        => (clean /\ fifo' # fifo /\ Len(rx) = FrameLen - 1 /\ rx' = <<>>
             => Whole(Append(rx, Head(fifo))))
  <2> SUFFICES ASSUME TypeOK, LineOK, [Next]_vars,
                      clean, fifo' # fifo, Len(rx) = FrameLen - 1, rx' = <<>>
               PROVE  Whole(Append(rx, Head(fifo)))
    OBVIOUS
  <2> DEFINE w == Append(rx, Head(fifo))
  <2>1. rx # <<>>
    BY CommandAssumption
  <2>2. fifo # <<>> /\ fifo' = Tail(fifo)
    BY <2>1 DEF Next, Line, Task, WindowOver, Send, Arrive, Lose, Take, PollEnds, RunOldest,
       RunEnds, SubsystemReset, NextFrame, vars, lineVars
  <2>3. /\ Len(w) = FrameLen /\ w[FrameLen] = fifo[1]
        /\ \A k \in 1 .. FrameLen - 1 : w[k] = rx[k]
        /\ Len(fifo) > 0 /\ w \in Seq(Byte)
    <3>1. /\ Len(w) = Len(rx) + 1 /\ w[Len(rx) + 1] = fifo[1]
          /\ \A k \in 1 .. Len(rx) : w[k] = rx[k]
          /\ Len(fifo) > 0
      BY <2>2, NextByte
    <3>2. w \in Seq(Byte)
      BY <2>2 DEF TypeOK
    <3> HIDE DEF w
    <3>3. Len(rx) + 1 = FrameLen
      BY CommandAssumption
    <3> QED
      BY <3>1, <3>2, <3>3, CommandAssumption
  <2> HIDE DEF w
  <2>4. FrameLen <= Waiting /\ \A k \in 1 .. FrameLen : w[k] = Stream[k]
    BY <2>3, LineTypes, CommandAssumption DEF Stream, Waiting
  <2>5. \A k \in 1 .. FrameLen : Stream[k] = [of |-> Stream[1].of, part |-> k]
    BY <2>4, LineTypes, CommandAssumption DEF LineOK, Aligned
  <2>6. w[1].of = Stream[1].of
    BY <2>4, CommandAssumption
  <2>7. w = [k \in 1 .. FrameLen |-> w[k]]
    BY <2>3
  <2> QED
    BY <2>4, <2>5, <2>6, <2>7 DEF Whole, Bytes, w
<1> QED
  BY <1>1, TypeCorrect, LineHolds, PTL DEF Spec, SilenceRealigns
=============================================================================

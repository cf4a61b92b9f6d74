----------------------------- MODULE Telemetry -----------------------------
(***************************************************************************)
(* The telemetry task of OBC-Zero: flight/tlm/sensor.c, flight/tlm/frame.c *)
(* and the transmit side of flight/hal/uart.c, over ports that refuse      *)
(* when they like and a link that loses bytes.                             *)
(*                                                                         *)
(* Of a frame the sequence number, the drop counter and the sensors are    *)
(* kept; the other fields are copies of counters owned elsewhere, and the  *)
(* clock read only fills one of them.  The 16-bit ceiling of the drop      *)
(* counter is out of a window's reach.  One boot.  What a substitute of    *)
(* one of these files changes is a parameter here, given in TlmBuilds.     *)
(***************************************************************************)
EXTENDS TlmCheck, SequencesExt

CONSTANTS
  Tables,         (* field tables the build may carry: sequences of rows   *)
  Sensors,
  Raw, InRange,   (* raw readings, and those inside the declared range     *)
  Invalid,        (* OBC_SENSOR_INVALID                                    *)
  StuckLimit,     (* OBC_SENSOR_STUCK_LIMIT                                *)
  RunMax,         (* the width of s_run: 0xFF                              *)
  RetryTotal,     (* OBC_UART_TX_RETRY_TOTAL                               *)
  PollInstr,      (* OBC_UART_TX_POLL_INSTR                                *)
  ByteInstr,      (* OBC_UART_TX_BYTE_INSTR                                *)
  SpareInstr,     (* T1_BUDGET - T1_NOMINAL_INSTR                          *)
  AnnounceLen,    (* characters of "tlm : downlink refused, frame dropped" *)
  MaxDispatches,  (* bound: dispatches of the task                         *)
  MaxResets,      (* bound: rung 2 resets of the subsystem                 *)
  MaxHits         (* bound: frames the link loses bytes of                 *)

(* Row: offset, element width, element count.  Invalid is not a reading    *)
(* any sensor can pass for.                                                *)
ASSUME TelemetryAssumption ==
  /\ \A t \in Tables : t \in Seq([offset : Nat, width : Nat, count : Nat])
  /\ InRange \subseteq Raw /\ Invalid \notin InRange
  /\ StuckLimit \in Nat \ {0} /\ RunMax \in Nat /\ RunMax >= StuckLimit
  /\ RetryTotal \in Nat \ {0} /\ AnnounceLen \in Nat \ {0}
  /\ MaxDispatches \in Nat /\ MaxResets \in Nat /\ MaxHits \in Nat

(* tasks.c 292, checked when the flight image is built.                    *)
ASSUME StaticAssertion ==
  /\ PollInstr \in Nat /\ ByteInstr \in Nat /\ SpareInstr \in Nat
  /\ RetryTotal * PollInstr <= SpareInstr

VARIABLES
  table, layout_ok,     \* obc_tlm_fields and s_layout_ok
  sensor,               \* per sensor: s_last_raw, s_run, s_seen, flags, value
  seq, drops, drops_consecutive,
  pc,                   \* "idle", "write" inside obc_uart_downlink_write,
                        \*   "announce" inside obc_uart_puts
  written, allowance,   \* i and allowance of the loop pc is in
  stream,               \* the bytes that reached the ground
  frames,               \* history: what each frame packed carries, in order
  shed, hit,            \* history: frames the vehicle dropped, the link spoilt
  polls, console,       \* history: polls of a full downlink, and of a full
                        \*   console, in this dispatch
  unsent,               \* history: bytes of the frame it gave up on
  heard,                \* history: readings since the history was cleared
  resets                \* obc_tlm_subsystem_resets

sensorVars == <<sensor, heard>>
portVars == <<pc, written, allowance, polls, console, unsent>>
linkVars == <<stream, hit>>
vars == <<table, layout_ok, sensorVars, seq, drops, drops_consecutive, portVars,
          linkVars, frames, shed, resets>>

Flags == {"RANGE", "STUCK", "NODATA"}
NeverRead == [last |-> Invalid, run |-> 0, seen |-> FALSE,
              flags |-> {"NODATA"}, value |-> Invalid]

TypeOK ==
  /\ table \in Tables /\ layout_ok \in BOOLEAN
  /\ sensor \in [Sensors -> [last : Raw \cup {Invalid}, run : 0 .. RunMax, seen : BOOLEAN,
                             flags : SUBSET Flags, value : Raw \cup {Invalid}]]
  /\ seq \in 0 .. MaxDispatches /\ drops \in 0 .. MaxDispatches
  /\ drops_consecutive \in 0 .. drops
  /\ pc \in {"idle", "write", "announce"}
  /\ written \in Nat /\ allowance \in Nat /\ polls \in Nat /\ console \in Nat
  /\ unsent \in 0 .. FrameLen
  /\ stream \in Seq([of : 1 .. Len(frames), part : 1 .. FrameLen])
  /\ frames \in Seq([seq : Nat, drops : Nat, epoch : 0 .. MaxResets])
  /\ shed \subseteq 1 .. Len(frames) /\ hit \subseteq 1 .. Len(frames)
  /\ heard \in [Sensors -> Seq(Raw)] /\ resets \in 0 .. MaxResets

-----------------------------------------------------------------------------
(* The audit of obc_tlm_init: every row has a legal width and starts where *)
(* the one before it ends, and the last ends with the frame.               *)
End(t, k) == t[k].offset + t[k].width * t[k].count

(* A mistake to tell apart: the rows are contiguous, wherever they end.    *)
AuditContiguous(t) ==
  /\ t # <<>>
  /\ \A k \in DOMAIN t :
       /\ t[k].width \in {1, 2, 4} /\ t[k].count # 0
       /\ t[k].offset = IF k = 1 THEN 0 ELSE End(t, k - 1)

Audit(t) ==
  /\ t # <<>>
  /\ \A k \in DOMAIN t :
       /\ t[k].width \in {1, 2, 4} /\ t[k].count # 0
       /\ t[k].offset = IF k = 1 THEN 0 ELSE End(t, k - 1)
  /\ End(t, Len(t)) = FrameLen

(* obc_tlm_init, once a boot; when the audit fails nothing is initialised  *)
(* and the system degrades (main.c 687).                                   *)
Init ==
  /\ table \in Tables /\ layout_ok = Audit(table)
  /\ sensor = [s \in Sensors |->
                 IF layout_ok THEN NeverRead ELSE [NeverRead EXCEPT !.flags = {}]]
  /\ seq = 0 /\ drops = 0 /\ drops_consecutive = 0
  /\ pc = "idle" /\ written = 0 /\ allowance = 0 /\ polls = 0 /\ console = 0
  /\ unsent = 0
  /\ stream = <<>> /\ frames = <<>> /\ shed = {} /\ hit = {}
  /\ heard = [s \in Sensors |-> <<>>] /\ resets = 0

-----------------------------------------------------------------------------
(* Mistakes to tell apart: the run does not stop at its width; a reading   *)
(* out of range does not count towards it.                                 *)
RunUnbounded(c, raw) == IF c.seen /\ raw = c.last THEN c.run + 1 ELSE 1

RunInRange(c, raw) ==
  IF raw \notin InRange THEN c.run
  ELSE IF c.seen /\ raw = c.last THEN (IF c.run < RunMax THEN c.run + 1 ELSE c.run) ELSE 1

(* The run counts every reading, rejected ones included, and saturates.    *)
Run(c, raw) ==
  IF c.seen /\ raw = c.last THEN (IF c.run < RunMax THEN c.run + 1 ELSE c.run) ELSE 1

(* obc_sensor_sample for one sensor.                                       *)
Sampled(c, raw) ==
  LET run == Run(c, raw)
      bad == {f \in {"RANGE"} : raw \notin InRange} \cup {f \in {"STUCK"} : run >= StuckLimit}
  IN [last |-> raw, run |-> run, seen |-> TRUE, flags |-> bad,
      value |-> IF bad = {} THEN raw ELSE Invalid]

(* The end of a sequence that the stuck detector can tell apart.           *)
Recent(s) == SubSeq(s, IF Len(s) > StuckLimit THEN Len(s) - StuckLimit + 1 ELSE 1, Len(s))

(* task_telemetry up to the write: sample every sensor, then pack a frame  *)
(* and count it, unless the layout was refused.  What was sampled and the  *)
(* allowance granted are up to the files the image is built from.          *)
Dispatch(raw, samples, granted) ==
  /\ pc = "idle" /\ Len(frames) < MaxDispatches
  /\ sensor' = samples
  /\ heard' = [s \in Sensors |-> Recent(Append(heard[s], raw[s]))]
  /\ IF layout_ok
     THEN /\ frames' = Append(frames, [seq |-> seq, drops |-> drops, epoch |-> resets])
          /\ seq' = seq + 1
          /\ pc' = "write" /\ allowance' = granted
     ELSE UNCHANGED <<frames, seq, pc, allowance>>
  /\ UNCHANGED <<table, layout_ok, drops, drops_consecutive, written, polls, console,
                 unsent, linkVars, shed, resets>>

(* The dispatch is over; the locals of its loops are gone.                 *)
Ends ==
  /\ pc' = "idle" /\ written' = 0 /\ allowance' = 0
  /\ polls' = 0 /\ console' = 0 /\ unsent' = 0

(* A mistake to tell apart: the allowance is one byte's, not the frame's.  *)
AllowancePerByte == RetryTotal

(* port_putc carries what is left of the allowance to the next byte.       *)
AllowanceLeft == allowance

(* The port takes the byte; on the last one the frame is out.  The link    *)
(* may lose the byte.                                                      *)
PortTakes(arrives) ==
  /\ pc = "write"
  /\ IF arrives
     THEN /\ stream' = Append(stream, [of |-> Len(frames), part |-> written + 1])
          /\ UNCHANGED hit
     ELSE /\ hit' = hit \cup {Len(frames)}
          /\ Cardinality(hit') <= MaxHits
          /\ UNCHANGED stream
  /\ IF written + 1 = FrameLen
     THEN Ends /\ drops_consecutive' = 0
     ELSE /\ written' = written + 1 /\ allowance' = AllowanceLeft
          /\ UNCHANGED <<pc, polls, console, unsent, drops_consecutive>>
  /\ UNCHANGED <<table, layout_ok, sensorVars, seq, drops, frames, shed, resets>>

PortRefuses ==
  /\ pc = "write" /\ allowance > 0
  /\ allowance' = allowance - 1 /\ polls' = polls + 1
  /\ UNCHANGED <<table, layout_ok, sensorVars, seq, drops, drops_consecutive, pc, written,
                 console, unsent, linkVars, frames, shed, resets>>

(* A mistake to tell apart: a shed frame is not counted.                   *)
AbandonUncounted ==
  /\ pc = "write"
  /\ pc' = "announce" /\ written' = 0 /\ allowance' = RetryTotal
  /\ shed' = shed \cup {Len(frames)} /\ unsent' = FrameLen - written
  /\ UNCHANGED <<table, layout_ok, sensorVars, seq, drops, drops_consecutive, polls, console,
                 linkVars, frames, resets>>

(* obc_tlm_emit when the write was refused: the frame stays torn on the    *)
(* line, it is counted, and the console is told.                           *)
Abandon ==
  /\ pc = "write"
  /\ pc' = "announce" /\ written' = 0 /\ allowance' = RetryTotal
  /\ drops' = drops + 1 /\ drops_consecutive' = drops_consecutive + 1
  /\ shed' = shed \cup {Len(frames)} /\ unsent' = FrameLen - written
  /\ UNCHANGED <<table, layout_ok, sensorVars, seq, polls, console, linkVars, frames, resets>>

(* obc_uart_puts: every character of the announcement has an allowance of  *)
(* its own; the first one the console refuses to the end is the last.      *)
ConsoleTakes ==
  /\ pc = "announce"
  /\ IF written + 1 = AnnounceLen THEN Ends
     ELSE /\ written' = written + 1 /\ allowance' = RetryTotal
          /\ UNCHANGED <<pc, polls, console, unsent>>
  /\ UNCHANGED <<table, layout_ok, sensorVars, seq, drops, drops_consecutive, linkVars,
                 frames, shed, resets>>

ConsoleWaits ==
  /\ pc = "announce" /\ allowance > 0
  /\ allowance' = allowance - 1 /\ console' = console + 1
  /\ UNCHANGED <<table, layout_ok, sensorVars, seq, drops, drops_consecutive, pc, written,
                 polls, unsent, linkVars, frames, shed, resets>>

ConsoleGivesUp ==
  /\ pc = "announce"
  /\ Ends
  /\ UNCHANGED <<table, layout_ok, sensorVars, seq, drops, drops_consecutive, linkVars,
                 frames, shed, resets>>

(* port_putc on a full port: one poll of the allowance, or the end of the  *)
(* write once there is none left.                                          *)
Refuses ==
  \/ PortRefuses \/ ConsoleWaits
  \/ allowance = 0 /\ (Abandon \/ ConsoleGivesUp)

(* Mistakes to tell apart: the reset clears the drop counter; it repairs   *)
(* the refused layout.                                                     *)
ResetForgetsDrops ==
  /\ pc = "idle" /\ resets < MaxResets
  /\ sensor' = [s \in Sensors |-> NeverRead]
  /\ heard' = [s \in Sensors |-> <<>>]
  /\ seq' = 0 /\ drops' = 0 /\ drops_consecutive' = 0 /\ resets' = resets + 1
  /\ UNCHANGED <<table, layout_ok, portVars, linkVars, frames, shed>>

ResetAllows ==
  /\ pc = "idle" /\ resets < MaxResets
  /\ sensor' = [s \in Sensors |-> NeverRead]
  /\ heard' = [s \in Sensors |-> <<>>]
  /\ seq' = 0 /\ resets' = resets + 1 /\ layout_ok' = TRUE
  /\ UNCHANGED <<table, drops, drops_consecutive, portVars, linkVars, frames, shed>>

(* Rung 2, obc_tlm_subsystem_reset: after a dispatch, never inside one.    *)
(* The counters and the refusal stay.                                      *)
SubsystemReset ==
  /\ pc = "idle" /\ resets < MaxResets
  /\ sensor' = [s \in Sensors |-> NeverRead]
  /\ heard' = [s \in Sensors |-> <<>>]
  /\ seq' = 0 /\ resets' = resets + 1
  /\ UNCHANGED <<table, layout_ok, drops, drops_consecutive, portVars, linkVars, frames, shed>>

(* What is the same in every image.                                        *)
Port ==
  \/ \E arrives \in BOOLEAN : PortTakes(arrives)
  \/ ConsoleTakes \/ SubsystemReset

Next ==
  \/ \E raw \in [Sensors -> Raw] :
       Dispatch(raw, [s \in Sensors |-> Sampled(sensor[s], raw[s])], RetryTotal)
  \/ Refuses \/ Port

Spec == Init /\ [][Next]_vars

-----------------------------------------------------------------------------
(* frame.c 231: nothing goes out on a layout the ground would decode       *)
(* differently, that is unless every byte of the frame is named once and   *)
(* in order, whatever resets the subsystem lives through.                  *)
WrongLayoutIsSilent ==
  stream # <<>> =>
    /\ \A b \in 0 .. FrameLen - 1 :
         Cardinality({k \in DOMAIN table : b \in table[k].offset .. End(table, k) - 1}) = 1
    /\ \A k \in DOMAIN table :
         End(table, k) <= FrameLen /\ \A j \in 1 .. k - 1 : table[j].offset < table[k].offset

(* tlm_decode.py 249: torn frames are never taken for frames, and never    *)
(* hide a whole one: each is found once, in the order they were sent.      *)
Decoded == find_frames(stream)
EveryWholeFrameIsFound ==
  pc = "idle" =>
    /\ Range(Decoded) = DOMAIN frames \ (shed \cup hit)
    /\ \A j, k \in DOMAIN Decoded : j < k => Decoded[j] < Decoded[k]

Report == [k \in DOMAIN Decoded |-> frames[Decoded[k]]]

(* What the ground accepts has, between two frames of one subsystem life,  *)
(* no frame the link spoilt.                                               *)
LossIsNoticed ==
  check_sequence(Report) =>
    \A k \in 1 .. Len(Decoded) - 1 :
      frames[Decoded[k]].epoch = frames[Decoded[k + 1]].epoch =>
        Decoded[k] + 1 .. Decoded[k + 1] - 1 \subseteq shed

(* A vehicle that only sheds is not accused of losing frames, unless what  *)
(* it shed is the first frame after a subsystem reset, the one the ground  *)
(* tells the reset by.                                                     *)
SheddingIsAccepted ==
  hit = {} /\ (\A n \in shed : frames[n].epoch > 0 => frames[n].seq # 0)
    => check_sequence(Report)

(* tlm_check.py 60: from the drop counter alone a frame lost on the link   *)
(* is told from one shed, in both directions.                              *)
ShedIsToldFromLost == pc = "idle" => LossIsNoticed /\ SheddingIsAccepted

(* ADR 0009, decision 3: the first frame that does get out says how many   *)
(* did not, across subsystem resets.                                       *)
ShedFramesAreReported ==
  \A n \in DOMAIN frames : frames[n].drops = Cardinality({k \in shed : k < n})

-----------------------------------------------------------------------------
(* What tasks.c 292 says it asserts, that a stalled downlink does not      *)
(* overrun the telemetry budget, counting what the dispatch spends waiting *)
(* for the console to take the announcement of the stall, and what it      *)
(* saves on the bytes it did not write.                                    *)
DispatchFitsItsBudget ==
  (polls + console) * PollInstr <= SpareInstr + unsent * ByteInstr
=============================================================================

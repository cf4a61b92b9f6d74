-------------------------- MODULE Telemetry_proof --------------------------
(***************************************************************************)
(* Theorems about the telemetry task and the ground's decoder, in every    *)
(* image, for every field table, length of frame, allowance and limit of   *)
(* the stuck detector, and any number of dispatches, refusals, lost bytes  *)
(* and rung 2 resets.                                                      *)
(***************************************************************************)
EXTENDS TlmBuilds, FiniteSetTheorems, SequenceTheorems, WellFoundedInduction, TLAPS

buildVars == <<vars, build, stall_allowance>>

-----------------------------------------------------------------------------
(* A set of numbers that is not empty has a least one.                     *)
LEMMA LeastNumber ==
  ASSUME NEW S \in SUBSET Nat, S # {}
  PROVE  \E m \in S : \A k \in S : m <= k
<1>1. IsWellFoundedOn(OpToRel(<, Nat), Nat)
  BY NatLessThanWellFounded
<1>2. PICK m \in S : \A k \in S : ~ (<<k, m>> \in OpToRel(<, Nat))
  BY <1>1, WFMin
<1>3. ASSUME NEW k \in S PROVE m <= k
  <2>1. ~ (k < m)
    BY <1>2 DEF OpToRel
  <2> QED
    BY <2>1
<1> QED
  BY <1>2, <1>3

-----------------------------------------------------------------------------
(* What a step of an image is.                                             *)
LEMMA Steps ==
  ASSUME [BuildNext]_buildVars
  PROVE  /\ UNCHANGED <<build, stall_allowance>>
         /\ \/ \E raw \in [Sensors -> Raw] :
                 Dispatch(raw, [s \in Sensors |-> BuildSampled(sensor[s], raw[s])], Granted)
            \/ \E arrives \in BOOLEAN : PortTakes(arrives)
            \/ PortRefuses /\ build # "uart_impatient"
            \/ Abandon /\ (build = "uart_impatient" \/ allowance = 0)
            \/ ConsoleTakes \/ ConsoleWaits \/ ConsoleGivesUp
            \/ SubsystemReset
            \/ UNCHANGED vars
  BY DEF BuildNext, buildVars, ImpatientRefuses, Refuses, Port

-----------------------------------------------------------------------------
(* Types.  Every dispatch numbers one frame at most, every frame is shed   *)
(* once at most, and the one being written has not been.                   *)
BuildOK ==
  /\ build \in Builds /\ stall_allowance \in Nat
  /\ build # "uart_stalled" => stall_allowance = 0

CountsOK ==
  /\ seq <= Len(frames) /\ Len(frames) <= MaxDispatches
  /\ drops = Cardinality(shed)
  /\ pc = "idle" => written = 0
  /\ pc = "write" => /\ Len(frames) \in 1 .. MaxDispatches /\ Len(frames) \notin shed
                     /\ written < FrameLen

TypeInv == TypeOK /\ BuildOK /\ CountsOK

Reading == [last : Raw \cup {Invalid}, run : 0 .. RunMax, seen : BOOLEAN,
            flags : SUBSET Flags, value : Raw \cup {Invalid}]

LEMMA RunType ==
  ASSUME NEW c \in Reading, NEW raw \in Raw
  PROVE  Run(c, raw) \in 1 .. RunMax
<1>1. c.run \in 0 .. RunMax
  BY DEF Reading
<1> QED
  BY <1>1, TelemetryAssumption DEF Run

LEMMA SampledType ==
  ASSUME NEW c \in Reading, NEW raw \in Raw
  PROVE  BuildSampled(c, raw) \in Reading
<1>1. Run(c, raw) \in 0 .. RunMax
  BY RunType, TelemetryAssumption
<1>2. Sampled(c, raw) \in Reading
  BY <1>1 DEF Sampled, Reading, Flags
<1>3. SampledBlind(c, raw) \in Reading
  BY <1>1 DEF SampledBlind, Reading
<1>4. SampledParanoid(c, raw) \in Reading
  BY <1>1 DEF SampledParanoid, Reading, Flags
<1> QED
  BY <1>2, <1>3, <1>4 DEF BuildSampled

LEMMA NeverReadType == NeverRead \in Reading /\ [NeverRead EXCEPT !.flags = {}] \in Reading
<1>1. 0 \in 0 .. RunMax /\ {"NODATA"} \in SUBSET Flags /\ {} \in SUBSET Flags
  BY TelemetryAssumption DEF Flags
<1>2. NeverRead \in Reading
  BY <1>1 DEF NeverRead, Reading
<1>3. \A c \in Reading : [c EXCEPT !.flags = {}] \in Reading
  BY <1>1 DEF Reading
<1> QED
  BY <1>2, <1>3

LEMMA RecentType ==
  ASSUME NEW s \in Seq(Raw)
  PROVE  Recent(s) \in Seq(Raw)
  BY TelemetryAssumption DEF Recent

LEMMA GrantedType == BuildOK => Granted \in Nat \ {0}
  BY TelemetryAssumption DEF BuildOK, Granted

LEMMA ShedIsFinite ==
  ASSUME TypeOK
  PROVE  IsFiniteSet(shed) /\ Cardinality(shed) \in Nat /\ Cardinality(shed) <= Len(frames)
<1>1. Len(frames) \in Nat /\ shed \subseteq 1 .. Len(frames)
  BY DEF TypeOK
<1>2. IsFiniteSet(1 .. Len(frames)) /\ Cardinality(1 .. Len(frames)) = Len(frames)
  BY <1>1, FS_Interval
<1> QED
  BY <1>1, <1>2, FS_Subset, FS_CardinalityType

LEMMA InitTypes == BuildInit => TypeInv
<1> SUFFICES ASSUME BuildInit PROVE TypeInv
  OBVIOUS
<1>1. BuildOK
  BY TlmBuildsAssumption DEF BuildInit, BuildOK
<1>2. frames = <<>> /\ shed = {} /\ drops = 0 /\ seq = 0 /\ pc = "idle" /\ written = 0
  BY DEF BuildInit, Init
<1>3. CountsOK
  BY <1>2, TelemetryAssumption, FS_EmptySet DEF CountsOK
<1>4. sensor \in [Sensors -> Reading]
  BY NeverReadType DEF BuildInit, Init
<1>5. layout_ok \in BOOLEAN
  BY DEF BuildInit, Init, Audit
<1>6. heard \in [Sensors -> Seq(Raw)]
  BY DEF BuildInit, Init
<1>7. TypeOK
  <2>1. /\ table \in Tables /\ seq = 0 /\ drops = 0 /\ drops_consecutive = 0
        /\ written = 0 /\ allowance = 0 /\ polls = 0 /\ console = 0 /\ unsent = 0
        /\ stream = <<>> /\ hit = {} /\ resets = 0
    BY DEF BuildInit, Init
  <2>2. Len(frames) = 0
    BY <1>2
  <2> QED
    BY <1>2, <1>4, <1>5, <1>6, <2>1, <2>2, TelemetryAssumption, FrameLenAssumption
    DEF TypeOK, Reading
<1> QED
  BY <1>1, <1>3, <1>7 DEF TypeInv

LEMMA EndsTypes ==
  ASSUME Ends
  PROVE  pc' = "idle" /\ written' = 0 /\ written' \in Nat /\ allowance' \in Nat /\ polls' \in Nat
         /\ console' \in Nat /\ unsent' \in 0 .. FrameLen
  BY FrameLenAssumption DEF Ends

LEMMA DispatchTypes ==
  ASSUME TypeInv, NEW raw \in [Sensors -> Raw], NEW samples \in [Sensors -> Reading],
         Dispatch(raw, samples, Granted)
  PROVE  TypeOK' /\ CountsOK'
<1>1. sensor' \in [Sensors -> Reading]
  BY DEF Dispatch
<1>2. \A s \in Sensors : Recent(Append(heard[s], raw[s])) \in Seq(Raw)
  <2>1. \A s \in Sensors : heard[s] \in Seq(Raw) /\ raw[s] \in Raw
    BY DEF TypeInv, TypeOK
  <2>2. \A s \in Sensors : Append(heard[s], raw[s]) \in Seq(Raw)
    BY <2>1
  <2> QED
    BY <2>2, RecentType
<1>3. heard' \in [Sensors -> Seq(Raw)]
  BY <1>2 DEF Dispatch
<1>4. CASE layout_ok
  <2>1. /\ frames' = Append(frames, [seq |-> seq, drops |-> drops, epoch |-> resets])
        /\ seq' = seq + 1 /\ pc' = "write" /\ allowance' = Granted
    BY <1>4 DEF Dispatch
  <2>2. [seq |-> seq, drops |-> drops, epoch |-> resets]
          \in [seq : Nat, drops : Nat, epoch : 0 .. MaxResets]
    BY TelemetryAssumption DEF TypeInv, TypeOK
  <2>3. frames' \in Seq([seq : Nat, drops : Nat, epoch : 0 .. MaxResets])
        /\ Len(frames') = Len(frames) + 1 /\ Len(frames) \in Nat
    BY <2>1, <2>2 DEF TypeInv, TypeOK
  <2>4. Len(frames') <= MaxDispatches /\ seq' <= Len(frames') /\ seq' \in 0 .. MaxDispatches
    BY <2>1, <2>3, TelemetryAssumption DEF Dispatch, TypeInv, TypeOK, CountsOK
  <2>5. UNCHANGED <<written, table, layout_ok, drops, drops_consecutive, polls, console,
                                    unsent, stream, hit, shed, resets>>
    BY DEF Dispatch, linkVars
  <2>6. stream' \in Seq([of : 1 .. Len(frames'), part : 1 .. FrameLen])
    <3>1. [of : 1 .. Len(frames), part : 1 .. FrameLen]
            \subseteq [of : 1 .. Len(frames'), part : 1 .. FrameLen]
      BY <2>3
    <3>2. stream \in Seq([of : 1 .. Len(frames), part : 1 .. FrameLen])
      BY DEF TypeInv, TypeOK
    <3> QED
      BY <2>5, <3>1, <3>2, SeqMonotonic
  <2>7. shed' \subseteq 1 .. Len(frames') /\ hit' \subseteq 1 .. Len(frames')
        /\ Len(frames') \notin shed'
    BY <2>3, <2>5 DEF TypeInv, TypeOK
  <2>8. allowance' \in Nat
    BY <2>1, GrantedType DEF TypeInv
  <2>9. written' = 0 /\ drops' = Cardinality(shed') /\ Len(frames') \in 1 .. MaxDispatches
    BY <2>3, <2>4, <2>5, TelemetryAssumption DEF Dispatch, TypeInv, CountsOK
  <2>10. CountsOK'
    BY <2>1, <2>4, <2>7, <2>9, FrameLenAssumption DEF CountsOK
  <2>11. TypeOK'
    BY <1>1, <1>3, <2>1, <2>3, <2>4, <2>5, <2>6, <2>7, <2>8, <2>9
    DEF TypeInv, TypeOK, Reading
  <2> QED
    BY <2>10, <2>11
<1>5. CASE ~layout_ok
  BY <1>1, <1>3, <1>5 DEF Dispatch, TypeInv, TypeOK, CountsOK, linkVars, Reading
<1> QED
  BY <1>4, <1>5

LEMMA TakesTypes ==
  ASSUME TypeInv, NEW arrives \in BOOLEAN, PortTakes(arrives)
  PROVE  TypeOK' /\ CountsOK'
<1>1. /\ pc = "write" /\ Len(frames) \in 1 .. Len(frames) /\ written + 1 \in 1 .. FrameLen
      /\ UNCHANGED <<table, layout_ok, sensor, heard, seq, drops, frames, shed, resets>>
  BY FrameLenAssumption DEF PortTakes, sensorVars, TypeInv, TypeOK, CountsOK
<1>2. stream' \in Seq([of : 1 .. Len(frames), part : 1 .. FrameLen])
      /\ hit' \subseteq 1 .. Len(frames)
  <2>1. stream \in Seq([of : 1 .. Len(frames), part : 1 .. FrameLen])
        /\ hit \subseteq 1 .. Len(frames)
    BY DEF TypeInv, TypeOK
  <2>2. [of |-> Len(frames), part |-> written + 1] \in [of : 1 .. Len(frames), part : 1 .. FrameLen]
    BY <1>1
  <2>3. \/ stream' = Append(stream, [of |-> Len(frames), part |-> written + 1]) /\ hit' = hit
        \/ hit' = hit \cup {Len(frames)} /\ stream' = stream
    BY Zenon DEF PortTakes
  <2>4. Append(stream, [of |-> Len(frames), part |-> written + 1])
          \in Seq([of : 1 .. Len(frames), part : 1 .. FrameLen])
    BY <2>1, <2>2
  <2> QED
    BY <1>1, <2>1, <2>3, <2>4
<1>3. CASE written + 1 = FrameLen
  <2>1. Ends /\ drops_consecutive' = 0
    BY <1>3 DEF PortTakes
  <2> QED
    BY <1>1, <1>2, <2>1, EndsTypes DEF TypeInv, TypeOK, CountsOK
<1>4. CASE written + 1 # FrameLen
  <2>1. written' = written + 1 /\ allowance' = allowance
        /\ UNCHANGED <<pc, polls, console, unsent, drops_consecutive>>
    BY <1>4 DEF PortTakes, AllowanceLeft
  <2>2. written' \in Nat /\ written' < FrameLen
    BY <1>1, <1>4, <2>1, FrameLenAssumption
  <2> QED
    BY <1>1, <1>2, <2>1, <2>2 DEF TypeInv, TypeOK, CountsOK
<1> QED
  BY <1>3, <1>4

LEMMA AbandonTypes ==
  ASSUME TypeInv, Abandon
  PROVE  TypeOK' /\ CountsOK'
<1>1. /\ pc = "write" /\ pc' = "announce" /\ written' = 0 /\ allowance' = RetryTotal
      /\ drops' = drops + 1 /\ drops_consecutive' = drops_consecutive + 1
      /\ shed' = shed \cup {Len(frames)} /\ unsent' = FrameLen - written
      /\ UNCHANGED <<table, layout_ok, sensor, heard, seq, polls, console, stream, hit,
                     frames, resets>>
  BY DEF Abandon, sensorVars, linkVars
<1>2. Len(frames) \in 1 .. Len(frames) /\ Len(frames) \notin shed /\ Len(frames) \in Nat
  BY <1>1 DEF TypeInv, TypeOK, CountsOK
<1>3. IsFiniteSet(shed) /\ Cardinality(shed) \in Nat
  BY ShedIsFinite DEF TypeInv
<1>4. Cardinality(shed') = Cardinality(shed) + 1
  BY <1>1, <1>2, <1>3, FS_AddElement
<1>5. shed' \subseteq 1 .. Len(frames)
  BY <1>1, <1>2 DEF TypeInv, TypeOK
<1>6. IsFiniteSet(1 .. Len(frames)) /\ Cardinality(1 .. Len(frames)) = Len(frames)
  BY <1>2, FS_Interval
<1>7. Cardinality(shed') <= Len(frames)
  BY <1>5, <1>6, FS_Subset
<1>8. drops' \in 0 .. MaxDispatches /\ drops' = Cardinality(shed')
  BY <1>1, <1>2, <1>3, <1>4, <1>7, TelemetryAssumption DEF TypeInv, CountsOK
<1>9. drops_consecutive' \in 0 .. drops'
  BY <1>1, <1>8 DEF TypeInv, TypeOK
<1>10. unsent' \in 0 .. FrameLen
  BY <1>1, FrameLenAssumption DEF TypeInv, TypeOK, CountsOK
<1> QED
  BY <1>1, <1>5, <1>8, <1>9, <1>10, TelemetryAssumption DEF TypeInv, TypeOK, CountsOK

LEMMA ConsoleTypes ==
  ASSUME TypeInv, ConsoleTakes \/ ConsoleWaits \/ ConsoleGivesUp
  PROVE  TypeOK' /\ CountsOK'
<1>1. CASE Ends /\ UNCHANGED <<table, layout_ok, sensor, heard, seq, drops, drops_consecutive,
                               stream, hit, frames, shed, resets>>
  BY <1>1, EndsTypes DEF TypeInv, TypeOK, CountsOK
<1>2. CASE ConsoleWaits
  BY <1>2 DEF ConsoleWaits, TypeInv, TypeOK, CountsOK, sensorVars, linkVars
<1>3. CASE /\ pc = "announce" /\ written' = written + 1 /\ allowance' = RetryTotal
           /\ UNCHANGED <<table, layout_ok, sensor, heard, seq, drops, drops_consecutive, pc,
                          polls, console, unsent, stream, hit, frames, shed, resets>>
  BY <1>3, TelemetryAssumption DEF TypeInv, TypeOK, CountsOK
<1> QED
  BY <1>1, <1>2, <1>3 DEF ConsoleTakes, ConsoleGivesUp, sensorVars, linkVars

LEMMA ResetTypes ==
  ASSUME TypeInv, SubsystemReset
  PROVE  TypeOK' /\ CountsOK'
<1>1. sensor' \in [Sensors -> Reading] /\ heard' \in [Sensors -> Seq(Raw)]
  BY NeverReadType DEF SubsystemReset
<1>2. /\ seq' = 0 /\ resets' \in 0 .. MaxResets /\ pc' = "idle"
      /\ UNCHANGED <<table, layout_ok, drops, drops_consecutive, pc, written, allowance, polls,
                     console, unsent, stream, hit, frames, shed>>
  BY TelemetryAssumption DEF SubsystemReset, portVars, linkVars, TypeInv, TypeOK
<1>3. Len(frames) \in Nat
  BY DEF TypeInv, TypeOK
<1>4. /\ table' \in Tables /\ layout_ok' \in BOOLEAN
      /\ drops' \in 0 .. MaxDispatches /\ drops_consecutive' \in 0 .. drops'
      /\ written' \in Nat /\ allowance' \in Nat /\ polls' \in Nat /\ console' \in Nat
      /\ unsent' \in 0 .. FrameLen
  BY <1>2 DEF TypeInv, TypeOK
<1>5. /\ stream' \in Seq([of : 1 .. Len(frames'), part : 1 .. FrameLen])
      /\ frames' \in Seq([seq : Nat, drops : Nat, epoch : 0 .. MaxResets])
      /\ shed' \subseteq 1 .. Len(frames') /\ hit' \subseteq 1 .. Len(frames')
  BY <1>2 DEF TypeInv, TypeOK
<1>6. seq' \in 0 .. MaxDispatches
  BY <1>2, TelemetryAssumption
<1>7. TypeOK'
  BY <1>1, <1>2, <1>4, <1>5, <1>6 DEF TypeOK, Reading
<1>8. CountsOK'
  BY <1>2, <1>3 DEF TypeInv, CountsOK
<1> QED
  BY <1>7, <1>8

LEMMA TypeInvHolds == BuildSpec => []TypeInv
<1>1. TypeInv /\ [BuildNext]_buildVars => TypeInv'
  <2> SUFFICES ASSUME TypeInv, [BuildNext]_buildVars PROVE TypeInv'
    OBVIOUS
  <2>1. BuildOK'
    BY Steps DEF TypeInv, BuildOK
  <2>2. ASSUME NEW raw \in [Sensors -> Raw],
               Dispatch(raw, [s \in Sensors |-> BuildSampled(sensor[s], raw[s])], Granted)
        PROVE  TypeOK' /\ CountsOK'
    <3>1. [s \in Sensors |-> BuildSampled(sensor[s], raw[s])] \in [Sensors -> Reading]
      BY SampledType DEF TypeInv, TypeOK, Reading
    <3> QED
      BY <2>2, <3>1, DispatchTypes
  <2>3. ASSUME NEW arrives \in BOOLEAN, PortTakes(arrives)
        PROVE  TypeOK' /\ CountsOK'
    BY <2>3, TakesTypes
  <2>4. CASE PortRefuses
    BY <2>1, <2>4 DEF PortRefuses, TypeInv, TypeOK, CountsOK, sensorVars, linkVars
  <2>5. CASE Abandon
    BY <2>1, <2>5, AbandonTypes DEF TypeInv
  <2>6. CASE ConsoleTakes \/ ConsoleWaits \/ ConsoleGivesUp
    BY <2>1, <2>6, ConsoleTypes DEF TypeInv
  <2>7. CASE SubsystemReset
    BY <2>1, <2>7, ResetTypes DEF TypeInv
  <2>8. CASE UNCHANGED vars
    BY <2>1, <2>8 DEF vars, sensorVars, portVars, linkVars, TypeInv, TypeOK, CountsOK
  <2> QED
    BY <2>1, <2>2, <2>3, <2>4, <2>5, <2>6, <2>7, <2>8, Steps DEF TypeInv
<1> QED
  BY <1>1, InitTypes, PTL DEF BuildSpec, buildVars

(* The counters of frame.c, the locals of the two loops of uart.c, and the *)
(* sensors' runs keep their types in every image; the drop counter is in   *)
(* CountsOK at all times the number of frames shed.                        *)
THEOREM TypeCorrect == BuildSpec => []TypeOK
<1>1. TypeInv => TypeOK
  BY DEF TypeInv
<1> QED
  BY <1>1, TypeInvHolds, PTL

-----------------------------------------------------------------------------
(* The wait.  What is left of the allowance and what was polled make the   *)
(* allowance granted, for as long as the write lasts; the impatient port   *)
(* never polls.                                                            *)
WaitOK ==
  /\ pc = "idle" => polls = 0
  /\ pc = "write" => polls + allowance = Granted
  /\ pc = "announce" /\ build # "uart_impatient" => polls = Granted
  /\ build = "uart_impatient" => polls = 0

LEMMA WaitOKStep ==
  ASSUME TypeInv, WaitOK, [BuildNext]_buildVars
  PROVE  WaitOK'
<1>1. build' = build /\ Granted' = Granted
  BY Steps DEF Granted
<1>2. polls \in Nat /\ allowance \in Nat /\ Granted \in Nat \ {0}
  BY GrantedType DEF TypeInv, TypeOK
<1>3. ASSUME NEW raw \in [Sensors -> Raw], NEW samples, Dispatch(raw, samples, Granted)
      PROVE  WaitOK'
  <2>1. pc = "idle" /\ polls' = polls /\ ((pc' = "write" /\ allowance' = Granted) \/ pc' = pc)
    BY <1>3 DEF Dispatch
  <2> QED
    BY <1>1, <1>2, <2>1 DEF WaitOK
<1>4. ASSUME NEW arrives \in BOOLEAN, PortTakes(arrives)
      PROVE  WaitOK'
  <2>1. pc = "write" /\ (Ends \/ UNCHANGED <<pc, allowance, polls>>)
    BY <1>4 DEF PortTakes, AllowanceLeft
  <2> QED
    BY <1>1, <1>2, <2>1 DEF WaitOK, Ends
<1>5. CASE PortRefuses /\ build # "uart_impatient"
  BY <1>1, <1>2, <1>5 DEF PortRefuses, WaitOK
<1>6. CASE Abandon /\ (build = "uart_impatient" \/ allowance = 0)
  BY <1>1, <1>2, <1>6 DEF Abandon, WaitOK
<1>7. CASE ConsoleTakes \/ ConsoleWaits \/ ConsoleGivesUp
  <2>1. pc = "announce" /\ (Ends \/ UNCHANGED <<pc, polls>>)
    BY <1>7 DEF ConsoleTakes, ConsoleWaits, ConsoleGivesUp
  <2> QED
    BY <1>1, <2>1 DEF WaitOK, Ends
<1>8. CASE SubsystemReset \/ UNCHANGED vars
  BY <1>1, <1>8 DEF SubsystemReset, vars, portVars, WaitOK
<1> QED
  BY <1>3, <1>4, <1>5, <1>6, <1>7, <1>8, Steps

(* A dispatch that sheds its frame has polled the downlink for the whole   *)
(* allowance of obc_uart_downlink_write and not once more, in every image  *)
(* but the impatient one, however the port alternates.                     *)
THEOREM WaitIsBracketedHolds == BuildSpec => []WaitIsBracketed
<1>1. BuildInit => WaitOK
  BY DEF BuildInit, Init, WaitOK
<1>2. TypeInv /\ WaitOK => WaitIsBracketed
  <2> SUFFICES ASSUME TypeInv, WaitOK PROVE WaitIsBracketed
    OBVIOUS
  <2>1. polls \in Nat /\ allowance \in Nat /\ Granted \in Nat \ {0}
    BY GrantedType DEF TypeInv, TypeOK
  <2>2. pc \in {"idle", "write", "announce"}
    BY DEF TypeInv, TypeOK
  <2> QED
    BY <2>1, <2>2 DEF WaitOK, WaitIsBracketed
<1> QED
  BY <1>1, <1>2, WaitOKStep, TypeInvHolds, PTL DEF BuildSpec, buildVars

-----------------------------------------------------------------------------
(* The frames packed, and the count each of them carries.                  *)

(* A step packs one frame more, or none.                                   *)
LEMMA FramesGrow ==
  ASSUME TypeInv, [BuildNext]_buildVars
  PROVE  \/ UNCHANGED frames
         \/ /\ pc = "idle" /\ layout_ok /\ pc' = "write"
            /\ UNCHANGED <<drops, stream, shed, hit, resets, written>> /\ seq' = seq + 1
            /\ Len(frames') = Len(frames) + 1 /\ DOMAIN frames' = 1 .. Len(frames) + 1
            /\ \A n \in DOMAIN frames : frames'[n] = frames[n]
            /\ frames'[Len(frames) + 1] = [seq |-> seq, drops |-> drops, epoch |-> resets]
<1>1. ASSUME NEW raw \in [Sensors -> Raw], NEW samples, Dispatch(raw, samples, Granted), layout_ok
      PROVE  /\ pc = "idle" /\ layout_ok /\ pc' = "write"
             /\ UNCHANGED <<drops, stream, shed, hit, resets, written>> /\ seq' = seq + 1
             /\ frames' = Append(frames, [seq |-> seq, drops |-> drops, epoch |-> resets])
  BY <1>1 DEF Dispatch, linkVars
<1>2. ASSUME NEW raw \in [Sensors -> Raw], NEW samples, Dispatch(raw, samples, Granted), ~layout_ok
      PROVE  UNCHANGED frames
  BY <1>2 DEF Dispatch
<1>3. frames \in Seq([seq : Nat, drops : Nat, epoch : 0 .. MaxResets])
  BY DEF TypeInv, TypeOK
<1>4. CASE /\ pc = "idle" /\ layout_ok /\ pc' = "write"
           /\ UNCHANGED <<drops, stream, shed, hit, resets, written>> /\ seq' = seq + 1
           /\ frames' = Append(frames, [seq |-> seq, drops |-> drops, epoch |-> resets])
  BY <1>3, <1>4
<1>5. CASE UNCHANGED frames
  BY <1>5
<1> QED
  BY <1>1, <1>2, <1>4, <1>5, Steps
  DEF PortTakes, PortRefuses, Abandon, ConsoleTakes, ConsoleWaits, ConsoleGivesUp,
      SubsystemReset, vars

LEMMA ShedReported ==
  ASSUME TypeInv, [BuildNext]_buildVars, ShedFramesAreReported
  PROVE  ShedFramesAreReported'
<1>1. /\ Len(frames) \in Nat /\ DOMAIN frames = 1 .. Len(frames)
      /\ shed \subseteq 1 .. Len(frames)
  BY DEF TypeInv, TypeOK
<1>2. CASE UNCHANGED frames
  <2>1. shed' = shed \/ shed' = shed \cup {Len(frames)}
    <3>1. (\E raw \in [Sensors -> Raw] :
             Dispatch(raw, [s \in Sensors |-> BuildSampled(sensor[s], raw[s])], Granted))
            => shed' = shed
      BY DEF Dispatch
    <3>2. (\E arrives \in BOOLEAN : PortTakes(arrives)) => shed' = shed
      BY DEF PortTakes
    <3>3. Abandon => shed' = shed \cup {Len(frames)}
      BY DEF Abandon
    <3>4. PortRefuses \/ ConsoleTakes \/ ConsoleWaits \/ ConsoleGivesUp \/ SubsystemReset
            \/ UNCHANGED vars => shed' = shed
      BY DEF PortRefuses, ConsoleTakes, ConsoleWaits, ConsoleGivesUp, SubsystemReset, vars
    <3> QED
      BY <3>1, <3>2, <3>3, <3>4, Steps
  <2>2. \A n \in DOMAIN frames : {k \in shed' : k < n} = {k \in shed : k < n}
    BY <1>1, <2>1
  <2> QED
    BY <1>2, <2>2 DEF ShedFramesAreReported
<1>3. CASE ~ UNCHANGED frames
  <2>1. /\ shed' = shed /\ DOMAIN frames' = 1 .. Len(frames) + 1
        /\ \A n \in DOMAIN frames : frames'[n] = frames[n]
        /\ frames'[Len(frames) + 1] = [seq |-> seq, drops |-> drops, epoch |-> resets]
    BY <1>3, FramesGrow
  <2>2. {k \in shed : k < Len(frames) + 1} = shed
    <3>1. \A k \in shed : k < Len(frames) + 1
      BY <1>1
    <3> QED
      BY <3>1
  <2>3. \A n \in DOMAIN frames' : n \in DOMAIN frames \/ n = Len(frames) + 1
    BY <1>1, <2>1
  <2>4. frames'[Len(frames) + 1].drops = Cardinality(shed)
    BY <2>1 DEF TypeInv, CountsOK
  <2> QED
    BY <2>1, <2>2, <2>3, <2>4 DEF ShedFramesAreReported
<1> QED
  BY <1>2, <1>3

(* s_drops survives rung 2, so every frame carries the number of frames    *)
(* the vehicle dropped before it in the whole boot.                        *)
THEOREM ShedFramesAreReportedHolds == BuildSpec => []ShedFramesAreReported
<1>1. BuildInit => ShedFramesAreReported
  BY DEF BuildInit, Init, ShedFramesAreReported
<1> QED
  BY <1>1, ShedReported, TypeInvHolds, PTL DEF BuildSpec, buildVars

-----------------------------------------------------------------------------
(* The sensors.  heard ends with the readings the run counts, and with no  *)
(* other: capped at StuckLimit, the run is the length of the equal end.    *)
Counted(c) == IF c.run < StuckLimit THEN c.run ELSE StuckLimit

EqualEnd(c, h) ==
  LET m == Counted(c) IN
  /\ c.seen /\ c.run \in 1 .. RunMax
  /\ Len(h) \in 1 .. StuckLimit /\ m <= Len(h)
  /\ c.last = h[Len(h)]
  /\ \A k \in Len(h) - m + 1 .. Len(h) : h[k] = c.last
  /\ m < Len(h) => h[Len(h) - m] # c.last

(* What an image publishes of a reading, from the run alone.               *)
Defects(c) == {f \in {"RANGE"} : c.last \notin InRange} \cup {f \in {"STUCK"} : c.run >= StuckLimit}

Published(c) ==
  CASE build = "sensor_blind" -> c.flags = {} /\ c.value = c.last
    [] build = "sensor_paranoid" -> "RANGE" \in c.flags /\ c.value = Invalid
    [] OTHER -> /\ c.flags = Defects(c)
                /\ c.value = IF Defects(c) = {} THEN c.last ELSE Invalid

SensorOK ==
  \A s \in Sensors :
    \/ ~sensor[s].seen /\ heard[s] = <<>> /\ pc # "write"
    \/ EqualEnd(sensor[s], heard[s]) /\ Published(sensor[s])

(* What the three samplers have in common.                                 *)
LEMMA SampledCounts ==
  ASSUME NEW c \in Reading, NEW raw \in Raw
  PROVE  /\ BuildSampled(c, raw).last = raw /\ BuildSampled(c, raw).seen
         /\ BuildSampled(c, raw).run = Run(c, raw)
  BY DEF BuildSampled, Sampled, SampledBlind, SampledParanoid

LEMMA RecentIs ==
  ASSUME NEW h \in Seq(Raw), NEW raw \in Raw, NEW r, r = Recent(Append(h, raw))
  PROVE  /\ Len(h) < StuckLimit => /\ Len(r) = Len(h) + 1 /\ r[Len(h) + 1] = raw
                                   /\ \A k \in 1 .. Len(h) : r[k] = h[k]
         /\ Len(h) = StuckLimit => /\ Len(r) = StuckLimit /\ r[StuckLimit] = raw
                                   /\ \A k \in 1 .. StuckLimit - 1 : r[k] = h[k + 1]
<1> DEFINE a == Append(h, raw)
<1>1. /\ a \in Seq(Raw) /\ Len(a) = Len(h) + 1 /\ Len(h) \in Nat
      /\ a[Len(h) + 1] = raw /\ \A k \in 1 .. Len(h) : a[k] = h[k]
  OBVIOUS
<1>2. StuckLimit \in Nat \ {0}
  BY TelemetryAssumption
<1>3. CASE Len(h) < StuckLimit
  <2> HIDE DEF a
  <2>1. ~ (Len(a) > StuckLimit)
    BY <1>1, <1>2, <1>3
  <2>2. Recent(a) = SubSeq(a, 1, Len(a))
    BY <2>1 DEF Recent
  <2>3. SubSeq(a, 1, Len(a)) = a
    BY <1>1, SubSeqFull
  <2>4. r = a
    BY <2>2, <2>3 DEF a
  <2> QED
    BY <1>1, <1>3, <2>4
<1>4. CASE Len(h) = StuckLimit
  <2>1. r = SubSeq(a, 2, StuckLimit + 1)
    BY <1>1, <1>2, <1>4 DEF Recent
  <2> HIDE DEF a
  <2>2. Len(r) = StuckLimit /\ \A k \in 1 .. StuckLimit : r[k] = a[k + 1]
    BY <1>1, <1>2, <1>4, <2>1
  <2> QED
    BY <1>1, <1>2, <1>4, <2>2
<1> QED
  BY <1>1, <1>2, <1>3, <1>4

(* One reading more.                                                       *)
LEMMA EqualEndGrows ==
  ASSUME NEW c \in Reading, NEW h \in Seq(Raw), NEW raw \in Raw, NEW d, NEW r,
         (~c.seen /\ h = <<>>) \/ EqualEnd(c, h),
         d.last = raw, d.seen, d.run = Run(c, raw), r = Recent(Append(h, raw))
  PROVE  EqualEnd(d, r)
<1>1. StuckLimit \in Nat \ {0} /\ RunMax \in Nat /\ RunMax >= StuckLimit
  BY TelemetryAssumption
<1>2. Len(h) \in Nat /\ Len(h) <= StuckLimit
  BY <1>1 DEF EqualEnd
<1>3. d.run \in 1 .. RunMax
  BY RunType
<1>7. Len(h) < StuckLimit => /\ Len(r) = Len(h) + 1 /\ r[Len(h) + 1] = raw
                              /\ \A k \in 1 .. Len(h) : r[k] = h[k]
  BY RecentIs
<1>8. Len(h) = StuckLimit => /\ Len(r) = StuckLimit /\ r[StuckLimit] = raw
                              /\ \A k \in 1 .. StuckLimit - 1 : r[k] = h[k + 1]
  BY RecentIs
<1>4. CASE ~c.seen /\ h = <<>>
  <2>1. d.run = 1
    BY <1>4 DEF Run
  <2>2. Len(r) = 1 /\ r[1] = raw
    BY <1>1, <1>2, <1>4, <1>7
  <2>3. Counted(d) = 1
    BY <1>1, <2>1 DEF Counted
  <2> QED
    BY <1>1, <1>3, <2>1, <2>2, <2>3 DEF EqualEnd
<1>5. CASE EqualEnd(c, h) /\ raw # c.last
  <2>1. d.run = 1 /\ Counted(d) = 1
    BY <1>1, <1>5 DEF Run, Counted
  <2>2. CASE Len(h) < StuckLimit
    <3>1. Len(r) = Len(h) + 1 /\ r[Len(h) + 1] = raw /\ r[Len(h)] = c.last
      BY <1>2, <1>5, <1>7, <2>2 DEF EqualEnd
    <3> QED
      BY <1>1, <1>2, <1>3, <1>5, <2>1, <2>2, <3>1 DEF EqualEnd
  <2>3. CASE Len(h) = StuckLimit
    <3>1. Len(r) = StuckLimit /\ r[StuckLimit] = raw
          /\ \A k \in 1 .. StuckLimit - 1 : r[k] = h[k + 1]
      BY <1>8, <2>3
    <3>2. StuckLimit > 1 => r[StuckLimit - 1] = c.last
      BY <1>1, <1>5, <2>3, <3>1 DEF EqualEnd
    <3> QED
      BY <1>1, <1>3, <1>5, <2>1, <2>3, <3>1, <3>2 DEF EqualEnd
  <2> QED
    BY <1>2, <2>2, <2>3, <1>1
<1>6. CASE EqualEnd(c, h) /\ raw = c.last
  <2>1. c.run \in 1 .. RunMax /\ d.run = IF c.run < RunMax THEN c.run + 1 ELSE c.run
    BY <1>6 DEF Run, EqualEnd
  <2>2. Counted(d) = IF Counted(c) < StuckLimit THEN Counted(c) + 1 ELSE StuckLimit
    BY <1>1, <2>1 DEF Counted
  <2>3. Counted(c) \in 1 .. StuckLimit
    BY <1>1, <2>1 DEF Counted
  <2>4. CASE Len(h) < StuckLimit
    <3>1. Counted(d) = Counted(c) + 1
      BY <1>1, <1>2, <1>6, <2>2, <2>3, <2>4 DEF EqualEnd
    <3>2. /\ Len(r) = Len(h) + 1 /\ r[Len(h) + 1] = raw
          /\ \A k \in 1 .. Len(h) : r[k] = h[k]
      BY <1>7, <2>4
    <3>3. /\ \A k \in Len(h) - Counted(c) + 1 .. Len(h) : h[k] = raw
          /\ Counted(c) <= Len(h)
          /\ Counted(c) < Len(h) => h[Len(h) - Counted(c)] # raw
      BY <1>6 DEF EqualEnd
    <3> HIDE DEF Counted
    <3>4. ASSUME NEW k \in Len(r) - Counted(d) + 1 .. Len(r) PROVE r[k] = raw
      <4>1. k \in Int /\ Len(h) - Counted(c) + 1 <= k /\ k <= Len(h) + 1
        BY <1>2, <2>3, <3>1, <3>2
      <4>2. CASE k = Len(h) + 1
        BY <3>2, <4>2
      <4>3. CASE k <= Len(h)
        <5>1. k \in 1 .. Len(h) /\ k \in Len(h) - Counted(c) + 1 .. Len(h)
          BY <1>2, <2>3, <3>3, <4>1, <4>3
        <5> QED
          BY <3>2, <3>3, <5>1
      <4> QED
        BY <1>2, <4>1, <4>2, <4>3
    <3>5. Counted(d) < Len(r) => r[Len(r) - Counted(d)] # raw
      BY <1>2, <2>3, <3>1, <3>2, <3>3
    <3> QED
      BY <1>1, <1>2, <1>3, <2>3, <2>4, <3>1, <3>2, <3>3, <3>4, <3>5 DEF EqualEnd
  <2>5. CASE Len(h) = StuckLimit
    <3>1. Len(r) = StuckLimit /\ r[StuckLimit] = raw
          /\ \A k \in 1 .. StuckLimit - 1 : r[k] = h[k + 1]
      BY <1>8, <2>5
    <3>2. /\ \A k \in StuckLimit - Counted(c) + 1 .. StuckLimit : h[k] = raw
          /\ Counted(c) < StuckLimit => h[StuckLimit - Counted(c)] # raw
      BY <1>6, <2>5 DEF EqualEnd
    <3> HIDE DEF Counted
    <3>3. \A k \in StuckLimit - Counted(d) + 1 .. StuckLimit : r[k] = raw
      BY <1>1, <2>2, <2>3, <3>1, <3>2
    <3>4. Counted(d) < StuckLimit => r[StuckLimit - Counted(d)] # raw
      BY <1>1, <2>2, <2>3, <3>1, <3>2
    <3>5. Counted(d) \in 1 .. StuckLimit
      BY <1>1, <2>2, <2>3
    <3> QED
      BY <1>1, <1>3, <3>1, <3>3, <3>4, <3>5 DEF EqualEnd
  <2> QED
    BY <1>2, <2>4, <2>5, <1>1
<1> QED
  BY <1>4, <1>5, <1>6

LEMMA SampledIsPublished ==
  ASSUME NEW c \in Reading, NEW raw \in Raw
  PROVE  Published(BuildSampled(c, raw))
<1>1. CASE build = "sensor_blind"
  BY <1>1 DEF Published, BuildSampled, SampledBlind
<1>2. CASE build = "sensor_paranoid"
  BY <1>2 DEF Published, BuildSampled, SampledParanoid
<1>3. CASE build \notin {"sensor_blind", "sensor_paranoid"}
  BY <1>3 DEF Published, BuildSampled, Sampled, Defects
<1> QED
  BY <1>1, <1>2, <1>3

LEMMA SensorOKStep ==
  ASSUME TypeInv, SensorOK, [BuildNext]_buildVars
  PROVE  SensorOK'
<1>1. build' = build
  BY Steps
<1>2. ASSUME NEW raw \in [Sensors -> Raw],
             Dispatch(raw, [s \in Sensors |-> BuildSampled(sensor[s], raw[s])], Granted)
      PROVE  SensorOK'
  <2> SUFFICES ASSUME NEW s \in Sensors
               PROVE  EqualEnd(sensor'[s], heard'[s]) /\ Published(sensor[s])'
    BY DEF SensorOK
  <2>1. sensor'[s] = BuildSampled(sensor[s], raw[s])
        /\ heard'[s] = Recent(Append(heard[s], raw[s]))
    BY <1>2 DEF Dispatch
  <2>2. sensor[s] \in Reading /\ heard[s] \in Seq(Raw) /\ raw[s] \in Raw
    BY DEF TypeInv, TypeOK, Reading
  <2>3. Published(BuildSampled(sensor[s], raw[s]))
    BY <2>2, SampledIsPublished
  <2>4. EqualEnd(BuildSampled(sensor[s], raw[s]), Recent(Append(heard[s], raw[s])))
    BY <2>2, SampledCounts, EqualEndGrows DEF SensorOK
  <2> QED
    BY <1>1, <2>1, <2>3, <2>4 DEF Published
<1>3. CASE SubsystemReset
  BY <1>3 DEF SubsystemReset, SensorOK, NeverRead, portVars
<1>4. CASE UNCHANGED <<sensor, heard>> /\ (pc' # "write" \/ pc' = pc)
  BY <1>1, <1>4 DEF SensorOK, Published
<1> QED
  BY <1>2, <1>3, <1>4, Steps
  DEF PortTakes, Ends, PortRefuses, Abandon, ConsoleTakes, ConsoleWaits, ConsoleGivesUp, vars,
      sensorVars, portVars

(* The run reaches the limit exactly when the last StuckLimit readings are *)
(* equal.                                                                  *)
LEMMA RunIsStuck ==
  ASSUME NEW s \in Sensors, heard[s] \in Seq(Raw), EqualEnd(sensor[s], heard[s])
  PROVE  IsStuck(s) <=> sensor[s].run >= StuckLimit
<1> DEFINE c == sensor[s]
           h == heard[s]
<1>1. StuckLimit \in Nat \ {0} /\ RunMax \in Nat
  BY TelemetryAssumption
<1>2. /\ c.run \in 1 .. RunMax /\ Len(h) \in 1 .. StuckLimit /\ c.last = h[Len(h)]
      /\ DOMAIN h = 1 .. Len(h)
  BY DEF EqualEnd
<1>3. /\ Counted(c) <= Len(h)
      /\ \A k \in Len(h) - Counted(c) + 1 .. Len(h) : h[k] = c.last
      /\ Counted(c) < Len(h) => h[Len(h) - Counted(c)] # c.last
  BY DEF EqualEnd
<1>4. Now(s) = c.last
  BY <1>2 DEF Now, Last
<1>5. IsStuck(s) <=> Len(h) = StuckLimit /\ \A k \in 1 .. Len(h) : h[k] = c.last
  BY <1>2, <1>4 DEF IsStuck
<1> HIDE DEF c, h
<1>6. CASE c.run >= StuckLimit
  <2>1. Counted(c) = StuckLimit
    BY <1>1, <1>2, <1>6 DEF Counted
  <2>2. Len(h) \in Nat /\ Len(h) = StuckLimit
    <3>1. Len(h) \in 1 .. StuckLimit /\ StuckLimit \in Nat
      BY <1>1, <1>2
    <3>2. StuckLimit <= Len(h)
      BY <1>3, <2>1
    <3> QED
      BY <3>1, <3>2
  <2>3. Len(h) - Counted(c) + 1 = 1
    BY <2>1, <2>2
  <2>4. \A k \in 1 .. Len(h) : h[k] = c.last
    BY <1>3, <2>3
  <2> QED
    BY <1>5, <1>6, <2>2, <2>4 DEF c
<1>7. CASE ~ (c.run >= StuckLimit)
  <2>1. Counted(c) = c.run /\ c.run < StuckLimit
    BY <1>1, <1>2, <1>7 DEF Counted
  <2>2. Len(h) = StuckLimit => StuckLimit - c.run \in 1 .. Len(h) /\ h[StuckLimit - c.run] # c.last
    BY <1>1, <1>2, <1>3, <2>1
  <2> QED
    BY <1>5, <1>7, <2>2 DEF c
<1> QED
  BY <1>6, <1>7

(* With the flight sensor a flagged reading is never published, an         *)
(* unflagged one is what the sensor gave, and a sensor is stuck exactly    *)
(* when its last OBC_SENSOR_STUCK_LIMIT readings since the reset are       *)
(* equal; the blind sensor is caught by a reading out of range, and the    *)
(* paranoid one passes the check of a frame and never shows a clean one.   *)
THEOREM ReadingsAreHonestHolds == BuildSpec => []ReadingsAreHonest
<1>1. BuildInit => SensorOK
  BY DEF BuildInit, Init, SensorOK, NeverRead
<1>2. TypeInv /\ SensorOK => ReadingsAreHonest
  <2> SUFFICES ASSUME TypeInv, SensorOK, pc = "write", NEW s \in Sensors
               PROVE  LET passes == check_both_directions(sensor[s], InRange, Invalid) IN
                      CASE build = "sensor_blind" -> passes <=> Now(s) \in InRange
                        [] build = "sensor_paranoid" -> passes /\ ~IsClean(sensor[s])
                        [] OTHER -> passes /\ ReadingIsHonest(s)
    BY DEF ReadingsAreHonest
  <2>1. EqualEnd(sensor[s], heard[s]) /\ Published(sensor[s]) /\ heard[s] \in Seq(Raw)
    BY DEF SensorOK, TypeInv, TypeOK
  <2>2. Now(s) = sensor[s].last
    BY <2>1 DEF EqualEnd, Now, Last
  <2>3. Flaws(s) = Defects(sensor[s])
    BY <2>1, <2>2, RunIsStuck DEF Flaws, Defects
  <2>4. CASE build = "sensor_blind"
    BY <2>1, <2>2, <2>4 DEF Published, check_both_directions
  <2>5. CASE build = "sensor_paranoid"
    BY <2>1, <2>5 DEF Published, check_both_directions, IsClean
  <2>6. CASE build \notin {"sensor_blind", "sensor_paranoid"}
    <3>1. sensor[s].flags = Flaws(s)
          /\ sensor[s].value = IF Flaws(s) = {} THEN Now(s) ELSE Invalid
      BY <2>1, <2>2, <2>3, <2>6 DEF Published
    <3>2. Flaws(s) = {} => Now(s) \in InRange
      BY DEF Flaws
    <3> QED
      BY <2>6, <3>1, <3>2 DEF check_both_directions, ReadingIsHonest
  <2> QED
    BY <2>4, <2>5, <2>6
<1> QED
  BY <1>1, <1>2, SensorOKStep, TypeInvHolds, PTL DEF BuildSpec, buildVars

-----------------------------------------------------------------------------
(* The layout.  In a table the audit of obc_tlm_init passes, a row ends    *)
(* before the next one starts, whatever lies between.                      *)
Rows == [offset : Nat, width : Nat, count : Nat]

LEMMA RowFacts ==
  ASSUME NEW t \in Seq(Rows), Audit(t)
  PROVE  /\ Len(t) \in Nat \ {0} /\ DOMAIN t = 1 .. Len(t) /\ End(t, Len(t)) = FrameLen
         /\ \A k \in 1 .. Len(t) :
              /\ t[k].offset \in Nat /\ End(t, k) \in Nat /\ t[k].offset < End(t, k)
              /\ k = 1 => t[k].offset = 0
              /\ k # 1 => t[k].offset = End(t, k - 1)
<1>1. Len(t) \in Nat \ {0} /\ DOMAIN t = 1 .. Len(t) /\ End(t, Len(t)) = FrameLen
  BY DEF Audit
<1>2. ASSUME NEW k \in 1 .. Len(t)
      PROVE  /\ t[k].offset \in Nat /\ End(t, k) \in Nat /\ t[k].offset < End(t, k)
             /\ k = 1 => t[k].offset = 0
             /\ k # 1 => t[k].offset = End(t, k - 1)
  <2>1. t[k] \in Rows
    BY <1>1
  <2>2. t[k].offset \in Nat /\ t[k].count \in Nat \ {0} /\ t[k].width \in {1, 2, 4}
    BY <1>1, <2>1 DEF Rows, Audit
  <2>3. t[k].width * t[k].count \in Nat /\ t[k].width * t[k].count > 0
    <3>1. t[k].width = 1 \/ t[k].width = 2 \/ t[k].width = 4
      BY <2>2
    <3> QED
      BY <2>2, <3>1
  <2>4. t[k].offset = IF k = 1 THEN 0 ELSE End(t, k - 1)
    BY <1>1 DEF Audit
  <2> QED
    BY <2>2, <2>3, <2>4 DEF End
<1> QED
  BY <1>1, <1>2

LEMMA RowsAreOrdered ==
  ASSUME NEW t \in Seq(Rows), Audit(t),
         NEW k \in 1 .. Len(t), NEW j \in 1 .. k - 1
  PROVE  End(t, j) <= t[k].offset
<1> DEFINE Bad == {n \in 1 .. Len(t) : \E i \in 1 .. n - 1 : ~ (End(t, i) <= t[n].offset)}
<1>1. /\ Len(t) \in Nat
      /\ \A n \in 1 .. Len(t) :
           /\ t[n].offset \in Nat /\ End(t, n) \in Nat /\ t[n].offset < End(t, n)
           /\ n # 1 => t[n].offset = End(t, n - 1)
  BY RowFacts
<1>2. ASSUME Bad # {} PROVE FALSE
  <2>1. Bad \in SUBSET Nat
    BY <1>1
  <2>2. PICK m \in Bad : \A n \in Bad : m <= n
    BY <1>2, <2>1, LeastNumber
  <2>3. PICK i \in 1 .. m - 1 : ~ (End(t, i) <= t[m].offset)
    OBVIOUS
  <2>4. m \in 1 .. Len(t) /\ m - 1 \in 1 .. Len(t) /\ t[m].offset = End(t, m - 1)
    BY <1>1, <2>3
  <2>5. i # m - 1
    BY <1>1, <2>3, <2>4
  <2>6. i \in 1 .. (m - 1) - 1
    BY <1>1, <2>3, <2>4, <2>5
  <2>7. m - 1 \notin Bad
    BY <1>1, <2>2, <2>4
  <2>8. End(t, i) <= t[m - 1].offset
    BY <2>4, <2>6, <2>7
  <2>9. i \in 1 .. Len(t)
    BY <1>1, <2>4, <2>6
  <2> HIDE DEF Bad
  <2> QED
    BY <1>1, <2>3, <2>4, <2>8, <2>9
<1>3. k \notin Bad
  BY <1>2
<1> QED
  BY <1>3

(* Every byte of the frame is named by one row and only one.               *)
LEMMA AuditTiles ==
  ASSUME NEW t \in Seq(Rows), Audit(t)
  PROVE  /\ \A b \in 0 .. FrameLen - 1 :
              Cardinality({k \in DOMAIN t : b \in t[k].offset .. End(t, k) - 1}) = 1
         /\ \A k \in DOMAIN t :
              End(t, k) <= FrameLen /\ \A j \in 1 .. k - 1 : t[j].offset < t[k].offset
<1>1. /\ Len(t) \in Nat \ {0} /\ DOMAIN t = 1 .. Len(t) /\ End(t, Len(t)) = FrameLen
      /\ \A k \in 1 .. Len(t) :
           /\ t[k].offset \in Nat /\ End(t, k) \in Nat /\ t[k].offset < End(t, k)
           /\ k = 1 => t[k].offset = 0
           /\ k # 1 => t[k].offset = End(t, k - 1)
  BY RowFacts
<1>2. \A k \in 1 .. Len(t) : \A j \in 1 .. k - 1 : End(t, j) <= t[k].offset
  BY RowsAreOrdered
<1>3. ASSUME NEW k \in 1 .. Len(t), NEW j \in 1 .. k - 1
      PROVE  t[j].offset < t[k].offset
  <2>1. j \in 1 .. Len(t)
    BY <1>1
  <2> QED
    BY <1>1, <1>2, <2>1
<1>4. ASSUME NEW k \in 1 .. Len(t) PROVE End(t, k) <= FrameLen
  <2>1. CASE k = Len(t)
    BY <1>1, <2>1
  <2>2. CASE k # Len(t)
    <3>1. Len(t) \in Nat \ {0}
      BY <1>1
    <3>2. Len(t) \in 1 .. Len(t) /\ k \in 1 .. Len(t) - 1
      BY <2>2, <3>1
    <3>3. End(t, k) <= t[Len(t)].offset /\ t[Len(t)].offset < FrameLen
      BY <1>1, <1>2, <3>2
    <3> QED
      BY <1>1, <3>2, <3>3, FrameLenAssumption
  <2> QED
    BY <2>1, <2>2
<1>5. ASSUME NEW b \in 0 .. FrameLen - 1
      PROVE  \E m \in 1 .. Len(t) :
               {k \in DOMAIN t : b \in t[k].offset .. End(t, k) - 1} = {m}
  <2> DEFINE S == {k \in 1 .. Len(t) : b < End(t, k)}
  <2>1. Len(t) \in S
    BY <1>1, FrameLenAssumption
  <2>2. S \in SUBSET Nat
    BY <1>1
  <2>3. PICK m \in S : \A k \in S : m <= k
    BY <2>1, <2>2, LeastNumber
  <2>4. t[m].offset <= b /\ b < End(t, m) /\ m \in 1 .. Len(t)
    <3>1. CASE m = 1
      BY <1>1, <3>1
    <3>2. CASE m # 1
      <4>1. m - 1 \in 1 .. Len(t) /\ m - 1 \notin S
        BY <1>1, <2>3, <3>2
      <4> QED
        BY <1>1, <3>2, <4>1
    <3> QED
      BY <3>1, <3>2
  <2> HIDE DEF S
  <2>5. ASSUME NEW k \in 1 .. Len(t), k # m PROVE b \notin t[k].offset .. End(t, k) - 1
    <3>1. k \in 1 .. m - 1 \/ m \in 1 .. k - 1
      BY <1>1, <2>4, <2>5
    <3> QED
      BY <1>1, <1>2, <2>4, <3>1
  <2>6. b \in t[m].offset .. End(t, m) - 1
    BY <1>1, <2>4
  <2> QED
    BY <1>1, <2>4, <2>5, <2>6
<1>6. ASSUME NEW b \in 0 .. FrameLen - 1
      PROVE  Cardinality({k \in DOMAIN t : b \in t[k].offset .. End(t, k) - 1}) = 1
  BY <1>5, FS_Singleton
<1> QED
  BY <1>1, <1>3, <1>4, <1>6

(* A refused layout packs nothing, and no rung 2 repairs it.               *)
LayoutOK ==
  /\ layout_ok = Audit(table)
  /\ ~layout_ok => frames = <<>> /\ stream = <<>> /\ pc = "idle"

LEMMA LayoutOKStep ==
  ASSUME TypeInv, LayoutOK, [BuildNext]_buildVars
  PROVE  LayoutOK'
<1>1. table' = table /\ layout_ok' = layout_ok
  BY Steps DEF Dispatch, PortTakes, PortRefuses, Abandon, ConsoleTakes, ConsoleWaits,
               ConsoleGivesUp, SubsystemReset, vars
<1>2. ~layout_ok => frames' = frames /\ stream' = stream /\ pc' = pc
  <2> SUFFICES ASSUME ~layout_ok PROVE frames' = frames /\ stream' = stream /\ pc' = pc
    OBVIOUS
  <2>1. pc = "idle"
    BY DEF LayoutOK
  <2> QED
    BY <2>1, Steps
    DEF Dispatch, PortTakes, PortRefuses, Abandon, ConsoleTakes, ConsoleWaits,
        ConsoleGivesUp, SubsystemReset, vars, linkVars, portVars
<1> QED
  BY <1>1, <1>2 DEF LayoutOK, Audit, End

(* Nothing goes out on a layout the ground would decode differently: when  *)
(* a byte is on the line every byte of the frame is named once, in order,  *)
(* whatever table the image carries and whatever resets it lived through.  *)
THEOREM WrongLayoutIsSilentHolds == BuildSpec => []WrongLayoutIsSilent
<1>1. BuildInit => LayoutOK
  BY DEF BuildInit, Init, LayoutOK
<1>2. TypeInv /\ LayoutOK => WrongLayoutIsSilent
  <2> SUFFICES ASSUME TypeInv, LayoutOK, stream # <<>> PROVE WrongLayoutIsSilent
    BY DEF WrongLayoutIsSilent
  <2>1. Audit(table) /\ table \in Seq(Rows)
    BY TelemetryAssumption DEF LayoutOK, TypeInv, TypeOK, Rows
  <2> QED
    BY <2>1, AuditTiles DEF WrongLayoutIsSilent
<1> QED
  BY <1>1, <1>2, LayoutOKStep, TypeInvHolds, PTL DEF BuildSpec, buildVars

-----------------------------------------------------------------------------
(* The decoder.  find_frames over any line of bytes: the function Scan of  *)
(* its definition exists, because it only looks further down the line.     *)
Byte == [of : Nat, part : 1 .. FrameLen]
Line == Seq(Byte)

LEMMA LineBytes ==
  ASSUME NEW s \in Line
  PROVE  /\ Len(s) \in Nat /\ FrameLen \in Nat \ {0} /\ DOMAIN s = 1 .. Len(s)
         /\ \A q \in 1 .. Len(s) : s[q] \in Byte /\ s[q].of \in Nat
<1>1. /\ Len(s) \in Nat /\ DOMAIN s = 1 .. Len(s)
      /\ \A q \in 1 .. Len(s) : s[q] \in Byte
  BY DEF Line
<1>2. \A b \in Byte : b.of \in Nat
  BY DEF Byte
<1> QED
  BY <1>1, <1>2, FrameLenAssumption

Cands(s, i) == {at \in i .. Len(s) - FrameLen + 1 : s[at].part = 1}
RawAt(s, at) == SubSeq(s, at, at + FrameLen - 1)

ScanBody(s, f, i) ==
  IF Cands(s, i) = {} THEN <<>>
  ELSE IF SumIsRight(RawAt(s, Min(Cands(s, i))))
       THEN <<RawAt(s, Min(Cands(s, i)))[1].of>> \o f[Min(Cands(s, i)) + FrameLen]
       ELSE f[Min(Cands(s, i)) + 1]

ScanOf(s) == CHOOSE f : f = [i \in 1 .. Len(s) + 1 |-> ScanBody(s, f, i)]

LEMMA FindIsScan ==
  ASSUME NEW s
  PROVE  find_frames(s) = ScanOf(s)[1]
  BY DEF find_frames, ScanOf, ScanBody, Cands, RawAt

LEMMA FirstCandidate ==
  ASSUME NEW s \in Line, NEW i \in 1 .. Len(s) + 1, Cands(s, i) # {}, NEW at, at = Min(Cands(s, i))
  PROVE  /\ at \in i .. Len(s) - FrameLen + 1 /\ at \in 1 .. Len(s) /\ s[at].part = 1
         /\ \A q \in Cands(s, i) : at <= q
         /\ at + FrameLen \in i + 1 .. Len(s) + 1 /\ at + 1 \in i + 1 .. Len(s) + 1
<1>1. Len(s) \in Nat /\ FrameLen \in Nat \ {0} /\ i \in Nat \ {0}
  BY FrameLenAssumption DEF Line
<1>2. Cands(s, i) \in SUBSET Nat
  BY <1>1 DEF Cands
<1>3. \E m \in Cands(s, i) : \A q \in Cands(s, i) : m <= q
  BY <1>2, LeastNumber
<1>4. at \in Cands(s, i) /\ \A q \in Cands(s, i) : at <= q
  BY <1>3 DEF Min
<1>5. at \in i .. Len(s) - FrameLen + 1 /\ s[at].part = 1
  BY <1>4 DEF Cands
<1> QED
  BY <1>1, <1>4, <1>5

LEMMA ScanLooksAhead ==
  ASSUME NEW s \in Line, NEW f, NEW g, NEW i \in 1 .. Len(s) + 1,
         \A j \in i + 1 .. Len(s) + 1 : f[j] = g[j]
  PROVE  ScanBody(s, f, i) = ScanBody(s, g, i)
<1>1. CASE Cands(s, i) = {}
  BY <1>1 DEF ScanBody
<1>2. CASE Cands(s, i) # {}
  <2> DEFINE at == Min(Cands(s, i))
  <2>1. at + FrameLen \in i + 1 .. Len(s) + 1 /\ at + 1 \in i + 1 .. Len(s) + 1
    BY <1>2, FirstCandidate
  <2>2. f[at + FrameLen] = g[at + FrameLen] /\ f[at + 1] = g[at + 1]
    BY <2>1
  <2> QED
    BY <1>2, <2>2 DEF ScanBody
<1> QED
  BY <1>1, <1>2

LEMMA ScanExists ==
  ASSUME NEW s \in Line
  PROVE  \E f : f = [i \in 1 .. Len(s) + 1 |-> ScanBody(s, f, i)]
<1> DEFINE T == Len(s) + 1
           Bad == {d \in 0 .. Len(s) : ~ \E f : f = [i \in T - d .. T |-> ScanBody(s, f, i)]}
<1>1. Len(s) \in Nat /\ T \in Nat /\ FrameLen \in Nat \ {0}
  BY FrameLenAssumption DEF Line
<1>2. ASSUME Bad # {} PROVE FALSE
  <2>1. Bad \in SUBSET Nat
    BY <1>1
  <2>2. PICK d \in Bad : \A e \in Bad : d <= e
    BY <1>2, <2>1, LeastNumber
  <2>3. d \in 0 .. Len(s) /\ ~ \E f : f = [i \in T - d .. T |-> ScanBody(s, f, i)]
    OBVIOUS
  <2>4. CASE d = 0
    <3> DEFINE g == [i \in T - d .. T |-> <<>>]
    <3>1. ASSUME NEW i \in T - d .. T PROVE ScanBody(s, g, i) = <<>>
      <4>1. Cands(s, i) = {}
        BY <1>1, <2>4 DEF Cands
      <4> QED
        BY <4>1 DEF ScanBody
    <3>2. g = [i \in T - d .. T |-> ScanBody(s, g, i)]
      BY <3>1
    <3> HIDE DEF g
    <3> QED
      BY <2>3, <3>2
  <2>5. CASE d # 0
    <3>0. d \in Nat /\ d - 1 \in 0 .. Len(s) /\ ~ (d <= d - 1)
      BY <1>1, <2>3, <2>5
    <3>1. d - 1 \in 0 .. Len(s) /\ d - 1 \notin Bad
      <4> HIDE DEF Bad
      <4> QED
        BY <2>2, <3>0
    <3>2. PICK f : f = [i \in T - (d - 1) .. T |-> ScanBody(s, f, i)]
      BY <3>1
    <3> DEFINE g == [i \in T - d .. T |-> IF i = T - d THEN ScanBody(s, f, i) ELSE f[i]]
    <3>3. ASSUME NEW i \in T - d .. T PROVE g[i] = ScanBody(s, g, i)
      <4>1. i \in 1 .. Len(s) + 1 /\ \A j \in i + 1 .. Len(s) + 1 : j \in T - d .. T /\ j # T - d
        BY <1>1, <2>3
      <4>2. \A j \in i + 1 .. Len(s) + 1 : f[j] = g[j]
        BY <4>1
      <4>3. ScanBody(s, f, i) = ScanBody(s, g, i)
        BY <4>1, <4>2, ScanLooksAhead
      <4>4. CASE i = T - d
        BY <4>3, <4>4
      <4>5. CASE i # T - d
        <5>1. i \in T - (d - 1) .. T
          BY <1>1, <2>3, <4>5
        <5>2. f[i] = ScanBody(s, f, i)
          BY <3>2, <5>1
        <5> QED
          BY <4>3, <4>5, <5>2
      <4> QED
        BY <4>4, <4>5
    <3>4. g = [i \in T - d .. T |-> g[i]]
      OBVIOUS
    <3> HIDE DEF g
    <3>5. g = [i \in T - d .. T |-> ScanBody(s, g, i)]
      BY <3>3, <3>4
    <3> QED
      BY <2>3, <3>5
  <2> QED
    BY <2>4, <2>5
<1>3. Len(s) \notin Bad /\ Len(s) \in 0 .. Len(s) /\ T - Len(s) = 1
  BY <1>1, <1>2
<1> QED
  BY <1>3

LEMMA ScanUnfolds ==
  ASSUME NEW s \in Line, NEW i \in 1 .. Len(s) + 1
  PROVE  ScanOf(s)[i] = ScanBody(s, ScanOf(s), i)
<1>1. ScanOf(s) = [j \in 1 .. Len(s) + 1 |-> ScanBody(s, ScanOf(s), j)]
  BY ScanExists DEF ScanOf
<1> QED
  BY <1>1

(* Where the whole frames are.                                             *)
Whole(s) == {at \in 1 .. Len(s) - FrameLen + 1 :
               \A k \in 1 .. FrameLen : s[at + k - 1] = [of |-> s[at].of, part |-> k]}

LEMMA SumMeansWhole ==
  ASSUME NEW s \in Line, NEW at \in 1 .. Len(s) - FrameLen + 1
  PROVE  /\ RawAt(s, at)[1] = s[at]
         /\ SumIsRight(RawAt(s, at)) <=> at \in Whole(s)
<1> DEFINE raw == RawAt(s, at)
<1>1. Len(s) \in Nat /\ FrameLen \in Nat \ {0} /\ DOMAIN s = 1 .. Len(s)
  BY LineBytes
<1>2. \A q \in at .. at + FrameLen - 1 : s[q] \in Byte
  <2>1. \A q \in at .. at + FrameLen - 1 : q \in 1 .. Len(s)
    BY <1>1
  <2> QED
    BY <2>1, LineBytes
<1>3. /\ raw \in Seq(Byte) /\ Len(raw) = FrameLen
      /\ \A k \in 1 .. FrameLen : raw[k] = s[at + k - 1]
  <2>1. at \in Int /\ at + FrameLen - 1 \in Int /\ at <= at + FrameLen - 1
        /\ (at + FrameLen - 1) - at + 1 = FrameLen
        /\ \A k \in 1 .. FrameLen : at + k - 1 = k + at - 1
    BY <1>1
  <2>2. /\ raw \in Seq(Byte) /\ Len(raw) = (at + FrameLen - 1) - at + 1
        /\ \A k \in 1 .. (at + FrameLen - 1) - at + 1 : raw[k] = s[at + k - 1]
    BY <1>2, <2>1, SubSeqProperties DEF RawAt
  <2> QED
    BY <2>1, <2>2
<1>4. DOMAIN raw = 1 .. FrameLen /\ raw = [k \in 1 .. FrameLen |-> raw[k]]
  BY <1>1, <1>3
<1>5. raw[1] = s[at]
  <2>1. 1 \in 1 .. FrameLen /\ at + 1 - 1 = at
    BY <1>1
  <2> QED
    BY <1>3, <2>1
<1> HIDE DEF raw
<1>6. raw = FrameBytes(s[at].of)
        <=> \A k \in 1 .. FrameLen : raw[k] = [of |-> s[at].of, part |-> k]
  BY <1>4 DEF FrameBytes
<1>7. (\A k \in 1 .. FrameLen : raw[k] = [of |-> s[at].of, part |-> k])
        <=> \A k \in 1 .. FrameLen : s[at + k - 1] = [of |-> s[at].of, part |-> k]
  BY <1>3
<1>8. SumIsRight(raw) <=> at \in Whole(s)
  BY <1>5, <1>6, <1>7 DEF SumIsRight, Whole
<1> QED
  BY <1>5, <1>8 DEF raw

Rising(t) == \A j, k \in DOMAIN t : j < k => t[j] < t[k]

LEMMA PrependRising ==
  ASSUME NEW n \in Nat, NEW t \in Seq(Nat), Rising(t), \A x \in Range(t) : n < x
  PROVE  /\ <<n>> \o t \in Seq(Nat) /\ Range(<<n>> \o t) = {n} \cup Range(t)
         /\ Rising(<<n>> \o t)
<1> DEFINE u == <<n>> \o t
<1>1. /\ u \in Seq(Nat) /\ Len(u) = Len(t) + 1 /\ Len(t) \in Nat
      /\ u[1] = n /\ \A k \in 1 .. Len(t) : u[k + 1] = t[k]
  OBVIOUS
<1>2. DOMAIN u = 1 .. Len(t) + 1 /\ DOMAIN t = 1 .. Len(t)
  BY <1>1
<1> HIDE DEF u
<1>3. \A k \in DOMAIN u : k = 1 \/ (k - 1 \in DOMAIN t /\ u[k] = t[k - 1])
  BY <1>1, <1>2
<1>4. \A k \in DOMAIN t : t[k] \in Range(t)
  BY DEF Range
<1>5. Range(u) = {n} \cup Range(t)
  <2>1. \A k \in DOMAIN u : u[k] \in {n} \cup Range(t)
    BY <1>1, <1>3, <1>4
  <2>2. 1 \in DOMAIN u /\ \A k \in DOMAIN t : k + 1 \in DOMAIN u /\ u[k + 1] = t[k]
    BY <1>1, <1>2
  <2>3. n \in Range(u)
    BY <1>1, <2>2 DEF Range
  <2>4. \A x \in Range(t) : x \in Range(u)
    BY <2>2 DEF Range
  <2>5. \A x \in Range(u) : x \in {n} \cup Range(t)
    BY <2>1 DEF Range
  <2> QED
    BY <2>3, <2>4, <2>5
<1>6. ASSUME NEW j \in DOMAIN u, NEW k \in DOMAIN u, j < k PROVE u[j] < u[k]
  <2>1. k - 1 \in DOMAIN t /\ u[k] = t[k - 1]
    BY <1>2, <1>3, <1>6
  <2>2. CASE j = 1
    BY <1>1, <1>4, <2>1, <2>2
  <2>3. CASE j # 1
    <3>1. j - 1 \in DOMAIN t /\ u[j] = t[j - 1] /\ j - 1 < k - 1
      BY <1>2, <1>3, <1>6, <2>3
    <3> QED
      BY <2>1, <3>1 DEF Rising
  <2> QED
    BY <2>2, <2>3
<1> QED
  BY <1>1, <1>5, <1>6 DEF u, Rising

(* On a line whose whole frames come in rising order, the search finds     *)
(* each of them once, in that order: the bytes it skips behind a frame it  *)
(* found are none of them a sync word.                                     *)
Found(s, i) ==
  /\ ScanOf(s)[i] \in Seq(Nat) /\ Rising(ScanOf(s)[i])
  /\ Range(ScanOf(s)[i]) = {s[at].of : at \in {q \in Whole(s) : q >= i}}

LEMMA FoundNext ==
  ASSUME NEW s \in Line, NEW i \in 1 .. Len(s) + 1,
         \A p, q \in Whole(s) : p < q => s[p].of < s[q].of,
         \A j \in i + 1 .. Len(s) + 1 : Found(s, j)
  PROVE  Found(s, i)
<1>1. /\ Len(s) \in Nat /\ FrameLen \in Nat \ {0} /\ i \in Nat \ {0} /\ i <= Len(s) + 1
      /\ ScanOf(s)[i] = ScanBody(s, ScanOf(s), i)
      /\ \A p \in 1 .. Len(s) : s[p].of \in Nat
  BY LineBytes, ScanUnfolds
<1>2. ASSUME NEW p \in Whole(s)
      PROVE  /\ p \in 1 .. Len(s) - FrameLen + 1 /\ s[p].part = 1 /\ p \in 1 .. Len(s)
             /\ p >= i => p \in Cands(s, i)
             /\ \A q \in p + 1 .. p + FrameLen - 1 : s[q].part # 1
  <2>1. /\ p \in 1 .. Len(s) - FrameLen + 1
        /\ \A k \in 1 .. FrameLen : s[p + k - 1] = [of |-> s[p].of, part |-> k]
    BY DEF Whole
  <2>2. s[p].part = 1
    <3>1. 1 \in 1 .. FrameLen /\ p + 1 - 1 = p
      BY <1>1, <2>1
    <3>2. s[p + 1 - 1] = [of |-> s[p].of, part |-> 1]
      BY <2>1, <3>1
    <3>3. s[p] = [of |-> s[p].of, part |-> 1]
      BY <3>1, <3>2
    <3> QED
      BY <3>3
  <2>3. ASSUME NEW q \in p + 1 .. p + FrameLen - 1 PROVE s[q].part # 1
    <3>1. q - p + 1 \in 1 .. FrameLen /\ p + (q - p + 1) - 1 = q /\ q - p + 1 # 1
      BY <1>1, <2>1
    <3>2. s[q] = [of |-> s[p].of, part |-> q - p + 1]
      BY <2>1, <3>1
    <3> QED
      BY <3>1, <3>2
  <2> QED
    BY <1>1, <2>1, <2>2, <2>3 DEF Cands
<1>3. CASE Cands(s, i) = {}
  <2>1. {q \in Whole(s) : q >= i} = {}
    BY <1>2, <1>3
  <2>2. ScanOf(s)[i] = <<>>
    BY <1>1, <1>3 DEF ScanBody
  <2>3. Range(<<>>) = {} /\ <<>> \in Seq(Nat) /\ Rising(<<>>)
    BY DEF Range, Rising
  <2> QED
    BY <2>1, <2>2, <2>3 DEF Found
<1>4. CASE Cands(s, i) # {}
  <2> DEFINE at == Min(Cands(s, i))
  <2>1. /\ at \in i .. Len(s) - FrameLen + 1 /\ at \in 1 .. Len(s)
        /\ \A q \in Cands(s, i) : at <= q
        /\ at + FrameLen \in i + 1 .. Len(s) + 1 /\ at + 1 \in i + 1 .. Len(s) + 1
    BY <1>4, FirstCandidate
  <2>2. /\ RawAt(s, at)[1] = s[at] /\ (SumIsRight(RawAt(s, at)) <=> at \in Whole(s))
    <3>1. at \in 1 .. Len(s) - FrameLen + 1
      BY <1>1, <2>1
    <3> QED
      BY <3>1, SumMeansWhole
  <2>3. ScanOf(s)[i] = IF at \in Whole(s) THEN <<s[at].of>> \o ScanOf(s)[at + FrameLen]
                       ELSE ScanOf(s)[at + 1]
    BY <1>1, <1>4, <2>2 DEF ScanBody
  <2> HIDE DEF at
  <2>4. CASE at \in Whole(s)
    <3> DEFINE t == ScanOf(s)[at + FrameLen]
               R == {q \in Whole(s) : q >= at + FrameLen}
    <3>1. t \in Seq(Nat) /\ Rising(t) /\ Range(t) = {s[q].of : q \in R}
      BY <2>1 DEF Found
    <3>2. \A x \in Range(t) : s[at].of < x
      <4>1. \A q \in R : at < q
        BY <1>1, <1>2, <2>1
      <4>2. \A q \in R : s[at].of < s[q].of
        BY <2>4, <4>1
      <4> QED
        BY <3>1, <4>2
    <3>3. {q \in Whole(s) : q >= i} = {at} \cup R
      <4>1. ASSUME NEW q \in Whole(s), q >= i, q # at PROVE q >= at + FrameLen
        <5>1. q >= at /\ q \in Int /\ at \in Int /\ s[q].part = 1
          BY <1>2, <2>1, <4>1
        <5>2. q \notin at + 1 .. at + FrameLen - 1
          BY <1>2, <2>4, <5>1
        <5> QED
          BY <1>1, <4>1, <5>1, <5>2
      <4>2. \A q \in R : q >= i
        BY <1>1, <1>2, <2>1
      <4>3. at >= i
        BY <2>1
      <4> QED
        BY <2>4, <4>1, <4>2, <4>3
    <3>4. s[at].of \in Nat
      BY <1>1, <2>1
    <3> HIDE DEF t
    <3>5. /\ <<s[at].of>> \o t \in Seq(Nat) /\ Rising(<<s[at].of>> \o t)
          /\ Range(<<s[at].of>> \o t) = {s[at].of} \cup Range(t)
      BY <3>1, <3>2, <3>4, PrependRising
    <3>6. ScanOf(s)[i] = <<s[at].of>> \o t
      BY <2>3, <2>4 DEF t
    <3> HIDE DEF R
    <3>7. {s[q].of : q \in {at} \cup R} = {s[at].of} \cup {s[q].of : q \in R}
      OBVIOUS
    <3> QED
      BY <3>1, <3>3, <3>5, <3>6, <3>7 DEF Found
  <2>5. CASE at \notin Whole(s)
    <3>1. Found(s, at + 1)
      BY <2>1
    <3>2. {q \in Whole(s) : q >= i} = {q \in Whole(s) : q >= at + 1}
      <4>1. \A q \in Whole(s) : q >= i => q >= at /\ q # at /\ q \in Int
        BY <1>2, <2>1, <2>5
      <4>2. \A q \in Whole(s) : q >= at + 1 => q >= i
        BY <1>1, <1>2, <2>1
      <4> QED
        BY <2>1, <4>1, <4>2
    <3>3. ScanOf(s)[i] = ScanOf(s)[at + 1]
      BY <2>3, <2>5
    <3> QED
      BY <3>1, <3>2, <3>3 DEF Found
  <2> QED
    BY <2>4, <2>5
<1> QED
  BY <1>3, <1>4

LEMMA FoundAll ==
  ASSUME NEW s \in Line, \A p, q \in Whole(s) : p < q => s[p].of < s[q].of
  PROVE  /\ find_frames(s) \in Seq(Nat) /\ Rising(find_frames(s))
         /\ Range(find_frames(s)) = {s[at].of : at \in Whole(s)}
<1> DEFINE T == Len(s) + 1
           Bad == {d \in 0 .. Len(s) : ~ Found(s, T - d)}
<1>1. Len(s) \in Nat
  BY DEF Line
<1>2. ASSUME Bad # {} PROVE FALSE
  <2>1. Bad \in SUBSET Nat
    BY <1>1
  <2>2. PICK d \in Bad : \A e \in Bad : d <= e
    BY <1>2, <2>1, LeastNumber
  <2>3. d \in 0 .. Len(s) /\ ~ Found(s, T - d)
    OBVIOUS
  <2>4. ASSUME NEW j \in (T - d) + 1 .. Len(s) + 1 PROVE Found(s, j)
    <3>1. T - j \in 0 .. Len(s) /\ ~ (d <= T - j) /\ T - (T - j) = j
      BY <1>1, <2>3, <2>4
    <3>2. T - j \notin Bad
      BY <2>2, <3>1
    <3>3. Found(s, T - (T - j))
      BY <3>1, <3>2
    <3> QED
      BY <3>1, <3>3
  <2>5. T - d \in 1 .. Len(s) + 1
    BY <1>1, <2>3
  <2> HIDE DEF T
  <2>6. Found(s, T - d)
    BY <2>4, <2>5, FoundNext
  <2> QED
    BY <2>3, <2>6
<1>3. Len(s) \in 0 .. Len(s) /\ T - Len(s) = 1
  BY <1>1
<1>4. Found(s, 1)
  BY <1>2, <1>3
<1>5. {q \in Whole(s) : q >= 1} = Whole(s)
  <2>1. \A q \in Whole(s) : q >= 1
    BY <1>1, FrameLenAssumption DEF Whole
  <2> QED
    BY <2>1
<1> QED
  BY <1>4, <1>5, FindIsScan DEF Found

-----------------------------------------------------------------------------
(* The line.  The bytes arrive in the order they were sent; a frame that   *)
(* was neither shed nor spoilt is on the line in one piece; one that was   *)
(* lacks a byte, and that byte is never sent any more; of the frame being  *)
(* sent only the bytes the port took are there, and they end the line.     *)
SentInOrder ==
  \A p, q \in DOMAIN stream : p < q =>
    \/ stream[p].of < stream[q].of
    \/ stream[p].of = stream[q].of /\ stream[p].part < stream[q].part

Writing(n) == pc = "write" /\ n = Len(frames)

LiesAt(n, at) ==
  /\ at \in 1 .. Len(stream) - FrameLen + 1
  /\ \A k \in 1 .. FrameLen : stream[at + k - 1] = [of |-> n, part |-> k]

WholeOnes ==
  \A n \in DOMAIN frames \ (shed \cup hit) : Writing(n) \/ \E at \in Nat : LiesAt(n, at)

Lacks(n, k) == \A p \in DOMAIN stream : stream[p] # [of |-> n, part |-> k]

TornOnes ==
  \A n \in shed \cup hit :
    \E k \in 1 .. FrameLen : Lacks(n, k) /\ (Writing(n) => k <= written)

TheOneBeingSent ==
  pc = "write" =>
    /\ \A p \in DOMAIN stream : stream[p].of = Len(frames) => stream[p].part <= written
    /\ Len(frames) \notin hit =>
         /\ written <= Len(stream)
         /\ \A k \in 1 .. written :
              stream[Len(stream) - written + k] = [of |-> Len(frames), part |-> k]

LineOK == SentInOrder /\ WholeOnes /\ TornOnes /\ TheOneBeingSent

LEMMA LineFacts ==
  ASSUME TypeInv
  PROVE  /\ Len(frames) \in Nat /\ DOMAIN frames = 1 .. Len(frames)
         /\ Len(stream) \in Nat /\ DOMAIN stream = 1 .. Len(stream)
         /\ FrameLen \in Nat \ {0} /\ written \in Nat
         /\ \A p \in 1 .. Len(stream) : /\ stream[p].of \in 1 .. Len(frames)
                                        /\ stream[p].part \in 1 .. FrameLen
         /\ stream \in Line /\ shed \subseteq 1 .. Len(frames) /\ hit \subseteq 1 .. Len(frames)
         /\ pc = "idle" => written = 0
         /\ pc = "write" => /\ written < FrameLen /\ Len(frames) \in 1 .. Len(frames)
                            /\ Len(frames) \notin shed
<1> DEFINE S == [of : 1 .. Len(frames), part : 1 .. FrameLen]
<1>1. /\ Len(frames) \in Nat /\ DOMAIN frames = 1 .. Len(frames) /\ stream \in Seq(S)
      /\ FrameLen \in Nat \ {0} /\ written \in Nat
      /\ shed \subseteq 1 .. Len(frames) /\ hit \subseteq 1 .. Len(frames)
      /\ pc = "idle" => written = 0
      /\ pc = "write" => /\ written < FrameLen /\ Len(frames) \in 1 .. Len(frames)
                         /\ Len(frames) \notin shed
  BY FrameLenAssumption DEF TypeInv, TypeOK, CountsOK
<1>2. S \subseteq Byte
  BY <1>1 DEF Byte
<1>3. \A b \in S : b.of \in 1 .. Len(frames) /\ b.part \in 1 .. FrameLen
  OBVIOUS
<1> HIDE DEF S
<1>4. stream \in Line
  BY <1>1, <1>2, SeqMonotonic DEF Line
<1>5. /\ Len(stream) \in Nat /\ DOMAIN stream = 1 .. Len(stream)
      /\ \A p \in 1 .. Len(stream) : stream[p] \in S
  BY <1>1
<1> QED
  BY <1>1, <1>3, <1>4, <1>5

LEMMA LineSteps ==
  ASSUME TypeInv, [BuildNext]_buildVars
  PROVE  \/ /\ pc = "idle" /\ pc' = "write" /\ UNCHANGED <<stream, shed, hit, written>>
            /\ Len(frames') = Len(frames) + 1 /\ DOMAIN frames' = 1 .. Len(frames) + 1
         \/ (\E arrives \in BOOLEAN : PortTakes(arrives))
         \/ Abandon
         \/ /\ UNCHANGED <<stream, frames, shed, hit>> /\ (pc = "write" <=> pc' = "write")
            /\ pc = "write" => written' = written
<1>1. ASSUME NEW raw \in [Sensors -> Raw],
             Dispatch(raw, [s \in Sensors |-> BuildSampled(sensor[s], raw[s])], Granted)
      PROVE  \/ /\ pc = "idle" /\ pc' = "write" /\ UNCHANGED <<stream, shed, hit, written>>
                /\ frames' = Append(frames, [seq |-> seq, drops |-> drops, epoch |-> resets])
             \/ /\ UNCHANGED <<stream, frames, shed, hit>> /\ (pc = "write" <=> pc' = "write")
                /\ pc = "write" => written' = written
  BY <1>1 DEF Dispatch, linkVars
<1>2. CASE frames' = Append(frames, [seq |-> seq, drops |-> drops, epoch |-> resets])
  <2>1. frames \in Seq([seq : Nat, drops : Nat, epoch : 0 .. MaxResets])
    BY DEF TypeInv, TypeOK
  <2>2. Len(frames') = Len(frames) + 1 /\ DOMAIN frames' = 1 .. Len(frames) + 1
    BY <1>2, <2>1
  <2> QED
    BY <1>1, <1>2, <2>2, Steps
    DEF PortRefuses, ConsoleTakes, ConsoleWaits, ConsoleGivesUp, Ends, SubsystemReset, vars,
        linkVars, portVars
<1>3. CASE frames' # Append(frames, [seq |-> seq, drops |-> drops, epoch |-> resets])
  BY <1>1, <1>3, Steps
  DEF PortRefuses, ConsoleTakes, ConsoleWaits, ConsoleGivesUp, Ends, SubsystemReset, vars,
      linkVars, portVars
<1> QED
  BY <1>2, <1>3

LEMMA LinePacked ==
  ASSUME TypeInv, LineOK,
         pc = "idle", pc' = "write", UNCHANGED <<stream, shed, hit, written>>,
         Len(frames') = Len(frames) + 1, DOMAIN frames' = 1 .. Len(frames) + 1
  PROVE  LineOK'
<1>1. SentInOrder'
  BY DEF LineOK, SentInOrder
<1>2. ASSUME NEW n \in DOMAIN frames' \ (shed' \cup hit'), ~ Writing(n)'
      PROVE  \E at \in Nat : LiesAt(n, at)'
  <2>1. n \in DOMAIN frames \ (shed \cup hit) /\ ~ Writing(n)
    BY <1>2, LineFacts DEF Writing
  <2> QED
    BY <2>1 DEF LineOK, WholeOnes, LiesAt
<1>3. TornOnes'
  <2> SUFFICES ASSUME NEW n \in shed \cup hit
               PROVE  \E k \in 1 .. FrameLen : Lacks(n, k)' /\ (Writing(n)' => k <= written')
    BY DEF TornOnes
  <2>1. n # Len(frames')
    BY LineFacts
  <2> QED
    BY <2>1 DEF LineOK, TornOnes, Lacks, Writing
<1>4. TheOneBeingSent'
  <2>1. \A p \in DOMAIN stream : stream[p].of # Len(frames')
    BY LineFacts
  <2>2. written' = 0
    BY LineFacts
  <2> QED
    BY <2>1, <2>2, LineFacts DEF TheOneBeingSent
<1> QED
  BY <1>1, <1>2, <1>3, <1>4 DEF LineOK, WholeOnes

LEMMA LineAbandoned ==
  ASSUME TypeInv, LineOK, Abandon
  PROVE  LineOK'
<1>1. /\ pc = "write" /\ pc' = "announce" /\ UNCHANGED <<stream, hit, frames>>
      /\ shed' = shed \cup {Len(frames)}
  BY DEF Abandon, linkVars
<1>2. SentInOrder' /\ TheOneBeingSent'
  BY <1>1 DEF LineOK, SentInOrder, TheOneBeingSent
<1>3. WholeOnes'
  BY <1>1 DEF LineOK, WholeOnes, Writing, LiesAt
<1>4. ASSUME NEW n \in shed' \cup hit' PROVE \E k \in 1 .. FrameLen : Lacks(n, k)'
  <2>1. CASE n \in shed \cup hit
    BY <1>1, <2>1 DEF LineOK, TornOnes, Lacks
  <2>2. CASE n = Len(frames)
    <3>1. written + 1 \in 1 .. FrameLen
      BY <1>1, LineFacts
    <3>2. ASSUME NEW p \in DOMAIN stream PROVE stream[p] # [of |-> n, part |-> written + 1]
      <4>1. stream[p].of = n => stream[p].part <= written
        BY <1>1, <2>2 DEF LineOK, TheOneBeingSent
      <4>2. ~ (written + 1 <= written)
        BY LineFacts
      <4> QED
        BY <4>1, <4>2
    <3> QED
      BY <1>1, <3>1, <3>2 DEF Lacks
  <2> QED
    BY <1>1, <2>1, <2>2
<1> QED
  BY <1>1, <1>2, <1>3, <1>4 DEF LineOK, TornOnes, Writing

(* The port takes a byte the link carries.                                 *)
LEMMA LineByteSent ==
  ASSUME TypeInv, LineOK, pc = "write", UNCHANGED <<frames, shed, hit>>,
         stream' = Append(stream, [of |-> Len(frames), part |-> written + 1]),
         \/ written + 1 = FrameLen /\ pc' = "idle"
         \/ written + 1 # FrameLen /\ pc' = "write" /\ written' = written + 1
  PROVE  LineOK'
<1> DEFINE T == Len(stream)
           N == Len(frames)
           b == [of |-> N, part |-> written + 1]
<1>1. /\ T \in Nat /\ DOMAIN stream = 1 .. T /\ N \in Nat /\ DOMAIN frames = 1 .. N
      /\ FrameLen \in Nat \ {0} /\ written \in Nat /\ written < FrameLen
      /\ b.of = N /\ b.part = written + 1 /\ N \notin shed
  BY LineFacts
<1>2. /\ Len(stream') = T + 1 /\ DOMAIN stream' = 1 .. T + 1
      /\ stream'[T + 1] = b /\ \A p \in 1 .. T : stream'[p] = stream[p]
  BY LineFacts DEF Line
<1>3. ASSUME NEW p \in 1 .. T
      PROVE  /\ stream[p].of \in Nat /\ stream[p].of <= N
             /\ stream[p].of = N => stream[p].part <= written
             /\ stream[p].part \in Nat
  <2>1. stream[p].of \in 1 .. N /\ stream[p].part \in 1 .. FrameLen
    BY LineFacts
  <2> QED
    BY <1>1, <2>1 DEF LineOK, TheOneBeingSent
<1> HIDE DEF T, N, b
<1>4. SentInOrder'
  <2> SUFFICES ASSUME NEW p \in 1 .. T + 1, NEW q \in 1 .. T + 1, p < q
               PROVE  \/ stream'[p].of < stream'[q].of
                      \/ /\ stream'[p].of = stream'[q].of
                         /\ stream'[p].part < stream'[q].part
    BY <1>2 DEF SentInOrder
  <2>1. p \in 1 .. T
    BY <1>1
  <2>2. CASE q = T + 1
    BY <1>1, <1>2, <1>3, <2>1, <2>2
  <2>3. CASE q # T + 1
    <3>1. q \in 1 .. T
      BY <1>1, <2>3
    <3> QED
      BY <1>1, <1>2, <2>1, <3>1 DEF LineOK, SentInOrder
  <2> QED
    BY <2>2, <2>3
<1>5. ASSUME NEW n \in 1 .. N, n \notin shed \cup hit, ~ Writing(n)'
      PROVE  \E at \in Nat : LiesAt(n, at)'
  <2>1. CASE n # N
    <3>1. ~ Writing(n)
      BY <2>1 DEF Writing, N
    <3>2. PICK at \in Nat : LiesAt(n, at)
      BY <1>1, <1>5, <3>1 DEF LineOK, WholeOnes
    <3>3. /\ at \in 1 .. T - FrameLen + 1
          /\ \A k \in 1 .. FrameLen : stream[at + k - 1] = [of |-> n, part |-> k]
      BY <3>2 DEF LiesAt, T
    <3>4. \A k \in 1 .. FrameLen : at + k - 1 \in 1 .. T
      BY <1>1, <3>3
    <3>5. at \in 1 .. (T + 1) - FrameLen + 1
      BY <1>1, <3>3
    <3>6. \A k \in 1 .. FrameLen : stream'[at + k - 1] = [of |-> n, part |-> k]
      BY <1>2, <3>3, <3>4
    <3> QED
      BY <1>2, <3>5, <3>6 DEF LiesAt
  <2>2. CASE n = N
    <3>1. written + 1 = FrameLen
      BY <1>5, <2>2 DEF Writing, N
    <3>2. /\ written <= T
          /\ \A k \in 1 .. written : stream[T - written + k] = [of |-> N, part |-> k]
      BY <1>5, <2>2 DEF LineOK, TheOneBeingSent, N, T
    <3> DEFINE at == T - written + 1
    <3>3. at \in 1 .. (T + 1) - FrameLen + 1
      BY <1>1, <3>1, <3>2
    <3>4. ASSUME NEW k \in 1 .. FrameLen PROVE stream'[at + k - 1] = [of |-> N, part |-> k]
      <4>1. CASE k = FrameLen
        <5>1. at + k - 1 = T + 1 /\ k = written + 1
          BY <1>1, <3>1, <4>1
        <5> QED
          BY <1>2, <5>1 DEF b
      <4>2. CASE k # FrameLen
        <5>1. k \in 1 .. written /\ at + k - 1 = T - written + k /\ T - written + k \in 1 .. T
          BY <1>1, <3>1, <3>2, <4>2
        <5> QED
          BY <1>2, <3>2, <5>1
      <4> QED
        BY <4>1, <4>2
    <3>5. at \in Nat
      BY <1>1, <3>3
    <3> HIDE DEF at
    <3> QED
      BY <1>2, <2>2, <3>3, <3>4, <3>5 DEF LiesAt
  <2> QED
    BY <2>1, <2>2
<1>6. ASSUME NEW n \in shed \cup hit
      PROVE  \E k \in 1 .. FrameLen : Lacks(n, k)' /\ (Writing(n)' => k <= written')
  <2>1. PICK k \in 1 .. FrameLen : Lacks(n, k) /\ (Writing(n) => k <= written)
    BY DEF LineOK, TornOnes
  <2>2. b # [of |-> n, part |-> k]
    <3>1. CASE n = N
      <4>1. k <= written
        BY <2>1, <3>1 DEF Writing, N
      <4> QED
        BY <1>1, <4>1
    <3>2. CASE n # N
      BY <1>1, <3>2
    <3> QED
      BY <3>1, <3>2
  <2>3. ASSUME NEW p \in 1 .. T + 1 PROVE stream'[p] # [of |-> n, part |-> k]
    <3>1. CASE p = T + 1
      BY <1>2, <2>2, <3>1
    <3>2. CASE p # T + 1
      <4>1. p \in 1 .. T
        BY <1>1, <3>2
      <4> QED
        BY <1>1, <1>2, <2>1, <4>1 DEF Lacks
    <3> QED
      BY <3>1, <3>2
  <2>4. Writing(n)' => k <= written'
    <3> SUFFICES ASSUME Writing(n)' PROVE k <= written'
      OBVIOUS
    <3>1. n = N /\ written' = written + 1
      BY DEF Writing, N
    <3>2. k <= written
      BY <2>1, <3>1 DEF Writing, N
    <3> QED
      BY <1>1, <3>1, <3>2
  <2> QED
    BY <1>2, <2>3, <2>4 DEF Lacks
<1>7. TheOneBeingSent'
  <2> SUFFICES ASSUME pc' = "write" PROVE TheOneBeingSent'
    BY DEF TheOneBeingSent
  <2>1. written' = written + 1 /\ Len(frames') = N
    BY DEF N
  <2>2. \A p \in 1 .. T + 1 : stream'[p].of = N => stream'[p].part <= written + 1
    <3> SUFFICES ASSUME NEW p \in 1 .. T + 1, stream'[p].of = N
                 PROVE  stream'[p].part <= written + 1
      OBVIOUS
    <3>1. CASE p = T + 1
      BY <1>1, <1>2, <3>1
    <3>2. CASE p # T + 1
      <4>1. p \in 1 .. T
        BY <1>1, <3>2
      <4> QED
        BY <1>1, <1>2, <1>3, <4>1
    <3> QED
      BY <3>1, <3>2
  <2>3. ASSUME N \notin hit
        PROVE  /\ written + 1 <= T + 1
               /\ \A k \in 1 .. written + 1 :
                    stream'[(T + 1) - (written + 1) + k] = [of |-> N, part |-> k]
    <3>1. /\ written <= T
          /\ \A k \in 1 .. written : stream[T - written + k] = [of |-> N, part |-> k]
      BY <2>3 DEF LineOK, TheOneBeingSent, N, T
    <3>2. ASSUME NEW k \in 1 .. written + 1
          PROVE  stream'[(T + 1) - (written + 1) + k] = [of |-> N, part |-> k]
      <4>1. CASE k = written + 1
        <5>1. (T + 1) - (written + 1) + k = T + 1
          BY <1>1, <4>1
        <5> QED
          BY <1>2, <4>1, <5>1 DEF b
      <4>2. CASE k # written + 1
        <5>1. k \in 1 .. written /\ (T + 1) - (written + 1) + k = T - written + k
              /\ T - written + k \in 1 .. T
          BY <1>1, <3>1, <4>2
        <5> QED
          BY <1>2, <3>1, <5>1
      <4> QED
        BY <4>1, <4>2
    <3>3. written + 1 <= T + 1
      BY <1>1, <3>1
    <3> QED
      BY <3>2, <3>3
  <2> QED
    BY <1>2, <2>1, <2>2, <2>3 DEF TheOneBeingSent
<1>8. WholeOnes'
  BY <1>1, <1>5 DEF WholeOnes
<1>9. TornOnes'
  BY <1>6 DEF TornOnes
<1> QED
  BY <1>4, <1>7, <1>8, <1>9 DEF LineOK

(* The port takes a byte the link loses.                                   *)
LEMMA LineByteLost ==
  ASSUME TypeInv, LineOK, pc = "write", UNCHANGED <<stream, frames, shed>>,
         hit' = hit \cup {Len(frames)},
         \/ written + 1 = FrameLen /\ pc' = "idle"
         \/ written + 1 # FrameLen /\ pc' = "write" /\ written' = written + 1
  PROVE  LineOK'
<1>1. written \in Nat /\ written + 1 \in 1 .. FrameLen
  BY LineFacts
<1>2. SentInOrder'
  BY DEF LineOK, SentInOrder
<1>3. ASSUME NEW n \in DOMAIN frames \ (shed \cup hit'), ~ Writing(n)'
      PROVE  \E at \in Nat : LiesAt(n, at)'
  <2>1. n \notin shed \cup hit /\ ~ Writing(n)
    BY <1>3 DEF Writing
  <2> QED
    BY <2>1 DEF LineOK, WholeOnes, LiesAt
<1>4. \A p \in DOMAIN stream : stream[p].of = Len(frames) => stream[p].part <= written
  BY DEF LineOK, TheOneBeingSent
<1>5. ASSUME NEW n \in shed \cup hit'
      PROVE  \E k \in 1 .. FrameLen : Lacks(n, k)' /\ (Writing(n)' => k <= written')
  <2>1. CASE n = Len(frames)
    <3>0. PICK k \in 1 .. FrameLen : k = written + 1
      BY <1>1
    <3>1. ASSUME NEW p \in DOMAIN stream PROVE stream[p] # [of |-> n, part |-> k]
      <4>1. ~ (k <= written)
        BY <1>1, <3>0
      <4> QED
        BY <1>4, <2>1, <4>1
    <3>2. Lacks(n, k)'
      BY <3>1 DEF Lacks
    <3>3. Writing(n)' => k <= written'
      BY <1>1, <3>0 DEF Writing
    <3> QED
      BY <3>2, <3>3
  <2>2. CASE n # Len(frames)
    <3>1. n \in shed \cup hit /\ ~ Writing(n)'
      BY <2>2 DEF Writing
    <3> QED
      BY <3>1 DEF LineOK, TornOnes, Lacks
  <2> QED
    BY <2>1, <2>2
<1>6. TheOneBeingSent'
  <2> SUFFICES ASSUME pc' = "write" PROVE TheOneBeingSent'
    BY DEF TheOneBeingSent
  <2>1. written' = written + 1
    OBVIOUS
  <2>2. \A p \in DOMAIN stream : stream[p].of = Len(frames) => stream[p].part <= written + 1
    <3>1. \A p \in DOMAIN stream : stream[p].part \in Nat
      BY LineFacts
    <3> QED
      BY <1>1, <1>4, <3>1
  <2> QED
    BY <2>1, <2>2 DEF TheOneBeingSent
<1> QED
  BY <1>2, <1>3, <1>5, <1>6 DEF LineOK, WholeOnes, TornOnes

LEMMA LineOKStep ==
  ASSUME TypeInv, LineOK, [BuildNext]_buildVars
  PROVE  LineOK'
<1>1. ASSUME NEW arrives \in BOOLEAN, PortTakes(arrives)
      PROVE  LineOK'
  <2>1. /\ pc = "write" /\ UNCHANGED <<frames, shed>>
        /\ \/ /\ stream' = Append(stream, [of |-> Len(frames), part |-> written + 1])
              /\ UNCHANGED hit
           \/ hit' = hit \cup {Len(frames)} /\ UNCHANGED stream
    BY <1>1, Zenon DEF PortTakes
  <2>2. \/ written + 1 = FrameLen /\ pc' = "idle"
        \/ written + 1 # FrameLen /\ pc' = "write" /\ written' = written + 1
    BY <1>1 DEF PortTakes, Ends
  <2> QED
    BY <2>1, <2>2, LineByteSent, LineByteLost
<1>2. CASE /\ UNCHANGED <<stream, frames, shed, hit>> /\ (pc = "write" <=> pc' = "write")
           /\ pc = "write" => written' = written
  <2>1. \A n : Writing(n)' <=> Writing(n)
    BY <1>2 DEF Writing
  <2>2. SentInOrder' /\ WholeOnes'
    BY <1>2, <2>1 DEF LineOK, SentInOrder, WholeOnes, LiesAt
  <2>3. TornOnes'
    BY <1>2, <2>1 DEF LineOK, TornOnes, Lacks, Writing
  <2>4. TheOneBeingSent'
    BY <1>2 DEF LineOK, TheOneBeingSent
  <2> QED
    BY <2>2, <2>3, <2>4 DEF LineOK
<1> QED
  BY <1>1, <1>2, LineSteps, LinePacked, LineAbandoned

(* Between dispatches the whole frames on the line are those neither shed  *)
(* nor spoilt.                                                             *)
LEMMA WholeAreTheDelivered ==
  ASSUME TypeInv, LineOK, pc = "idle"
  PROVE  /\ \A p, q \in Whole(stream) : p < q => stream[p].of < stream[q].of
         /\ {stream[at].of : at \in Whole(stream)} = DOMAIN frames \ (shed \cup hit)
<1>1. /\ Len(stream) \in Nat /\ DOMAIN stream = 1 .. Len(stream) /\ FrameLen \in Nat \ {0}
      /\ \A p \in 1 .. Len(stream) : stream[p].of \in DOMAIN frames
  BY LineFacts
<1>2. ASSUME NEW at \in Whole(stream)
      PROVE  /\ at \in 1 .. Len(stream) /\ stream[at].part = 1
             /\ \A k \in 1 .. FrameLen : /\ at + k - 1 \in DOMAIN stream
                                         /\ stream[at + k - 1] = [of |-> stream[at].of, part |-> k]
  <2>1. /\ at \in 1 .. Len(stream) - FrameLen + 1
        /\ \A k \in 1 .. FrameLen : stream[at + k - 1] = [of |-> stream[at].of, part |-> k]
    BY DEF Whole
  <2>2. \A k \in 1 .. FrameLen : at + k - 1 \in DOMAIN stream
    BY <1>1, <2>1
  <2>3. 1 \in 1 .. FrameLen /\ at + 1 - 1 = at
    BY <1>1, <2>1
  <2>4. stream[at + 1 - 1] = [of |-> stream[at].of, part |-> 1]
    BY <2>1, <2>3
  <2>5. stream[at] = [of |-> stream[at].of, part |-> 1]
    BY <2>3, <2>4
  <2>6. stream[at].part = 1
    BY <2>5
  <2> QED
    BY <1>1, <2>1, <2>2, <2>6
<1>3. ASSUME NEW p \in Whole(stream), NEW q \in Whole(stream), p < q
      PROVE  stream[p].of < stream[q].of
  <2>1. stream[p].part = 1 /\ stream[q].part = 1 /\ p \in DOMAIN stream /\ q \in DOMAIN stream
    BY <1>1, <1>2
  <2> QED
    BY <1>3, <2>1 DEF LineOK, SentInOrder
<1>4. ASSUME NEW at \in Whole(stream)
      PROVE  stream[at].of \in DOMAIN frames \ (shed \cup hit)
  <2>1. stream[at].of \in DOMAIN frames
    BY <1>1, <1>2
  <2>2. ASSUME stream[at].of \in shed \cup hit PROVE FALSE
    <3>1. PICK k \in 1 .. FrameLen : Lacks(stream[at].of, k)
      BY <2>2 DEF LineOK, TornOnes
    <3> QED
      BY <1>2, <3>1 DEF Lacks
  <2> QED
    BY <2>1, <2>2
<1>5. ASSUME NEW n \in DOMAIN frames \ (shed \cup hit)
      PROVE  \E at \in Whole(stream) : n = stream[at].of
  <2>1. PICK at \in Nat : LiesAt(n, at)
    BY DEF LineOK, WholeOnes, Writing
  <2>2. /\ at \in 1 .. Len(stream) - FrameLen + 1
        /\ \A k \in 1 .. FrameLen : stream[at + k - 1] = [of |-> n, part |-> k]
    BY <2>1 DEF LiesAt
  <2>3. 1 \in 1 .. FrameLen /\ at + 1 - 1 = at
    BY <1>1, <2>2
  <2>4. stream[at + 1 - 1] = [of |-> n, part |-> 1]
    BY <2>2, <2>3
  <2>5. stream[at] = [of |-> n, part |-> 1]
    BY <2>3, <2>4
  <2>6. stream[at].of = n
    BY <2>5
  <2> QED
    BY <2>2, <2>6 DEF Whole
<1> QED
  BY <1>3, <1>4, <1>5

LEMMA InitLine == BuildInit => LineOK
<1> SUFFICES ASSUME BuildInit PROVE LineOK
  OBVIOUS
<1>1. stream = <<>> /\ frames = <<>> /\ shed = {} /\ hit = {} /\ pc = "idle"
  BY DEF BuildInit, Init
<1> QED
  BY <1>1 DEF LineOK, SentInOrder, WholeOnes, TornOnes, TheOneBeingSent

LEMMA DecodedIs ==
  ASSUME TypeInv, LineOK, pc = "idle"
  PROVE  /\ Decoded \in Seq(Nat) /\ Rising(Decoded)
         /\ Range(Decoded) = DOMAIN frames \ (shed \cup hit)
  BY WholeAreTheDelivered, FoundAll, LineFacts DEF Decoded

(* Torn frames are never taken for frames by find_frames and never hide a  *)
(* whole one, wherever the port stopped and whatever bytes the link lost:  *)
(* each whole frame is found once, in the order they were sent.            *)
THEOREM EveryWholeFrameIsFoundHolds == BuildSpec => []EveryWholeFrameIsFound
<1>1. TypeInv /\ LineOK => EveryWholeFrameIsFound
  BY DecodedIs DEF EveryWholeFrameIsFound, Rising
<1> QED
  BY <1>1, InitLine, LineOKStep, TypeInvHolds, PTL DEF BuildSpec, buildVars

-----------------------------------------------------------------------------
(* The numbers.  Within one life of the subsystem the sequence numbers are *)
(* consecutive, and a life begins with number zero.                        *)
LivesInOrder ==
  \A a, b \in DOMAIN frames : a < b =>
    /\ frames[a].epoch <= frames[b].epoch
    /\ frames[a].epoch = frames[b].epoch => frames[b].seq = frames[a].seq + (b - a)

LivesBeginAtZero ==
  \A n \in DOMAIN frames :
    \/ frames[n].seq = 0
    \/ n > 1 /\ frames[n - 1].epoch = frames[n].epoch

NextNumber ==
  /\ \A a \in DOMAIN frames :
       /\ frames[a].epoch <= resets
       /\ frames[a].epoch = resets => seq = frames[a].seq + (Len(frames) + 1 - a)
  /\ seq = 0 \/ (Len(frames) \in DOMAIN frames /\ frames[Len(frames)].epoch = resets)

NumbersOK == LivesInOrder /\ LivesBeginAtZero /\ NextNumber

LEMMA FrameFields ==
  ASSUME TypeInv
  PROVE  /\ \A n \in DOMAIN frames : /\ frames[n].seq \in Nat /\ frames[n].drops \in Nat
                                     /\ frames[n].epoch \in Nat
         /\ seq \in Nat /\ resets \in Nat
<1> DEFINE S == [seq : Nat, drops : Nat, epoch : 0 .. MaxResets]
<1>1. frames \in Seq(S) /\ seq \in Nat /\ resets \in Nat
  BY DEF TypeInv, TypeOK
<1>2. \A f \in S : f.seq \in Nat /\ f.drops \in Nat /\ f.epoch \in Nat
  BY TelemetryAssumption
<1> HIDE DEF S
<1>3. \A n \in DOMAIN frames : frames[n] \in S
  BY <1>1
<1> QED
  BY <1>1, <1>2, <1>3

LEMMA NumbersOKStep ==
  ASSUME TypeInv, NumbersOK, [BuildNext]_buildVars
  PROVE  NumbersOK'
<1> DEFINE N == Len(frames)
<1>1. /\ N \in Nat /\ DOMAIN frames = 1 .. N /\ seq \in Nat /\ resets \in Nat
      /\ \A n \in 1 .. N : frames[n].seq \in Nat /\ frames[n].epoch \in Nat
  BY LineFacts, FrameFields
<1>2. CASE UNCHANGED <<frames, seq, resets>>
  BY <1>2 DEF NumbersOK, LivesInOrder, LivesBeginAtZero, NextNumber
<1>3. CASE SubsystemReset
  <2>1. UNCHANGED frames /\ seq' = 0 /\ resets' = resets + 1
    BY <1>3 DEF SubsystemReset
  <2>2. LivesInOrder' /\ LivesBeginAtZero'
    BY <2>1 DEF NumbersOK, LivesInOrder, LivesBeginAtZero
  <2>3. \A a \in DOMAIN frames : frames[a].epoch <= resets
    BY DEF NumbersOK, NextNumber
  <2>4. NextNumber'
    BY <1>1, <2>1, <2>3 DEF NextNumber
  <2> QED
    BY <2>2, <2>4 DEF NumbersOK
<1>4. CASE ~ UNCHANGED frames
  <2>1. /\ seq' = seq + 1 /\ resets' = resets /\ Len(frames') = N + 1
        /\ DOMAIN frames' = 1 .. N + 1
        /\ \A n \in 1 .. N : frames'[n] = frames[n]
        /\ frames'[N + 1].seq = seq /\ frames'[N + 1].epoch = resets
    BY <1>1, <1>4, FramesGrow
  <2>2. /\ \A a \in 1 .. N : /\ frames[a].epoch <= resets
                             /\ frames[a].epoch = resets => seq = frames[a].seq + (N + 1 - a)
        /\ seq = 0 \/ (N \in 1 .. N /\ frames[N].epoch = resets)
    BY <1>1 DEF NumbersOK, NextNumber
  <2> HIDE DEF N
  <2>3. ASSUME NEW a \in 1 .. N + 1, NEW b \in 1 .. N + 1, a < b
        PROVE  /\ frames'[a].epoch <= frames'[b].epoch
               /\ frames'[a].epoch = frames'[b].epoch
                    => frames'[b].seq = frames'[a].seq + (b - a)
    <3>1. a \in 1 .. N
      BY <1>1, <2>3
    <3>2. CASE b = N + 1
      BY <1>1, <2>1, <2>2, <3>1, <3>2
    <3>3. CASE b # N + 1
      <4>1. b \in 1 .. N
        BY <1>1, <3>3
      <4> QED
        BY <1>1, <2>1, <2>3, <3>1, <4>1 DEF NumbersOK, LivesInOrder
    <3> QED
      BY <3>2, <3>3
  <2>4. ASSUME NEW n \in 1 .. N + 1
        PROVE  \/ frames'[n].seq = 0
               \/ n > 1 /\ frames'[n - 1].epoch = frames'[n].epoch
    <3>1. CASE n = N + 1
      <4>1. CASE seq = 0
        BY <2>1, <3>1, <4>1
      <4>2. CASE N \in 1 .. N /\ frames[N].epoch = resets
        <5>1. n > 1 /\ n - 1 = N
          BY <1>1, <3>1, <4>2
        <5> QED
          BY <2>1, <3>1, <4>2, <5>1
      <4> QED
        BY <2>2, <4>1, <4>2
    <3>2. CASE n # N + 1
      <4>1. n \in 1 .. N /\ (n > 1 => n - 1 \in 1 .. N)
        BY <1>1, <3>2
      <4> QED
        BY <1>1, <2>1, <4>1 DEF NumbersOK, LivesBeginAtZero
    <3> QED
      BY <3>1, <3>2
  <2>5. ASSUME NEW a \in 1 .. N + 1
        PROVE  /\ frames'[a].epoch <= resets
               /\ frames'[a].epoch = resets => seq + 1 = frames'[a].seq + (N + 1 + 1 - a)
    <3>1. CASE a = N + 1
      BY <1>1, <2>1, <3>1
    <3>2. CASE a # N + 1
      <4>1. a \in 1 .. N /\ a \in Nat
        BY <1>1, <3>2
      <4>2. frames'[a] = frames[a] /\ frames[a].seq \in Nat /\ frames[a].epoch <= resets
        BY <1>1, <2>1, <2>2, <4>1
      <4>3. frames[a].epoch = resets => seq = frames[a].seq + (N + 1 - a)
        BY <2>2, <4>1
      <4>4. frames[a].epoch = resets => seq + 1 = frames[a].seq + (N + 1 + 1 - a)
        <5>1. \A x, y, n, k \in Nat : x = y + (n + 1 - k) => x + 1 = y + (n + 1 + 1 - k)
          OBVIOUS
        <5>2. seq \in Nat /\ N \in Nat
          BY <1>1
        <5> QED
          BY <4>1, <4>2, <4>3, <5>1, <5>2
      <4> QED
        BY <4>2, <4>4
    <3> QED
      BY <3>1, <3>2
  <2>6. N + 1 \in 1 .. N + 1 /\ frames'[N + 1].epoch = resets
    BY <1>1, <2>1
  <2>7. LivesInOrder'
    BY <2>1, <2>3 DEF LivesInOrder
  <2>8. LivesBeginAtZero'
    BY <2>1, <2>4 DEF LivesBeginAtZero
  <2>9. NextNumber'
    BY <2>1, <2>5, <2>6 DEF NextNumber
  <2> QED
    BY <2>7, <2>8, <2>9 DEF NumbersOK
<1>5. UNCHANGED <<frames, seq, resets>> \/ SubsystemReset \/ ~ UNCHANGED frames
  <2>1. ASSUME NEW raw \in [Sensors -> Raw], NEW samples, Dispatch(raw, samples, Granted),
               UNCHANGED frames
        PROVE  UNCHANGED <<frames, seq, resets>>
    <3>1. PICK S : frames \in Seq(S)
      BY DEF TypeInv, TypeOK
    <3>2. \A f : Len(Append(frames, f)) = Len(frames) + 1
      BY <3>1
    <3>3. \A f : frames # Append(frames, f)
      <4>1. N \in Nat
        BY <1>1
      <4>2. \A n \in Nat : n + 1 # n
        OBVIOUS
      <4> QED
        BY <3>2, <4>1, <4>2
    <3> QED
      BY <2>1, <3>3 DEF Dispatch
  <2> QED
    BY <2>1, Steps
    DEF PortTakes, PortRefuses, Abandon, ConsoleTakes, ConsoleWaits, ConsoleGivesUp, vars
<1> QED
  BY <1>2, <1>3, <1>4, <1>5

LEMMA InitNumbers == BuildInit => NumbersOK
<1> SUFFICES ASSUME BuildInit PROVE NumbersOK
  OBVIOUS
<1>1. frames = <<>> /\ seq = 0
  BY DEF BuildInit, Init
<1> QED
  BY <1>1 DEF NumbersOK, LivesInOrder, LivesBeginAtZero, NextNumber

(* What the drop counter rises by between two frames that got out is the   *)
(* number of frames shed between them.                                     *)
LEMMA DropsBetween ==
  ASSUME TypeInv, ShedFramesAreReported,
         NEW a \in DOMAIN frames \ shed, NEW b \in DOMAIN frames, a < b
  PROVE  /\ IsFiniteSet(shed \cap (a + 1 .. b - 1))
         /\ frames[b].drops - frames[a].drops = Cardinality(shed \cap (a + 1 .. b - 1))
<1> DEFINE Before(n) == {k \in shed : k < n}
           Between == shed \cap (a + 1 .. b - 1)
<1>1. a \in Nat /\ b \in Nat /\ shed \subseteq Nat
  BY LineFacts
<1>2. frames[a].drops = Cardinality(Before(a)) /\ frames[b].drops = Cardinality(Before(b))
  BY DEF ShedFramesAreReported
<1>3. IsFiniteSet(shed)
  BY ShedIsFinite DEF TypeInv
<1>4. IsFiniteSet(Before(a)) /\ IsFiniteSet(Between)
  <2>1. Before(a) \in SUBSET shed /\ Between \in SUBSET shed
    OBVIOUS
  <2> QED
    BY <1>3, <2>1, FS_Subset
<1>5. Before(b) = Before(a) \cup Between
  <2>1. ASSUME NEW k \in shed PROVE k < b <=> (k < a \/ k \in a + 1 .. b - 1)
    BY <1>1
  <2> QED
    BY <2>1
<1>6. Before(a) \cap Between = {}
  BY <1>1
<1>7. Cardinality(Before(a)) \in Nat /\ Cardinality(Between) \in Nat
  BY <1>4, FS_CardinalityType
<1> HIDE DEF Before, Between
<1>8. Cardinality(Before(b))
        = Cardinality(Before(a)) + Cardinality(Between) - Cardinality(Before(a) \cap Between)
  BY <1>4, <1>5, FS_Union
<1>9. Cardinality(Before(a) \cap Between) = 0
  BY <1>6, FS_EmptySet
<1>10. frames[b].drops - frames[a].drops = Cardinality(Between)
  BY <1>2, <1>7, <1>8, <1>9
<1> QED
  BY <1>4, <1>10 DEF Between

(* Two frames the ground finds one after the other, and what lies between. *)
LEMMA Neighbours ==
  ASSUME TypeInv, LineOK, pc = "idle", NEW k \in 1 .. Len(Decoded) - 1,
         NEW a, a = Decoded[k], NEW b, b = Decoded[k + 1]
  PROVE  /\ a \in DOMAIN frames \ (shed \cup hit) /\ b \in DOMAIN frames \ (shed \cup hit)
         /\ a < b /\ a \in Nat /\ b \in Nat
         /\ Report[k] = frames[a] /\ Report[k + 1] = frames[b]
         /\ a + 1 .. b - 1 \subseteq shed \cup hit
<1>1. /\ Decoded \in Seq(Nat) /\ Rising(Decoded)
      /\ Range(Decoded) = DOMAIN frames \ (shed \cup hit)
  BY DecodedIs
<1>2. Len(Decoded) \in Nat /\ DOMAIN Decoded = 1 .. Len(Decoded)
  BY <1>1
<1> HIDE DEF Decoded
<1>3. k \in DOMAIN Decoded /\ k + 1 \in DOMAIN Decoded /\ k < k + 1
  BY <1>2
<1>4. a \in Range(Decoded) /\ b \in Range(Decoded)
  BY <1>3 DEF Range
<1>5. a < b /\ a \in Nat /\ b \in Nat
  BY <1>1, <1>3, <1>4, LineFacts DEF Rising
<1>6. Report[k] = frames[a] /\ Report[k + 1] = frames[b]
  BY <1>3 DEF Report
<1>7. ASSUME NEW c \in a + 1 .. b - 1, c \notin shed \cup hit PROVE FALSE
  <2>1. c \in Nat /\ a < c /\ c < b
    BY <1>5
  <2>2. c \in DOMAIN frames
    <3>1. /\ Len(frames) \in Nat /\ DOMAIN frames = 1 .. Len(frames)
          /\ Range(Decoded) \subseteq DOMAIN frames
      BY <1>1, LineFacts
    <3>2. b \in 1 .. Len(frames) /\ b <= Len(frames)
      BY <1>4, <3>1
    <3> QED
      BY <1>5, <2>1, <3>1, <3>2
  <2>3. PICK j \in DOMAIN Decoded : Decoded[j] = c
    BY <1>1, <1>7, <2>2 DEF Range
  <2>4. j \in Nat /\ k \in Nat
    BY <1>2, <1>3
  <2>5. CASE j <= k
    <3>1. c <= a
      <4>1. CASE j = k
        BY <1>5, <2>3, <4>1
      <4>2. CASE j # k
        <5>1. j < k
          BY <2>4, <2>5, <4>2
        <5>2. Decoded[j] < Decoded[k]
          BY <1>1, <1>3, <5>1 DEF Rising
        <5> QED
          BY <1>5, <2>1, <2>3, <5>2
      <4> QED
        BY <4>1, <4>2
    <3> QED
      BY <1>5, <2>1, <3>1
  <2>6. CASE k + 1 <= j
    <3>1. b <= c
      <4>1. CASE j = k + 1
        BY <1>5, <2>3, <4>1
      <4>2. CASE j # k + 1
        <5>1. k + 1 < j
          BY <2>4, <2>6, <4>2
        <5>2. Decoded[k + 1] < Decoded[j]
          BY <1>1, <1>3, <5>1 DEF Rising
        <5> QED
          BY <1>5, <2>1, <2>3, <5>2
      <4> QED
        BY <4>1, <4>2
    <3> QED
      BY <1>5, <2>1, <3>1
  <2> QED
    BY <2>4, <2>5, <2>6
<1> QED
  BY <1>1, <1>4, <1>5, <1>6, <1>7

LEMMA LossNoticed ==
  ASSUME TypeInv, LineOK, NumbersOK, ShedFramesAreReported, pc = "idle"
  PROVE  LossIsNoticed
<1> SUFFICES ASSUME check_sequence(Report), NEW k \in 1 .. Len(Decoded) - 1,
                    frames[Decoded[k]].epoch = frames[Decoded[k + 1]].epoch
             PROVE  Decoded[k] + 1 .. Decoded[k + 1] - 1 \subseteq shed
  BY DEF LossIsNoticed
<1>1. Len(Report) = Len(Decoded) /\ Len(Decoded) \in Nat
  <2>1. Decoded \in Seq(Nat)
    BY DecodedIs
  <2> HIDE DEF Decoded
  <2>2. DOMAIN Decoded = 1 .. Len(Decoded) /\ Len(Decoded) \in Nat
    BY <2>1
  <2> QED
    BY <2>2 DEF Report
<1>2. Follows(Report[k], Report[k + 1])
  BY <1>1 DEF check_sequence
<1> DEFINE a == Decoded[k]
           b == Decoded[k + 1]
           Between == a + 1 .. b - 1
<1>3. /\ a \in DOMAIN frames \ (shed \cup hit) /\ b \in DOMAIN frames \ (shed \cup hit)
      /\ a < b /\ a \in Nat /\ b \in Nat
      /\ Report[k] = frames[a] /\ Report[k + 1] = frames[b]
  BY Neighbours
<1>4. frames[a].epoch = frames[b].epoch
  OBVIOUS
<1> HIDE DEF a, b, Between
<1>5. /\ frames[a].seq \in Nat /\ frames[b].seq = frames[a].seq + (b - a)
  BY <1>3, <1>4, FrameFields DEF NumbersOK, LivesInOrder
<1>6. /\ IsFiniteSet(shed \cap (a + 1 .. b - 1))
      /\ frames[b].drops - frames[a].drops = Cardinality(shed \cap (a + 1 .. b - 1))
  BY <1>3, DropsBetween
<1>7. frames[b].seq # 0 /\ (frames[b].seq = frames[a].seq + 1 => b = a + 1)
      /\ frames[b].seq - frames[a].seq - 1 = b - a - 1
  BY <1>3, <1>5
<1>8. CASE b = a + 1
  BY <1>3, <1>8 DEF a, b
<1>9. CASE Cardinality(shed \cap (a + 1 .. b - 1)) = b - a - 1
  <2>1. IsFiniteSet(a + 1 .. b - 1) /\ Cardinality(a + 1 .. b - 1) = b - a - 1
    <3>1. /\ a + 1 \in Int /\ b - 1 \in Int
          /\ (IF a + 1 > b - 1 THEN 0 ELSE (b - 1) - (a + 1) + 1) = b - a - 1
      BY <1>3
    <3> QED
      BY <3>1, FS_Interval
  <2>2. shed \cap (a + 1 .. b - 1) \in SUBSET (a + 1 .. b - 1)
    OBVIOUS
  <2>3. shed \cap (a + 1 .. b - 1) = a + 1 .. b - 1
    BY <1>9, <2>1, <2>2, FS_Subset
  <2> QED
    BY <2>3 DEF a, b
<1> QED
  BY <1>2, <1>3, <1>6, <1>7, <1>8, <1>9 DEF Follows

LEMMA SheddingAccepted ==
  ASSUME TypeInv, LineOK, NumbersOK, ShedFramesAreReported, pc = "idle"
  PROVE  SheddingIsAccepted
<1> SUFFICES ASSUME hit = {}, \A n \in shed : frames[n].epoch > 0 => frames[n].seq # 0,
                    NEW k \in 1 .. Len(Report) - 1
             PROVE  Follows(Report[k], Report[k + 1])
  BY DEF SheddingIsAccepted, check_sequence
<1>1. Len(Report) = Len(Decoded)
  <2>1. Decoded \in Seq(Nat)
    BY DecodedIs
  <2> HIDE DEF Decoded
  <2>2. DOMAIN Decoded = 1 .. Len(Decoded) /\ Len(Decoded) \in Nat
    BY <2>1
  <2> QED
    BY <2>2 DEF Report
<1> DEFINE a == Decoded[k]
           b == Decoded[k + 1]
<1>2. /\ a \in DOMAIN frames \ (shed \cup hit) /\ b \in DOMAIN frames \ (shed \cup hit)
      /\ a < b /\ a \in Nat /\ b \in Nat
      /\ Report[k] = frames[a] /\ Report[k + 1] = frames[b]
      /\ a + 1 .. b - 1 \subseteq shed
  BY <1>1, Neighbours
<1> HIDE DEF a, b
<1>3. CASE frames[a].epoch = frames[b].epoch
  <2>1. frames[a].seq \in Nat /\ frames[b].seq = frames[a].seq + (b - a)
    BY <1>2, <1>3, FrameFields DEF NumbersOK, LivesInOrder
  <2>2. frames[b].drops - frames[a].drops = Cardinality(a + 1 .. b - 1)
    <3>1. shed \cap (a + 1 .. b - 1) = a + 1 .. b - 1
      BY <1>2
    <3> QED
      BY <1>2, <3>1, DropsBetween
  <2>3. Cardinality(a + 1 .. b - 1) = b - a - 1
    <3>1. /\ a + 1 \in Int /\ b - 1 \in Int
          /\ (IF a + 1 > b - 1 THEN 0 ELSE (b - 1) - (a + 1) + 1) = b - a - 1
      BY <1>2
    <3> QED
      BY <3>1, FS_Interval
  <2>4. \/ frames[b].seq = frames[a].seq + 1
        \/ /\ frames[b].seq - frames[a].seq - 1 = b - a - 1
           /\ frames[b].seq - frames[a].seq - 1 > 0
    BY <1>2, <2>1
  <2> QED
    BY <1>2, <2>2, <2>3, <2>4 DEF Follows
<1>4. CASE frames[a].epoch # frames[b].epoch
  <2> DEFINE S == {n \in a + 1 .. b : frames[n].epoch = frames[b].epoch}
  <2>1. S \in SUBSET Nat /\ b \in S
    BY <1>2
  <2>2. PICK n \in S : \A m \in S : n <= m
    BY <2>1, LeastNumber
  <2>3. n \in a + 1 .. b /\ frames[n].epoch = frames[b].epoch /\ n \in Nat
    BY <2>1
  <2>4. n \in DOMAIN frames
    BY <1>2, <2>3, LineFacts
  <2>5. frames[n].seq = 0
    <3>1. ASSUME n > 1, frames[n - 1].epoch = frames[n].epoch PROVE FALSE
      <4>1. n - 1 = a \/ n - 1 \in a + 1 .. b
        BY <1>2, <2>3
      <4>2. n - 1 \notin S
        <5>1. n - 1 \in Int /\ ~ (n <= n - 1)
          BY <2>3
        <5> HIDE DEF S
        <5> QED
          BY <2>2, <5>1
      <4> QED
        BY <1>4, <2>3, <3>1, <4>1, <4>2
    <3> QED
      BY <2>4, <3>1 DEF NumbersOK, LivesBeginAtZero
  <2>6. frames[b].epoch > 0
    <3>1. frames[a].epoch <= frames[b].epoch /\ frames[a].epoch \in Nat /\ frames[b].epoch \in Nat
      BY <1>2, FrameFields DEF NumbersOK, LivesInOrder
    <3> QED
      BY <1>4, <3>1
  <2>7. n = b
    <3>1. ASSUME n # b PROVE FALSE
      <4>1. n \in a + 1 .. b - 1
        BY <1>2, <2>3, <3>1
      <4>2. n \in shed
        BY <1>2, <4>1
      <4> QED
        BY <2>3, <2>5, <2>6, <4>2
    <3> QED
      BY <3>1
  <2>8. frames[b].seq = 0
    BY <2>5, <2>7
  <2> QED
    BY <1>2, <2>8 DEF Follows
<1> QED
  BY <1>3, <1>4

(* From the drop counter alone the ground tells a frame lost on the link   *)
(* from one the vehicle shed: what check_sequence accepts has no lost      *)
(* frame within a life of the subsystem, and a vehicle that only sheds is  *)
(* accepted, unless it shed the first frame after a rung 2 reset.          *)
THEOREM ShedIsToldFromLostHolds == BuildSpec => []ShedIsToldFromLost
<1>1. TypeInv /\ LineOK /\ NumbersOK /\ ShedFramesAreReported => ShedIsToldFromLost
  BY LossNoticed, SheddingAccepted DEF ShedIsToldFromLost
<1> QED
  BY <1>1, InitLine, LineOKStep, InitNumbers, NumbersOKStep, ShedFramesAreReportedHolds,
     TypeInvHolds, PTL DEF BuildSpec, buildVars

=============================================================================

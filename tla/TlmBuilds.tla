------------------------------ MODULE TlmBuilds ------------------------------
(***************************************************************************)
(* The telemetry task in every image the repository builds it in: the      *)
(* flight one, and those in which one file is replaced by a substitute of  *)
(* harness/broken, which the host's checks must tell from it.              *)
(*                                                                         *)
(*   sensor_blind      both detectors removed                              *)
(*   sensor_paranoid   every reading called out of range                   *)
(*   uart_stalled      the downlink held full from outside, with the       *)
(*                     allowance the harness chose                         *)
(*   uart_impatient    the downlink given up on at the first refusal       *)
(*   tlm_layout_wrong  a row of the field table cites another's offset     *)
(***************************************************************************)
EXTENDS Telemetry

CONSTANTS
  Builds,           (* the images, by the substitute they link             *)
  StallAllowances,  (* values of obc_uart_stall_allowance, 0 for unset     *)
  FlightTable       (* obc_tlm_fields of flight/tlm/frame.c                *)

ASSUME TlmBuildsAssumption ==
  /\ Builds \subseteq {"flight", "sensor_blind", "sensor_paranoid", "uart_stalled",
                       "uart_impatient", "tlm_layout_wrong"}
  /\ StallAllowances \subseteq Nat

VARIABLES
  build,            \* which image this is
  stall_allowance   \* obc_uart_stall_allowance, set before the image starts

-----------------------------------------------------------------------------
(* sensor_blind.c: the run of equal readings is kept and nothing is ever   *)
(* rejected.                                                               *)
SampledBlind(c, raw) ==
  [last |-> raw, run |-> Run(c, raw), seen |-> TRUE, flags |-> {}, value |-> raw]

(* sensor_paranoid.c: the bound is ignored.                                *)
SampledParanoid(c, raw) ==
  [last |-> raw, run |-> Run(c, raw), seen |-> TRUE, value |-> Invalid,
   flags |-> {"RANGE"} \cup {f \in {"STUCK"} : Run(c, raw) >= StuckLimit}]

BuildSampled(c, raw) ==
  CASE build = "sensor_blind" -> SampledBlind(c, raw)
    [] build = "sensor_paranoid" -> SampledParanoid(c, raw)
    [] OTHER -> Sampled(c, raw)

(* uart_stalled.c, obc_uart_downlink_write.                                *)
Granted == IF stall_allowance # 0 THEN stall_allowance ELSE RetryTotal

(* uart_impatient.c, port_putc: a full port, either of them, ends the      *)
(* write, whatever is left of the allowance.                               *)
ImpatientRefuses == Abandon \/ ConsoleGivesUp

(* tlm_layout_wrong.c, obc_tlm_fields: row k cites the row before it.      *)
CitesPrevious(t, k) == [t EXCEPT ![k].offset = t[k - 1].offset]

Substituted(t) == {CitesPrevious(t, k) : k \in 2 .. Len(t)}

BuildInit ==
  /\ build \in Builds
  /\ stall_allowance \in IF build = "uart_stalled" THEN StallAllowances ELSE {0}
  /\ Init
  /\ build \notin {"flight", "tlm_layout_wrong"} => table = FlightTable
  /\ build = "tlm_layout_wrong" => table \in Substituted(FlightTable)

BuildNext ==
  /\ UNCHANGED <<build, stall_allowance>>
  /\ \/ \E raw \in [Sensors -> Raw] :
          Dispatch(raw, [s \in Sensors |-> BuildSampled(sensor[s], raw[s])], Granted)
     \/ build = "uart_impatient" /\ ImpatientRefuses
     \/ build # "uart_impatient" /\ Refuses
     \/ Port

BuildSpec == BuildInit /\ [][BuildNext]_<<vars, build, stall_allowance>>

-----------------------------------------------------------------------------
Now(s) == Last(heard[s])
IsStuck(s) == Len(heard[s]) = StuckLimit /\ \A k \in DOMAIN heard[s] : heard[s][k] = Now(s)
Flaws(s) == {f \in {"RANGE"} : Now(s) \notin InRange} \cup {f \in {"STUCK"} : IsStuck(s)}

(* The two directions of sensor.c 99, over a frame on its way out: a       *)
(* flagged reading is never published, an unflagged one is what the sensor *)
(* gave; a sensor is stuck exactly when its last StuckLimit readings since *)
(* the reset are equal, rejected ones included; and a frame never carries  *)
(* a sensor nobody read.                                                   *)
ReadingIsHonest(s) ==
  /\ sensor[s].flags = Flaws(s)
  /\ sensor[s].value = IF Flaws(s) = {} THEN Now(s) ELSE Invalid

(* With the flight sensor that holds and the host has nothing to say.  The *)
(* blind one is caught by the first reading out of range, whatever the run *)
(* before it; the paranoid one passes the per-frame check for ever, and    *)
(* has no clean frame to show to check_honest (Makefile 1230 and 1245).    *)
ReadingsAreHonest ==
  pc = "write" => \A s \in Sensors :
    LET passes == check_both_directions(sensor[s], InRange, Invalid) IN
    CASE build = "sensor_blind" -> passes <=> Now(s) \in InRange
      [] build = "sensor_paranoid" -> passes /\ ~IsClean(sensor[s])
      [] OTHER -> passes /\ ReadingIsHonest(s)

(* stall_check.py 5: a dispatch that sheds its frame has polled the        *)
(* downlink for the whole allowance and not once more, however the port    *)
(* alternates between taking and refusing, and one that has not is the     *)
(* impatient build.                                                        *)
WaitIsBracketed ==
  /\ polls <= Granted
  /\ pc = "announce" => (polls = Granted <=> build # "uart_impatient")
=============================================================================

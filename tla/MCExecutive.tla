---------------------------- MODULE MCExecutive ----------------------------
(* Task tables for the model checker: the flight table of tasks.c, and a   *)
(* smaller one with a row of each kind.                                    *)
EXTENDS TraceCheck, TLC

Row(p, e, r) == [period |-> p, essential |-> e, resettable |-> r]

(* housekeeping, telemetry, scrub, audit, command *)
FlightTable ==
  0 :> Row(1, TRUE, FALSE) @@ 1 :> Row(2, TRUE, TRUE) @@ 2 :> Row(4, FALSE, FALSE)
    @@ 3 :> Row(8, FALSE, FALSE) @@ 4 :> Row(1, TRUE, TRUE)

(* an essential row with no subsystem, a row that is not essential, and an *)
(* essential row with one                                                  *)
SmallTable ==
  0 :> Row(1, TRUE, FALSE) @@ 1 :> Row(2, FALSE, FALSE) @@ 2 :> Row(1, TRUE, TRUE)

(* an essential row with a subsystem, and one that is not essential *)
PairTable == 0 :> Row(1, TRUE, TRUE) @@ 1 :> Row(2, FALSE, FALSE)
=============================================================================

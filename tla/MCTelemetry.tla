---------------------------- MODULE MCTelemetry ----------------------------
(* The field tables of the model checker's instance of TlmBuilds.          *)
EXTENDS TlmBuilds

Row(offset, width, count) == [offset |-> offset, width |-> width, count |-> count]

(* The right layout of a three-byte frame, and the defects a table can     *)
(* carry: a row that cites the one before it, a gap, an overlap, a swap, a *)
(* missing tail, a field too many, a width no reader knows, no row at all. *)
MCFlightTable == <<Row(0, 1, 1), Row(1, 2, 1)>>

MCTables ==
  {MCFlightTable,
   <<Row(0, 1, 1), Row(0, 2, 1)>>,
   <<Row(0, 1, 1), Row(2, 1, 1)>>,
   <<Row(0, 2, 1), Row(1, 1, 2)>>,
   <<Row(2, 1, 1), Row(0, 2, 1)>>,
   <<Row(0, 1, 2)>>,
   <<Row(0, 1, 2), Row(2, 2, 1)>>,
   <<Row(0, 3, 1)>>,
   <<>>}

(* The frame of the build as one field, for the run that counts polls.     *)
WholeFrame == <<Row(0, 1, FrameLen)>>
FlightOnly == {WholeFrame}
=============================================================================

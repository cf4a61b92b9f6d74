--------------------------- MODULE CommandLedger ---------------------------
(***************************************************************************)
(* What the command path promises the ground: a ledger of orders.  An      *)
(* order is entered at most once, in the order of the counters, and while  *)
(* there is room; from then on it is executed once, in the first frame     *)
(* that is served and does not start before its tag, the earliest tag      *)
(* first, or it is dropped with every other order that waits, and counted. *)
(* Nothing here knows of bytes, slots, passes or arming.                   *)
(***************************************************************************)
EXTENDS Integers, Sequences, FiniteSets

CONSTANTS
  Orders,      (* what can be ordered: a command, a tag and a counter      *)
  Capacity,    (* orders that can wait at once                             *)
  Period       (* ticks from one frame to the next                         *)

VARIABLES
  pending,     \* the orders that wait
  ran,         \* the orders executed, in order
  dropped,     \* how many were dropped
  last,        \* the highest counter entered
  now,         \* the tick the frame started at
  served       \* commands are executed in this frame

ledger == <<pending, ran, dropped, last, now, served>>

Init ==
  /\ pending = {} /\ ran = <<>> /\ dropped = 0 /\ last = 0
  /\ now = 0 /\ served = TRUE

Enter(o) ==
  /\ served /\ o.counter > last /\ Cardinality(pending) < Capacity
  /\ pending' = pending \cup {o} /\ last' = o.counter
  /\ UNCHANGED <<ran, dropped, now, served>>

IsDue(o) == o.when <= now

Execute(o) ==
  /\ served /\ IsDue(o) /\ \A p \in pending : o.when <= p.when
  /\ pending' = pending \ {o} /\ ran' = Append(ran, o)
  /\ UNCHANGED <<dropped, last, now, served>>

Drop ==
  /\ pending' = {} /\ dropped' = dropped + Cardinality(pending)
  /\ UNCHANGED <<ran, last, now, served>>

NextFrame ==
  /\ served => \A o \in pending : ~IsDue(o)
  /\ now' = now + Period /\ served' \in BOOLEAN
  /\ UNCHANGED <<pending, ran, dropped, last>>

Next ==
  \/ \E o \in Orders : Enter(o)
  \/ \E o \in pending : Execute(o)
  \/ Drop
  \/ NextFrame

Spec == Init /\ [][Next]_ledger
=============================================================================

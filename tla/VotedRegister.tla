--------------------------- MODULE VotedRegister ---------------------------
(***************************************************************************)
(* What critical state gives its callers: a register per item that may     *)
(* refuse to answer.  A read takes time; one that is disturbed while it    *)
(* runs may misread, and the register then holds what it read.  Nothing    *)
(* else but a write changes a value, and an answer is always the value.    *)
(***************************************************************************)
CONSTANTS Items, Values, NoWord

VARIABLES
  value,     \* the value held, per item
  reading,   \* the item of the read that runs, 0 outside a read
  disturbed, \* the read that runs was disturbed and has not misread
  reply      \* the answer of the last read, unless one runs

Reply(i, status, v) == [item |-> i, status |-> status, value |-> v]

Init ==
  /\ value \in [Items -> Values]
  /\ reading = 0 /\ disturbed = FALSE
  /\ \E i \in Items : reply = Reply(i, "none", NoWord)

Write(i, v) ==
  /\ reading = 0
  /\ value' = [value EXCEPT ![i] = v]
  /\ reply' = Reply(i, "none", NoWord)
  /\ UNCHANGED <<reading, disturbed>>

ReadBegins(i) ==
  /\ reading = 0
  /\ reading' = i /\ disturbed' = FALSE
  /\ reply' = Reply(i, "none", NoWord)
  /\ UNCHANGED value

Disturb ==
  /\ reading # 0
  /\ disturbed' = TRUE
  /\ UNCHANGED <<value, reading, reply>>

(* At most once in a read, and in no read that was left alone.             *)
Settle ==
  /\ reading # 0 /\ disturbed
  /\ \E v \in Values : value' = [value EXCEPT ![reading] = v]
  /\ disturbed' = FALSE
  /\ UNCHANGED <<reading, reply>>

ReadEnds ==
  /\ reading # 0
  /\ \/ reply' = Reply(reading, "OK", value[reading])
     \/ reply' = Reply(reading, "UNSTABLE", NoWord)
  /\ reading' = 0 /\ disturbed' = FALSE
  /\ UNCHANGED value

Next ==
  \/ \E i \in Items : ReadBegins(i) \/ \E v \in Values : Write(i, v)
  \/ Disturb \/ Settle \/ ReadEnds

Spec == Init /\ [][Next]_<<value, reading, disturbed, reply>>
=============================================================================

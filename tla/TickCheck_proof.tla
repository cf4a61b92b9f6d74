-------------------------- MODULE TickCheck_proof --------------------------
(***************************************************************************)
(* Theorems about the timer reader, under any caller, and about the        *)
(* clock's self-check at boot over every reader: for every register size,  *)
(* retry budget, number of readings, plausible step and timebase, and a    *)
(* timer that advances or stands still as it likes.                        *)
(***************************************************************************)
EXTENDS TickCheck, TLAPS

(* Where the reader's locals stand with respect to the timer, load by load:*)
(* what makes ReadIsAnInstant inductive.                                   *)
LoadsInOrder ==
  /\ entered \preceq timer
  /\ (pc = "lo" => entered.hi <= hi /\ hi <= timer.hi)
  /\ pc = "again" => /\ entered.hi <= hi /\ hi <= timer.hi
                     /\ hi = timer.hi =>
                          [hi |-> hi, lo |-> lo] \preceq timer
                          /\ entered \preceq [hi |-> hi, lo |-> lo]

IInv == TypeOK /\ LoadsInOrder /\ ReadIsAnInstant

(* Where a call starts, and what it adds to the count of the unstable      *)
(* reader.                                                                 *)
LEMMA FirstLoadType ==
  /\ FirstLoad \in {"hi", "naive_lo"}
  /\ FirstLoad = "naive_lo" => reader = "naive"
BY DEF FirstLoad

LEMMA CountCallType ==
  ASSUME TypeOK, CountCall PROVE reads' \in 0 .. FailsAfter
BY MtimeAssumption DEF TypeOK, CountCall

(* Every variable keeps its type: the locals stay words, the loop counter  *)
(* stays below the retry budget of obc_mtime_read.                         *)
THEOREM TypeCorrect == Spec => []TypeOK
<1>1. Init => TypeOK
  BY MtimeAssumption DEF Init, TypeOK, Time
<1>2. TypeOK /\ [Next]_vars => TypeOK'
  <2> SUFFICES ASSUME TypeOK, [Next]_vars PROVE TypeOK'
    OBVIOUS
  <2>1. CASE Advance
    BY <2>1 DEF Advance, linked, TypeOK, locals
  <2>2. CASE Enter
    BY <2>2, FirstLoadType, CountCallType, MtimeAssumption DEF Enter, TypeOK
  <2>3. CASE ReadHi
    BY <2>3 DEF ReadHi, linked, TypeOK, Time
  <2>4. CASE ReadLo
    BY <2>4 DEF ReadLo, linked, TypeOK, Time
  <2>5. CASE Settled
    BY <2>5 DEF Settled, linked, TypeOK, Time, locals
  <2>6. CASE Retry
    BY <2>6, MtimeAssumption DEF Retry, linked, TypeOK
  <2>7. CASE GiveUp
    BY <2>7 DEF GiveUp, linked, TypeOK, locals
  <2>9. CASE NaiveLo
    BY <2>9 DEF NaiveLo, linked, TypeOK, Time
  <2>10. CASE NaiveHi
    BY <2>10 DEF NaiveHi, linked, TypeOK, Time, locals
  <2>11. CASE RefuseForGood
    BY <2>11 DEF RefuseForGood, linked, TypeOK, locals
  <2>8. CASE UNCHANGED vars
    BY <2>8 DEF vars, TypeOK, linked, locals
  <2> QED
    BY <2>1, <2>2, <2>3, <2>4, <2>5, <2>6, <2>7, <2>8, <2>9, <2>10, <2>11
    DEF Next, obc_mtime_read
<1> QED
  BY <1>1, <1>2, PTL DEF Spec

(* The order of timer values is reflexive and transitive on Time.          *)
LEMMA PrecedesOrder ==
  ASSUME NEW a \in Time, NEW b \in Time, NEW c \in Time
  PROVE  a \preceq a /\ (a \preceq b /\ b \preceq c => a \preceq c)
BY MtimeAssumption DEF Time, \preceq

LEMMA IInvHolds == Spec => []IInv
<1>1. Init => IInv
  BY MtimeAssumption
  DEF Init, IInv, TypeOK, LoadsInOrder, ReadIsAnInstant, IsAnInstant, Time, \preceq
<1>2. IInv /\ TypeOK' /\ [Next]_vars => IInv'
  <2> SUFFICES ASSUME IInv, TypeOK', [Next]_vars
               PROVE  LoadsInOrder' /\ ReadIsAnInstant'
    BY DEF IInv
  <2> USE MtimeAssumption DEF IInv, TypeOK, LoadsInOrder, ReadIsAnInstant, IsAnInstant, Time
  <2>1. CASE Advance
    <3>1. timer \preceq timer'
      BY <2>1 DEF Advance
    <3>2. \A t \in Time : t \preceq timer => t \preceq timer'
      BY <3>1, PrecedesOrder
    <3>3. out \in Time /\ entered \in Time
      OBVIOUS
    <3>4. UNCHANGED <<reader, out, entered, status>>
      BY <2>1 DEF Advance, linked
    <3>5. ReadIsAnInstant' /\ entered' \preceq timer'
      BY <3>2, <3>3, <3>4
    <3> QED
      BY <2>1, <3>5 DEF Advance, locals, \preceq
  <2>2. CASE Enter
    <3>1. pc' \in {"hi", "naive_lo"} /\ status' = "none"
      BY <2>2, FirstLoadType DEF Enter
    <3> QED
      BY <2>2, <3>1, PrecedesOrder DEF Enter
  <2>3. CASE ReadHi
    BY <2>3 DEF ReadHi, linked, \preceq
  <2>4. CASE ReadLo
    BY <2>4 DEF ReadLo, linked, \preceq
  <2>5. CASE Settled
    BY <2>5 DEF Settled, linked, locals, \preceq
  <2>6. CASE Retry
    BY <2>6 DEF Retry, linked
  <2>7. CASE GiveUp
    BY <2>7 DEF GiveUp, linked, locals
  <2>9. CASE NaiveLo
    BY <2>9 DEF NaiveLo, linked, \preceq
  <2>10. CASE NaiveHi
    <3>1. pc' = "idle" /\ UNCHANGED <<timer, entered>>
      BY <2>10 DEF NaiveHi
    <3>2. reader' = "naive"
      BY <2>10 DEF NaiveHi, linked
    <3> QED
      BY <3>1, <3>2
  <2>11. CASE RefuseForGood
    BY <2>11 DEF RefuseForGood, linked, locals, \preceq
  <2>8. CASE UNCHANGED vars
    BY <2>8 DEF vars, locals, linked
  <2> QED
    BY <2>1, <2>2, <2>3, <2>4, <2>5, <2>6, <2>7, <2>8, <2>9, <2>10, <2>11
    DEF Next, obc_mtime_read
<1> QED
  BY <1>1, <1>2, TypeCorrect, PTL DEF Spec, IInv

(* The value obc_mtime_read hands out was on the timer between its entry   *)
(* and its return, for any register size and any advance of the hardware.  *)
THEOREM ReadIsAnInstantHolds == Spec => []ReadIsAnInstant
<1>1. IInv => ReadIsAnInstant
  BY DEF IInv
<1> QED
  BY <1>1, IInvHolds, PTL

(* Every round that did not settle cost the timer a high word.             *)
RoundsAreCarries ==
  /\ pc # "idle" => entered.hi + attempt <= timer.hi
  /\ pc \in {"lo", "again"} => entered.hi + attempt <= hi /\ hi <= timer.hi

CarryInv == TypeOK /\ RoundsAreCarries /\ UnstableMeansManyCarries

(* UNSTABLE is returned only after a carry in every round: the budget of   *)
(* rounds is enough for a timer that is merely running.                    *)
THEOREM RetryBudgetIsEnough == Spec => []UnstableMeansManyCarries
<1>1. Init => CarryInv
  BY MtimeAssumption DEF Init, CarryInv, TypeOK, RoundsAreCarries, Time,
     UnstableMeansManyCarries
<1>2. CarryInv /\ TypeOK' /\ [Next]_vars => CarryInv'
  <2> SUFFICES ASSUME CarryInv, TypeOK', [Next]_vars
               PROVE  RoundsAreCarries' /\ UnstableMeansManyCarries'
    BY DEF CarryInv
  <2> USE MtimeAssumption DEF CarryInv, TypeOK, RoundsAreCarries, Time,
      UnstableMeansManyCarries
  <2>1. CASE Advance
    <3>1. timer.hi <= timer'.hi
      BY <2>1 DEF Advance, \preceq
    <3> QED
      BY <2>1, <3>1 DEF Advance, linked, locals
  <2>2. CASE Enter
    <3>1. pc' \in {"hi", "naive_lo"} /\ status' = "none"
      BY <2>2, FirstLoadType DEF Enter
    <3> QED
      BY <2>2, <3>1 DEF Enter
  <2>3. CASE ReadHi
    BY <2>3 DEF ReadHi, linked
  <2>4. CASE ReadLo
    BY <2>4 DEF ReadLo, linked
  <2>5. CASE Settled
    BY <2>5 DEF Settled, linked, locals
  <2>6. CASE Retry
    BY <2>6 DEF Retry, linked
  <2>7. CASE GiveUp
    BY <2>7 DEF GiveUp, linked, locals
  <2>9. CASE NaiveLo
    BY <2>9 DEF NaiveLo, linked
  <2>10. CASE NaiveHi
    BY <2>10 DEF NaiveHi, linked, locals
  <2>11. CASE RefuseForGood
    BY <2>11 DEF RefuseForGood, linked, locals
  <2>8. CASE UNCHANGED vars
    BY <2>8 DEF vars, locals, linked
  <2> QED
    BY <2>1, <2>2, <2>3, <2>4, <2>5, <2>6, <2>7, <2>8, <2>9, <2>10, <2>11
    DEF Next, obc_mtime_read
<1> QED
  BY <1>1, <1>2, TypeCorrect, PTL DEF Spec, CarryInv

-----------------------------------------------------------------------------
(* The self-check uses the reader and does nothing else to it: what holds  *)
(* of the reader under any caller holds of it here.                        *)
LEMMA CheckIsACaller == CheckSpec => Spec
<1>1. CheckInit => Init
  BY DEF CheckInit
<1>2. [CheckNext]_allVars => [Next]_vars
  <2> SUFFICES ASSUME [CheckNext]_allVars PROVE [Next]_vars
    OBVIOUS
  <2>1. CASE Passes
    BY <2>1 DEF Passes, Next
  <2>2. CASE Call
    BY <2>2 DEF Call, Next
  <2>3. CASE Read
    BY <2>3 DEF Read, Next
  <2>4. CASE Refused \/ FirstReading \/ TickReading \/ BaseBegins \/ BaseReading
    BY <2>4 DEF Refused, FirstReading, TickReading, BaseBegins, BaseReading
  <2>5. CASE Over \/ UNCHANGED allVars
    BY <2>5 DEF Over, allVars
  <2> QED
    BY <2>1, <2>2, <2>3, <2>4, <2>5 DEF CheckNext, SelfCheck
<1> QED
  BY <1>1, <1>2, PTL DEF CheckSpec, Spec

(* What the self-check is handed by the flight reader was the time, in     *)
(* every one of its readings.                                              *)
THEOREM CheckReadsInstants == CheckSpec => []ReadIsAnInstant
  BY CheckIsACaller, ReadIsAnInstantHolds, PTL

(* The self-check is refused by the flight reader only when the timer      *)
(* carried in every round.                                                 *)
THEOREM CheckIsRefusedForCarries == CheckSpec => []UnstableMeansManyCarries
  BY CheckIsACaller, RetryBudgetIsEnough, PTL

-----------------------------------------------------------------------------
(* The 64-bit value of the two registers.                                  *)
LEMMA Carries ==
  ASSUME NEW m \in Nat, NEW n \in Nat, m < n
  PROVE  m * Words + Words <= n * Words
<1>1. Words \in Nat /\ n - m - 1 \in Nat
  BY MtimeAssumption
<1>2. (n - m - 1) * Words \in Nat
  BY <1>1
<1>3. (n - m - 1) * Words = n * Words - m * Words - Words
  BY <1>1
<1>4. m * Words \in Nat /\ n * Words \in Nat
  BY <1>1
<1> QED
  BY <1>1, <1>2, <1>3, <1>4

LEMMA TicksType ==
  ASSUME NEW t \in Time
  PROVE  Ticks(t) \in Nat /\ t.hi \in Nat /\ t.lo \in 0 .. Words - 1 /\ Words \in Nat \ {0}
<1>1. t.hi \in Nat /\ t.lo \in 0 .. Words - 1 /\ t.lo \in Nat /\ Words \in Nat \ {0}
  BY MtimeAssumption DEF Time
<1>2. t.hi * Words \in Nat
  BY <1>1
<1> QED
  BY <1>1, <1>2 DEF Ticks

LEMMA TicksKeepOrder ==
  ASSUME NEW a \in Time, NEW b \in Time, a \preceq b
  PROVE  Ticks(a) <= Ticks(b)
<1>1. /\ a.hi \in Nat /\ b.hi \in Nat /\ a.lo \in 0 .. Words - 1 /\ b.lo \in 0 .. Words - 1
      /\ Words \in Nat \ {0}
  BY TicksType
<1>2. a.hi * Words \in Nat /\ b.hi * Words \in Nat
  BY <1>1
<1>3. CASE a.hi < b.hi
  <2>1. a.hi * Words + Words <= b.hi * Words
    BY <1>1, <1>3, Carries
  <2> QED
    BY <1>1, <1>2, <2>1 DEF Ticks
<1>4. CASE a.hi = b.hi /\ a.lo <= b.lo
  BY <1>1, <1>2, <1>4 DEF Ticks
<1> QED
  BY <1>3, <1>4 DEF \preceq

(* A high word more, and the low word the same.                            *)
LEMMA TicksCarry ==
  ASSUME NEW a \in Time, NEW b \in Time, a.lo = b.lo, a.hi < b.hi
  PROVE  Ticks(a) + Words <= Ticks(b)
<1>1. a.hi \in Nat /\ b.hi \in Nat /\ a.lo \in Nat /\ Words \in Nat
  BY TicksType
<1>2. a.hi * Words \in Nat /\ b.hi * Words \in Nat /\ a.hi * Words + Words <= b.hi * Words
  BY <1>1, Carries
<1> QED
  BY <1>1, <1>2 DEF Ticks

LEMMA TicksTwoCarries ==
  ASSUME NEW a \in Time, NEW b \in Time, a.hi + 2 <= b.hi
  PROVE  Ticks(a) + Words <= Ticks(b)
<1>1. /\ a.hi \in Nat /\ b.hi \in Nat /\ a.lo \in 0 .. Words - 1 /\ b.lo \in 0 .. Words - 1
      /\ Words \in Nat \ {0}
  BY TicksType
<1>2. a.hi * Words + Words <= (a.hi + 1) * Words /\ (a.hi + 1) * Words + Words <= b.hi * Words
  BY <1>1, Carries
<1>3. a.hi * Words \in Nat /\ b.hi * Words \in Nat /\ (a.hi + 1) * Words \in Nat
  BY <1>1
<1> QED
  BY <1>1, <1>2, <1>3 DEF Ticks

(* Modulo the register, what has gone by is never overstated.              *)
LEMMA RemainderIsLeast ==
  ASSUME NEW x \in Int, NEW y \in Nat, NEW k \in Int, x = y + k * Words
  PROVE  x % Words <= y
<1>1. Words \in Nat \ {0}
  BY MtimeAssumption
<1>2. PICK q \in Int : x = q * Words + (x % Words)
  <2>1. x \div Words \in Int
    BY <1>1
  <2>2. x = (x \div Words) * Words + (x % Words)
    BY <1>1
  <2> QED
    BY <2>1, <2>2
<1>3. x % Words \in 0 .. Words - 1
  BY <1>1
<1> DEFINE r == x % Words
<1>4. r = y + (k - q) * Words
  <2>1. (k - q) * Words = k * Words - q * Words
    BY <1>1
  <2>2. k * Words \in Int /\ q * Words \in Int
    BY <1>1
  <2> QED
    BY <1>1, <1>2, <1>3, <2>1, <2>2
<1>5. CASE k - q <= 0
  <2>1. (k - q) * Words <= 0
    BY <1>1, <1>5
  <2>2. (k - q) * Words \in Int
    BY <1>1
  <2> QED
    BY <1>1, <1>3, <1>4, <2>1, <2>2
<1>6. CASE k - q >= 1
  <2>1. (k - q) * Words >= Words
    BY <1>1, <1>6
  <2>2. (k - q) * Words \in Int
    BY <1>1
  <2> QED
    BY <1>1, <1>3, <1>4, <2>1, <2>2
<1> QED
  BY <1>1, <1>5, <1>6

-----------------------------------------------------------------------------
(* A reading.  Whichever reader took it, its low word was on the timer     *)
(* during the call under a high word no larger than the one it came with,  *)
(* and that one was there by the end: the naive read is wrong by whole     *)
(* high words, upwards, or not at all.                                     *)
At(h, l) == [hi |-> h, lo |-> l]

During(h, l) == entered \preceq At(h, l) /\ At(h, l) \preceq timer

ReadOK ==
  /\ pc = "naive_hi" => \E h \in 0 .. MaxHi : During(h, lo)
  /\ status = "OK" => /\ out.hi <= timer.hi
                      /\ \E h \in 0 .. out.hi : During(h, out.lo)

LEMMA ReadOKHolds == Spec => []ReadOK
<1>1. Init => ReadOK
  BY DEF Init, ReadOK
<1>2. IInv /\ IInv' /\ ReadOK /\ [Next]_vars => ReadOK'
  <2> SUFFICES ASSUME IInv, IInv', ReadOK, [Next]_vars PROVE ReadOK'
    OBVIOUS
  <2>0. /\ timer \in Time /\ timer' \in Time /\ out \in Time /\ entered \in Time
        /\ lo \in 0 .. Words - 1 /\ hi \in 0 .. MaxHi /\ MaxHi \in Nat
        /\ \A t \in Time : t.hi \in 0 .. MaxHi /\ t.hi \in Nat /\ t.lo \in 0 .. Words - 1
    BY MtimeAssumption DEF IInv, TypeOK, Time
  <2>1. CASE Advance
    <3>1. timer \preceq timer' /\ UNCHANGED <<pc, lo, out, entered, status>>
      BY <2>1 DEF Advance, locals
    <3>2. \A h \in 0 .. MaxHi : \A l \in 0 .. Words - 1 : At(h, l) \in Time
      BY DEF At, Time
    <3>3. \A h \in 0 .. MaxHi : \A l \in 0 .. Words - 1 : During(h, l) => During(h, l)'
      <4>1. \A t \in Time : t \preceq timer => t \preceq timer'
        BY <2>0, <3>1, PrecedesOrder
      <4> QED
        BY <3>1, <3>2, <4>1 DEF During
    <3>4. \A h \in 0 .. out.hi : h \in 0 .. MaxHi
      BY <2>0
    <3>5. timer.hi <= timer'.hi
      BY <2>0, <3>1 DEF \preceq
    <3>6. status = "OK" => out.hi <= timer'.hi
      BY <2>0, <3>5 DEF ReadOK
    <3> QED
      BY <2>0, <3>1, <3>3, <3>4, <3>6 DEF ReadOK
  <2>2. CASE Enter
    BY <2>2, FirstLoadType DEF Enter, ReadOK
  <2>3. CASE ReadHi
    BY <2>3 DEF ReadHi, ReadOK, During
  <2>4. CASE ReadLo
    BY <2>4 DEF ReadLo, ReadOK, During
  <2>5. CASE Settled
    <3>1. /\ pc' = "idle" /\ out' = At(hi, lo) /\ timer' = timer /\ entered' = entered
          /\ timer.hi = hi
      BY <2>5 DEF Settled, At
    <3>2. out'.hi = hi /\ out'.lo = lo
      BY <3>1 DEF At
    <3>3. During(hi, lo)'
      BY <2>0, <2>5, <3>1 DEF Settled, IInv, LoadsInOrder, During, At, locals
    <3>4. During(hi, lo)
      BY <2>5, <3>1, <3>3 DEF Settled, locals, During
    <3>5. \E h \in 0 .. out'.hi : During(h, out.lo)'
      BY <2>0, <3>1, <3>2, <3>4 DEF During
    <3> QED
      BY <2>0, <3>1, <3>2, <3>5 DEF ReadOK
  <2>6. CASE Retry
    BY <2>6 DEF Retry, linked, ReadOK, During
  <2>7. CASE GiveUp \/ RefuseForGood
    BY <2>7 DEF GiveUp, RefuseForGood, ReadOK, During, locals
  <2>8. CASE NaiveLo
    <3>1. /\ pc' = "naive_hi" /\ lo' = timer.lo /\ timer' = timer /\ entered' = entered
          /\ out' = out /\ status' = status
      BY <2>8 DEF NaiveLo
    <3>2. At(timer.hi, timer.lo) = timer
      BY <2>0 DEF At, Time
    <3>3. entered \preceq timer /\ timer \preceq timer
      BY <2>0, PrecedesOrder DEF IInv, LoadsInOrder
    <3>4. \E h \in 0 .. MaxHi : During(h, lo)'
      BY <2>0, <3>1, <3>2, <3>3 DEF During
    <3> QED
      BY <3>1, <3>4 DEF ReadOK, During
  <2>9. CASE NaiveHi
    <3>1. /\ pc = "naive_hi" /\ pc' = "idle" /\ out' = At(timer.hi, lo)
          /\ timer' = timer /\ entered' = entered
      BY <2>9 DEF NaiveHi, At
    <3>2. out'.hi = timer.hi /\ out'.lo = lo
      BY <3>1 DEF At
    <3>3. PICK h \in 0 .. MaxHi : During(h, lo)
      BY <3>1 DEF ReadOK
    <3>4. h \in 0 .. timer.hi
      BY <2>0, <3>3 DEF During, At, \preceq
    <3>5. \E k \in 0 .. out'.hi : During(k, out.lo)'
      BY <3>1, <3>2, <3>3, <3>4 DEF During
    <3> QED
      BY <2>0, <3>1, <3>2, <3>5 DEF ReadOK
  <2>10. CASE UNCHANGED vars
    BY <2>10 DEF vars, locals, ReadOK, During
  <2> QED
    BY <2>1, <2>2, <2>3, <2>4, <2>5, <2>6, <2>7, <2>8, <2>9, <2>10 DEF Next, obc_mtime_read
<1> QED
  BY <1>1, <1>2, IInvHolds, PTL DEF Spec

(* A value a whole high word past the entry of the call it came from.      *)
Ahead(p, e) == e.hi < p.hi /\ Ticks(e) + Words <= Ticks(p)

LEMMA WhatAReadingIs ==
  ASSUME TypeOK, ReadOK, status = "OK"
  PROVE  /\ entered \preceq out /\ out.hi <= timer.hi
         /\ out \preceq timer \/ Ahead(out, entered)
         /\ IsAnInstant <=> out \preceq timer
<1>1. /\ timer \in Time /\ out \in Time /\ entered \in Time
      /\ \A t \in Time : t.hi \in 0 .. MaxHi /\ t.hi \in Nat /\ t.lo \in Nat /\ t = At(t.hi, t.lo)
  BY MtimeAssumption DEF TypeOK, Time, At
<1>2. PICK h \in 0 .. out.hi : During(h, out.lo)
  BY DEF ReadOK
<1>3. /\ At(h, out.lo) \in Time /\ At(h, out.lo).hi = h /\ At(h, out.lo).lo = out.lo
      /\ h \in Nat /\ h <= out.hi
  BY <1>1, MtimeAssumption DEF At, Time
<1>4. At(h, out.lo) \preceq out
  BY <1>1, <1>3 DEF \preceq
<1>5. entered \preceq out
  BY <1>1, <1>2, <1>3, <1>4, PrecedesOrder DEF During
<1>6. CASE h = out.hi
  BY <1>1, <1>2, <1>5, <1>6 DEF During, ReadOK, IsAnInstant
<1>7. CASE h < out.hi
  <2>1. Ticks(At(h, out.lo)) + Words <= Ticks(out)
    BY <1>1, <1>3, <1>7, TicksCarry
  <2>2. Ticks(entered) <= Ticks(At(h, out.lo))
    BY <1>1, <1>2, <1>3, TicksKeepOrder DEF During
  <2>3. entered.hi <= h
    BY <1>1, <1>2, <1>3 DEF During, \preceq
  <2>4. Ahead(out, entered)
    <3>1. /\ Ticks(entered) \in Nat /\ Ticks(out) \in Nat
          /\ Ticks(At(h, out.lo)) \in Nat /\ Words \in Nat
      BY <1>1, <1>3, TicksType
    <3> QED
      BY <1>1, <1>3, <1>7, <2>1, <2>2, <2>3, <3>1 DEF Ahead
  <2> QED
    BY <1>5, <2>4 DEF ReadOK, IsAnInstant
<1> QED
  BY <1>1, <1>3, <1>6, <1>7

-----------------------------------------------------------------------------
(* The check.  EntryOf is the timer when the call that gave previous was   *)
(* entered, NextEntry a time the next reading cannot be earlier than.      *)
EntryOf == IF called THEN since ELSE entered
NextEntry == IF called THEN entered ELSE timer

CheckTypes ==
  /\ phase \in {"first", "tick", "t0", "base"}
  /\ previous \in Time /\ since \in Time /\ began \in Time
  /\ ~called => pc = "idle"
  /\ verdict # "none" => ~called
  /\ phase = "first" => ~torn

(* While the tick check runs: a reading that was not the time is ahead of  *)
(* it by a high word and is the last one, or the boot was held up.         *)
TickOK ==
  phase = "tick" /\ verdict = "none" =>
    /\ EntryOf \preceq previous /\ previous.hi <= NextEntry.hi
    /\ previous \preceq NextEntry \/ Ahead(previous, EntryOf)
    /\ torn => late \/ Ahead(previous, EntryOf)
    /\ ~torn => previous \preceq NextEntry

(* Once it is over; t0 was read after began, give or take high words.      *)
BaseOK ==
  /\ phase \in {"t0", "base"} => (torn => late)
  /\ phase = "base" /\ verdict = "none" =>
       \E h \in 0 .. MaxHi : /\ began \preceq At(h, previous.lo)
                             /\ At(h, previous.lo) \preceq NextEntry
  /\ verdict = "OK" => phase = "base" /\ Ticks(began) + BaseTicks <= Ticks(timer)

CheckInv == CheckTypes /\ TickOK /\ BaseOK /\ AlarmIsReal

ReaderInv == IInv /\ ReadOK

LEMMA InitCheck == CheckInit => CheckInv
  BY DEF CheckInit, Init, CheckInv, CheckTypes, TickOK, BaseOK, AlarmIsReal

LEMMA PassesKeeps ==
  ASSUME CheckInv, ReaderInv, ReaderInv', Passes
  PROVE  CheckInv'
<1>1. /\ timer \preceq timer' /\ UNCHANGED <<pc, out, entered, status>> /\ UNCHANGED checkVars
  BY DEF Passes, Advance, locals
<1>2. timer \in Time /\ timer' \in Time /\ entered \in Time /\ previous \in Time
      /\ began \in Time /\ since \in Time
  BY DEF ReaderInv, IInv, TypeOK, CheckInv, CheckTypes
<1>3. CheckTypes'
  BY <1>1 DEF CheckInv, CheckTypes, checkVars
<1>4. /\ EntryOf' = EntryOf /\ EntryOf \in Time
      /\ NextEntry \preceq NextEntry' /\ NextEntry \in Time /\ NextEntry' \in Time
  BY <1>1, <1>2, PrecedesOrder DEF EntryOf, NextEntry, checkVars
<1>5. \A t \in Time : t \preceq NextEntry => t \preceq NextEntry'
  BY <1>4, PrecedesOrder
<1>6. NextEntry.hi <= NextEntry'.hi /\ NextEntry.hi \in Nat /\ NextEntry'.hi \in Nat
      /\ previous.hi \in Nat
  BY <1>2, <1>4, TicksType DEF \preceq
<1>7. TickOK'
  <2>1. UNCHANGED <<phase, verdict, previous, torn, late>>
    BY <1>1 DEF checkVars
  <2>2. Ahead(previous, EntryOf)' <=> Ahead(previous, EntryOf)
    BY <1>4, <2>1 DEF Ahead, Ticks
  <2> QED
    BY <1>2, <1>4, <1>5, <1>6, <2>1, <2>2 DEF CheckInv, TickOK
<1>8. Ticks(timer) <= Ticks(timer') /\ Ticks(timer) \in Nat /\ Ticks(timer') \in Nat
      /\ Ticks(began) \in Nat /\ Ticks(since) \in Nat
  BY <1>1, <1>2, TicksKeepOrder, TicksType
<1>9. BaseOK'
  <2>1. UNCHANGED <<phase, verdict, previous, torn, late, began>>
    BY <1>1 DEF checkVars
  <2>2. \A h \in 0 .. MaxHi : At(h, previous.lo) \in Time
    BY <1>2 DEF At, Time
  <2>3. \A h \in 0 .. MaxHi :
          At(h, previous.lo) \preceq NextEntry => At(h, previous.lo) \preceq NextEntry'
    BY <1>5, <2>2
  <2>4. Ticks(began)' = Ticks(began) /\ Ticks(timer)' = Ticks(timer') /\ BaseTicks \in Nat
    BY <2>1, TickCheckAssumption, MtimeAssumption DEF Ticks
  <2>5. verdict = "OK" => Ticks(began) + BaseTicks <= Ticks(timer')
    BY <1>8, <2>4 DEF CheckInv, BaseOK
  <2> QED
    BY <2>1, <2>3, <2>4, <2>5 DEF CheckInv, BaseOK
<1>10. AlarmIsReal'
  <2>1. UNCHANGED <<phase, verdict, since, torn>>
    BY <1>1 DEF checkVars
  <2>2. Ticks(since)' = Ticks(since) /\ Ticks(timer)' = Ticks(timer') /\ Delta \in Nat
    BY <2>1, TickCheckAssumption, MtimeAssumption DEF Ticks
  <2>3. Ticks(timer) - Ticks(since) >= Delta => Ticks(timer') - Ticks(since) >= Delta
    BY <1>8, <2>2
  <2> QED
    BY <1>1, <2>1, <2>2, <2>3 DEF CheckInv, AlarmIsReal
<1> QED
  BY <1>3, <1>7, <1>9, <1>10 DEF CheckInv

LEMMA CallKeeps ==
  ASSUME CheckInv, ReaderInv, ReaderInv', Call
  PROVE  CheckInv'
<1>1. /\ verdict = "none" /\ ~called /\ called' = TRUE /\ since' = entered /\ entered' = timer
      /\ UNCHANGED <<timer, phase, previous, verdict, late, torn, began>>
  BY DEF Call, Enter, RefuseForGood
<1>2. EntryOf' = EntryOf /\ NextEntry' = NextEntry
  BY <1>1 DEF EntryOf, NextEntry
<1>3. CheckTypes'
  BY <1>1 DEF CheckInv, CheckTypes, ReaderInv, IInv, TypeOK
<1>4. TickOK'
  BY <1>1, <1>2 DEF CheckInv, TickOK, Ahead, Ticks
<1>5. BaseOK'
  BY <1>1, <1>2 DEF CheckInv, BaseOK
<1>6. AlarmIsReal'
  BY <1>1 DEF AlarmIsReal
<1> QED
  BY <1>3, <1>4, <1>5, <1>6 DEF CheckInv

LEMMA ReadKeeps ==
  ASSUME CheckInv, ReaderInv, ReaderInv', Read
  PROVE  CheckInv'
<1>1. /\ pc # "idle" /\ UNCHANGED <<timer, entered>> /\ UNCHANGED checkVars
  BY DEF Read, obc_mtime_read, ReadHi, ReadLo, Settled, Retry, GiveUp, NaiveLo, NaiveHi
<1>2. called /\ verdict = "none"
  BY <1>1 DEF CheckInv, CheckTypes
<1>3. UNCHANGED <<phase, previous, called, verdict, since, late, torn, began>>
  BY <1>1 DEF checkVars
<1>4. EntryOf' = EntryOf /\ NextEntry' = NextEntry
  BY <1>1, <1>3 DEF EntryOf, NextEntry
<1>5. CheckTypes'
  BY <1>2, <1>3 DEF CheckInv, CheckTypes
<1>6. TickOK' /\ BaseOK'
  BY <1>1, <1>3, <1>4 DEF CheckInv, TickOK, BaseOK, Ahead, Ticks
<1>7. AlarmIsReal'
  BY <1>2, <1>3 DEF AlarmIsReal
<1> QED
  BY <1>5, <1>6, <1>7 DEF CheckInv

LEMMA RefusedKeeps ==
  ASSUME CheckInv, ReaderInv, Refused
  PROVE  CheckInv'
<1>1. /\ verdict = "none" /\ pc = "idle" /\ status = "UNSTABLE"
      /\ verdict' = "UNSTABLE" /\ called' = FALSE
      /\ UNCHANGED <<pc, status, phase, previous, since, late, torn, began>>
  BY DEF Refused, Returned, vars
<1> QED
  BY <1>1 DEF CheckInv, CheckTypes, TickOK, BaseOK, AlarmIsReal

LEMMA FirstKeeps ==
  ASSUME CheckInv, ReaderInv, FirstReading
  PROVE  CheckInv'
<1>1. /\ verdict = "none" /\ pc = "idle" /\ status = "OK" /\ phase = "first" /\ ~torn
      /\ phase' = "tick" /\ previous' = out /\ ~called' /\ torn' = ~IsAnInstant
      /\ UNCHANGED vars /\ UNCHANGED <<verdict, since, began>>
  BY DEF FirstReading, Returned, Observe, CheckInv, CheckTypes
<1>2. /\ entered \preceq out /\ out.hi <= timer.hi
      /\ out \preceq timer \/ Ahead(out, entered)
      /\ IsAnInstant <=> out \preceq timer
  BY <1>1, WhatAReadingIs DEF ReaderInv, IInv
<1>3. EntryOf' = entered /\ NextEntry' = timer
  BY <1>1 DEF EntryOf, NextEntry, vars
<1>4. TickOK'
  BY <1>1, <1>2, <1>3 DEF TickOK, Ahead, Ticks
<1>5. CheckTypes'
  BY <1>1 DEF CheckInv, CheckTypes, ReaderInv, IInv, TypeOK, vars
<1> QED
  BY <1>1, <1>4, <1>5 DEF CheckInv, BaseOK, AlarmIsReal

(* One tick reading more: what it means for the last one that this one was *)
(* found plausible.                                                        *)
LEMMA TickReadingSound ==
  ASSUME CheckInv, ReaderInv, status = "OK", called, phase = "tick", verdict = "none",
         NEW lateNow \in BOOLEAN,
         lateNow = (late \/ Ticks(timer) - Ticks(since) >= Words)
  PROVE  /\ Implausible(out) = "none" => (torn \/ ~IsAnInstant => lateNow)
         /\ Implausible(out) = "INVALID" => torn \/ ~IsAnInstant
         /\ Implausible(out) = "UNSTABLE" =>
              torn \/ ~IsAnInstant \/ Ticks(timer) - Ticks(since) >= Delta
<1>1. /\ timer \in Time /\ out \in Time /\ entered \in Time /\ previous \in Time /\ since \in Time
      /\ Delta \in Nat /\ Words \in Nat /\ Delta < Words
  BY TickCheckAssumption, MtimeAssumption
  DEF ReaderInv, IInv, TypeOK, CheckInv, CheckTypes
<1>2. /\ entered \preceq out /\ out.hi <= timer.hi
      /\ out \preceq timer \/ Ahead(out, entered)
      /\ IsAnInstant <=> out \preceq timer
  BY WhatAReadingIs DEF ReaderInv, IInv
<1>3. /\ since \preceq previous /\ previous.hi <= entered.hi
      /\ previous \preceq entered \/ Ahead(previous, since)
      /\ torn => late \/ Ahead(previous, since)
      /\ ~torn => previous \preceq entered
  BY DEF CheckInv, TickOK, EntryOf, NextEntry
<1>4. /\ Ticks(timer) \in Nat /\ Ticks(out) \in Nat /\ Ticks(entered) \in Nat
      /\ Ticks(previous) \in Nat /\ Ticks(since) \in Nat
      /\ timer.hi \in Nat /\ out.hi \in Nat /\ entered.hi \in Nat
      /\ previous.hi \in Nat /\ since.hi \in Nat
  BY <1>1, TicksType
<1>5. /\ Implausible(out) = "none" =>
           previous \preceq out /\ Ticks(out) - Ticks(previous) < Delta
      /\ Implausible(out) = "INVALID" => ~ (previous \preceq out)
      /\ Implausible(out) = "UNSTABLE" =>
           previous \preceq out /\ Ticks(out) - Ticks(previous) >= Delta
  BY <1>1, <1>4 DEF Implausible
<1>6. ASSUME Implausible(out) = "none", torn \/ ~IsAnInstant PROVE lateNow
  <2>1. previous \preceq out /\ Ticks(out) - Ticks(previous) < Delta
    BY <1>5, <1>6
  <2>2. CASE Ahead(previous, since) /\ out \preceq timer
    <3>1. Ticks(previous) <= Ticks(out) /\ Ticks(out) <= Ticks(timer)
      BY <1>1, <2>1, <2>2, TicksKeepOrder
    <3>2. Ticks(timer) - Ticks(since) >= Words
      BY <1>1, <1>4, <2>2, <3>1 DEF Ahead
    <3> QED
      BY <3>2
  <2>3. CASE Ahead(previous, since) /\ Ahead(out, entered)
    <3>1. since.hi + 2 <= timer.hi
      BY <1>2, <1>3, <1>4, <2>3 DEF Ahead
    <3>2. Ticks(since) + Words <= Ticks(timer)
      BY <1>1, <3>1, TicksTwoCarries
    <3>3. Ticks(timer) - Ticks(since) >= Words
      BY <1>1, <1>4, <3>2
    <3> QED
      BY <3>3
  <2>4. CASE previous \preceq entered /\ ~ Ahead(previous, since)
    <3>1. Ticks(previous) <= Ticks(entered)
      BY <1>1, <2>4, TicksKeepOrder
    <3>2. ~ Ahead(out, entered)
      BY <1>1, <1>4, <2>1, <3>1 DEF Ahead
    <3>3. IsAnInstant /\ torn
      BY <1>2, <1>6, <3>2
    <3> QED
      BY <1>3, <2>4, <3>3
  <2> QED
    BY <1>2, <1>3, <2>2, <2>3, <2>4
<1>7. ASSUME Implausible(out) = "INVALID", ~torn, IsAnInstant PROVE FALSE
  <2>1. previous \preceq entered /\ entered \preceq out
    BY <1>2, <1>3, <1>7
  <2> QED
    BY <1>1, <1>5, <1>7, <2>1, PrecedesOrder
<1>8. ASSUME Implausible(out) = "UNSTABLE", ~torn, IsAnInstant
      PROVE  Ticks(timer) - Ticks(since) >= Delta
  <2>1. Ticks(since) <= Ticks(previous) /\ Ticks(out) <= Ticks(timer)
    BY <1>1, <1>2, <1>3, <1>8, TicksKeepOrder
  <2>2. Ticks(out) - Ticks(previous) >= Delta
    BY <1>5, <1>8
  <2> QED
    BY <1>1, <1>4, <2>1, <2>2
<1> QED
  BY <1>6, <1>7, <1>8

LEMMA TickKeeps ==
  ASSUME CheckInv, ReaderInv, TickReading
  PROVE  CheckInv'
<1>1. /\ verdict = "none" /\ called /\ pc = "idle" /\ status = "OK" /\ phase = "tick"
      /\ ~called' /\ verdict' = Implausible(out)
      /\ torn' = (torn \/ ~IsAnInstant)
      /\ late' = (late \/ Ticks(timer) - Ticks(since) >= Words)
      /\ phase' \in {"tick", "t0"} /\ (verdict' # "none" => phase' = "tick")
      /\ verdict' = "none" => previous' = out
      /\ verdict' # "none" => previous' = previous
      /\ UNCHANGED vars /\ UNCHANGED <<since, began>>
  BY DEF TickReading, Returned, Observe
<1>2. /\ entered \preceq out /\ out.hi <= timer.hi
      /\ out \preceq timer \/ Ahead(out, entered)
      /\ IsAnInstant <=> out \preceq timer
  BY <1>1, WhatAReadingIs DEF ReaderInv, IInv
<1>3. late' \in BOOLEAN
  BY <1>1
<1>4. /\ verdict' = "none" => (torn' => late')
      /\ verdict' = "INVALID" => torn'
      /\ verdict' = "UNSTABLE" => torn' \/ Ticks(timer) - Ticks(since) >= Delta
  BY <1>1, <1>3, TickReadingSound
<1>5. EntryOf' = entered /\ NextEntry' = timer
  BY <1>1 DEF EntryOf, NextEntry, vars
<1>6. TickOK'
  BY <1>1, <1>2, <1>4, <1>5 DEF TickOK, Ahead, Ticks
<1>7. CheckTypes'
  BY <1>1 DEF CheckInv, CheckTypes, ReaderInv, IInv, TypeOK, vars
<1>8. verdict' \in {"none", "INVALID", "UNSTABLE"}
  BY <1>1 DEF Implausible
<1>9. BaseOK'
  BY <1>1, <1>4, <1>8 DEF BaseOK
<1>10. AlarmIsReal'
  BY <1>1, <1>4 DEF AlarmIsReal, Ticks, vars
<1> QED
  BY <1>6, <1>7, <1>9, <1>10 DEF CheckInv

LEMMA BaseBeginsKeeps ==
  ASSUME CheckInv, ReaderInv, BaseBegins
  PROVE  CheckInv'
<1>1. /\ verdict = "none" /\ pc = "idle" /\ status = "OK" /\ phase = "t0"
      /\ phase' = "base" /\ previous' = out /\ ~called' /\ began' = entered
      /\ UNCHANGED vars /\ UNCHANGED <<verdict, since, late, torn>>
  BY DEF BaseBegins, Returned
<1>2. /\ out \in Time /\ entered \in Time /\ MaxHi \in Nat /\ out.hi \in 0 .. MaxHi
      /\ \E h \in 0 .. out.hi : During(h, out.lo)
  BY <1>1, MtimeAssumption DEF ReaderInv, IInv, TypeOK, ReadOK, Time
<1>3. PICK h \in 0 .. MaxHi : During(h, out.lo)
  BY <1>2
<1>4. NextEntry' = timer
  BY <1>1 DEF NextEntry, vars
<1>5. BaseOK'
  BY <1>1, <1>3, <1>4 DEF CheckInv, BaseOK, During
<1>6. CheckTypes'
  BY <1>1, <1>2 DEF CheckInv, CheckTypes, vars
<1> QED
  BY <1>1, <1>5, <1>6 DEF CheckInv, TickOK, AlarmIsReal

(* The elapsed ticks the code works out, in 32-bit arithmetic from two     *)
(* readings that may each be wrong by whole high words, have gone by.      *)
LEMMA ElapsedWentBy ==
  ASSUME CheckInv, ReaderInv, status = "OK", called, phase = "base", verdict = "none"
  PROVE  Elapsed \in Nat /\ Ticks(began) + Elapsed <= Ticks(timer)
<1>1. /\ timer \in Time /\ out \in Time /\ entered \in Time /\ previous \in Time /\ began \in Time
      /\ Words \in Nat \ {0} /\ MaxHi \in Nat
      /\ \A t \in Time : /\ t.hi \in 0 .. MaxHi /\ t.hi \in Nat
                        /\ t.lo \in 0 .. Words - 1 /\ t.lo \in Nat
  BY MtimeAssumption DEF ReaderInv, IInv, TypeOK, CheckInv, CheckTypes, Time
<1>2. PICK h \in 0 .. MaxHi :
        began \preceq At(h, previous.lo) /\ At(h, previous.lo) \preceq entered
  BY DEF CheckInv, BaseOK, NextEntry
<1>3. PICK k \in 0 .. out.hi : During(k, out.lo)
  BY DEF ReaderInv, ReadOK
<1> DEFINE p == At(h, previous.lo)
           q == At(k, out.lo)
<1>4. /\ p \in Time /\ q \in Time /\ h \in Nat /\ k \in Nat
      /\ p.hi = h /\ p.lo = previous.lo /\ q.hi = k /\ q.lo = out.lo
  BY <1>1 DEF At, Time
<1>5. Ticks(began) <= Ticks(p) /\ Ticks(p) <= Ticks(entered) /\ Ticks(entered) <= Ticks(q)
      /\ Ticks(q) <= Ticks(timer)
  BY <1>1, <1>2, <1>3, <1>4, TicksKeepOrder DEF During
<1>6. /\ Ticks(began) \in Nat /\ Ticks(p) \in Nat /\ Ticks(q) \in Nat /\ Ticks(timer) \in Nat
      /\ Ticks(entered) \in Nat /\ Ticks(out) \in Nat /\ Ticks(previous) \in Nat
  BY <1>1, <1>4, TicksType
<1>7. Ticks(out) - Ticks(previous)
        = (Ticks(q) - Ticks(p)) + ((out.hi - k) - (previous.hi - h)) * Words
  <2>1. /\ out.hi \in Nat /\ previous.hi \in Nat /\ out.lo \in Nat /\ previous.lo \in Nat
        /\ out.hi * Words \in Nat /\ previous.hi * Words \in Nat
        /\ k * Words \in Nat /\ h * Words \in Nat
    BY <1>1, <1>4
  <2>2. ((out.hi - k) - (previous.hi - h)) * Words
          = (out.hi * Words - k * Words) - (previous.hi * Words - h * Words)
    BY <1>1, <1>4, <2>1
  <2>3. /\ Ticks(out) = out.hi * Words + out.lo
        /\ Ticks(previous) = previous.hi * Words + previous.lo
        /\ Ticks(q) = k * Words + out.lo /\ Ticks(p) = h * Words + previous.lo
    BY <1>4 DEF Ticks
  <2> QED
    BY <2>1, <2>2, <2>3
<1> HIDE DEF p, q
<1>8. Elapsed <= Ticks(q) - Ticks(p)
  <2>1. /\ Ticks(out) - Ticks(previous) \in Int /\ Ticks(q) - Ticks(p) \in Nat
        /\ (out.hi - k) - (previous.hi - h) \in Int
    BY <1>1, <1>4, <1>5, <1>6
  <2> QED
    BY <1>7, <2>1, RemainderIsLeast DEF Elapsed
<1>9. Elapsed \in Nat
  BY <1>1, <1>6 DEF Elapsed
<1> HIDE DEF Elapsed
<1> QED
  BY <1>5, <1>6, <1>8, <1>9

LEMMA BaseKeeps ==
  ASSUME CheckInv, ReaderInv, BaseReading
  PROVE  CheckInv'
<1>1. /\ verdict = "none" /\ called /\ pc = "idle" /\ status = "OK" /\ phase = "base"
      /\ ~called' /\ UNCHANGED vars
      /\ UNCHANGED <<phase, previous, since, late, torn, began>>
      /\ Elapsed >= BaseTicks \/ verdict' \in {"none", "TIMEOUT"}
  BY DEF BaseReading, Returned
<1>2. /\ entered \preceq timer /\ timer \in Time /\ entered \in Time /\ previous \in Time
      /\ began \in Time /\ Words \in Nat \ {0}
  BY MtimeAssumption DEF ReaderInv, IInv, LoadsInOrder, TypeOK, CheckInv, CheckTypes
<1>3. CheckTypes'
  BY <1>1 DEF CheckInv, CheckTypes, vars
<1>4. Elapsed >= BaseTicks => Ticks(began) + BaseTicks <= Ticks(timer)
  <2>1. Elapsed \in Nat /\ Ticks(began) + Elapsed <= Ticks(timer) /\ BaseTicks \in Nat
    BY <1>1, ElapsedWentBy, TickCheckAssumption, MtimeAssumption
  <2>2. Ticks(began) \in Nat /\ Ticks(timer) \in Nat
    BY <1>2, TicksType
  <2> HIDE DEF Elapsed
  <2> QED
    BY <2>1, <2>2
<1>5. verdict' = "OK" => Ticks(began) + BaseTicks <= Ticks(timer)
  BY <1>1, <1>4
<1>6. \A h \in 0 .. MaxHi : At(h, previous.lo) \preceq entered => At(h, previous.lo) \preceq timer
  <2>1. \A h \in 0 .. MaxHi : At(h, previous.lo) \in Time
    BY <1>2 DEF At, Time
  <2> QED
    BY <1>2, <2>1, PrecedesOrder
<1>7. NextEntry = entered /\ NextEntry' = timer
  BY <1>1 DEF NextEntry, vars
<1>8. BaseOK'
  <2>1. Ticks(began)' = Ticks(began) /\ Ticks(timer)' = Ticks(timer)
    BY <1>1 DEF Ticks, vars
  <2> QED
    BY <1>1, <1>5, <1>6, <1>7, <2>1 DEF CheckInv, BaseOK
<1> QED
  BY <1>1, <1>3, <1>8 DEF CheckInv, TickOK, AlarmIsReal

LEMMA CheckInvHolds == CheckSpec => []CheckInv
<1>1. CheckInv /\ ReaderInv /\ ReaderInv' /\ [CheckNext]_allVars => CheckInv'
  <2> SUFFICES ASSUME CheckInv, ReaderInv, ReaderInv', [CheckNext]_allVars PROVE CheckInv'
    OBVIOUS
  <2>1. CASE Over \/ UNCHANGED allVars
    <3>1. UNCHANGED allVars
      BY <2>1 DEF Over
    <3> QED
      BY <3>1
      DEF allVars, vars, checkVars, CheckInv, CheckTypes, TickOK, BaseOK, AlarmIsReal, EntryOf,
          NextEntry, Ahead, Ticks
  <2> QED
    BY <2>1, PassesKeeps, CallKeeps, ReadKeeps, RefusedKeeps, FirstKeeps, TickKeeps,
       BaseBeginsKeeps, BaseKeeps
    DEF CheckNext, SelfCheck
<1>2. CheckSpec => []ReaderInv
  BY CheckIsACaller, IInvHolds, ReadOKHolds, PTL DEF ReaderInv
<1> QED
  BY <1>1, <1>2, InitCheck, PTL DEF CheckSpec

(* What the time-base check takes for a time and is not one, the naive     *)
(* reader gave it.                                                         *)
TornBaseIsNaive == tornBase => reader = "naive"

LEMMA TornBaseHolds == CheckSpec => []TornBaseIsNaive
<1>1. CheckInit => TornBaseIsNaive
  BY DEF CheckInit, TornBaseIsNaive
<1>2. TornBaseIsNaive /\ ReadIsAnInstant /\ [CheckNext]_allVars => TornBaseIsNaive'
  <2> SUFFICES ASSUME TornBaseIsNaive, ReadIsAnInstant, [CheckNext]_allVars
               PROVE  TornBaseIsNaive'
    OBVIOUS
  <2>1. reader' = reader
    BY DEF CheckNext, Passes, Advance, SelfCheck, Call, Enter, RefuseForGood, Read,
           obc_mtime_read, ReadHi, ReadLo, Settled, Retry, GiveUp, NaiveLo, NaiveHi, Refused,
           FirstReading, TickReading, BaseBegins, BaseReading, Over, allVars, vars, linked
  <2>2. CASE BaseBegins \/ BaseReading
    <3>1. status = "OK" /\ tornBase' = (tornBase \/ ~IsAnInstant)
      BY <2>2 DEF BaseBegins, BaseReading, Returned, ObserveBase
    <3>2. ~IsAnInstant => reader = "naive"
      BY <3>1 DEF ReadIsAnInstant
    <3> QED
      BY <2>1, <3>1, <3>2 DEF TornBaseIsNaive
  <2>3. CASE ~(BaseBegins \/ BaseReading)
    <3>1. tornBase' = tornBase
      BY <2>3 DEF CheckNext, Passes, SelfCheck, Call, Read, Refused, FirstReading, TickReading,
                  Over, allVars, checkVars
    <3> QED
      BY <2>1, <3>1 DEF TornBaseIsNaive
  <2> QED
    BY <2>2, <2>3
<1> QED
  BY <1>1, <1>2, CheckReadsInstants, PTL DEF CheckSpec

(* A clock that passed gave check_tick_counter no reading wrong by a high  *)
(* word, whichever reader took it, unless a whole high word went by        *)
(* between two readings; measure_instr_per_tick took one from the naive    *)
(* reader only; and the clock has advanced by TIMEBASE_CHECK_TICKS,        *)
(* whatever readings the 32-bit subtraction was taken from.                *)
THEOREM PassedClockWasSoundHolds == CheckSpec => []PassedClockWasSound
<1>1. CheckInv /\ ReaderInv /\ TornBaseIsNaive => PassedClockWasSound
  <2> SUFFICES ASSUME CheckInv, ReaderInv, TornBaseIsNaive, verdict = "OK"
               PROVE  /\ torn => late
                      /\ tornBase => reader = "naive"
                      /\ Ticks(timer) - Ticks(began) >= BaseTicks
    BY DEF PassedClockWasSound
  <2>1. (torn => late) /\ Ticks(began) + BaseTicks <= Ticks(timer)
    BY DEF CheckInv, BaseOK
  <2>2. timer \in Time /\ began \in Time /\ BaseTicks \in Nat
    BY TickCheckAssumption, MtimeAssumption
    DEF ReaderInv, IInv, TypeOK, CheckInv, CheckTypes
  <2>3. Ticks(timer) \in Nat /\ Ticks(began) \in Nat
    BY <2>2, TicksType
  <2> QED
    BY <2>1, <2>2, <2>3 DEF TornBaseIsNaive
<1>2. CheckSpec => []ReaderInv
  BY CheckIsACaller, IInvHolds, ReadOKHolds, PTL DEF ReaderInv
<1> QED
  BY <1>1, <1>2, CheckInvHolds, TornBaseHolds, PTL

(* A sound clock is not accused by check_tick_counter: "went backwards"    *)
(* takes a reading that was never the time, "implausible jump" one too, or *)
(* a boot held up for TICK_DELTA_MAX ticks between two readings.           *)
THEOREM AlarmIsRealHolds == CheckSpec => []AlarmIsReal
<1>1. CheckInv => AlarmIsReal
  BY DEF CheckInv
<1> QED
  BY <1>1, CheckInvHolds, PTL

=============================================================================

------------------------------- MODULE Mtime -------------------------------
(***************************************************************************)
(* The RV32 read of the 64-bit machine timer, flight/hal/mtime.c, and the  *)
(* two broken readers the harness links in its place: mtime_naive.c and    *)
(* mtime_unstable.c.                                                       *)
(*                                                                         *)
(* The timer is two registers that the hardware advances between any two   *)
(* loads of the reader.  obc_mtime_read loads high, low, high again, and   *)
(* keeps the pair only if the high word did not move; it gives up after    *)
(* Attempts rounds.  The naive reader loads low, then high, and keeps what *)
(* it has; the unstable one is the flight reader until it has been called  *)
(* FailsAfter times.  A value of the timer is a record [hi, lo] ordered    *)
(* lexicographically, which is the order of hi * 2^32 + lo.                *)
(***************************************************************************)
EXTENDS Integers

CONSTANTS
  Words,      (* size of one register: the low word runs over 0 .. Words-1 *)
  Attempts,   (* MTIME_READ_ATTEMPTS                                       *)
  Readers,    (* the readers a build may link: a subset of ReaderKinds     *)
  FailsAfter, (* BROKEN_READS_BEFORE_FAILURE                               *)
  MaxHi       (* bound: the high word stops there                          *)

ReaderKinds == {"flight", "naive", "unstable"}

ASSUME MtimeAssumption ==
  /\ Words \in Nat \ {0}
  /\ Attempts \in Nat \ {0}
  /\ MaxHi \in Nat
  /\ Readers \subseteq ReaderKinds
  /\ FailsAfter \in Nat

VARIABLES
  reader,     \* MTIME_SRC, the reader the image was linked with
  reads,      \* s_reads of the unstable reader
  timer,      \* the hardware counter, [hi, lo]
  pc,         \* "idle", or the load the reader performs next
  attempt,    \* the loop counter of obc_mtime_read
  hi, lo,     \* the reader's locals
  out,        \* *out, the caller's variable
  status,     \* what the last call returned; "none" before the first one
  unstable,   \* s_unstable_count
  entered     \* history: the timer when the current call was entered

vars == <<reader, reads, timer, pc, attempt, hi, lo, out, status, unstable, entered>>
locals == <<attempt, hi, lo>>
linked == <<reader, reads>>

Time == [hi : 0 .. MaxHi, lo : 0 .. Words - 1]

s \preceq t == s.hi < t.hi \/ (s.hi = t.hi /\ s.lo <= t.lo)

Init ==
  /\ reader \in Readers /\ reads = 0
  /\ timer \in Time
  /\ pc = "idle"
  /\ attempt = 0 /\ hi = 0 /\ lo = 0
  /\ out = timer /\ entered = timer
  /\ status = "none"
  /\ unstable = 0

(* The hardware advances, by any amount, between two steps of the reader.  *)
Advance ==
  /\ \E t \in Time :
       /\ timer \preceq t /\ t # timer
       /\ timer' = t
  /\ UNCHANGED <<linked, pc, locals, out, status, unstable, entered>>

(* The unstable reader counts its calls until it refuses them.             *)
CountCall ==
  \/ reader = "unstable" /\ reads < FailsAfter /\ reads' = reads + 1
  \/ reader # "unstable" /\ reads' = reads

FirstLoad == IF reader = "naive" THEN "naive_lo" ELSE "hi"

(* A caller enters obc_mtime_read.                                         *)
Enter ==
  /\ pc = "idle"
  /\ CountCall
  /\ pc' = FirstLoad /\ attempt' = 0 /\ entered' = timer
  /\ status' = "none"
  /\ UNCHANGED <<reader, timer, hi, lo, out, unstable>>

ReadHi ==
  /\ pc = "hi"
  /\ hi' = timer.hi
  /\ pc' = "lo"
  /\ UNCHANGED <<linked, timer, attempt, lo, out, status, unstable, entered>>

ReadLo ==
  /\ pc = "lo"
  /\ lo' = timer.lo
  /\ pc' = "again"
  /\ UNCHANGED <<linked, timer, attempt, hi, out, status, unstable, entered>>

(* A mistake to tell apart: no second load, the naive high/low read.       *)
SettledUnchecked ==
  /\ pc = "again"
  /\ out' = [hi |-> hi, lo |-> lo]
  /\ status' = "OK"
  /\ pc' = "idle"
  /\ UNCHANGED <<linked, timer, locals, unstable, entered>>

(* The second load of the high word found the first one: the call returns. *)
Settled ==
  /\ pc = "again" /\ timer.hi = hi
  /\ out' = [hi |-> hi, lo |-> lo]
  /\ status' = "OK"
  /\ pc' = "idle"
  /\ UNCHANGED <<linked, timer, locals, unstable, entered>>

(* Mistakes to tell apart: a round that keeps the first load of the high   *)
(* word, and a loop without its bound.                                     *)
RetryKeepingHi ==
  /\ pc = "again" /\ timer.hi # hi
  /\ attempt + 1 < Attempts
  /\ attempt' = attempt + 1
  /\ pc' = "lo"
  /\ UNCHANGED <<linked, timer, hi, lo, out, status, unstable, entered>>

RetryUnbounded ==
  /\ pc = "again" /\ timer.hi # hi
  /\ attempt' = attempt + 1
  /\ pc' = "hi"
  /\ UNCHANGED <<linked, timer, hi, lo, out, status, unstable, entered>>

(* It moved: the round is discarded and the next one starts.               *)
Retry ==
  /\ pc = "again" /\ timer.hi # hi
  /\ attempt + 1 < Attempts
  /\ attempt' = attempt + 1
  /\ pc' = "hi"
  /\ UNCHANGED <<linked, timer, hi, lo, out, status, unstable, entered>>

(* It moved in the last round: counted, reported, *out left alone.         *)
GiveUp ==
  /\ pc = "again" /\ timer.hi # hi
  /\ attempt + 1 >= Attempts
  /\ unstable' = unstable + 1
  /\ status' = "UNSTABLE"
  /\ pc' = "idle"
  /\ UNCHANGED <<linked, timer, locals, out, entered>>

(* mtime_naive.c: low, then high, and the pair is the answer.              *)
NaiveLo ==
  /\ pc = "naive_lo"
  /\ lo' = timer.lo
  /\ pc' = "naive_hi"
  /\ UNCHANGED <<linked, timer, attempt, hi, out, status, unstable, entered>>

NaiveHi ==
  /\ pc = "naive_hi"
  /\ out' = [hi |-> timer.hi, lo |-> lo]
  /\ status' = "OK"
  /\ pc' = "idle"
  /\ UNCHANGED <<linked, timer, locals, unstable, entered>>

(* mtime_unstable.c: past its count it refuses every call.                 *)
RefuseForGood ==
  /\ pc = "idle" /\ reader = "unstable" /\ reads >= FailsAfter
  /\ unstable' = unstable + 1
  /\ status' = "UNSTABLE" /\ entered' = timer
  /\ UNCHANGED <<linked, timer, pc, locals, out>>

obc_mtime_read ==
  \/ ReadHi \/ ReadLo \/ Settled \/ Retry \/ GiveUp
  \/ NaiveLo \/ NaiveHi

Next == Advance \/ Enter \/ RefuseForGood \/ obc_mtime_read

Spec == Init /\ [][Next]_vars

-----------------------------------------------------------------------------
TypeOK ==
  /\ reader \in Readers /\ reads \in 0 .. FailsAfter
  /\ timer \in Time
  /\ pc \in {"idle", "hi", "lo", "again", "naive_lo", "naive_hi"}
  /\ pc \in {"naive_lo", "naive_hi"} => reader = "naive"
  /\ attempt \in 0 .. Attempts - 1
  /\ hi \in 0 .. MaxHi
  /\ lo \in 0 .. Words - 1
  /\ out \in Time
  /\ status \in {"none", "OK", "UNSTABLE"}
  /\ unstable \in Nat
  /\ entered \in Time

(* A value obc_mtime_read returns is an instant of the call that returned  *)
(* it: the timer held nothing later when the call returned and nothing     *)
(* earlier when it was entered.  The half-carried value, wrong by a whole  *)
(* high word, is what the naive reader returns.                            *)
IsAnInstant == entered \preceq out /\ out \preceq timer
ReadIsAnInstant == status = "OK" /\ reader # "naive" => IsAnInstant

(* A call that reports UNSTABLE saw a carry in every one of its rounds, so *)
(* the status is never a false alarm of a timer that was merely running.   *)
UnstableMeansManyCarries ==
  status = "UNSTABLE" /\ reader = "flight" => timer.hi >= entered.hi + Attempts
=============================================================================

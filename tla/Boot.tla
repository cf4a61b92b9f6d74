-------------------------------- MODULE Boot --------------------------------
(***************************************************************************)
(* What one boot of OBC-Zero leaves for the next: obc_main from reset to   *)
(* the end of its window, the trap handler, and the three records that     *)
(* survive a warm reset (fault.c, mode.c, recover.c, trap.S, start.S).     *)
(*                                                                         *)
(* A record is its magic, two words of payload and a checksum.  It is      *)
(* written one store at a time, and a trap or a reset may fall between any *)
(* two stores.  The checksum of a payload is that payload: it is taken to  *)
(* match no other.  The executive is reduced to how its window may end.    *)
(***************************************************************************)
EXTENDS Integers, Sequences

CONSTANTS
  ShortBootLimit, (* OBC_SHORT_BOOT_LIMIT                                  *)
  HealthyFrames,  (* OBC_HEALTHY_FRAMES                                    *)
  Frames,         (* counts obc_frames_run may have when the window ends   *)
  Traps,          (* what a trap records: cause, epc and tval together     *)
  MaxTraps,       (* bound: traps of a behaviour                           *)
  MaxResets       (* bound: resets no software asked for                   *)

ASSUME BootAssumption ==
  /\ ShortBootLimit \in Nat \ {0} /\ HealthyFrames \in Nat
  /\ Frames \subseteq Nat
  /\ MaxTraps \in Nat /\ MaxResets \in Nat

VARIABLES
  pc,         \* the next step of obc_main, or of the handler
  todo,       \* the stores still to do before it, in order
  ram,        \* .noinit: obc_fault_record, obc_mode_record, obc_boot_record
  in_handler, \* the re-entry flag of the fault record
  boot_rung,  \* what obc_recover_boot_begins returned
  cause,      \* obc_reset_cause_previous
  mode,       \* what the voter holds
  announced,  \* s_announced
  frames,     \* obc_frames_run
  traps, resets,  \* history: how many so far
  committed,      \* history: what the last handler to store a checksum recorded
  owed,           \* history: a recorded trap has not degraded a boot yet
  degraded,       \* history: a mode record has been committed
  raised,         \* history: this boot's in-progress flag is committed
  shorts,         \* history: boots that raised it and died, in a row
  loops,          \* history: resets the ladder asked for since a healthy boot
  torn,           \* history: the records a trap or a reset left half written
  nested          \* history: a trap fell inside the handler, and its record
                  \*   has not been cleared or replaced since

boot == <<boot_rung, cause, mode, announced, frames>>
history == <<committed, owed, degraded, raised, shorts, loops, torn, nested>>
budget == <<traps, resets>>
vars == <<pc, todo, ram, in_handler, boot, history, budget>>

Records == {"fault", "mode", "boot"}
Words == {"magic", "first", "second", "sum"}
Blank == [fault |-> [magic |-> "none", first |-> "none", second |-> "UNKNOWN", sum |-> <<>>],
          mode |-> [magic |-> "none", first |-> "none", second |-> "none", sum |-> <<>>],
          boot |-> [magic |-> "none", first |-> 0, second |-> 0, sum |-> <<>>]]

-----------------------------------------------------------------------------
is_intact(record) ==
  record.magic = "MAGIC" /\ record.sum = <<record.first, record.second>>

intact(r) == is_intact(ram[r])

(* The stores a writer performs: into which word of which record, and what.*)
Into(r, word, v) == [record |-> r, word |-> word, value |-> v]

(* Magic cleared, payload, checksum, magic: mode.c and recover.c.          *)
boot_record_write(count, in_progress) ==
  <<Into("boot", "magic", "none"), Into("boot", "first", count),
    Into("boot", "second", in_progress), Into("boot", "sum", "payload"),
    Into("boot", "magic", "MAGIC")>>

mode_record_write(reason) ==
  <<Into("mode", "magic", "none"), Into("mode", "first", reason),
    Into("mode", "sum", "payload"), Into("mode", "magic", "MAGIC")>>

(* trap.S: the same order, but the magic is not cleared first.  One store  *)
(* stands for cause, epc and tval.                                         *)
HandlerStores(t) ==
  <<Into("fault", "first", t), Into("fault", "second", "TRAP"),
    Into("fault", "sum", "payload"), Into("fault", "magic", "MAGIC")>>

DoubleFaultStores == <<Into("fault", "magic", "DOUBLE")>>

obc_fault_consume ==
  <<Into("fault", "magic", "none"), Into("fault", "sum", "zero"),
    Into("fault", "first", "none"), Into("fault", "second", "UNKNOWN")>>

(* The checksum word takes what the payload in memory sums to, or 0.       *)
after(s) ==
  LET r == ram[s.record] IN
  [ram EXCEPT ![s.record] =
     [r EXCEPT ![s.word] =
        IF s.word # "sum" THEN s.value
        ELSE IF s.value = "payload" THEN <<r.first, r.second>> ELSE <<>>]]

(* Mutant: the record believed on its magic alone.                          *)
ValidateMagicOnly ==
  IF ram["fault"].magic = "DOUBLE" THEN "DOUBLE_FAULT"
  ELSE IF ram["fault"].magic = "MAGIC" THEN ram["fault"].second
  ELSE "UNKNOWN"

obc_fault_validate ==
  IF ram["fault"].magic = "DOUBLE" THEN "DOUBLE_FAULT"
  ELSE IF intact("fault") THEN ram["fault"].second
  ELSE "UNKNOWN"

obc_recover_short_boots == IF intact("boot") THEN ram["boot"].first ELSE 0

(* obc_mode_enter_safe, latched by s_announced; the record follows.        *)
obc_mode_enter_safe(reason, isAnnounced) ==
  IF isAnnounced
  THEN todo' = <<>> /\ UNCHANGED <<mode, announced>>
  ELSE mode' = "safe" /\ announced' = TRUE /\ todo' = mode_record_write(reason)

-----------------------------------------------------------------------------
(* Cold boot: noise, which is nobody's record.                             *)
Init ==
  /\ pc = "reset" /\ todo = <<>>
  /\ ram \in {[r \in Records |-> IF r \in noise THEN [Blank[r] EXCEPT !.magic = "MAGIC"]
                                 ELSE Blank[r]] : noise \in SUBSET Records}
  /\ in_handler \in BOOLEAN
  /\ boot_rung = "NONE" /\ cause = "UNKNOWN"
  /\ mode = "nominal" /\ announced = FALSE /\ frames = 0
  /\ traps = 0 /\ resets = 0
  /\ committed = "none" /\ owed = FALSE /\ degraded = FALSE
  /\ raised = FALSE /\ shorts = 0 /\ loops = 0 /\ torn = {} /\ nested = FALSE

(* Mutant: the re-entry flag keeps what the last boot, or noise, left.      *)
StartupKeepingFlag ==
  /\ pc = "reset"
  /\ pc' = "main"
  /\ boot_rung' = "NONE" /\ cause' = "UNKNOWN"
  /\ mode' = "nominal" /\ announced' = FALSE /\ frames' = 0
  /\ UNCHANGED <<todo, ram, in_handler, history, budget>>

(* start.S: the re-entry flag, then .data and .bss.                        *)
Startup ==
  /\ pc = "reset"
  /\ pc' = "main" /\ in_handler' = FALSE
  /\ boot_rung' = "NONE" /\ cause' = "UNKNOWN"
  /\ mode' = "nominal" /\ announced' = FALSE /\ frames' = 0
  /\ UNCHANGED <<todo, ram, history, budget>>

(* Mutant: the flag is read, the count is not advanced.                     *)
CountStuck == obc_recover_short_boots

(* obc_recover_boot_begins: a flag found raised is a boot that died.       *)
Count == IF intact("boot") /\ ram["boot"].second # 0
         THEN ram["boot"].first + 1
         ELSE obc_recover_short_boots

BootBegins ==
  /\ pc = "main" /\ todo = <<>>
  /\ pc' = "restore"
  /\ todo' = boot_record_write(Count, 1)
  /\ boot_rung' = IF Count >= ShortBootLimit THEN "RESET_MACHINE" ELSE "NONE"
  /\ UNCHANGED <<ram, in_handler, cause, mode, announced, frames, history, budget>>

(* Mutant: only an ordinary trap degrades the next boot.                    *)
RestoreOnTrapOnly ==
  /\ pc = "restore" /\ todo = <<>>
  /\ pc' = "consume"
  /\ cause' = obc_fault_validate
  /\ IF obc_fault_validate = "TRAP" THEN obc_mode_enter_safe("TRAP", FALSE)
     ELSE IF intact("mode") THEN obc_mode_enter_safe(ram["mode"].first, FALSE)
     ELSE mode' = "nominal" /\ announced' = FALSE /\ todo' = <<>>
  /\ UNCHANGED <<ram, in_handler, boot_rung, frames, history, budget>>

(* Mutant: the mode record is never read back.                              *)
RestoreWithoutRecord ==
  /\ pc = "restore" /\ todo = <<>>
  /\ pc' = "consume"
  /\ cause' = obc_fault_validate
  /\ IF obc_fault_validate \in {"TRAP", "DOUBLE_FAULT"}
     THEN obc_mode_enter_safe("TRAP", FALSE)
     ELSE mode' = "nominal" /\ announced' = FALSE /\ todo' = <<>>
  /\ UNCHANGED <<ram, in_handler, boot_rung, frames, history, budget>>

(* The record is validated and latched, and obc_mode_restore decides the   *)
(* mode of this boot from it and from the mode record.                     *)
Restore ==
  /\ pc = "restore" /\ todo = <<>>
  /\ pc' = "consume"
  /\ cause' = obc_fault_validate
  /\ \/ /\ obc_fault_validate \in {"TRAP", "DOUBLE_FAULT"}
        /\ obc_mode_enter_safe("TRAP", FALSE)
     \/ /\ obc_fault_validate \notin {"TRAP", "DOUBLE_FAULT"}
        /\ intact("mode")
        /\ obc_mode_enter_safe(ram["mode"].first, FALSE)
     \/ /\ obc_fault_validate \notin {"TRAP", "DOUBLE_FAULT"}
        /\ ~intact("mode")
        /\ mode' = "nominal" /\ announced' = FALSE /\ todo' = <<>>
  /\ UNCHANGED <<ram, in_handler, boot_rung, frames, history, budget>>

Consume ==
  /\ pc = "consume" /\ todo = <<>>
  /\ pc' = "escalate"
  /\ todo' = obc_fault_consume
  /\ UNCHANGED <<ram, in_handler, boot, history, budget>>

(* The telemetry layout audit, which may degrade, then the clock checks:   *)
(* the executive runs only if they pass.                                   *)
AuditFails ==
  /\ pc = "checks" /\ todo = <<>> /\ ~announced
  /\ obc_mode_enter_safe("TELEMETRY", announced)
  /\ UNCHANGED <<pc, ram, in_handler, boot_rung, cause, frames, history, budget>>

ChecksPass ==
  /\ pc = "checks" /\ todo = <<>>
  /\ pc' = "window"
  /\ UNCHANGED <<todo, ram, in_handler, boot, history, budget>>

(* obc_recover_boot_is_healthy, on the frames the window completed.        *)
boot_is_healthy ==
  IF frames < HealthyFrames THEN <<>> ELSE boot_record_write(0, 0)

ChecksFail ==
  /\ pc = "checks" /\ todo = <<>>
  /\ pc' = "parked" /\ todo' = boot_is_healthy
  /\ UNCHANGED <<ram, in_handler, boot, history, budget>>

(* The executive degrades itself: a missed boundary, or the clock.         *)
WindowDegrades ==
  /\ pc = "window" /\ todo = <<>> /\ ~announced
  /\ \E reason \in {"FRAME_OVERRUN", "CLOCK"} : obc_mode_enter_safe(reason, announced)
  /\ UNCHANGED <<pc, ram, in_handler, boot_rung, cause, frames, history, budget>>

(* Frames go by.                                                           *)
WindowTurns ==
  /\ pc = "window" /\ todo = <<>>
  /\ \E f \in Frames : f > frames /\ frames' = f
  /\ UNCHANGED <<pc, todo, ram, in_handler, boot_rung, cause, mode, announced, history,
                 budget>>

WindowReturns ==
  /\ pc = "window" /\ todo = <<>>
  /\ pc' = "parked" /\ todo' = boot_is_healthy
  /\ UNCHANGED <<ram, in_handler, boot, history, budget>>

(* The next store of the writer that is running.                           *)
Store ==
  /\ todo # <<>>
  /\ LET s == Head(todo)
         commits == is_intact(after(s)[s.record]) \/ after(s)[s.record].magic = "DOUBLE"
     IN  /\ ram' = after(s) /\ todo' = Tail(todo)
         /\ committed' = IF s = Into("fault", "sum", "payload")
                         THEN ram["fault"].first ELSE committed
         /\ owed' = IF commits /\ s.record = "fault" THEN TRUE
                    ELSE IF commits /\ s.record = "mode" THEN FALSE ELSE owed
         /\ degraded' = (degraded \/ (commits /\ s.record = "mode"))
         /\ IF commits /\ s.record = "boot"
            THEN /\ raised' = (ram["boot"].second # 0)
                 /\ shorts' = IF ram["boot"].second # 0 THEN shorts ELSE 0
                 /\ loops' = IF ram["boot"].second # 0 THEN loops ELSE 0
            ELSE UNCHANGED <<raised, shorts, loops>>
         /\ nested' = (nested /\ ~(s.record = "fault" /\ s.word = "magic" /\ s.value # "DOUBLE"))
  /\ UNCHANGED <<pc, in_handler, boot, torn, budget>>

-----------------------------------------------------------------------------
(* The record whose writer has stored a word and will not store the rest.  *)
HalfWritten ==
  IF todo = <<>> \/ pc = "escalate" THEN {}
  ELSE LET s == Head(todo) IN
       CASE s.record = "fault" -> IF s.word = "first" THEN {} ELSE {"fault"}
         [] OTHER -> IF s.word = "magic" /\ s.value = "none" THEN {} ELSE {s.record}

(* A trap, wherever the program is once mtvec is set: the handler abandons *)
(* what was running.  Inside the handler it is a double fault.             *)
Trap ==
  /\ pc # "reset" /\ traps < MaxTraps
  /\ traps' = traps + 1
  /\ pc' = "resetting" /\ in_handler' = TRUE
  /\ IF in_handler
     THEN todo' = DoubleFaultStores
     ELSE \E t \in Traps : todo' = HandlerStores(t)
  /\ torn' = torn \cup (HalfWritten \ {"fault"})
  /\ nested' = (nested \/ pc = "resetting")
  /\ UNCHANGED <<ram, boot, committed, owed, degraded, raised, shorts, loops, resets>>

(* Everything but .noinit is lost.                                         *)
Die ==
  /\ pc' = "reset" /\ todo' = <<>>
  /\ raised' = FALSE /\ shorts' = IF raised THEN shorts + 1 ELSE shorts
  /\ torn' = torn \cup HalfWritten
  /\ UNCHANGED <<ram, in_handler, boot, committed, owed, degraded, nested, traps>>

(* obc_reset_now, at the end of the handler.                               *)
ResetNow ==
  /\ pc = "resetting" /\ todo = <<>>
  /\ Die /\ UNCHANGED <<loops, resets>>

(* Mutant: a full streak is left to the executive.                          *)
EscalateLater ==
  /\ pc = "escalate" /\ todo = <<>>
  /\ pc' = "checks"
  /\ UNCHANGED <<todo, ram, in_handler, boot, history, budget>>

(* A full streak climbs straight to rung 3, which resets below the limit   *)
(* only.  The record has just been written with the count that filled it,  *)
(* so with no corruption of the RAM it never does here.                    *)
Escalate ==
  /\ pc = "escalate" /\ todo = <<>>
  /\ IF boot_rung # "RESET_MACHINE"
     THEN pc' = "checks" /\ UNCHANGED <<todo, ram, in_handler, boot, history, budget>>
     ELSE IF obc_recover_short_boots >= ShortBootLimit
     THEN /\ pc' = "checks" /\ obc_mode_enter_safe("RESET_LOOP", announced)
          /\ UNCHANGED <<ram, in_handler, boot_rung, cause, frames, history, budget>>
     ELSE loops' = loops + 1 /\ Die /\ UNCHANGED resets

(* Mutant: one reset too many.                                              *)
LadderClimbsOnce ==
  /\ pc = "window" /\ todo = <<>>
  /\ IF obc_recover_short_boots > ShortBootLimit
     THEN /\ obc_mode_enter_safe("RESET_LOOP", announced)
          /\ UNCHANGED <<pc, ram, in_handler, boot_rung, cause, frames, history, resets,
                         traps>>
     ELSE loops' = loops + 1 /\ Die /\ UNCHANGED resets

(* A task climbs to rung 3 inside the window: a reset below the limit.     *)
LadderClimbs ==
  /\ pc = "window" /\ todo = <<>>
  /\ IF obc_recover_short_boots >= ShortBootLimit
     THEN /\ obc_mode_enter_safe("RESET_LOOP", announced)
          /\ UNCHANGED <<pc, ram, in_handler, boot_rung, cause, frames, history, resets,
                         traps>>
     ELSE loops' = loops + 1 /\ Die /\ UNCHANGED resets

(* The AON watchdog, or a reset from outside.                              *)
HardwareResets ==
  /\ pc # "reset" /\ resets < MaxResets
  /\ resets' = resets + 1
  /\ Die /\ UNCHANGED loops

Parked == pc = "parked" /\ todo = <<>> /\ UNCHANGED vars

Next ==
  \/ Startup \/ BootBegins \/ Restore \/ Consume \/ Escalate
  \/ AuditFails \/ ChecksPass \/ ChecksFail \/ WindowDegrades \/ WindowTurns \/ WindowReturns
  \/ Store \/ Trap \/ ResetNow \/ LadderClimbs \/ HardwareResets \/ Parked

Spec == Init /\ [][Next]_vars

-----------------------------------------------------------------------------
TypeOK ==
  /\ pc \in {"reset", "main", "restore", "consume", "escalate", "checks", "window",
             "parked", "resetting"}
  /\ DOMAIN ram = Records /\ \A r \in Records : DOMAIN ram[r] = Words
  /\ ram["boot"].first \in Nat /\ ram["boot"].second \in {0, 1}
  /\ in_handler \in BOOLEAN
  /\ boot_rung \in {"NONE", "RESET_MACHINE"}
  /\ cause \in {"UNKNOWN", "TRAP", "DOUBLE_FAULT"}
  /\ mode \in {"nominal", "safe"} /\ announced \in BOOLEAN
  /\ frames \in {0} \cup Frames
  /\ traps \in 0 .. MaxTraps /\ resets \in 0 .. MaxResets
  /\ committed \in {"none"} \cup Traps
  /\ owed \in BOOLEAN /\ degraded \in BOOLEAN /\ raised \in BOOLEAN
  /\ shorts \in Nat /\ loops \in Nat /\ torn \subseteq Records /\ nested \in BOOLEAN

(* A record that validates is the record of one trap, the last one whose   *)
(* handler came to its checksum: never noise, never two traps mixed by a   *)
(* reset between two stores.                                               *)
RecordIsOneTrap == obc_fault_validate = "TRAP" => ram["fault"].first = committed

(* No boot runs the executive before a recorded trap has degraded it and   *)
(* the mode record says so: whatever traps and resets fall between the     *)
(* handler's commit, the restore and the consumption of the record.  Only  *)
(* a reset inside a later handler can lose it.                             *)
NoTrapIsForgotten == pc = "window" /\ owed => "fault" \in torn

(* A system degraded once stays degraded in every later boot, unless a     *)
(* reset catches the mode record half written.                             *)
SafeModeIsKept == pc = "window" /\ degraded => mode = "safe" \/ "mode" \in torn

(* As many short boots in a row as the limit, however each of them died,   *)
(* and the executive runs degraded, unless the count itself was torn.      *)
StreakEndsInSafe ==
  pc = "window" /\ shorts >= ShortBootLimit => mode = "safe" \/ "boot" \in torn

(* recover.c 118: what the record counts is what happened: boots that      *)
(* raised the flag and died before they lowered it, in a row.  A reset     *)
(* before the flag, a trap in the middle of a boot and a healthy boot in   *)
(* between neither add to it nor lose one, unless the record was torn.     *)
StreakIsExact ==
  pc = "window" => obc_recover_short_boots = shorts \/ "boot" \in torn

(* start.S 64: a double fault is reported only when a trap really fell     *)
(* inside the handler, and not because the flag survived a boot, or a      *)
(* reset left an older record behind.                                      *)
DoubleFaultIsReal == obc_fault_validate = "DOUBLE_FAULT" => nested

(* The ladder cannot reset for ever: as many resets as the limit, and the  *)
(* next boot stays up, unless a reset tore the record of the streak.       *)
LadderStops == loops <= ShortBootLimit \/ "boot" \in torn

-----------------------------------------------------------------------------
(* What the repository says of the records, and the code does not always   *)
(* do.                                                                     *)

(* mode.h 78: never returns to nominal.                                    *)
NeverReturnsToNominal == pc = "window" /\ degraded => mode = "safe"

=============================================================================

------------------------------- MODULE Report -------------------------------
(***************************************************************************)
(* What a boot of OBC-Zero says of itself on the console: obc_main of      *)
(* flight/core/main.c line by line, over the console of                    *)
(* flight/hal/uart.c, which may refuse any byte and recover at the next.   *)
(*                                                                         *)
(* A line is some texts, a text is Bytes bytes.  Most texts are checked: a *)
(* refusal ends the line, and obc_main stops printing the lines that       *)
(* depend on st.  Some are ignored (OBC_IGNORE): the next text is tried.   *)
(* The findings a line reports are choices; what each of them is worth is  *)
(* in Boot, TickCheck, Telemetry, Command and Executive.                   *)
(***************************************************************************)
EXTENDS Integers, Sequences

CONSTANTS
  Bytes,       (* bytes of a text                                          *)
  RetryLimit,  (* UART_TX_RETRY_LIMIT, polls of one byte                   *)
  MaxResets    (* bound: traps and resets of a behaviour                   *)

ASSUME ReportAssumption ==
  Bytes \in Nat \ {0} /\ RetryLimit \in Nat /\ MaxResets \in Nat

VARIABLES
  pc,        \* the next step of obc_main
  st, inv_st, tick_st,
  line,      \* the line being written, or "none"
  todo,      \* its texts still to write: "checked" or "ignored"
  byte,      \* bytes of the first of them that are out
  allowance, \* the polls left for the next byte
  refused,   \* a checked text of this line was refused
  result,    \* what the function that prints the line returns if none was
  said,      \* what each line says on the console; "torn" if not whole
  record,    \* what obc_fault_validate finds
  cause,     \* obc_reset_cause_previous
  reason,    \* obc_safe_reason, "none" while s_announced is 0
  finding,   \* what the step whose line comes next found
  failed,    \* history: the checks of this boot that failed
  unread,    \* history: record is a trap's, and was not printed whole
  traps,     \* history: the traps whose handler stored into the record
  resets     \* history: resets so far, those of the traps included

console == <<line, todo, byte, allowance, refused, result, said>>
statuses == <<st, inv_st, tick_st>>
history == <<failed, unread, traps, resets>>
kept == <<record, cause, reason, finding>>
vars == <<pc, statuses, console, kept, history>>

StLines == {"banner", "ram", "stack", "reset", "boots", "tlm", "cmd", "sched"}
Lines == StLines \cup {"mscratch", "tick", "base", "mode", "boot"}
Recorded == {"trap", "double"}
Records == Recorded \cup {"none", "corrupt", "requested"}

Checked(n) == [k \in 1 .. n |-> "checked"]
Ignored(n) == [k \in 1 .. n |-> "ignored"]

-----------------------------------------------------------------------------
(* A boot starts, warm or cold: .bss is clear, the record is what it was.  *)
Begins ==
  /\ pc' = "banner"
  /\ st' = "OK" /\ inv_st' = "OK" /\ tick_st' = "OK"
  /\ line' = "none" /\ todo' = <<>> /\ byte' = 0 /\ allowance' = RetryLimit
  /\ refused' = FALSE /\ result' = "OK"
  /\ said' = [l \in Lines |-> "nothing"]
  /\ cause' = "none" /\ reason' = "none" /\ finding' = "none" /\ failed' = {}

Init ==
  /\ pc = "banner"
  /\ st = "OK" /\ inv_st = "OK" /\ tick_st = "OK"
  /\ line = "none" /\ todo = <<>> /\ byte = 0 /\ allowance = RetryLimit
  /\ refused = FALSE /\ result = "OK"
  /\ said = [l \in Lines |-> "nothing"]
  /\ record \in Records /\ unread = (record \in Recorded)
  /\ cause = "none" /\ reason = "none" /\ finding = "none"
  /\ failed = {} /\ traps = 0 /\ resets = 0

-----------------------------------------------------------------------------
(* The console.  port_putc polls; the allowance is one byte's.             *)
PortTakes ==
  /\ todo # <<>>
  /\ allowance' = RetryLimit
  /\ IF byte + 1 < Bytes THEN byte' = byte + 1 /\ UNCHANGED todo
     ELSE byte' = 0 /\ todo' = Tail(todo)
  /\ UNCHANGED <<pc, statuses, line, refused, result, said, kept, history>>

(* A mistake to tell apart: the poll is made before the allowance is       *)
(* tested, and the count wraps.                                            *)
PortRefusesFirst ==
  /\ todo # <<>>
  /\ allowance' = allowance - 1
  /\ UNCHANGED <<pc, statuses, line, todo, byte, refused, result, said, kept, history>>

PortRefuses ==
  /\ todo # <<>> /\ allowance > 0
  /\ allowance' = allowance - 1
  /\ UNCHANGED <<pc, statuses, line, todo, byte, refused, result, said, kept, history>>

(* A mistake to tell apart: the byte is tried again.                       *)
TextRetried ==
  /\ todo # <<>> /\ allowance = 0
  /\ allowance' = RetryLimit
  /\ said' = [said EXCEPT ![line] = "torn"]
  /\ UNCHANGED <<pc, statuses, line, todo, byte, refused, result, kept, history>>

(* The byte timed out: puts and put_u32 hand it on, the line stays torn.   *)
TextRefused ==
  /\ todo # <<>> /\ allowance = 0
  /\ byte' = 0 /\ allowance' = RetryLimit
  /\ said' = [said EXCEPT ![line] = "torn"]
  /\ IF Head(todo) = "checked" THEN todo' = <<>> /\ refused' = TRUE
     ELSE todo' = Tail(todo) /\ UNCHANGED refused
  /\ UNCHANGED <<pc, statuses, line, result, kept, history>>

(* The line is over: its status goes where obc_main keeps it.              *)
Returned == IF refused THEN "TIMEOUT" ELSE result

LineReturns ==
  /\ line # "none" /\ todo = <<>>
  /\ line' = "none"
  /\ st' = IF line \in StLines THEN Returned ELSE st
  /\ inv_st' = IF line = "mscratch" THEN Returned ELSE inv_st
  /\ tick_st' = IF line \in {"tick", "base"} THEN Returned ELSE tick_st
  /\ unread' = (unread /\ ~(line = "reset" /\ said[line] \in Recorded))
  /\ UNCHANGED <<pc, todo, byte, allowance, refused, result, said, kept, failed, traps,
                 resets>>

Says(l, says, texts, returns) ==
  /\ line' = l /\ todo' = texts /\ refused' = FALSE /\ result' = returns
  /\ said' = [said EXCEPT ![l] = says]
  /\ UNCHANGED <<byte, allowance>>

Silent == UNCHANGED console

(* obc_mode_enter_safe: the first reason is announced, and ignored if the  *)
(* console will not have it.                                               *)
obc_mode_enter_safe(r) ==
  IF reason # "none" THEN Silent /\ UNCHANGED reason
  ELSE reason' = r /\ Says("mode", r, Ignored(3), "OK")

At(step) == pc = step /\ line = "none"

-----------------------------------------------------------------------------
(* The lines that only depend on those before them.                        *)
PlainLine(l, next) ==
  /\ At(l) /\ pc' = next
  /\ IF st = "OK" THEN Says(l, "ok", Checked(2), "OK") ELSE Silent
  /\ UNCHANGED <<statuses, kept, history>>

(* print_mscratch_invariant, whatever st is.                               *)
Mscratch ==
  /\ At("mscratch") /\ pc' = "reset"
  /\ \/ Says("mscratch", "ok", Checked(2), "OK") /\ UNCHANGED failed
     \/ Says("mscratch", "FAULT", Checked(2), "INVALID") /\ failed' = failed \cup {"mscratch"}
  /\ UNCHANGED <<statuses, kept, unread, traps, resets>>

(* A mistake to tell apart: the record is consumed, then printed.          *)
ResetCauseConsumed ==
  /\ At("reset") /\ pc' = "latch"
  /\ record' = "none"
  /\ IF st = "OK" THEN Says("reset", "none", Checked(2), "OK") ELSE Silent
  /\ UNCHANGED <<statuses, cause, reason, finding, history>>

(* print_reset_cause.                                                      *)
ResetCause ==
  /\ At("reset") /\ pc' = "latch"
  /\ IF st = "OK" THEN Says("reset", record, Checked(2), "OK") ELSE Silent
  /\ UNCHANGED <<statuses, kept, history>>

(* The cause latched for telemetry, UNKNOWN for a record that does not     *)
(* validate, and obc_mode_restore with it; a mode record may degrade too.  *)
Validated == IF record \in {"none", "corrupt"} THEN "UNKNOWN" ELSE record

Latch ==
  /\ At("latch") /\ pc' = "consume"
  /\ cause' = Validated
  /\ \/ record \in Recorded /\ obc_mode_enter_safe("TRAP")
     \/ record \notin Recorded /\ obc_mode_enter_safe("RECORD")
     \/ record \notin Recorded /\ Silent /\ UNCHANGED reason
  /\ UNCHANGED <<statuses, record, finding, history>>

Consume ==
  /\ At("consume") /\ pc' = "boots"
  /\ record' = "none"
  /\ unread' = FALSE
  /\ UNCHANGED <<statuses, console, cause, reason, finding, failed, traps, resets>>

(* boot_rung may be RESET_MACHINE with the streak full.                    *)
Escalate ==
  /\ At("escalate") /\ pc' = "tlm"
  /\ obc_mode_enter_safe("RESET_LOOP") \/ (Silent /\ UNCHANGED reason)
  /\ UNCHANGED <<statuses, record, cause, finding, history>>

(* obc_tlm_init's verdict, then the degradation it calls for.              *)
TlmAudit ==
  /\ At("tlm") /\ pc' = "tlm_mode"
  /\ finding' \in {"ok", "FAULT"}
  /\ IF st = "OK" THEN Says("tlm", finding', Checked(2), "OK") ELSE Silent
  /\ UNCHANGED <<statuses, record, cause, reason, history>>

TlmMode ==
  /\ At("tlm_mode") /\ pc' = "cmd"
  /\ finding' = "none"
  /\ IF finding = "FAULT" THEN obc_mode_enter_safe("TELEMETRY")
     ELSE Silent /\ UNCHANGED reason
  /\ UNCHANGED <<statuses, record, cause, history>>

(* obc_cmd_init's verdict, which degrades nothing.                         *)
CmdAudit ==
  /\ At("cmd") /\ pc' = "tick"
  /\ IF st = "OK" THEN \E says \in {"ok", "FAULT"} : Says("cmd", says, Checked(2), "OK")
     ELSE Silent
  /\ UNCHANGED <<statuses, kept, history>>

(* print_tick_check, whatever st is: the delta, then the reads.            *)
TickLine ==
  /\ At("tick") /\ pc' = "base"
  /\ \/ Says("tick", "ok", Checked(3), "OK") /\ UNCHANGED failed
     \/ /\ \E s \in {"INVALID", "UNSTABLE"} : Says("tick", "FAULT", Checked(3), s)
        /\ failed' = failed \cup {"tick"}
  /\ UNCHANGED <<statuses, kept, unread, traps, resets>>

(* print_timebase_check, only past a good tick check: the ratio is good,   *)
(* out of tolerance, or was not measured.                                  *)
BaseLine ==
  /\ At("base") /\ pc' = "window"
  /\ \/ tick_st # "OK" /\ Silent /\ UNCHANGED failed
     \/ tick_st = "OK" /\ Says("base", "ok", Checked(3), "OK") /\ UNCHANGED failed
     \/ /\ tick_st = "OK" /\ failed' = failed \cup {"base"}
        /\ \/ Says("base", "FAULT", Checked(2) \o Ignored(3), "INVALID")
           \/ Says("base", "FAULT", Checked(1) \o Ignored(1), "TIMEOUT")
  /\ UNCHANGED <<statuses, kept, unread, traps, resets>>

(* obc_sched_run, only if the console and the clock are good.  It returns  *)
(* an error, or leaves counts the summary reads; it may degrade.           *)
Window ==
  /\ At("window")
  /\ \/ /\ st # "OK" \/ tick_st # "OK"
        /\ pc' = "healthy" /\ Silent /\ UNCHANGED <<kept, failed>>
     \/ /\ st = "OK" /\ tick_st = "OK"
        /\ pc' = "sched"
        /\ finding' \in {"ok", "error", "overflow", "overrun"}
        /\ failed' = IF finding' = "ok" THEN failed ELSE failed \cup {finding'}
        /\ obc_mode_enter_safe("EXECUTIVE") \/ (Silent /\ UNCHANGED reason)
        /\ UNCHANGED <<record, cause>>
  /\ UNCHANGED <<statuses, unread, traps, resets>>

(* A mistake to tell apart: the overruns are printed and not returned.     *)
SummaryLenient ==
  /\ At("sched") /\ pc' = "healthy"
  /\ CASE finding = "error"    -> Says("sched", "FAULT", Checked(1) \o Ignored(1), "ERROR")
       [] finding = "overflow" -> Says("sched", "FAULT", Checked(3) \o Ignored(1), "INVALID")
       [] finding = "overrun"  -> Says("sched", "FAULT", Checked(3) \o Ignored(1), "OK")
       [] finding = "ok"       -> Says("sched", "ok", Checked(3), "OK")
  /\ finding' = "none"
  /\ UNCHANGED <<statuses, record, cause, reason, history>>

(* print_sched_summary.                                                    *)
Summary ==
  /\ At("sched") /\ pc' = "healthy"
  /\ CASE finding = "error"    -> Says("sched", "FAULT", Checked(1) \o Ignored(1), "ERROR")
       [] finding = "overflow" -> Says("sched", "FAULT", Checked(3) \o Ignored(1), "INVALID")
       [] finding = "overrun"  -> Says("sched", "FAULT", Checked(3) \o Ignored(1), "UNSTABLE")
       [] finding = "ok"       -> Says("sched", "ok", Checked(3), "OK")
  /\ finding' = "none"
  /\ UNCHANGED <<statuses, record, cause, reason, history>>

(* obc_recover_boot_is_healthy says nothing; then the sentinel.            *)
Sentinel ==
  /\ At("healthy") /\ pc' = "parked"
  /\ Says("boot", IF st = "OK" /\ tick_st = "OK" /\ inv_st = "OK" THEN "ok" ELSE "FAULT",
           Ignored(1), "OK")
  /\ UNCHANGED <<statuses, kept, history>>

-----------------------------------------------------------------------------
(* A reset from outside leaves the record.                                 *)
Starts == resets < MaxResets /\ resets' = resets + 1 /\ Begins

Reset == Starts /\ UNCHANGED <<record, unread, traps>>

(* A trap: the handler stores over whatever the record holds, read or not, *)
(* and resets.  A trap inside the handler leaves the double fault's mark.  *)
TrapResets ==
  /\ Starts /\ traps' = traps + 1
  /\ record' \in Recorded /\ unread' = TRUE

(* A reset falls between two stores of the handler.  The magic is stored   *)
(* last and is not cleared first: a magic that is already there makes the  *)
(* half-written record corrupt up to the store of the checksum, and the    *)
(* new trap's after it; with no magic there is no record.                  *)
HasMagic == record \in {"trap", "requested", "corrupt"}

TrapIsCut ==
  /\ Starts /\ traps' = traps + 1
  /\ IF HasMagic
     THEN \/ record' = "corrupt" /\ unread' = FALSE
          \/ record' = "trap" /\ unread' = TRUE
     ELSE UNCHANGED <<record, unread>>

PutText == PortTakes \/ PortRefuses \/ TextRefused \/ LineReturns

obc_main ==
  \/ PlainLine("banner", "ram") \/ PlainLine("ram", "stack") \/ PlainLine("stack", "mscratch")
  \/ Mscratch \/ ResetCause \/ Latch \/ Consume \/ PlainLine("boots", "escalate")
  \/ Escalate \/ TlmAudit \/ TlmMode \/ CmdAudit \/ TickLine \/ BaseLine
  \/ Window \/ Summary \/ Sentinel

Parked == At("parked") /\ UNCHANGED vars

Next == PutText \/ obc_main \/ Reset \/ TrapResets \/ TrapIsCut \/ Parked

(* One hart and no interrupts: the program goes on.  Nothing is asked of   *)
(* the console.                                                            *)
Spec == Init /\ [][Next]_vars /\ WF_vars(PutText \/ obc_main)

-----------------------------------------------------------------------------
TypeOK ==
  /\ pc \in Lines \cup {"latch", "consume", "escalate", "tlm_mode", "window", "healthy",
                        "parked"}
  /\ st \in {"OK", "TIMEOUT", "ERROR", "INVALID", "UNSTABLE"}
  /\ inv_st \in {"OK", "TIMEOUT", "INVALID"}
  /\ tick_st \in {"OK", "TIMEOUT", "INVALID", "UNSTABLE"}
  /\ line \in Lines \cup {"none"}
  /\ todo \in Seq({"checked", "ignored"}) /\ todo # <<>> => line # "none"
  /\ byte \in 0 .. Bytes - 1 /\ allowance \in 0 .. RetryLimit
  /\ refused \in BOOLEAN
  /\ DOMAIN said = Lines
  /\ record \in Records /\ cause \in Records \cup {"UNKNOWN"}
  /\ finding \in {"none", "ok", "FAULT", "error", "overflow", "overrun"}
  /\ failed \subseteq {"mscratch", "tick", "base", "error", "overflow", "overrun"}
  /\ unread \in BOOLEAN /\ resets \in 0 .. MaxResets /\ traps \in 0 .. resets

(* main.c 762: the sentinel reports the verdict, in both directions.  A    *)
(* boot that says ok had no check fail, ran the executive, and every line  *)
(* of its report is whole; one that says FAULT had a check fail, or a line *)
(* refused, and the report shows which.                                    *)
Reported == Lines \ {"mode", "boot"}
VerdictIsHonest ==
  At("parked") =>
    /\ said["boot"] = "ok" =>
         failed = {} /\ \A l \in Reported : said[l] \notin {"torn", "nothing"}
    /\ said["boot"] = "FAULT" =>
         /\ failed # {} \/ \E l \in Reported : said[l] = "torn"
         /\ \E l \in Reported : said[l] \in {"FAULT", "torn"}

(* main.c 633 and 650: the program destroys a trap's record only after a   *)
(* boot has printed it whole, or in a boot whose console refused a line.   *)
(* Otherwise the record is lost in one way, to the handler of a later      *)
(* trap, which stores over it unread (trap.S 82-117); and that trap fell   *)
(* before print_reset_cause had returned.  What the telemetry latches is   *)
(* what was printed.                                                       *)
RecordIsLost == unread /\ (record' \notin Recorded \/ traps' # traps)
NotYetSaid == pc \in {"banner", "ram", "stack", "mscratch", "reset"} \/ line = "reset"

CauseIsReported ==
  /\ [](said["reset"] \in Recorded /\ cause # "none" => cause = said["reset"])
  /\ [][RecordIsLost =>
          (\E l \in StLines : said[l] = "torn") \/ (traps' # traps /\ NotYetSaid)]_vars

(* uart.c 53: no loop is unbounded.  A console that takes nothing does not *)
(* keep a boot from its end.                                               *)
BootEnds == <>[](pc = "parked")
=============================================================================

---------------------------- MODULE Report_proof ----------------------------
(***************************************************************************)
(* Theorems about what a boot says of itself, for texts of any number of   *)
(* bytes, any number of polls, any number of traps and resets, and a       *)
(* console that takes and refuses bytes as it likes.                       *)
(***************************************************************************)
EXTENDS Report, SequenceTheorems, TLAPS

-----------------------------------------------------------------------------
(* The steps of obc_main, in their order.                                  *)
Steps == Reported \cup {"latch", "consume", "escalate", "tlm_mode", "window", "healthy",
                        "parked"}

Position == [s \in Steps |->
  CASE s = "banner" -> 0   [] s = "ram" -> 1      [] s = "stack" -> 2
    [] s = "mscratch" -> 3 [] s = "reset" -> 4    [] s = "latch" -> 5
    [] s = "consume" -> 6  [] s = "boots" -> 7    [] s = "escalate" -> 8
    [] s = "tlm" -> 9      [] s = "tlm_mode" -> 10 [] s = "cmd" -> 11
    [] s = "tick" -> 12    [] s = "base" -> 13    [] s = "window" -> 14
    [] s = "sched" -> 15   [] s = "healthy" -> 16 [] s = "parked" -> 17]

Passed(l) == Position[l] < Position[pc]

LEMMA Positions ==
  /\ Position["banner"] = 0 /\ Position["ram"] = 1 /\ Position["stack"] = 2
  /\ Position["mscratch"] = 3 /\ Position["reset"] = 4 /\ Position["latch"] = 5
  /\ Position["consume"] = 6 /\ Position["boots"] = 7 /\ Position["escalate"] = 8
  /\ Position["tlm"] = 9 /\ Position["tlm_mode"] = 10 /\ Position["cmd"] = 11
  /\ Position["tick"] = 12 /\ Position["base"] = 13 /\ Position["window"] = 14
  /\ Position["sched"] = 15 /\ Position["healthy"] = 16 /\ Position["parked"] = 17
  BY DEF Position, Steps, Reported, Lines, StLines

LEMMA StepsApart ==
  /\ Steps = {"banner", "ram", "stack", "mscratch", "reset", "latch", "consume", "boots",
               "escalate", "tlm", "tlm_mode", "cmd", "tick", "base", "window", "sched",
               "healthy", "parked"}
  /\ \A a \in Steps : Position[a] \in 0 .. 17
  /\ \A a, b \in Steps : Position[a] = Position[b] => a = b
<1>1. Steps = {"banner", "ram", "stack", "mscratch", "reset", "latch", "consume", "boots",
               "escalate", "tlm", "tlm_mode", "cmd", "tick", "base", "window", "sched",
               "healthy", "parked"}
  BY DEF Steps, Reported, Lines, StLines
<1>2. \A a \in Steps : Position[a] \in 0 .. 17
  BY <1>1, Positions
<1>3. ASSUME NEW a \in Steps, NEW b \in Steps, Position[a] = Position[b]
      PROVE  a = b
  BY <1>1, <1>3, Positions
<1> QED
  BY <1>1, <1>2, <1>3

(* The step after passes one line more, at most.                           *)
LEMMA Turn ==
  ASSUME NEW step \in Steps, NEW next \in Steps,
         Position[next] = Position[step] + 1, pc = step, pc' = next
  PROVE  \A l \in Steps : Passed(l)' <=> Passed(l) \/ l = step
<1> SUFFICES ASSUME NEW l \in Steps PROVE Passed(l)' <=> Passed(l) \/ l = step
  OBVIOUS
<1>1. Position[l] \in Int /\ Position[step] \in Int /\ Position[next] \in Int
  BY StepsApart
<1>2. Position[l] = Position[step] => l = step
  BY StepsApart
<1> QED
  BY <1>1, <1>2 DEF Passed

Findings == {"ok", "error", "overflow", "overrun"}

(* What a line can say, and what the function that prints it can return.   *)
Sayings == Records \cup {"nothing", "torn", "ok", "FAULT", "TRAP", "RECORD", "RESET_LOOP",
                         "TELEMETRY", "EXECUTIVE"}

Results(l) ==
  CASE l = "mscratch" -> {"OK", "INVALID"}
    [] l = "tick" -> {"OK", "INVALID", "UNSTABLE"}
    [] l = "base" -> {"OK", "INVALID", "TIMEOUT"}
    [] l = "sched" -> {"OK", "ERROR", "INVALID", "UNSTABLE"}
    [] OTHER -> {"OK"}

ConsoleTypes ==
  /\ line \in Lines \cup {"none"}
  /\ todo \in Seq({"checked", "ignored"}) /\ (todo # <<>> => line # "none")
  /\ byte \in 0 .. Bytes - 1 /\ allowance \in 0 .. RetryLimit
  /\ refused \in BOOLEAN
  /\ said \in [Lines -> Sayings]
  /\ line # "none" => result \in Results(line)

StatusTypes ==
  /\ st \in {"OK", "TIMEOUT", "ERROR", "INVALID", "UNSTABLE"}
  /\ inv_st \in {"OK", "TIMEOUT", "INVALID"}
  /\ tick_st \in {"OK", "TIMEOUT", "INVALID", "UNSTABLE"}

KeptTypes ==
  /\ record \in Records /\ cause \in Records \cup {"UNKNOWN"}
  /\ finding \in {"none", "FAULT"} \cup Findings
  /\ failed \subseteq {"mscratch", "tick", "base", "error", "overflow", "overrun"}
  /\ unread \in BOOLEAN /\ resets \in 0 .. MaxResets /\ traps \in 0 .. resets

TypesOK == pc \in Steps /\ ConsoleTypes /\ StatusTypes /\ KeptTypes

-----------------------------------------------------------------------------
(* A line is said once, when its step comes; while it is being written the *)
(* status it will be kept in is still good.                                *)
OrderOK ==
  /\ \A l \in Reported : ~Passed(l) => said[l] = "nothing"
  /\ line \in Reported => Passed(line)
  /\ line \in StLines => st = "OK"
  /\ line = "mscratch" => inv_st = "OK"
  /\ line \in {"tick", "base"} => tick_st = "OK"
  /\ pc = "sched" => st = "OK" /\ tick_st = "OK" /\ line \in {"none", "mode"}
  /\ pc = "sched" => finding \in Findings /\ (finding # "ok" => finding \in failed)
  /\ pc = "parked" => line \in {"none", "boot"}

(* A line the console refused, or one that says its check failed.          *)
Shown(l) == said[l] = "torn" \/ (said[l] = "FAULT" /\ failed # {})

(* A status that is not good has its reason on the console.                *)
ShownOK ==
  /\ line # "none" /\ refused => said[line] = "torn"
  /\ line # "none" /\ result # "OK" => Shown(line)
  /\ st # "OK" => Shown("sched") \/ \E l \in StLines : said[l] = "torn"
  /\ inv_st # "OK" => Shown("mscratch")
  /\ tick_st # "OK" => Shown("tick") \/ Shown("base")

(* As long as its status is good, a line whose turn has passed is whole.   *)
Whole(l) == Passed(l) /\ line # l => said[l] \notin {"torn", "nothing"}

WholeOK ==
  /\ line # "none" => said[line] # "nothing"
  /\ line \in Reported /\ said[line] = "torn" => refused \/ result # "OK"
  /\ line \in Reported /\ result = "OK" => todo \in Seq({"checked"})
  /\ st = "OK" => \A l \in StLines \ {"sched"} : Whole(l)
  /\ st = "OK" /\ tick_st = "OK" => Whole("sched")
  /\ inv_st = "OK" => Whole("mscratch")
  /\ tick_st = "OK" => Whole("tick") /\ Whole("base")

(* A check that failed is in the status, or in the line being written.     *)
FailedOK ==
  /\ "mscratch" \in failed => inv_st # "OK" \/ (line = "mscratch" /\ result # "OK")
  /\ failed \cap {"tick", "base"} # {} =>
       tick_st # "OK" \/ (line \in {"tick", "base"} /\ result # "OK")
  /\ failed \cap Findings # {} =>
       st # "OK" \/ (line = "sched" /\ result # "OK") \/ (pc = "sched" /\ finding # "ok")

(* The sentinel is the verdict of the three statuses.                      *)
Good == st = "OK" /\ tick_st = "OK" /\ inv_st = "OK"

SentinelOK ==
  pc = "parked" => (said["boot"] = "ok" => Good) /\ (said["boot"] = "FAULT" => ~Good)

ReportInv == TypesOK /\ OrderOK /\ ShownOK /\ WholeOK /\ FailedOK /\ SentinelOK

-----------------------------------------------------------------------------
(* Types.  The texts of a line.                                            *)
LEMMA Texts ==
  ASSUME NEW n \in Nat
  PROVE  Checked(n) \in Seq({"checked"}) /\ Ignored(n) \in Seq({"checked", "ignored"})
  BY DEF Checked, Ignored

LEMMA MixedTexts ==
  /\ \A n \in Nat : Checked(n) \in Seq({"checked", "ignored"})
  /\ \A n, m \in Nat : Checked(n) \o Ignored(m) \in Seq({"checked", "ignored"})
<1>1. ASSUME NEW n \in Nat PROVE Checked(n) \in Seq({"checked", "ignored"})
  BY DEF Checked
<1>2. ASSUME NEW n \in Nat, NEW m \in Nat
      PROVE  Checked(n) \o Ignored(m) \in Seq({"checked", "ignored"})
  BY <1>1, Texts, ConcatProperties
<1> QED
  BY <1>1, <1>2

LEMMA TypesSuffice == TypesOK => TypeOK
<1> SUFFICES ASSUME TypesOK PROVE TypeOK
  OBVIOUS
<1>1. pc \in Lines \cup {"latch", "consume", "escalate", "tlm_mode", "window", "healthy",
                        "parked"}
  BY DEF TypesOK, Steps, Reported
<1>2. DOMAIN said = Lines
  BY DEF TypesOK, ConsoleTypes
<1>3. finding \in {"none", "ok", "FAULT", "error", "overflow", "overrun"}
  BY DEF TypesOK, KeptTypes, Findings
<1> QED
  BY <1>1, <1>2, <1>3 DEF TypesOK, TypeOK, ConsoleTypes, StatusTypes, KeptTypes

LEMMA BootHasTypes ==
  /\ Init => TypesOK
  /\ Begins => pc' \in Steps /\ ConsoleTypes' /\ StatusTypes' /\ cause' \in Records
              /\ finding' = "none" /\ failed' = {}
<1>1. "nothing" \in Sayings /\ "banner" \in Steps /\ "none" \in Records
  BY DEF Sayings, Steps, Reported, Lines, StLines, Records
<1>2. 0 \in 0 .. Bytes - 1 /\ RetryLimit \in 0 .. RetryLimit /\ 0 \in 0 .. MaxResets
  BY ReportAssumption
<1>3. [l \in Lines |-> "nothing"] \in [Lines -> Sayings]
  BY <1>1
<1> DEFINE none == <<>>
           empty == [l \in Lines |-> "nothing"]
<1>0. none \in Seq({"checked", "ignored"}) /\ empty \in [Lines -> Sayings]
  BY <1>3
<1>4. Init => ConsoleTypes /\ StatusTypes /\ KeptTypes
  <2> SUFFICES ASSUME Init PROVE ConsoleTypes /\ StatusTypes /\ KeptTypes
    OBVIOUS
  <2>1. /\ line = "none" /\ todo = none /\ byte = 0 /\ allowance = RetryLimit
        /\ refused = FALSE /\ said = empty /\ todo = <<>>
    BY DEF Init
  <2>2. ConsoleTypes
    <3> HIDE DEF none, empty
    <3> QED
      BY <2>1, <1>0, <1>2 DEF ConsoleTypes
  <2>3. unread \in BOOLEAN
    BY DEF Init
  <2>4. StatusTypes /\ KeptTypes
    BY <1>1, <1>2, <2>3 DEF Init, StatusTypes, KeptTypes
  <2> QED
    BY <2>2, <2>4
<1>5. Begins => ConsoleTypes'
  <2> SUFFICES ASSUME Begins PROVE ConsoleTypes'
    OBVIOUS
  <2>1. /\ line' = "none" /\ todo' = none /\ byte' = 0 /\ allowance' = RetryLimit
        /\ refused' = FALSE /\ said' = empty /\ todo' = <<>>
    BY DEF Begins
  <2> HIDE DEF none, empty
  <2> QED
    BY <2>1, <1>0, <1>2 DEF ConsoleTypes
<1>6. Begins => StatusTypes'
  BY DEF Begins, StatusTypes
<1> QED
  BY <1>1, <1>4, <1>5, <1>6 DEF Init, Begins, TypesOK

(* What a line says leaves the console in order.                           *)
LEMMA SaysHasTypes ==
  ASSUME ConsoleTypes, NEW l \in Lines, NEW says \in Sayings, NEW returns \in Results(l),
         NEW texts \in Seq({"checked", "ignored"}), Says(l, says, texts, returns)
  PROVE  ConsoleTypes'
<1>1. "none" \notin Lines
  BY DEF Lines, StLines
<1>2. said' \in [Lines -> Sayings]
  BY DEF Says, ConsoleTypes
<1>3. byte' \in 0 .. Bytes - 1 /\ allowance' \in 0 .. RetryLimit /\ refused' \in BOOLEAN
  BY DEF Says, ConsoleTypes
<1>4. line' = l /\ todo' = texts /\ result' = returns
  BY DEF Says
<1>5. todo' \in Seq({"checked", "ignored"}) /\ line' \in Lines \cup {"none"}
      /\ (todo' # <<>> => line' # "none") /\ result' \in Results(line')
  BY <1>1, <1>4
<1> QED
  BY <1>2, <1>3, <1>5 DEF ConsoleTypes

LEMMA SilentHasTypes == ConsoleTypes /\ Silent => ConsoleTypes'
  BY DEF Silent, console, ConsoleTypes

LEMMA SafeHasTypes ==
  ASSUME ConsoleTypes, NEW r \in Sayings, obc_mode_enter_safe(r)
  PROVE  ConsoleTypes'
<1>1. CASE Silent
  BY <1>1, SilentHasTypes
<1>2. CASE Says("mode", r, Ignored(3), "OK")
  <2>1. "mode" \in Lines /\ "OK" \in Results("mode")
    BY DEF Lines, Results
  <2> QED
    BY <1>2, <2>1, Texts, SaysHasTypes
<1> QED
  BY <1>1, <1>2 DEF obc_mode_enter_safe

LEMMA ConsoleHasTypes ==
  ASSUME TypesOK, PortTakes \/ PortRefuses \/ TextRefused
  PROVE  TypesOK'
<1>1. /\ pc' \in Steps /\ StatusTypes' /\ KeptTypes' /\ line' = line /\ result' = result
  BY DEF TypesOK, StatusTypes, KeptTypes, PortTakes, PortRefuses, TextRefused, statuses,
         kept, history
<1>2. /\ Bytes \in Nat \ {0} /\ RetryLimit \in Nat /\ todo # <<>> /\ line # "none"
      /\ todo \in Seq({"checked", "ignored"}) /\ line \in Lines
      /\ byte \in 0 .. Bytes - 1 /\ allowance \in 0 .. RetryLimit
  BY ReportAssumption DEF TypesOK, ConsoleTypes, PortTakes, PortRefuses, TextRefused
<1>3. Tail(todo) \in Seq({"checked", "ignored"}) /\ <<>> \in Seq({"checked", "ignored"})
  BY <1>2, HeadTailProperties
<1>4. todo' \in Seq({"checked", "ignored"})
  BY <1>2, <1>3 DEF PortTakes, PortRefuses, TextRefused
<1>5. byte' \in 0 .. Bytes - 1 /\ allowance' \in 0 .. RetryLimit
  BY <1>2 DEF PortTakes, PortRefuses, TextRefused
<1>6. said' \in [Lines -> Sayings] /\ refused' \in BOOLEAN
  <2>1. "torn" \in Sayings
    BY DEF Sayings
  <2>2. said' \in [Lines -> Sayings]
    BY <1>2, <2>1 DEF PortTakes, PortRefuses, TextRefused, TypesOK, ConsoleTypes
  <2>3. refused' \in {refused, TRUE}
    BY DEF PortTakes, PortRefuses, TextRefused
  <2> QED
    BY <2>2, <2>3 DEF TypesOK, ConsoleTypes
<1>7. ConsoleTypes'
  BY <1>1, <1>2, <1>4, <1>5, <1>6 DEF TypesOK, ConsoleTypes
<1> QED
  BY <1>1, <1>7 DEF TypesOK

(* What a function that prints a line can return.                          *)
LEMMA ReturnedValues ==
  ASSUME TypesOK, line # "none"
  PROVE  /\ line \in StLines => Returned \in {"OK", "TIMEOUT", "ERROR", "INVALID", "UNSTABLE"}
         /\ line = "mscratch" => Returned \in {"OK", "TIMEOUT", "INVALID"}
         /\ line \in {"tick", "base"} => Returned \in {"OK", "TIMEOUT", "INVALID", "UNSTABLE"}
<1>1. result \in Results(line) /\ refused \in BOOLEAN
  BY DEF TypesOK, ConsoleTypes
<1>2. Returned \in {"TIMEOUT", result}
  BY <1>1 DEF Returned
<1>3. line \in StLines => result \in {"OK", "ERROR", "INVALID", "UNSTABLE"}
  BY <1>1 DEF StLines, Results
<1>4. line = "mscratch" => result \in {"OK", "INVALID"}
  BY <1>1 DEF Results
<1>5. line \in {"tick", "base"} => result \in {"OK", "INVALID", "UNSTABLE", "TIMEOUT"}
  BY <1>1 DEF Results
<1> QED
  BY <1>2, <1>3, <1>4, <1>5

LEMMA ReturnHasTypes ==
  ASSUME TypesOK, LineReturns
  PROVE  TypesOK'
<1>1. pc' \in Steps
  BY DEF TypesOK, LineReturns
<1>2. ConsoleTypes'
  BY DEF TypesOK, ConsoleTypes, LineReturns
<1>3. StatusTypes'
  BY ReturnedValues DEF TypesOK, StatusTypes, LineReturns
<1>4. unread' \in BOOLEAN
  BY DEF TypesOK, KeptTypes, LineReturns
<1>5. KeptTypes'
  BY <1>4 DEF TypesOK, KeptTypes, LineReturns, kept
<1> QED
  BY <1>1, <1>2, <1>3, <1>5 DEF TypesOK

(* The steps of obc_main leave the statuses to LineReturns.                *)
LEMMA MainKeepsStatuses ==
  obc_main => UNCHANGED statuses /\ UNCHANGED resets /\ line = "none"
  BY DEF obc_main, PlainLine, Mscratch, ResetCause, Latch, Consume, Escalate, TlmAudit,
         TlmMode, CmdAudit, TickLine, BaseLine, Window, Summary, Sentinel, At, history

LEMMA PlainLineHasTypes ==
  ASSUME TypesOK, NEW l \in StLines \ {"sched"}, NEW next \in Steps, PlainLine(l, next)
  PROVE  pc' \in Steps /\ ConsoleTypes' /\ UNCHANGED <<kept, history>>
<1>1. l \in Lines /\ "ok" \in Sayings /\ "OK" \in Results(l)
  BY DEF StLines, Lines, Sayings, Results
<1>2. ConsoleTypes'
  <2>1. CASE Silent
    BY <2>1, SilentHasTypes DEF TypesOK
  <2>2. CASE Says(l, "ok", Checked(2), "OK")
    BY <2>2, <1>1, MixedTexts, SaysHasTypes DEF TypesOK
  <2> QED
    BY <2>1, <2>2 DEF PlainLine
<1> QED
  BY <1>2 DEF PlainLine

(* print_sched_summary: a good run is said in three checked texts, any     *)
(* other has an error to return.                                           *)
LEMMA SummarySays ==
  ASSUME Summary, finding \in Findings
  PROVE  \/ finding = "ok" /\ Says("sched", "ok", Checked(3), "OK")
         \/ /\ finding # "ok"
            /\ \E n \in {1, 3}, s \in {"ERROR", "INVALID", "UNSTABLE"} :
                 Says("sched", "FAULT", Checked(n) \o Ignored(1), s)
<1>1. CASE finding = "error"
  <2>1. Says("sched", "FAULT", Checked(1) \o Ignored(1), "ERROR")
    BY <1>1 DEF Summary
  <2> QED
    BY <1>1, <2>1
<1>2. CASE finding = "overflow"
  <2>1. Says("sched", "FAULT", Checked(3) \o Ignored(1), "INVALID")
    BY <1>2 DEF Summary
  <2> QED
    BY <1>2, <2>1
<1>3. CASE finding = "overrun"
  <2>1. Says("sched", "FAULT", Checked(3) \o Ignored(1), "UNSTABLE")
    BY <1>3 DEF Summary
  <2> QED
    BY <1>3, <2>1
<1>4. CASE finding = "ok"
  BY <1>4 DEF Summary
<1> QED
  BY <1>1, <1>2, <1>3, <1>4 DEF Findings

LEMMA MainHasTypes ==
  ASSUME TypesOK, OrderOK, obc_main
  PROVE  TypesOK'
<1> USE DEF TypesOK
<1>0. StatusTypes' /\ resets' \in 0 .. MaxResets /\ resets' = resets
  BY MainKeepsStatuses DEF StatusTypes, statuses, KeptTypes
<1> DEFINE Rest == pc' \in Steps /\ ConsoleTypes' /\ KeptTypes'
<1>s. \A a \in {"ok", "FAULT"} \cup Records : a \in Sayings
  BY DEF Sayings, Records, Recorded
<1>t. Checked(1) \o Ignored(1) \in Seq({"checked", "ignored"})
      /\ Checked(2) \o Ignored(3) \in Seq({"checked", "ignored"})
      /\ Checked(3) \o Ignored(1) \in Seq({"checked", "ignored"})
      /\ Checked(2) \in Seq({"checked", "ignored"}) /\ Checked(3) \in Seq({"checked", "ignored"})
      /\ Ignored(1) \in Seq({"checked", "ignored"})
  BY MixedTexts, Texts
<1>l. /\ {"mscratch", "reset", "tlm", "cmd", "tick", "base", "sched", "boot"} \subseteq Lines
      /\ {"OK", "INVALID"} \subseteq Results("mscratch") /\ "OK" \in Results("reset")
      /\ "OK" \in Results("tlm") /\ "OK" \in Results("cmd") /\ "OK" \in Results("boot")
      /\ {"OK", "INVALID", "UNSTABLE"} \subseteq Results("tick")
      /\ {"OK", "INVALID", "TIMEOUT"} \subseteq Results("base")
      /\ {"OK", "ERROR", "INVALID", "UNSTABLE"} \subseteq Results("sched")
  BY DEF Lines, StLines, Results
<1>1. CASE PlainLine("banner", "ram") \/ PlainLine("ram", "stack")
           \/ PlainLine("stack", "mscratch") \/ PlainLine("boots", "escalate")
  <2>1. pc' \in Steps /\ ConsoleTypes' /\ UNCHANGED <<kept, history>>
    BY <1>1, StepsApart, PlainLineHasTypes DEF StLines
  <2> QED
    BY <2>1, <1>0 DEF KeptTypes, kept, history
<1>2. CASE Mscratch
  <2>1. pc' \in Steps
    BY <1>2, StepsApart DEF Mscratch
  <2>2. ConsoleTypes'
    BY <1>2, <1>s, <1>t, <1>l, SaysHasTypes DEF Mscratch
  <2>3. KeptTypes'
    BY <1>2 DEF Mscratch, KeptTypes, kept
  <2> QED
    BY <2>1, <2>2, <2>3, <1>0
<1>3. CASE ResetCause
  <2>1. pc' \in Steps
    BY <1>3, StepsApart DEF ResetCause
  <2>2. record \in Sayings
    BY <1>s DEF KeptTypes
  <2>3. ConsoleTypes'
    BY <1>3, <2>2, <1>t, <1>l, SaysHasTypes, SilentHasTypes DEF ResetCause
  <2>4. KeptTypes'
    BY <1>3 DEF ResetCause, KeptTypes, kept, history
  <2> QED
    BY <2>1, <2>3, <2>4, <1>0
<1>4. CASE Latch
  <2>1. pc' \in Steps
    BY <1>4, StepsApart DEF Latch
  <2>2. "TRAP" \in Sayings /\ "RECORD" \in Sayings
    BY DEF Sayings
  <2>3. ConsoleTypes'
    BY <1>4, <2>2, SafeHasTypes, SilentHasTypes DEF Latch
  <2>4. cause' \in Records \cup {"UNKNOWN"}
    BY <1>4 DEF Latch, Validated, KeptTypes
  <2>5. KeptTypes'
    BY <1>4, <2>4 DEF Latch, KeptTypes, history
  <2> QED
    BY <2>1, <2>3, <2>5, <1>0
<1>5. CASE Consume
  <2>1. pc' \in Steps /\ Silent
    BY <1>5, StepsApart DEF Consume, Silent
  <2>2. ConsoleTypes'
    BY <2>1, SilentHasTypes
  <2>3. unread' \in BOOLEAN /\ "none" \in Records
    BY <1>5 DEF Consume, Records
  <2>4. KeptTypes'
    BY <1>5, <2>3 DEF Consume, KeptTypes
  <2> QED
    BY <2>1, <2>2, <2>4, <1>0
<1>6. CASE Escalate
  <2>1. pc' \in Steps
    BY <1>6, StepsApart DEF Escalate
  <2>2. "RESET_LOOP" \in Sayings
    BY DEF Sayings
  <2>3. ConsoleTypes'
    BY <1>6, <2>2, SafeHasTypes, SilentHasTypes DEF Escalate
  <2>4. KeptTypes'
    BY <1>6 DEF Escalate, KeptTypes, history
  <2> QED
    BY <2>1, <2>3, <2>4, <1>0
<1>7. CASE TlmAudit
  <2>1. pc' \in Steps /\ finding' \in {"ok", "FAULT"}
    BY <1>7, StepsApart DEF TlmAudit
  <2>2. finding' \in Sayings /\ finding' \in {"none", "FAULT"} \cup Findings
    BY <2>1, <1>s DEF Findings
  <2>3. ConsoleTypes'
    BY <1>7, <2>2, <1>t, <1>l, SaysHasTypes, SilentHasTypes DEF TlmAudit
  <2>4. KeptTypes'
    BY <1>7, <2>2 DEF TlmAudit, KeptTypes, history
  <2> QED
    BY <2>1, <2>3, <2>4, <1>0
<1>8. CASE TlmMode
  <2>1. pc' \in Steps
    BY <1>8, StepsApart DEF TlmMode
  <2>2. "TELEMETRY" \in Sayings
    BY DEF Sayings
  <2>3. ConsoleTypes'
    BY <1>8, <2>2, SafeHasTypes, SilentHasTypes DEF TlmMode
  <2>4. KeptTypes'
    BY <1>8 DEF TlmMode, KeptTypes, history
  <2> QED
    BY <2>1, <2>3, <2>4, <1>0
<1>9. CASE CmdAudit
  <2>1. pc' \in Steps
    BY <1>9, StepsApart DEF CmdAudit
  <2>2. ConsoleTypes'
    BY <1>9, <1>s, <1>t, <1>l, SaysHasTypes, SilentHasTypes DEF CmdAudit
  <2>3. KeptTypes'
    BY <1>9 DEF CmdAudit, KeptTypes, kept, history
  <2> QED
    BY <2>1, <2>2, <2>3, <1>0
<1>10. CASE TickLine
  <2>1. pc' \in Steps
    BY <1>10, StepsApart DEF TickLine
  <2>2. ConsoleTypes'
    BY <1>10, <1>s, <1>t, <1>l, SaysHasTypes DEF TickLine
  <2>3. KeptTypes'
    BY <1>10 DEF TickLine, KeptTypes, kept
  <2> QED
    BY <2>1, <2>2, <2>3, <1>0
<1>11. CASE BaseLine
  <2>1. pc' \in Steps
    BY <1>11, StepsApart DEF BaseLine
  <2>2. ConsoleTypes'
    BY <1>11, <1>s, <1>t, <1>l, SaysHasTypes, SilentHasTypes DEF BaseLine
  <2>3. KeptTypes'
    BY <1>11 DEF BaseLine, KeptTypes, kept
  <2> QED
    BY <2>1, <2>2, <2>3, <1>0
<1>12. CASE Window
  <2>1. pc' \in Steps
    BY <1>12, StepsApart DEF Window
  <2>2. "EXECUTIVE" \in Sayings
    BY DEF Sayings
  <2>3. ConsoleTypes'
    BY <1>12, <2>2, SafeHasTypes, SilentHasTypes DEF Window
  <2>4. record' = record /\ cause' = cause /\ unread' = unread /\ traps' = traps
    BY <1>12 DEF Window, kept
  <2>5. /\ finding' \in {"none", "FAULT"} \cup Findings
        /\ failed' \subseteq {"mscratch", "tick", "base", "error", "overflow", "overrun"}
    BY <1>12 DEF Window, KeptTypes, kept, Findings
  <2>6. KeptTypes'
    BY <2>4, <2>5, <1>0 DEF KeptTypes
  <2> QED
    BY <2>1, <2>3, <2>6, <1>0
<1>13. CASE Summary
  <2>1. pc' \in Steps
    BY <1>13, StepsApart DEF Summary
  <2>2. ConsoleTypes'
    <3>1. finding \in Findings
      BY <1>13 DEF OrderOK, Summary, At
    <3>2. CASE finding = "ok"
      BY <1>13, <3>1, <3>2, <1>s, <1>t, <1>l, SummarySays, SaysHasTypes
    <3>3. CASE finding # "ok"
      <4>1. PICK n \in {1, 3}, s \in {"ERROR", "INVALID", "UNSTABLE"} :
              Says("sched", "FAULT", Checked(n) \o Ignored(1), s)
        BY <1>13, <3>1, <3>3, SummarySays
      <4>2. Checked(n) \o Ignored(1) \in Seq({"checked", "ignored"}) /\ s \in Results("sched")
        BY <1>t, <1>l
      <4> QED
        BY <4>1, <4>2, <1>s, <1>l, SaysHasTypes
    <3> QED
      BY <3>2, <3>3
  <2>3. KeptTypes'
    BY <1>13 DEF Summary, KeptTypes, history
  <2> QED
    BY <2>1, <2>2, <2>3, <1>0
<1>14. CASE Sentinel
  <2>1. pc' \in Steps
    BY <1>14, StepsApart DEF Sentinel
  <2>2. ConsoleTypes'
    BY <1>14, <1>s, <1>t, <1>l, SaysHasTypes DEF Sentinel
  <2>3. KeptTypes'
    BY <1>14 DEF Sentinel, KeptTypes, kept, history
  <2> QED
    BY <2>1, <2>2, <2>3, <1>0
<1> QED
  BY <1>1, <1>2, <1>3, <1>4, <1>5, <1>6, <1>7, <1>8, <1>9, <1>10, <1>11, <1>12, <1>13, <1>14
     DEF obc_main

-----------------------------------------------------------------------------
(* One step of obc_main: the next one's turn comes, or the window's line   *)
(* is skipped, and at most its own line, the mode's or the sentinel is     *)
(* begun.                                                                  *)
Speaks(l) ==
  /\ line' = l /\ l \in Lines
  /\ \A k \in Lines : k # l => said'[k] = said[k]
  /\ said'[l] # "nothing" /\ said'[l] # "torn"
  /\ refused' = FALSE

LEMMA SaysSpeaks ==
  ASSUME ConsoleTypes, NEW l \in Lines, NEW says, NEW texts, NEW returns,
         says # "nothing", says # "torn", Says(l, says, texts, returns)
  PROVE  /\ Speaks(l) /\ said'[l] = says /\ result' = returns /\ todo' = texts
  BY DEF Says, Speaks, ConsoleTypes

LEMMA SafeSpeaks ==
  ASSUME ConsoleTypes, NEW r, r # "nothing", r # "torn", obc_mode_enter_safe(r)
  PROVE  Silent \/ (Speaks("mode") /\ result' = "OK")
<1>1. "mode" \in Lines
  BY DEF Lines
<1>2. CASE Silent
  BY <1>2
<1>3. CASE Says("mode", r, Ignored(3), "OK")
  BY <1>1, <1>3, SaysSpeaks
<1> QED
  BY <1>2, <1>3 DEF obc_mode_enter_safe

(* What each step of obc_main may begin to say.                            *)
LEMMA MainSpeaks ==
  ASSUME TypesOK, OrderOK, obc_main
  PROVE  /\ line = "none"
         /\ \/ /\ pc \in Reported /\ Speaks(pc)
            \/ Silent
            \/ Speaks("mode") /\ result' = "OK"
            \/ Speaks("boot") /\ result' = "OK" /\ pc = "healthy"
<1>1. line = "none"
  BY MainKeepsStatuses
<1>2. ConsoleTypes
  BY DEF TypesOK
<1> DEFINE Goal == \/ pc \in Reported /\ Speaks(pc)
                   \/ Silent
                   \/ Speaks("mode") /\ result' = "OK"
                   \/ Speaks("boot") /\ result' = "OK" /\ pc = "healthy"
<1> SUFFICES Goal
  BY <1>1
<1>3. ASSUME NEW l \in Reported, NEW next, PlainLine(l, next) PROVE Goal
  BY <1>2, <1>3, SaysSpeaks DEF PlainLine, At, Reported
<1>4. {"banner", "ram", "stack", "boots", "mscratch", "reset", "tlm", "cmd", "tick", "base",
       "sched"} \subseteq Reported /\ Reported \subseteq Lines /\ "boot" \in Lines
  BY DEF Reported, Lines, StLines
<1>5. CASE PlainLine("banner", "ram") \/ PlainLine("ram", "stack")
           \/ PlainLine("stack", "mscratch") \/ PlainLine("boots", "escalate")
  <2>1. {"banner", "ram", "stack", "boots"} \subseteq Reported
    BY <1>4
  <2> HIDE DEF Goal
  <2> QED
    BY <1>3, <1>5, <2>1
<1>6. CASE Mscratch
  BY <1>2, <1>4, <1>6, SaysSpeaks DEF Mscratch, At
<1>7. CASE ResetCause
  <2>1. record # "nothing" /\ record # "torn"
    BY DEF TypesOK, KeptTypes, Records, Recorded
  <2> QED
    BY <1>2, <1>4, <1>7, <2>1, SaysSpeaks DEF ResetCause, At
<1>8. CASE Latch \/ Escalate \/ TlmMode \/ Window
  <2>1. \/ \E r \in {"TRAP", "RECORD", "RESET_LOOP", "TELEMETRY", "EXECUTIVE"} :
             obc_mode_enter_safe(r)
        \/ Silent
    BY <1>8 DEF Latch, Escalate, TlmMode, Window
  <2> QED
    BY <1>2, <2>1, SafeSpeaks
<1>9. CASE Consume
  <2>1. Silent
    BY <1>9 DEF Consume, Silent
  <2> QED
    BY <2>1
<1>10. CASE TlmAudit
  BY <1>2, <1>4, <1>10, SaysSpeaks DEF TlmAudit, At
<1>11. CASE CmdAudit
  BY <1>2, <1>4, <1>11, SaysSpeaks DEF CmdAudit, At
<1>12. CASE TickLine
  BY <1>2, <1>4, <1>12, SaysSpeaks DEF TickLine, At
<1>13. CASE BaseLine
  BY <1>2, <1>4, <1>13, SaysSpeaks DEF BaseLine, At
<1>14. CASE Summary
  <2>1. finding \in Findings /\ pc = "sched"
    BY <1>14 DEF OrderOK, Summary, At
  <2> QED
    <3>1. \E says \in {"ok", "FAULT"} : \E texts, returns : Says("sched", says, texts, returns)
      BY <1>14, <2>1, SummarySays
    <3>2. PICK says \in {"ok", "FAULT"} : \E texts, returns : Says("sched", says, texts, returns)
      BY <3>1
    <3>3. Speaks("sched")
      BY <1>2, <1>4, <3>2, SaysSpeaks
    <3> QED
      BY <1>4, <2>1, <3>3
<1>15. CASE Sentinel
  BY <1>2, <1>4, <1>15, SaysSpeaks DEF Sentinel, At
<1> HIDE DEF Goal
<1> QED
  BY <1>5, <1>6, <1>7, <1>8, <1>9, <1>10, <1>11, <1>12, <1>13, <1>14, <1>15 DEF obc_main

Skips == pc = "window" /\ pc' = "healthy" /\ Silent

LEMMA MainTurns ==
  ASSUME TypesOK, OrderOK, obc_main
  PROVE  /\ Position[pc'] = Position[pc] + 1 \/ Skips
         /\ \A l \in Reported : Passed(l)' <=> (Passed(l) \/ l = pc \/ (Skips /\ l = "sched"))
<1>1. pc \in Steps /\ pc' \in Steps
  BY MainHasTypes DEF TypesOK
<1>2. Position[pc'] = Position[pc] + 1 \/ Skips
  <2>1. CASE \/ PlainLine("banner", "ram") \/ PlainLine("ram", "stack")
             \/ PlainLine("stack", "mscratch") \/ PlainLine("boots", "escalate")
    BY <2>1, Positions DEF PlainLine, At
  <2>2. CASE Mscratch \/ ResetCause \/ Latch \/ Consume
    BY <2>2, Positions DEF Mscratch, ResetCause, Latch, Consume, At
  <2>3. CASE Escalate \/ TlmAudit \/ TlmMode \/ CmdAudit
    BY <2>3, Positions DEF Escalate, TlmAudit, TlmMode, CmdAudit, At
  <2>4. CASE TickLine \/ BaseLine
    BY <2>4, Positions DEF TickLine, BaseLine, At
  <2>6. CASE Summary
    <3>1. pc = "sched" /\ pc' = "healthy"
      BY <2>6 DEF Summary, At
    <3> QED
      BY <3>1, Positions
  <2>7. CASE Sentinel
    <3>1. pc = "healthy" /\ pc' = "parked"
      BY <2>7 DEF Sentinel, At
    <3> QED
      BY <3>1, Positions
  <2>5. CASE Window
    BY <2>5, Positions DEF Window, At, Skips
  <2> QED
    BY <2>1, <2>2, <2>3, <2>4, <2>5, <2>6, <2>7 DEF obc_main
<1>3. ASSUME NEW l \in Reported
      PROVE  Passed(l)' <=> (Passed(l) \/ l = pc \/ (Skips /\ l = "sched"))
  <2>1. l \in Steps
    BY DEF Steps
  <2>2. CASE Position[pc'] = Position[pc] + 1
    <3>1. ~Skips
      BY <2>2, Positions DEF Skips
    <3> QED
      BY <1>1, <2>1, <2>2, <3>1, Turn
  <2>3. CASE Skips
    <3>1. Position[l] \in 0 .. 17 /\ (Position[l] = 14 => l = "window")
          /\ (Position[l] = 15 => l = "sched")
      BY <2>1, StepsApart, Positions
    <3>2. Position[pc] = 14 /\ Position[pc'] = 16
      BY <2>3, Positions DEF Skips
    <3> QED
      BY <2>3, <3>1, <3>2, Positions DEF Passed, Skips
  <2> QED
    BY <1>2, <2>2, <2>3
<1> QED
  BY <1>2, <1>3

-----------------------------------------------------------------------------
(* The report of a boot.  A step of the console changes what the line in   *)
(* hand says, and nothing else that was said.                              *)
LEMMA ConsoleSteps ==
  ASSUME TypesOK, PortTakes \/ PortRefuses \/ TextRefused
  PROVE  /\ line \in Lines /\ line # "none" /\ todo # <<>>
         /\ UNCHANGED <<pc, st, inv_st, tick_st, line, result, record, cause, finding, failed,
                        unread, traps>>
         /\ \A l \in Lines : l # line => said'[l] = said[l]
         /\ \/ said'[line] = said[line] /\ refused' = refused /\ todo' \in {todo, Tail(todo)}
            \/ /\ said'[line] = "torn"
               /\ \/ Head(todo) = "checked" /\ refused' = TRUE /\ todo' = <<>>
                  \/ Head(todo) # "checked" /\ refused' = refused /\ todo' = Tail(todo)
<1>1. line \in Lines /\ line # "none" /\ todo # <<>> /\ said \in [Lines -> Sayings]
  BY DEF TypesOK, ConsoleTypes, PortTakes, PortRefuses, TextRefused
<1>2. CASE PortTakes
  BY <1>1, <1>2 DEF PortTakes, statuses, kept, history
<1>3. CASE PortRefuses
  BY <1>1, <1>3 DEF PortRefuses, statuses, kept, history
<1>4. CASE TextRefused
  BY <1>1, <1>4 DEF TextRefused, statuses, kept, history
<1> QED
  BY <1>2, <1>3, <1>4

LEMMA ConsoleKeepsReport ==
  ASSUME ReportInv, PortTakes \/ PortRefuses \/ TextRefused
  PROVE  OrderOK' /\ ShownOK' /\ WholeOK' /\ FailedOK' /\ SentinelOK'
<1>0. TypesOK /\ OrderOK /\ ShownOK /\ WholeOK /\ FailedOK /\ SentinelOK
  BY DEF ReportInv
<1>1. /\ line \in Lines /\ line # "none" /\ todo # <<>>
      /\ UNCHANGED <<pc, st, inv_st, tick_st, line, result, record, cause, finding, failed,
                     unread, traps>>
      /\ \A l \in Lines : l # line => said'[l] = said[l]
      /\ said'[line] # said[line] => said'[line] = "torn"
  BY <1>0, ConsoleSteps
<1>2. Reported \subseteq Lines /\ StLines \subseteq Lines /\ "mscratch" \in Lines
      /\ "tick" \in Lines /\ "base" \in Lines /\ "boot" \in Lines /\ "sched" \in StLines
      /\ StLines \subseteq Reported /\ {"mscratch", "tick", "base"} \subseteq Reported
  BY DEF Reported, Lines, StLines
<1>3. \A l \in Lines : said'[l] = said[l] \/ (l = line /\ said'[l] = "torn")
  BY <1>1
<1>4. \A l \in Lines : (Shown(l) => Shown(l)') /\ (said[l] = "torn" => said'[l] = "torn")
  BY <1>1, <1>3 DEF Shown
<1>5. \A l \in Lines : Whole(l) <=> Whole(l)'
  BY <1>1 DEF Whole, Passed
<1>6. OrderOK'
  BY <1>0, <1>1, <1>2 DEF OrderOK, Passed
<1>7. ShownOK'
  <2>1. line' # "none" /\ refused' => said'[line'] = "torn"
    BY <1>0, <1>1, ConsoleSteps DEF ShownOK
  <2>2. (line' # "none" /\ result' # "OK" => Shown(line)') /\ line' = line
    BY <1>0, <1>1, <1>4 DEF ShownOK
  <2>3. st' # "OK" => Shown("sched")' \/ \E l \in StLines : said'[l] = "torn"
    BY <1>0, <1>1, <1>2, <1>4 DEF ShownOK
  <2>4. inv_st' # "OK" => Shown("mscratch")'
    BY <1>0, <1>1, <1>2, <1>4 DEF ShownOK
  <2>5. tick_st' # "OK" => Shown("tick")' \/ Shown("base")'
    BY <1>0, <1>1, <1>2, <1>4 DEF ShownOK
  <2> QED
    BY <2>1, <2>2, <2>3, <2>4, <2>5 DEF ShownOK, Shown
<1>8. WholeOK'
  <2>1. said'[line'] # "nothing"
    BY <1>0, <1>1 DEF WholeOK
  <2>2. CASE /\ said'[line] = "torn" /\ Head(todo) # "checked"
             /\ refused' = refused /\ todo' = Tail(todo)
    <3>1. line \in Reported => result # "OK"
      <4> SUFFICES ASSUME todo \in Seq({"checked"}) PROVE FALSE
        BY <1>0 DEF WholeOK
      <4>1. Head(todo) \in {"checked"}
        BY <1>1, HeadTailProperties
      <4> QED
        BY <4>1, <2>2
    <3> QED
      BY <1>0, <1>1, <1>2, <1>5, <2>1, <2>2, <3>1 DEF WholeOK
  <2>3. CASE said'[line] = "torn" /\ refused' = TRUE /\ todo' = <<>>
    BY <1>0, <1>1, <1>2, <1>5, <2>1, <2>3 DEF WholeOK
  <2>4. CASE said'[line] = said[line] /\ refused' = refused /\ todo' \in {todo, Tail(todo)}
    <3>1. line \in Reported /\ result = "OK" => todo' \in Seq({"checked"})
      <4> SUFFICES ASSUME line \in Reported, result = "OK" PROVE todo' \in Seq({"checked"})
        OBVIOUS
      <4>1. todo \in Seq({"checked"})
        BY <1>0 DEF WholeOK
      <4>2. Tail(todo) \in Seq({"checked"})
        BY <1>1, <4>1, HeadTailProperties
      <4> QED
        BY <2>4, <4>1, <4>2
    <3> QED
      BY <1>0, <1>1, <1>2, <1>5, <2>1, <2>4, <3>1 DEF WholeOK
  <2> QED
    BY <1>0, <2>2, <2>3, <2>4, ConsoleSteps
<1>9. FailedOK'
  BY <1>0, <1>1 DEF FailedOK
<1>10. SentinelOK'
  BY <1>0, <1>1, <1>2, <1>3 DEF SentinelOK, Good
<1> QED
  BY <1>6, <1>7, <1>8, <1>9, <1>10

(* A line that is over hands on what it found, or that it was refused.     *)
LEMMA ReturnKeepsReport ==
  ASSUME ReportInv, LineReturns
  PROVE  OrderOK' /\ ShownOK' /\ WholeOK' /\ FailedOK' /\ SentinelOK'
<1>0. TypesOK /\ OrderOK /\ ShownOK /\ WholeOK /\ FailedOK /\ SentinelOK
  BY DEF ReportInv
<1>1. /\ line # "none" /\ line \in Lines /\ line' = "none"
      /\ UNCHANGED <<pc, refused, result, said, finding, failed>>
      /\ st' = IF line \in StLines THEN Returned ELSE st
      /\ inv_st' = IF line = "mscratch" THEN Returned ELSE inv_st
      /\ tick_st' = IF line \in {"tick", "base"} THEN Returned ELSE tick_st
  BY <1>0 DEF LineReturns, TypesOK, ConsoleTypes, kept
<1>2. /\ "sched" \in StLines /\ StLines \subseteq Reported /\ "none" \notin Reported
      /\ {"mscratch", "tick", "base"} \subseteq Reported
      /\ "mode" \notin Reported /\ "boot" \notin Reported
      /\ "tick" \notin StLines /\ "base" \notin StLines /\ "mscratch" \notin StLines
      /\ Reported = StLines \cup {"mscratch", "tick", "base"}
  BY DEF Reported, Lines, StLines
<1>3. Returned # "OK" => Shown(line)
  BY <1>0, <1>1 DEF ShownOK, Shown, Returned
<1>4. Returned = "OK" => (line \in Reported => said[line] \notin {"torn", "nothing"})
  BY <1>0, <1>1 DEF WholeOK, Returned
<1>5. line \in StLines /\ Returned # "OK" =>
        Shown("sched") \/ \E l \in StLines : said[l] = "torn"
  <2> SUFFICES ASSUME line \in StLines, Returned # "OK", ~refused PROVE Shown("sched")
    BY <1>0, <1>1 DEF ShownOK
  <2>1. result # "OK"
    BY DEF Returned
  <2>2. line = "sched"
    BY <1>0, <1>1, <2>1 DEF TypesOK, ConsoleTypes, Results, StLines
  <2> QED
    BY <1>3, <2>2
<1>6. OrderOK'
  BY <1>0, <1>1, <1>2 DEF OrderOK, Passed
<1>7. ShownOK'
  BY <1>0, <1>1, <1>2, <1>3, <1>5 DEF ShownOK, Shown
<1>8. WholeOK'
  BY <1>0, <1>1, <1>2, <1>4 DEF WholeOK, Whole, Passed, OrderOK
<1>9. FailedOK'
  <2>1. result # "OK" => Returned # "OK"
    BY DEF Returned
  <2>2. "mscratch" \in failed => inv_st' # "OK"
    BY <1>0, <1>1, <2>1 DEF FailedOK, OrderOK
  <2>3. failed \cap {"tick", "base"} # {} => tick_st' # "OK"
    BY <1>0, <1>1, <2>1 DEF FailedOK, OrderOK
  <2>4. failed \cap Findings # {} => st' # "OK" \/ (pc = "sched" /\ finding # "ok")
    BY <1>0, <1>1, <1>2, <2>1 DEF FailedOK, OrderOK
  <2> QED
    BY <1>1, <2>2, <2>3, <2>4 DEF FailedOK
<1>10. SentinelOK'
  BY <1>0, <1>1, <1>2 DEF SentinelOK, OrderOK, Good
<1> QED
  BY <1>6, <1>7, <1>8, <1>9, <1>10

LEMMA BootKeepsReport ==
  /\ Init => OrderOK /\ ShownOK /\ WholeOK /\ FailedOK /\ SentinelOK
  /\ Begins => OrderOK' /\ ShownOK' /\ WholeOK' /\ FailedOK' /\ SentinelOK'
<1>1. \A l \in Reported : ~(Position[l] < Position["banner"])
  <2> SUFFICES ASSUME NEW l \in Reported PROVE ~(Position[l] < Position["banner"])
    OBVIOUS
  <2>1. Position[l] \in 0 .. 17
    BY StepsApart DEF Steps
  <2> QED
    BY <2>1, Positions
<1>2. Reported \subseteq Lines /\ StLines \subseteq Reported /\ "none" \notin Reported
      /\ "none" \notin StLines /\ {"mscratch", "tick", "base", "sched"} \subseteq Reported
  BY DEF Reported, Lines, StLines
<1>3. ASSUME Init PROVE OrderOK /\ ShownOK /\ WholeOK /\ FailedOK /\ SentinelOK
  <2>1. /\ pc = "banner" /\ st = "OK" /\ inv_st = "OK" /\ tick_st = "OK" /\ line = "none"
        /\ failed = {} /\ \A l \in Lines : said[l] = "nothing"
    BY <1>3 DEF Init
  <2>2. \A l \in Reported : ~Passed(l)
    BY <2>1, <1>1 DEF Passed
  <2>3. \A l \in Reported : Whole(l)
    BY <2>2 DEF Whole
  <2> QED
    <3>1. OrderOK
      BY <2>1, <2>2, <1>2 DEF OrderOK
    <3>2. ShownOK /\ FailedOK /\ SentinelOK
      BY <2>1 DEF ShownOK, FailedOK, SentinelOK
    <3>3. WholeOK
      BY <2>1, <2>2, <2>3, <1>2 DEF WholeOK
    <3> QED
      BY <3>1, <3>2, <3>3
<1>4. ASSUME Begins PROVE OrderOK' /\ ShownOK' /\ WholeOK' /\ FailedOK' /\ SentinelOK'
  <2>1. /\ pc' = "banner" /\ st' = "OK" /\ inv_st' = "OK" /\ tick_st' = "OK" /\ line' = "none"
        /\ failed' = {} /\ \A l \in Lines : said'[l] = "nothing"
    BY <1>4 DEF Begins
  <2>2. \A l \in Reported : ~Passed(l)'
    BY <2>1, <1>1 DEF Passed
  <2>3. \A l \in Reported : Whole(l)'
    BY <2>2 DEF Whole
  <2> QED
    <3>1. OrderOK'
      BY <2>1, <2>2, <1>2 DEF OrderOK
    <3>2. ShownOK' /\ FailedOK' /\ SentinelOK'
      BY <2>1 DEF ShownOK, FailedOK, SentinelOK
    <3>3. WholeOK'
      BY <2>1, <2>2, <2>3, <1>2 DEF WholeOK
    <3> QED
      BY <3>1, <3>2, <3>3
<1> QED
  BY <1>3, <1>4

(* What was said before a step of obc_main is said after it.               *)
LEMMA MainKeepsSaid ==
  ASSUME ReportInv, obc_main
  PROVE  /\ failed \subseteq failed'
         /\ \A l \in Reported : l # pc \/ Silent => said'[l] = said[l]
         /\ \A l \in Reported : Passed(l) => said'[l] = said[l] /\ (Shown(l) => Shown(l)')
         /\ \A l \in Reported : Shown(l) => Passed(l)
<1>0. TypesOK /\ OrderOK
  BY DEF ReportInv
<1>1. failed \subseteq failed'
  BY DEF obc_main, PlainLine, Mscratch, ResetCause, Latch, Consume, Escalate, TlmAudit,
         TlmMode, CmdAudit, TickLine, BaseLine, Window, Summary, Sentinel, history, kept
<1>2. "mode" \notin Reported /\ "boot" \notin Reported /\ Reported \subseteq Lines
  BY DEF Reported
<1>3. Silent => said' = said
  BY DEF Silent, console
<1>4. \A l \in Reported : l # pc \/ Silent => said'[l] = said[l]
  BY <1>0, <1>2, <1>3, MainSpeaks DEF Speaks
<1>5. pc \in Reported => ~Passed(pc)
  <2>1. pc \in Steps
    BY <1>0 DEF TypesOK
  <2>2. Position[pc] \in Int
    BY <2>1, StepsApart
  <2> QED
    BY <2>2 DEF Passed
<1>6. \A l \in Reported : Passed(l) => said'[l] = said[l]
  BY <1>4, <1>5
<1>7. \A l \in Reported : Passed(l) => (Shown(l) => Shown(l)')
  BY <1>1, <1>6 DEF Shown
<1>8. \A l \in Reported : Shown(l) => Passed(l)
  BY <1>0 DEF OrderOK, Shown
<1> QED
  BY <1>1, <1>4, <1>6, <1>7, <1>8

(* A line is begun only if the status it will be kept in is good.          *)
LEMMA MainGuards ==
  ASSUME ReportInv, obc_main, line' = pc
  PROVE  /\ pc \in StLines => st = "OK"
         /\ pc = "mscratch" => inv_st = "OK"
         /\ pc \in {"tick", "base"} => tick_st = "OK"
<1>0. TypesOK /\ OrderOK /\ ShownOK
  BY DEF ReportInv
<1>1. pc \in StLines => st = "OK"
  <2>1. pc \in StLines => \/ PlainLine("banner", "ram") \/ PlainLine("ram", "stack")
                          \/ PlainLine("stack", "mscratch") \/ PlainLine("boots", "escalate")
                          \/ ResetCause \/ TlmAudit \/ CmdAudit \/ Summary
    BY DEF obc_main, Mscratch, Latch, Consume, Escalate, TlmMode, TickLine, BaseLine, Window,
           Sentinel, At, StLines
  <2>2. Summary => pc = "sched"
    BY DEF Summary, At
  <2>3. Silent /\ At(pc) => line' # pc
    BY <1>0, StepsApart DEF Silent, console, At, TypesOK
  <2>4. /\ PlainLine("banner", "ram") \/ PlainLine("ram", "stack")
           \/ PlainLine("stack", "mscratch") \/ PlainLine("boots", "escalate") => st = "OK"
        /\ ResetCause \/ TlmAudit \/ CmdAudit => st = "OK"
    BY <2>3 DEF PlainLine, ResetCause, TlmAudit, CmdAudit, At
  <2> QED
    BY <1>0, <2>1, <2>2, <2>4 DEF OrderOK
<1>2. ASSUME NEW l \in Reported, pc = l PROVE ~Passed(l)
  <2>1. Position[l] \in Int
    BY StepsApart DEF Steps
  <2> QED
    BY <1>2, <2>1 DEF Passed
<1>3. {"mscratch", "tick", "base"} \subseteq Reported
  BY DEF Reported, Lines
<1>4. \A l \in Reported : Shown(l) => Passed(l)
  BY <1>0 DEF OrderOK, Shown
<1>5. pc = "mscratch" => inv_st = "OK"
  BY <1>0, <1>2, <1>3, <1>4 DEF ShownOK
<1>6. pc = "tick" => tick_st = "OK"
  <2> SUFFICES ASSUME pc = "tick" PROVE ~Passed("tick") /\ ~Passed("base")
    BY <1>0, <1>3, <1>4 DEF ShownOK
  <2> QED
    BY Positions DEF Passed
<1>7. pc = "base" => tick_st = "OK"
  <2> SUFFICES ASSUME pc = "base" PROVE tick_st = "OK"
    OBVIOUS
  <2>1. BaseLine
    BY DEF obc_main, PlainLine, Mscratch, ResetCause, Latch, Consume, Escalate, TlmAudit,
           TlmMode, CmdAudit, TickLine, Window, Summary, Sentinel, At
  <2>2. ~Silent
    BY MainKeepsStatuses DEF Silent, console
  <2> QED
    BY <2>1, <2>2 DEF BaseLine
<1> QED
  BY <1>1, <1>5, <1>6, <1>7

LEMMA MainKeepsOrder ==
  ASSUME ReportInv, obc_main
  PROVE  OrderOK'
<1>0. TypesOK /\ OrderOK /\ ShownOK
  BY DEF ReportInv
<1>1. line = "none" /\ (line' = pc => pc \in Reported) /\ line' \in {"none", "mode", "boot", pc}
  <2>1. pc = "none" => FALSE
    BY <1>0, StepsApart DEF TypesOK
  <2>2. "mode" \notin Steps /\ "boot" \notin Steps
    BY StepsApart
  <2>3. pc \in Steps
    BY <1>0 DEF TypesOK
  <2> QED
    BY <1>0, <2>1, <2>2, <2>3, MainSpeaks DEF Silent, console, Speaks
<1>2. "none" \notin Reported /\ "mode" \notin Reported /\ "boot" \notin Reported
      /\ StLines \subseteq Reported /\ {"mscratch", "tick", "base"} \subseteq Reported
  BY DEF Reported, Lines, StLines
<1>3. \A l \in Reported : ~Passed(l)' => said'[l] = "nothing"
  BY <1>0, MainTurns, MainKeepsSaid DEF OrderOK
<1>4. line' \in Reported => Passed(line)'
  BY <1>0, <1>1, <1>2, MainTurns
<1>5. UNCHANGED <<st, inv_st, tick_st>>
  BY MainKeepsStatuses DEF statuses
<1>6. /\ line' \in StLines => st' = "OK"
      /\ line' = "mscratch" => inv_st' = "OK"
      /\ line' \in {"tick", "base"} => tick_st' = "OK"
  BY <1>1, <1>2, <1>5, MainGuards
<1>7. pc' = "sched" => Window /\ st = "OK" /\ tick_st = "OK"
  BY DEF obc_main, PlainLine, Mscratch, ResetCause, Latch, Consume, Escalate, TlmAudit,
         TlmMode, CmdAudit, TickLine, BaseLine, Window, Summary, Sentinel
<1>8. pc' = "sched" => line' \in {"none", "mode"} /\ finding' \in Findings
                       /\ (finding' # "ok" => finding' \in failed')
  <2> SUFFICES ASSUME pc' = "sched"
               PROVE  line' \in {"none", "mode"} /\ finding' \in Findings
                      /\ (finding' # "ok" => finding' \in failed')
    OBVIOUS
  <2>1. pc = "window" /\ Window
    BY <1>7 DEF Window, At
  <2>2. line' \in {"none", "mode"}
    <3>1. pc \notin Reported /\ pc # "healthy"
      BY <2>1 DEF Reported, Lines, StLines
    <3> QED
      BY <1>0, <3>1, MainSpeaks DEF Silent, console, Speaks
  <2>3. finding' \in Findings /\ (finding' # "ok" => finding' \in failed')
    BY <2>1 DEF Window, Findings
  <2> QED
    BY <2>2, <2>3
<1>9. pc' = "parked" => line' = "boot"
  <2>1. pc' = "parked" => Sentinel
    BY DEF obc_main, PlainLine, Mscratch, ResetCause, Latch, Consume, Escalate, TlmAudit,
           TlmMode, CmdAudit, TickLine, BaseLine, Window, Summary, Sentinel
  <2> QED
    BY <2>1 DEF Sentinel, Says
<1> QED
  BY <1>3, <1>4, <1>5, <1>6, <1>7, <1>8, <1>9 DEF OrderOK

(* Which step it is, from where obc_main stands.                           *)
LEMMA MainCases ==
  ASSUME obc_main
  PROVE  /\ pc \in StLines \ {"sched"} =>
              \/ \E next \in Steps : PlainLine(pc, next)
              \/ pc = "reset" /\ ResetCause
              \/ pc = "tlm" /\ TlmAudit
              \/ pc = "cmd" /\ CmdAudit
         /\ pc = "mscratch" => Mscratch
         /\ pc = "tick" => TickLine
         /\ pc = "base" => BaseLine
         /\ pc = "window" => Window
         /\ pc = "sched" => Summary
         /\ pc' = "parked" => Sentinel
<1>1. \/ PlainLine("banner", "ram") \/ PlainLine("ram", "stack") \/ PlainLine("stack", "mscratch")
      \/ PlainLine("boots", "escalate") \/ ResetCause \/ TlmAudit \/ CmdAudit
      \/ pc \notin StLines \ {"sched"}
  BY DEF obc_main, Mscratch, Latch, Consume, Escalate, TlmMode, TickLine, BaseLine, Window,
         Summary, Sentinel, At, StLines
<1>2. /\ PlainLine("banner", "ram") => pc = "banner" /\ "ram" \in Steps
      /\ PlainLine("ram", "stack") => pc = "ram" /\ "stack" \in Steps
      /\ PlainLine("stack", "mscratch") => pc = "stack" /\ "mscratch" \in Steps
      /\ PlainLine("boots", "escalate") => pc = "boots" /\ "escalate" \in Steps
      /\ ResetCause => pc = "reset"
      /\ TlmAudit => pc = "tlm"
      /\ CmdAudit => pc = "cmd"
  BY StepsApart DEF PlainLine, ResetCause, TlmAudit, CmdAudit, At
<1>3. pc \in StLines \ {"sched"} =>
              \/ \E next \in Steps : PlainLine(pc, next)
              \/ pc = "reset" /\ ResetCause
              \/ pc = "tlm" /\ TlmAudit
              \/ pc = "cmd" /\ CmdAudit
  BY <1>1, <1>2
<1>4. /\ pc = "mscratch" => Mscratch
      /\ pc = "tick" => TickLine
      /\ pc = "base" => BaseLine
      /\ pc = "window" => Window
      /\ pc = "sched" => Summary
  BY DEF obc_main, PlainLine, Mscratch, ResetCause, Latch, Consume, Escalate, TlmAudit,
         TlmMode, CmdAudit, TickLine, BaseLine, Window, Summary, Sentinel, At
<1>5. pc' = "parked" => Sentinel
  BY DEF obc_main, PlainLine, Mscratch, ResetCause, Latch, Consume, Escalate, TlmAudit,
         TlmMode, CmdAudit, TickLine, BaseLine, Window, Summary
<1> QED
  BY <1>3, <1>4, <1>5

(* A line is left out only for a status that is not good.                  *)
LEMMA MainSilences ==
  ASSUME ReportInv, obc_main, pc \in Reported, line' # pc
  PROVE  (pc \in StLines \ {"sched"} /\ st # "OK") \/ (pc = "base" /\ tick_st # "OK")
<1>1. \A says, texts, returns : ~Says(pc, says, texts, returns)
  BY DEF Says
<1>2. finding \in Findings \/ pc # "sched"
  BY DEF ReportInv, OrderOK
<1>3. CASE pc \in StLines \ {"sched"}
  BY <1>1, <1>3, MainCases DEF PlainLine, ResetCause, TlmAudit, CmdAudit
<1>4. CASE pc = "mscratch"
  BY <1>1, <1>4, MainCases DEF Mscratch
<1>5. CASE pc = "tick"
  BY <1>1, <1>5, MainCases DEF TickLine
<1>6. CASE pc = "base"
  BY <1>1, <1>6, MainCases DEF BaseLine
<1>7. CASE pc = "sched"
  BY <1>1, <1>2, <1>7, MainCases, SummarySays
<1> QED
  BY <1>3, <1>4, <1>5, <1>6, <1>7 DEF Reported, Lines, StLines

(* What the function that prints it will return, with what it says.        *)
LEMMA MainReturns ==
  ASSUME ReportInv, obc_main, pc \in Reported, line' = pc
  PROVE  \/ result' = "OK" /\ todo' \in Seq({"checked"})
         \/ result' # "OK" /\ said'[pc] = "FAULT" /\ failed' # {}
<1>0. ConsoleTypes /\ pc \in Lines /\ line = "none" /\ pc # "none"
  BY MainKeepsStatuses DEF ReportInv, TypesOK, Reported, Lines, StLines
<1>1. ~Silent
  BY <1>0 DEF Silent, console
<1>2. \A says, texts, returns : says # "nothing" /\ says # "torn" /\ Says(pc, says, texts, returns)
        => said'[pc] = says /\ result' = returns /\ todo' = texts
  BY <1>0, SaysSpeaks
<1>3. Checked(2) \in Seq({"checked"}) /\ Checked(3) \in Seq({"checked"})
  BY Texts
<1>4. CASE pc \in StLines \ {"sched"}
  <2>1. record # "nothing" /\ record # "torn"
    BY DEF ReportInv, TypesOK, KeptTypes, Records, Recorded
  <2>2. \E says : says # "nothing" /\ says # "torn" /\ Says(pc, says, Checked(2), "OK")
    BY <1>1, <1>4, <2>1, MainCases DEF PlainLine, ResetCause, TlmAudit, CmdAudit
  <2> QED
    BY <1>2, <1>3, <2>2
<1>5. CASE pc = "mscratch"
  BY <1>2, <1>3, <1>5, MainCases DEF Mscratch
<1>6. CASE pc = "tick"
  BY <1>2, <1>3, <1>6, MainCases DEF TickLine
<1>7. CASE pc = "base"
  <2>1. BaseLine
    BY <1>7, MainCases
  <2>2. \/ Says(pc, "ok", Checked(3), "OK")
        \/ Says(pc, "FAULT", Checked(2) \o Ignored(3), "INVALID") /\ failed' # {}
        \/ Says(pc, "FAULT", Checked(1) \o Ignored(1), "TIMEOUT") /\ failed' # {}
    BY <1>1, <1>7, <2>1 DEF BaseLine
  <2> QED
    BY <1>2, <1>3, <2>2
<1>8. CASE pc = "sched"
  <2>1. finding \in Findings /\ Summary
    BY <1>8, MainCases DEF ReportInv, OrderOK
  <2>2. finding # "ok" => failed' # {}
    BY <1>8, <2>1 DEF ReportInv, OrderOK, Summary, history
  <2>3. CASE finding = "ok"
    BY <1>2, <1>3, <1>8, <2>1, <2>3, SummarySays
  <2>4. CASE finding # "ok"
    <3>1. \E texts, s : s # "OK" /\ Says(pc, "FAULT", texts, s)
      BY <1>8, <2>1, <2>4, SummarySays
    <3> QED
      BY <1>2, <2>2, <2>4, <3>1
  <2> QED
    BY <2>3, <2>4
<1> QED
  BY <1>4, <1>5, <1>6, <1>7, <1>8 DEF Reported, Lines, StLines

LEMMA MainKeepsShown ==
  ASSUME ReportInv, obc_main
  PROVE  ShownOK'
<1>0. TypesOK /\ OrderOK /\ ShownOK
  BY DEF ReportInv
<1>1. /\ {"mscratch", "tick", "base", "sched"} \subseteq Reported /\ StLines \subseteq Reported
      /\ Reported \subseteq Lines
  BY DEF Reported, Lines, StLines
<1>2. UNCHANGED <<st, inv_st, tick_st>> /\ line = "none"
  BY MainKeepsStatuses DEF statuses
<1>3. line' # "none" /\ refused' => said'[line'] = "torn"
  BY <1>0, <1>2, MainSpeaks DEF Silent, console, Speaks
<1>4. line' # "none" /\ result' # "OK" => Shown(line)'
  <2> SUFFICES ASSUME line' # "none", result' # "OK" PROVE Shown(line)'
    OBVIOUS
  <2>1. pc \in Reported /\ line' = pc
    BY <1>0, <1>2, MainSpeaks DEF Silent, console, Speaks
  <2> QED
    BY <2>1, MainReturns DEF Shown
<1>5. \A l \in Reported : Shown(l) => Shown(l)'
  BY MainKeepsSaid
<1>6. \A l \in StLines : said[l] = "torn" => said'[l] = "torn"
  BY <1>1, MainKeepsSaid DEF Shown
<1>7. st' # "OK" => Shown("sched")' \/ \E l \in StLines : said'[l] = "torn"
  BY <1>0, <1>1, <1>2, <1>5, <1>6 DEF ShownOK
<1>8. inv_st' # "OK" => Shown("mscratch")'
  BY <1>0, <1>1, <1>2, <1>5 DEF ShownOK
<1>9. tick_st' # "OK" => Shown("tick")' \/ Shown("base")'
  BY <1>0, <1>1, <1>2, <1>5 DEF ShownOK
<1> QED
  BY <1>3, <1>4, <1>7, <1>8, <1>9 DEF ShownOK, Shown

LEMMA MainKeepsWhole ==
  ASSUME ReportInv, obc_main
  PROVE  WholeOK'
<1>0. TypesOK /\ OrderOK /\ WholeOK
  BY DEF ReportInv
<1>1. /\ {"mscratch", "tick", "base", "sched"} \subseteq Reported /\ StLines \subseteq Reported
      /\ "none" \notin Reported /\ "mode" \notin Reported /\ "boot" \notin Reported
      /\ "mscratch" \notin StLines /\ "tick" \notin StLines /\ "base" \notin StLines
  BY DEF Reported, Lines, StLines
<1>2. UNCHANGED <<st, inv_st, tick_st>> /\ line = "none"
  BY MainKeepsStatuses DEF statuses
<1>3. /\ line' # "none" => said'[line'] # "nothing"
      /\ line' # "none" => said'[line'] # "torn"
      /\ line' \in Reported => line' = pc
  BY <1>0, <1>1, <1>2, MainSpeaks DEF Silent, console, Speaks
<1>4. line' \in Reported /\ result' = "OK" => todo' \in Seq({"checked"})
  BY <1>3, MainReturns
<1>5. ASSUME NEW l \in Reported, Whole(l),
             pc = l => line' = l, Skips => l # "sched"
      PROVE  Whole(l)'
  <2> SUFFICES ASSUME Passed(l)', line' # l PROVE said'[l] \notin {"torn", "nothing"}
    BY DEF Whole
  <2>1. Passed(l)
    BY <1>0, <1>5, MainTurns
  <2>2. said'[l] = said[l]
    BY <2>1, MainKeepsSaid
  <2> QED
    BY <1>1, <1>2, <1>5, <2>1, <2>2 DEF Whole
<1>6. st' = "OK" => \A l \in StLines \ {"sched"} : Whole(l)'
  <2> SUFFICES ASSUME st = "OK", NEW l \in StLines \ {"sched"} PROVE Whole(l)'
    BY <1>2
  <2>1. Whole(l) /\ l \in Reported /\ l # "base"
    BY <1>0, <1>1 DEF WholeOK
  <2>2. pc = l => line' = l
    BY <2>1, MainSilences
  <2> QED
    BY <1>5, <2>1, <2>2
<1>7. st' = "OK" /\ tick_st' = "OK" => Whole("sched")'
  <2> SUFFICES ASSUME st = "OK", tick_st = "OK" PROVE Whole("sched")'
    BY <1>2
  <2>1. Whole("sched")
    BY <1>0 DEF WholeOK
  <2>2. pc = "sched" => line' = "sched"
    BY <1>1, MainSilences
  <2>3. ~Skips
    BY MainCases DEF Skips, Window
  <2> QED
    BY <1>1, <1>5, <2>1, <2>2, <2>3
<1>8. inv_st' = "OK" => Whole("mscratch")'
  <2>1. pc = "mscratch" => line' = "mscratch"
    BY <1>1, MainSilences
  <2> QED
    BY <1>0, <1>1, <1>2, <1>5, <2>1 DEF WholeOK
<1>9. tick_st' = "OK" => Whole("tick")' /\ Whole("base")'
  <2>1. pc = "tick" => line' = "tick"
    BY <1>1, MainSilences
  <2>2. pc = "base" /\ tick_st = "OK" => line' = "base"
    BY <1>1, MainSilences
  <2> QED
    BY <1>0, <1>1, <1>2, <1>5, <2>1, <2>2 DEF WholeOK
<1> QED
  BY <1>1, <1>3, <1>4, <1>6, <1>7, <1>8, <1>9 DEF WholeOK

LEMMA MainKeepsFailed ==
  ASSUME ReportInv, obc_main
  PROVE  FailedOK' /\ SentinelOK'
<1>0. TypesOK /\ OrderOK /\ FailedOK
  BY DEF ReportInv
<1>2. UNCHANGED <<st, inv_st, tick_st>> /\ line = "none"
  BY MainKeepsStatuses DEF statuses
<1>3. \/ failed' = failed
      \/ failed' = failed \cup {"mscratch"} /\ line' = "mscratch" /\ result' # "OK"
      \/ failed' = failed \cup {"tick"} /\ line' = "tick" /\ result' # "OK"
      \/ failed' = failed \cup {"base"} /\ line' = "base" /\ result' # "OK"
      \/ failed' \ Findings = failed \ Findings /\ pc' = "sched" /\ finding' # "ok"
  <2>1. CASE Mscratch
    BY <2>1 DEF Mscratch, Says
  <2>2. CASE TickLine
    BY <2>2 DEF TickLine, Says
  <2>3. CASE BaseLine
    BY <2>3 DEF BaseLine, Says
  <2>4. CASE Window
    BY <2>4 DEF Window, Findings
  <2>5. CASE ~(Mscratch \/ TickLine \/ BaseLine \/ Window)
    BY <2>5 DEF obc_main, PlainLine, ResetCause, Latch, Consume, Escalate, TlmAudit, TlmMode,
           CmdAudit, Summary, Sentinel, history
  <2> QED
    BY <2>1, <2>2, <2>3, <2>4, <2>5
<1>4. "mscratch" \notin Findings /\ "tick" \notin Findings /\ "base" \notin Findings
  BY DEF Findings
<1>5. pc = "sched" /\ finding # "ok" => line' = "sched" /\ result' # "OK"
  <2>1. pc = "sched" => finding \in Findings /\ Summary
    BY <1>0, MainCases DEF OrderOK
  <2> QED
    BY <2>1, SummarySays DEF Says
<1>6. "mscratch" \in failed' => inv_st' # "OK" \/ (line' = "mscratch" /\ result' # "OK")
  <2>1. "mscratch" \in failed => inv_st # "OK"
    BY <1>0, <1>2 DEF FailedOK
  <2> QED
    BY <1>2, <1>3, <1>4, <2>1
<1>7. failed' \cap {"tick", "base"} # {} =>
        tick_st' # "OK" \/ (line' \in {"tick", "base"} /\ result' # "OK")
  <2>1. failed \cap {"tick", "base"} # {} => tick_st # "OK"
    BY <1>0, <1>2 DEF FailedOK
  <2> QED
    BY <1>2, <1>3, <1>4, <2>1
<1>8. failed' \cap Findings # {} =>
        \/ st' # "OK" \/ (line' = "sched" /\ result' # "OK")
        \/ pc' = "sched" /\ finding' # "ok"
  <2>1. failed \cap Findings # {} => st # "OK" \/ (pc = "sched" /\ finding # "ok")
    BY <1>0, <1>2 DEF FailedOK
  <2>2. \/ failed' \cap Findings = failed \cap Findings
        \/ pc' = "sched" /\ finding' # "ok"
    BY <1>3, <1>4
  <2> QED
    BY <1>2, <1>5, <2>1, <2>2
<1>9. FailedOK'
  BY <1>6, <1>7, <1>8 DEF FailedOK
<1>10. SentinelOK'
  <2> SUFFICES ASSUME pc' = "parked"
               PROVE  said'["boot"] = IF Good' THEN "ok" ELSE "FAULT"
    BY DEF SentinelOK
  <2>1. Sentinel /\ "boot" \in Lines /\ ConsoleTypes
    BY <1>0, MainCases DEF Lines, TypesOK
  <2>2. Says("boot", IF Good THEN "ok" ELSE "FAULT", Ignored(1), "OK")
    BY <2>1 DEF Sentinel, Good
  <2>3. said'["boot"] = IF Good THEN "ok" ELSE "FAULT"
    BY <2>1, <2>2, SaysSpeaks
  <2>4. Good' <=> Good
    BY <1>2 DEF Good
  <2> QED
    BY <2>3, <2>4
<1> QED
  BY <1>9, <1>10

LEMMA ReportInvHolds == Spec => []ReportInv
<1>1. Init => ReportInv
  BY BootHasTypes, BootKeepsReport DEF ReportInv
<1>2. ReportInv /\ [Next]_vars => ReportInv'
  <2> SUFFICES ASSUME ReportInv, [Next]_vars PROVE ReportInv'
    OBVIOUS
  <2>0. TypesOK /\ OrderOK
    BY DEF ReportInv
  <2>1. CASE PortTakes \/ PortRefuses \/ TextRefused
    BY <2>0, <2>1, ConsoleHasTypes, ConsoleKeepsReport DEF ReportInv
  <2>2. CASE LineReturns
    BY <2>0, <2>2, ReturnHasTypes, ReturnKeepsReport DEF ReportInv
  <2>3. CASE obc_main
    BY <2>0, <2>3, MainHasTypes, MainKeepsOrder, MainKeepsShown, MainKeepsWhole,
       MainKeepsFailed DEF ReportInv
  <2>4. CASE Reset \/ TrapResets \/ TrapIsCut
    <3>0. Starts
      BY <2>4 DEF Reset, TrapResets, TrapIsCut
    <3>1. pc' \in Steps /\ ConsoleTypes' /\ StatusTypes' /\ cause' \in Records
          /\ finding' = "none" /\ failed' = {}
      BY <3>0, BootHasTypes DEF Starts
    <3>2. resets' \in 0 .. MaxResets /\ traps' \in 0 .. resets'
      <4>1. traps' = traps \/ traps' = traps + 1
        BY <2>4 DEF Reset, TrapResets, TrapIsCut
      <4> QED
        BY <2>0, <3>0, <4>1, ReportAssumption DEF Starts, TypesOK, KeptTypes
    <3>3. record' \in Records /\ unread' \in BOOLEAN
      BY <2>0, <2>4 DEF Reset, TrapResets, TrapIsCut, TypesOK, KeptTypes, Records, Recorded
    <3>4. KeptTypes'
      BY <3>1, <3>2, <3>3 DEF KeptTypes
    <3> QED
      BY <3>0, <3>1, <3>4, BootKeepsReport DEF Starts, ReportInv, TypesOK
  <2>5. CASE UNCHANGED vars
    <3>1. UNCHANGED <<pc, st, inv_st, tick_st, line, todo, byte, allowance, refused, result, said,
                      record, cause, reason, finding, failed, unread, traps, resets>>
      BY <2>5 DEF vars, statuses, console, kept, history
    <3>2. TypesOK'
      BY <2>0, <3>1 DEF TypesOK, ConsoleTypes, StatusTypes, KeptTypes
    <3>3. OrderOK'
      BY <2>0, <3>1 DEF OrderOK, Passed
    <3>4. ShownOK' /\ WholeOK'
      BY <3>1 DEF ReportInv, ShownOK, WholeOK, Shown, Whole, Passed
    <3>5. FailedOK' /\ SentinelOK'
      BY <3>1 DEF ReportInv, FailedOK, SentinelOK, Good
    <3> QED
      BY <3>2, <3>3, <3>4, <3>5 DEF ReportInv
  <2> QED
    BY <2>1, <2>2, <2>3, <2>4, <2>5 DEF Next, PutText, Parked
<1> QED
  BY <1>1, <1>2, PTL DEF Spec

(* The report is in order: every step of obc_main and every byte of its    *)
(* texts leaves the state in the sets it is declared over.                 *)
THEOREM TypeCorrect == Spec => []TypeOK
<1>1. ReportInv => TypeOK
  BY TypesSuffice DEF ReportInv
<1> QED
  BY <1>1, ReportInvHolds, PTL

(* main.c 762: the sentinel, which says ok or FAULT, is the truth, and the *)
(* report above it shows why, whatever the console refused.                *)
THEOREM VerdictIsHonestHolds == Spec => []VerdictIsHonest
<1>1. ReportInv => VerdictIsHonest
  <2> SUFFICES ASSUME ReportInv, pc = "parked", line = "none"
               PROVE  /\ said["boot"] = "ok" =>
                           failed = {} /\ \A l \in Reported : said[l] \notin {"torn", "nothing"}
                      /\ said["boot"] = "FAULT" =>
                           /\ failed # {} \/ \E l \in Reported : said[l] = "torn"
                           /\ \E l \in Reported : said[l] \in {"FAULT", "torn"}
    BY DEF VerdictIsHonest, At
  <2>0. TypesOK /\ ShownOK /\ WholeOK /\ FailedOK /\ SentinelOK
    BY DEF ReportInv
  <2>1. \A l \in Reported : Passed(l)
    <3> SUFFICES ASSUME NEW l \in Reported PROVE Position[l] < Position["parked"]
      BY DEF Passed
    <3>1. Position[l] \in 0 .. 17 /\ (Position[l] = 17 => l = "parked") /\ l # "parked"
      BY StepsApart, Positions DEF Steps, Reported, Lines, StLines
    <3> QED
      BY <3>1, Positions
  <2>2. Reported = StLines \cup {"mscratch", "tick", "base"} /\ "sched" \in StLines
        /\ "none" \notin Reported
    BY DEF Reported, Lines, StLines
  <2>3. ASSUME said["boot"] = "ok"
        PROVE  failed = {} /\ \A l \in Reported : said[l] \notin {"torn", "nothing"}
    <3>1. st = "OK" /\ inv_st = "OK" /\ tick_st = "OK"
      BY <2>0, <2>3 DEF SentinelOK, Good
    <3>2. \A l \in Reported : Whole(l)
      BY <2>0, <2>2, <3>1 DEF WholeOK
    <3>3. failed \subseteq {"mscratch", "tick", "base"} \cup Findings
      BY <2>0 DEF TypesOK, KeptTypes, Findings
    <3>4. "mscratch" \notin failed /\ failed \cap {"tick", "base"} = {} /\ failed \cap Findings = {}
      BY <2>0, <3>1 DEF FailedOK
    <3>5. failed = {}
      BY <3>3, <3>4
    <3> QED
      BY <2>1, <2>2, <3>2, <3>5 DEF Whole
  <2>4. ASSUME said["boot"] = "FAULT"
        PROVE  /\ failed # {} \/ \E l \in Reported : said[l] = "torn"
               /\ \E l \in Reported : said[l] \in {"FAULT", "torn"}
    <3>1. st # "OK" \/ inv_st # "OK" \/ tick_st # "OK"
      BY <2>0, <2>4 DEF SentinelOK, Good
    <3>2. \E l \in Reported : Shown(l)
      BY <2>0, <2>2, <3>1 DEF ShownOK, Shown
    <3> QED
      BY <3>2 DEF Shown
  <2> QED
    BY <2>3, <2>4
<1> QED
  BY <1>1, ReportInvHolds, PTL

-----------------------------------------------------------------------------
(* What was printed of the record is what is latched and consumed.         *)
CauseOK ==
  /\ unread => record \in Recorded /\ Position[pc] <= Position["consume"]
  /\ said["reset"] \in Recorded /\ cause # "none" => cause = said["reset"]
  /\ Position[pc] <= Position["latch"] => cause = "none"
  /\ line = "reset" \/ pc = "latch" => said["reset"] \in {record, "torn", "nothing"}
  /\ line = "reset" => said["reset"] # "nothing"
  /\ pc \in {"latch", "consume"} /\ line # "reset" /\ unread =>
       \E l \in StLines : said[l] = "torn"

LEMMA ConsoleKeepsCause ==
  ASSUME ReportInv, CauseOK, PortTakes \/ PortRefuses \/ TextRefused
  PROVE  CauseOK'
<1>1. /\ UNCHANGED <<pc, line, record, cause, unread, traps>>
      /\ \A l \in Lines : said'[l] = said[l] \/ (l = line /\ said'[l] = "torn")
  BY ConsoleSteps DEF ReportInv
<1>2. StLines \subseteq Lines /\ "reset" \in Lines /\ "torn" \notin Recorded
  BY DEF StLines, Lines, Recorded
<1> QED
  BY <1>1, <1>2 DEF CauseOK

LEMMA ReturnKeepsCause ==
  ASSUME ReportInv, CauseOK, LineReturns
  PROVE  CauseOK'
<1>1. /\ line' = "none" /\ UNCHANGED <<pc, said, record, cause>>
      /\ unread' = (unread /\ ~(line = "reset" /\ said[line] \in Recorded))
  BY DEF LineReturns, kept
<1>2. unread \in BOOLEAN
  BY DEF ReportInv, TypesOK, KeptTypes
<1>3. (unread' => unread) /\ (unread' /\ line = "reset" => said["reset"] \notin Recorded)
  BY <1>1, <1>2
<1>4. "reset" \in StLines
  BY DEF StLines
<1>5. unread' => record' \in Recorded /\ Position[pc'] <= Position["consume"]
  BY <1>1, <1>3 DEF CauseOK
<1>6. /\ pc' \in {"latch", "consume"} /\ line' # "reset" /\ unread' =>
            \E l \in StLines : said'[l] = "torn"
  <2> SUFFICES ASSUME pc \in {"latch", "consume"}, unread'
               PROVE  \E l \in StLines : said[l] = "torn"
    BY <1>1
  <2>1. CASE line = "reset"
    BY <1>3, <1>4, <2>1 DEF CauseOK
  <2>2. CASE line # "reset"
    BY <1>3, <2>2 DEF CauseOK
  <2> QED
    BY <2>1, <2>2
<1>7. /\ said'["reset"] \in Recorded /\ cause' # "none" => cause' = said'["reset"]
      /\ Position[pc'] <= Position["latch"] => cause' = "none"
      /\ line' = "reset" \/ pc' = "latch" => said'["reset"] \in {record', "torn", "nothing"}
      /\ line' = "reset" => said'["reset"] # "nothing"
  BY <1>1 DEF CauseOK
<1> QED
  BY <1>5, <1>6, <1>7 DEF CauseOK

LEMMA ResetKeepsCause ==
  ASSUME CauseOK, Reset \/ TrapResets \/ TrapIsCut
  PROVE  CauseOK'
<1>0. Starts
  BY DEF Reset, TrapResets, TrapIsCut
<1>1. pc' = "banner" /\ line' = "none" /\ cause' = "none" /\ "reset" \in Lines
      /\ said'["reset"] = "nothing"
  BY <1>0 DEF Starts, Begins, Lines, StLines
<1>2. unread' => record' \in Recorded
  <2>1. CASE UNCHANGED <<record, unread>>
    BY <2>1 DEF CauseOK
  <2>2. CASE record' \in Recorded \/ ~unread'
    BY <2>2
  <2> QED
    BY <2>1, <2>2 DEF Reset, TrapResets, TrapIsCut, Recorded
<1>3. "nothing" \notin Recorded
  BY DEF Recorded
<1> QED
  BY <1>1, <1>2, <1>3, Positions DEF CauseOK

LEMMA MainKeepsCause ==
  ASSUME ReportInv, CauseOK, obc_main
  PROVE  CauseOK'
<1>0. TypesOK /\ OrderOK /\ ShownOK /\ line = "none" /\ UNCHANGED <<st>>
  BY MainKeepsStatuses DEF ReportInv, statuses
<1>1. "reset" \in StLines /\ StLines \subseteq Reported /\ "reset" \in Reported
      /\ "none" \notin Steps /\ "mode" # "reset" /\ "boot" # "reset"
      /\ "sched" \in Reported /\ "latch" \notin Reported /\ "consume" \notin Reported
  BY StepsApart DEF StLines, Reported, Lines
<1>2. pc \in Steps
  BY <1>0 DEF TypesOK
<1>3. \A l \in Reported : l # pc => said'[l] = said[l]
  BY MainKeepsSaid
<1>4. line' = "reset" => pc = "reset"
  BY <1>0, <1>1, <1>2, MainSpeaks DEF Silent, console, Speaks
<1>5. CASE ResetCause
  <2>1. pc = "reset" /\ pc' = "latch" /\ UNCHANGED <<record, cause, unread>>
    BY <1>5 DEF ResetCause, At, kept, history
  <2>2. cause = "none" /\ cause' = "none"
    BY <2>1, Positions DEF CauseOK
  <2>3. CASE st = "OK"
    <3>1. Says("reset", record, Checked(2), "OK")
      BY <1>5, <2>3 DEF ResetCause
    <3>2. record # "nothing" /\ record # "torn" /\ ConsoleTypes /\ "reset" \in Lines
      BY <1>0 DEF TypesOK, KeptTypes, Records, Recorded, Lines, StLines
    <3>3. line' = "reset" /\ said'["reset"] = record
      BY <3>1, <3>2, SaysSpeaks DEF Speaks
    <3> QED
      BY <2>1, <2>2, <3>2, <3>3, Positions DEF CauseOK
  <2>4. CASE st # "OK"
    <3>1. said' = said /\ line' = "none"
      BY <1>0, <1>5, <2>4 DEF ResetCause, Silent, console
    <3>2. ~Passed("reset") /\ ~Passed("sched")
      BY <2>1, Positions DEF Passed
    <3>3. said["reset"] = "nothing" /\ said["sched"] = "nothing"
      BY <1>0, <1>1, <3>2 DEF OrderOK
    <3>4. \E l \in StLines : said[l] = "torn"
      BY <1>0, <2>4, <3>3 DEF ShownOK, Shown
    <3> QED
      BY <2>1, <2>2, <3>1, <3>3, <3>4, Positions DEF CauseOK, Recorded
  <2> QED
    BY <2>3, <2>4
<1>6. ASSUME ~ResetCause
      PROVE  pc # "reset" /\ said'["reset"] = said["reset"] /\ line' # "reset" /\ pc' # "latch"
  <2>1. pc # "reset" /\ pc' # "latch"
    BY <1>6 DEF obc_main, PlainLine, Mscratch, Latch, Consume, Escalate, TlmAudit, TlmMode,
           CmdAudit, TickLine, BaseLine, Window, Summary, Sentinel, At
  <2> QED
    BY <1>1, <1>3, <1>4, <2>1
<1>7. \A l \in StLines : pc \notin StLines /\ said[l] = "torn" => said'[l] = "torn"
  BY <1>1, <1>3
<1>8. CASE Latch
  <2>1. pc = "latch" /\ pc' = "consume" /\ UNCHANGED <<record, unread>>
        /\ cause' = Validated /\ ~ResetCause
    BY <1>8 DEF Latch, ResetCause, At, history
  <2>2. said'["reset"] \in {record, "torn", "nothing"} /\ line' # "reset"
    BY <1>6, <2>1 DEF CauseOK
  <2>3. said'["reset"] \in Recorded => cause' = said'["reset"]
    BY <2>1, <2>2 DEF Recorded, Validated
  <2>4. ~(Position["consume"] <= Position["latch"])
    BY Positions
  <2>5. unread => \E l \in StLines : said[l] = "torn"
    BY <1>0, <2>1 DEF CauseOK
  <2>6. unread => \E l \in StLines : said'[l] = "torn"
    BY <1>1, <1>7, <2>1, <2>5
  <2>7. Position[pc'] <= Position["consume"]
    BY <2>1, Positions
  <2> QED
    BY <2>1, <2>2, <2>3, <2>4, <2>6, <2>7 DEF CauseOK
<1>9. CASE Consume
  <2>1. /\ pc = "consume" /\ pc' = "boots" /\ UNCHANGED cause /\ ~ResetCause
        /\ ~unread'
    BY <1>9 DEF Consume, ResetCause, At
  <2>3. ~(Position["boots"] <= Position["latch"])
    BY Positions
  <2> QED
    BY <1>6, <2>1, <2>3 DEF CauseOK
<1>10. CASE ~ResetCause /\ ~Latch /\ ~Consume
  <2>1. UNCHANGED <<record, cause>> /\ pc' \notin {"latch", "consume"}
    BY <1>10 DEF obc_main, PlainLine, Mscratch, Escalate, TlmAudit, TlmMode, CmdAudit, TickLine,
           BaseLine, Window, Summary, Sentinel, kept, history
  <2>2. Position[pc'] <= Position["latch"] => Position[pc] <= Position["latch"]
    <3>1. Position[pc] \in 0 .. 17
      BY <1>2, StepsApart
    <3>2. Skips => Position[pc'] = 16
      BY Positions DEF Skips
    <3> QED
      BY <1>0, <3>1, <3>2, MainTurns, Positions
  <2>3. Position[pc] <= Position["consume"] => Position[pc'] <= Position["consume"]
    <3>1. Position[pc] \in 0 .. 17 /\ (Position[pc] = 6 => pc = "consume")
      BY <1>2, StepsApart, Positions
    <3>2. pc # "consume"
      BY <1>10 DEF obc_main, PlainLine, Mscratch, Latch, Escalate, TlmAudit, TlmMode, CmdAudit,
             TickLine, BaseLine, Window, Summary, Sentinel, At
    <3>3. Skips => Position[pc] = 14
      BY Positions DEF Skips
    <3> QED
      BY <1>0, <3>1, <3>2, <3>3, MainTurns, Positions
  <2>4. unread' => record' \in Recorded /\ Position[pc'] <= Position["consume"]
    <3>1. unread' = unread
      BY <1>10 DEF obc_main, PlainLine, Mscratch, Escalate, TlmAudit, TlmMode, CmdAudit, TickLine,
             BaseLine, Window, Summary, Sentinel, kept, history
    <3> QED
      BY <2>1, <2>3, <3>1 DEF CauseOK
  <2> QED
    BY <1>6, <1>10, <2>1, <2>2, <2>4 DEF CauseOK
<1> QED
  BY <1>5, <1>8, <1>9, <1>10

(* The steps of the program and of its console: what they lose is lost in  *)
(* a boot whose console refused a line.                                    *)
LEMMA ProgramKeepsTheRecord ==
  ASSUME ReportInv, CauseOK, PutText \/ obc_main
  PROVE  traps' = traps /\ (RecordIsLost => \E l \in StLines : said[l] = "torn")
<1>0. unread => record \in Recorded
  BY DEF CauseOK
<1>1. CASE PutText
  <2>1. UNCHANGED <<record, traps>>
    BY <1>1, ConsoleSteps DEF PutText, LineReturns, kept, ReportInv
  <2> QED
    BY <1>0, <2>1 DEF RecordIsLost
<1>2. CASE Consume
  <2>1. pc = "consume" /\ line = "none" /\ traps' = traps
    BY <1>2 DEF Consume, At
  <2>2. unread => \E l \in StLines : said[l] = "torn"
    BY <2>1 DEF CauseOK
  <2> QED
    BY <2>1, <2>2 DEF RecordIsLost
<1>3. CASE obc_main /\ ~Consume
  <2>1. UNCHANGED <<record, traps>>
    BY <1>3 DEF obc_main, PlainLine, Mscratch, ResetCause, Latch, Escalate, TlmAudit, TlmMode,
           CmdAudit, TickLine, BaseLine, Window, Summary, Sentinel, kept, history
  <2> QED
    BY <1>0, <2>1 DEF RecordIsLost
<1> QED
  BY <1>1, <1>2, <1>3

(* A trap that stores over an unread record falls before print_reset_cause *)
(* has returned, unless the console refused a line.                        *)
LEMMA TrapOverwritesEarly ==
  ASSUME ReportInv, CauseOK, RecordIsLost, TrapResets \/ TrapIsCut
  PROVE  (\E l \in StLines : said[l] = "torn") \/ (traps' # traps /\ NotYetSaid)
<1>1. pc \in Steps /\ traps \in Nat
  <2>1. resets \in 0 .. MaxResets /\ traps \in 0 .. resets /\ pc \in Steps
    BY DEF ReportInv, TypesOK, KeptTypes
  <2> QED
    BY <2>1
<1>2. traps' # traps
  BY <1>1 DEF TrapResets, TrapIsCut
<1>3. unread /\ Position[pc] <= Position["consume"]
  BY DEF RecordIsLost, CauseOK
<1>4. pc \in {"banner", "ram", "stack", "mscratch", "reset", "latch", "consume"}
  BY <1>1, <1>3, StepsApart, Positions DEF Steps, Lines, StLines
<1>5. CASE pc \in {"latch", "consume"} /\ line # "reset"
  BY <1>3, <1>5 DEF CauseOK
<1>6. CASE ~(pc \in {"latch", "consume"} /\ line # "reset")
  BY <1>2, <1>4, <1>6 DEF NotYetSaid
<1> QED
  BY <1>5, <1>6

(* main.c 633 and 650: the program destroys a trap's record only after a   *)
(* boot has said it whole, or in a boot whose console refused a line; only *)
(* a later trap's handler stores over an unread one (trap.S 82-117), and   *)
(* that trap fell before print_reset_cause had returned.  What the         *)
(* telemetry latches is what was said.                                     *)
THEOREM CauseIsReportedHolds == Spec => CauseIsReported
<1>1. Init => CauseOK
  <2> SUFFICES ASSUME Init PROVE CauseOK
    OBVIOUS
  <2>1. /\ pc = "banner" /\ line = "none" /\ cause = "none" /\ unread = (record \in Recorded)
        /\ "reset" \in Lines /\ said["reset"] = "nothing"
    BY DEF Init, Lines, StLines
  <2>2. Position[pc] <= Position["latch"] /\ Position[pc] <= Position["consume"]
    BY <2>1, Positions
  <2> QED
    BY <2>1, <2>2 DEF CauseOK, Recorded
<1>2. ReportInv /\ CauseOK /\ [Next]_vars => CauseOK'
  <2> SUFFICES ASSUME ReportInv, CauseOK, [Next]_vars PROVE CauseOK'
    OBVIOUS
  <2>1. CASE PutText
    BY <2>1, ConsoleKeepsCause, ReturnKeepsCause DEF PutText
  <2>2. CASE obc_main
    BY <2>2, MainKeepsCause
  <2>3. CASE Reset \/ TrapResets \/ TrapIsCut
    BY <2>3, ResetKeepsCause
  <2>4. CASE UNCHANGED vars
    BY <2>4 DEF vars, console, kept, history, CauseOK
  <2> QED
    BY <2>1, <2>2, <2>3, <2>4 DEF Next, Parked
<1>3. CauseOK => (said["reset"] \in Recorded /\ cause # "none" => cause = said["reset"])
  BY DEF CauseOK
<1>4. ReportInv /\ CauseOK /\ [Next]_vars =>
        [RecordIsLost =>
           (\E l \in StLines : said[l] = "torn") \/ (traps' # traps /\ NotYetSaid)]_vars
  <2> SUFFICES ASSUME ReportInv, CauseOK, [Next]_vars, RecordIsLost
               PROVE  (\E l \in StLines : said[l] = "torn") \/ (traps' # traps /\ NotYetSaid)
    OBVIOUS
  <2>1. CASE PutText \/ obc_main
    BY <2>1, ProgramKeepsTheRecord
  <2>2. CASE TrapResets \/ TrapIsCut
    BY <2>2, TrapOverwritesEarly
  <2>3. CASE Reset \/ UNCHANGED vars
    <3>1. UNCHANGED <<record, traps>>
      BY <2>3 DEF Reset, vars, kept, history
    <3> QED
      BY <3>1 DEF RecordIsLost, CauseOK
  <2> QED
    BY <2>1, <2>2, <2>3 DEF Next, Parked
<1> QED
  BY <1>1, <1>2, <1>3, <1>4, ReportInvHolds, PTL DEF Spec, CauseIsReported
=============================================================================

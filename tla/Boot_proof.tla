----------------------------- MODULE Boot_proof -----------------------------
(***************************************************************************)
(* Theorems about the records that survive a reset, for every streak       *)
(* limit, every set of traps and any number of traps and resets.           *)
(*                                                                         *)
(* The argument is a description of what remains of the writer that is     *)
(* running, and of what the stores already done have left: the checksum    *)
(* cannot be right before the payload is whole, and the magic cannot be    *)
(* set before the checksum.  From it follow one invariant per record.      *)
(***************************************************************************)
EXTENDS Boot, TLAPS

-----------------------------------------------------------------------------
(* The writers.                                                            *)

FaultSums == ram["fault"].sum = <<ram["fault"].first, ram["fault"].second>>
ModeSums == ram["mode"].sum = <<ram["mode"].first, ram["mode"].second>>
BootSums == ram["boot"].sum = <<ram["boot"].first, ram["boot"].second>>

Validates == obc_fault_validate \in {"TRAP", "DOUBLE_FAULT"}

(* The handler, with what its stores so far have left.                     *)
HandlerAt(t) ==
  \/ todo = HandlerStores(t)
  \/ todo = <<Into("fault", "second", "TRAP"), Into("fault", "sum", "payload"),
              Into("fault", "magic", "MAGIC")>> /\ ram["fault"].first = t
  \/ /\ todo = <<Into("fault", "sum", "payload"), Into("fault", "magic", "MAGIC")>>
     /\ ram["fault"].first = t /\ ram["fault"].second = "TRAP"
  \/ /\ todo = <<Into("fault", "magic", "MAGIC")>>
     /\ ram["fault"].second = "TRAP" /\ FaultSums

DoubleAt == todo = DoubleFaultStores /\ nested

ConsumeAt ==
  \/ todo = obc_fault_consume
  \/ /\ todo \in {<<Into("fault", "sum", "zero"), Into("fault", "first", "none"),
                    Into("fault", "second", "UNKNOWN")>>,
                  <<Into("fault", "first", "none"), Into("fault", "second", "UNKNOWN")>>,
                  <<Into("fault", "second", "UNKNOWN")>>}
     /\ ram["fault"].magic = "none"

ModeAt(reason) ==
  \/ todo = mode_record_write(reason)
  \/ /\ todo \in {<<Into("mode", "first", reason), Into("mode", "sum", "payload"),
                    Into("mode", "magic", "MAGIC")>>,
                  <<Into("mode", "sum", "payload"), Into("mode", "magic", "MAGIC")>>}
     /\ ram["mode"].magic = "none"
  \/ /\ todo = <<Into("mode", "magic", "MAGIC")>>
     /\ ram["mode"].magic = "none" /\ ModeSums

BootAt(n, b) ==
  \/ todo = boot_record_write(n, b)
  \/ /\ todo = <<Into("boot", "first", n), Into("boot", "second", b),
                 Into("boot", "sum", "payload"), Into("boot", "magic", "MAGIC")>>
     /\ ram["boot"].magic = "none"
  \/ /\ todo = <<Into("boot", "second", b), Into("boot", "sum", "payload"),
                 Into("boot", "magic", "MAGIC")>>
     /\ ram["boot"].magic = "none" /\ ram["boot"].first = n
  \/ /\ todo = <<Into("boot", "sum", "payload"), Into("boot", "magic", "MAGIC")>>
     /\ ram["boot"].magic = "none" /\ ram["boot"].first = n /\ ram["boot"].second = b
  \/ /\ todo = <<Into("boot", "magic", "MAGIC")>>
     /\ ram["boot"].magic = "none" /\ ram["boot"].first = n /\ ram["boot"].second = b
     /\ BootSums

(* Who writes where in the boot.                                           *)
WriterOK ==
  \/ todo = <<>>
  \/ pc = "resetting" /\ (DoubleAt \/ \E t \in Traps : HandlerAt(t))
  \/ pc = "escalate" /\ ConsumeAt
  \/ /\ pc \in {"consume", "checks", "window"} /\ mode = "safe" /\ announced
     /\ \E reason : ModeAt(reason)
  \/ /\ pc = "restore" /\ ~raised
     /\ \E n \in Nat : BootAt(n, 1) /\ ("boot" \in torn \/ n = shorts)
  \/ pc = "parked" /\ raised /\ BootAt(0, 0)

-----------------------------------------------------------------------------
(* The fault record: its checksum word is empty or that of one trap.       *)
FaultOK ==
  /\ ram["fault"].sum = <<>> \/ ram["fault"].sum = <<committed, "TRAP">>
  /\ pc \notin {"reset", "resetting"} => ~in_handler
  /\ pc = "resetting" => in_handler
  /\ ram["fault"].magic = "DOUBLE" => nested
  /\ pc = "resetting" /\ todo = <<>> => Validates

(* A recorded trap is still to be read, is being written over by a later   *)
(* handler, or has degraded the boot.                                      *)
OwedOK ==
  owed /\ "fault" \notin torn =>
    \/ pc \in {"reset", "main", "restore"} /\ Validates
    \/ pc = "consume" /\ Validates /\ todo # <<>>
    \/ pc = "resetting" /\ (Validates \/ Head(todo).word # "first")

(* The mode record, once committed, stands or is being rewritten.          *)
ModeOK ==
  /\ announced => mode = "safe"
  /\ degraded /\ "mode" \notin torn =>
       /\ intact("mode") \/ (todo # <<>> /\ Head(todo).record = "mode")
       /\ todo # <<>> /\ todo[1] = Into("mode", "magic", "none") => intact("mode")
       /\ pc \in {"consume", "escalate", "checks", "window", "parked"} => mode = "safe"

(* The boot record holds what happened, unless it is being written.        *)
Writing == todo # <<>> /\ Head(todo).record = "boot" /\ Head(todo) # Into("boot", "magic", "none")

RaisedOK ==
  /\ pc \in {"reset", "main"} => ~raised /\ todo = <<>>
  /\ pc \in {"consume", "escalate", "checks", "window"} => raised
  /\ pc = "restore" /\ todo = <<>> => raised

StreakOK ==
  "boot" \notin torn =>
    /\ raised /\ ~Writing => /\ intact("boot") /\ ram["boot"].second = 1
                             /\ ram["boot"].first = shorts
    /\ ~raised /\ ~Writing => Count = shorts
    /\ loops <= shorts /\ loops <= ShortBootLimit

RungOK ==
  "boot" \notin torn /\ shorts >= ShortBootLimit =>
    /\ pc \in {"restore", "consume", "escalate"} => boot_rung = "RESET_MACHINE"
    /\ pc \in {"checks", "window"} => mode = "safe"

Inv == WriterOK /\ FaultOK /\ OwedOK /\ ModeOK /\ RaisedOK /\ StreakOK /\ RungOK

IInv == TypeOK /\ Inv

-----------------------------------------------------------------------------
(* What one store does, in words of the records.                           *)

Same(r, w) == ram'[r][w] = ram[r][w]
SameRecord(r) == \A w \in Words : Same(r, w)

LEMMA StoreOf ==
  ASSUME TypeOK, Store, NEW r \in Records, NEW w \in Words, NEW v,
         Head(todo) = Into(r, w, v)
  PROVE  /\ todo' = Tail(todo)
         /\ DOMAIN ram' = Records /\ \A x \in Records : DOMAIN ram'[x] = Words
         /\ w # "sum" => ram'[r][w] = v
         /\ w = "sum" /\ v = "payload" => ram'[r][w] = <<ram[r].first, ram[r].second>>
         /\ w = "sum" /\ v # "payload" => ram'[r][w] = <<>>
         /\ \A x \in Records, y \in Words : x # r \/ y # w => Same(x, y)
<1> DEFINE s == Head(todo)
<1>1. ram' = after(s) /\ todo' = Tail(todo)
  BY DEF Store
<1>2. s.record = r /\ s.word = w /\ s.value = v
  BY DEF Into
<1>3. after(s) = [ram EXCEPT ![r] = [ram[r] EXCEPT ![w] =
                   IF w # "sum" THEN v
                   ELSE IF v = "payload" THEN <<ram[r].first, ram[r].second>> ELSE <<>>]]
  BY <1>2 DEF after
<1> HIDE DEF s
<1>4. DOMAIN ram = Records /\ \A x \in Records : DOMAIN ram[x] = Words
  BY DEF TypeOK
<1> QED
  BY <1>1, <1>3, <1>4 DEF Same

LEMMA Tuples ==
  /\ \A a : Head(<<a>>) = a /\ Tail(<<a>>) = <<>>
  /\ \A a, b : Head(<<a, b>>) = a /\ Tail(<<a, b>>) = <<b>>
  /\ \A a, b, c : Head(<<a, b, c>>) = a /\ Tail(<<a, b, c>>) = <<b, c>>
  /\ \A a, b, c, d : Head(<<a, b, c, d>>) = a /\ Tail(<<a, b, c, d>>) = <<b, c, d>>
  /\ \A a, b, c, d, e : /\ Head(<<a, b, c, d, e>>) = a
                        /\ Tail(<<a, b, c, d, e>>) = <<b, c, d, e>>
  OBVIOUS

(* The history, in terms of the record that was written.                   *)
Commits(r) == is_intact(ram'[r]) \/ ram'[r].magic = "DOUBLE"

LEMMA StoreHistory ==
  ASSUME TypeOK, Store, NEW r, NEW w, NEW v, Head(todo) = Into(r, w, v)
  PROVE  /\ r = "fault" => /\ UNCHANGED <<degraded, raised, shorts, loops>>
                           /\ owed' \in BOOLEAN /\ (owed' <=> owed \/ Commits("fault"))
                           /\ nested' \in BOOLEAN
                           /\ (nested' <=> nested /\ ~(w = "magic" /\ v # "DOUBLE"))
                           /\ committed' = IF w = "sum" /\ v = "payload"
                                           THEN ram["fault"].first ELSE committed
         /\ r = "mode" => /\ UNCHANGED <<raised, shorts, loops, nested, committed>>
                          /\ owed' \in BOOLEAN /\ (owed' <=> owed /\ ~Commits("mode"))
                          /\ degraded' \in BOOLEAN
                          /\ (degraded' <=> degraded \/ Commits("mode"))
         /\ r = "boot" => /\ UNCHANGED <<nested, committed, owed, degraded>>
                          /\ Commits("boot") =>
                               /\ raised' \in BOOLEAN /\ (raised' <=> ram["boot"].second # 0)
                               /\ shorts' = IF ram["boot"].second # 0 THEN shorts ELSE 0
                               /\ loops' = IF ram["boot"].second # 0 THEN loops ELSE 0
                          /\ ~Commits("boot") => UNCHANGED <<raised, shorts, loops>>
         /\ UNCHANGED <<pc, in_handler, boot, torn, budget>>
<1>1. /\ Head(todo).record = r /\ Head(todo).word = w /\ Head(todo).value = v
      /\ Head(todo) = Into("fault", "sum", "payload") <=> r = "fault" /\ w = "sum" /\ v = "payload"
  BY DEF Into
<1>2. ram' = after(Head(todo))
  BY DEF Store
<1>3. owed \in BOOLEAN /\ nested \in BOOLEAN /\ degraded \in BOOLEAN
  BY DEF TypeOK
<1>4. CASE r = "fault"
  BY <1>1, <1>2, <1>3, <1>4 DEF Store, Commits
<1>5. CASE r = "mode"
  BY <1>1, <1>2, <1>3, <1>5 DEF Store, Commits
<1>6. CASE r = "boot"
  BY <1>1, <1>2, <1>3, <1>6 DEF Store, Commits
<1>7. UNCHANGED <<pc, in_handler, boot, torn, budget>>
  BY DEF Store
<1> QED
  BY <1>4, <1>5, <1>6, <1>7

(* A store into the fault record is the handler's or the consumer's, and   *)
(* leaves the two other records alone.                                     *)
LEMMA FaultStore ==
  ASSUME IInv, Store, Head(todo).record = "fault"
  PROVE  IInv'
<1> USE DEF IInv, Inv
<1>1. \/ pc = "resetting" /\ (DoubleAt \/ \E t \in Traps : HandlerAt(t))
      \/ pc = "escalate" /\ ConsumeAt
  BY Tuples DEF WriterOK, Store, ModeAt, BootAt, mode_record_write, boot_record_write, Into
<1>2. PICK w, v : w \in Words /\ Head(todo) = Into("fault", w, v)
  BY <1>1, Tuples DEF DoubleAt, HandlerAt, ConsumeAt, HandlerStores, DoubleFaultStores,
     obc_fault_consume, Words
<1>3. /\ UNCHANGED <<degraded, raised, shorts, loops, pc, in_handler, boot, torn, budget>>
      /\ owed' \in BOOLEAN /\ (owed' <=> owed \/ Commits("fault"))
      /\ nested' \in BOOLEAN /\ (nested' <=> nested /\ ~(w = "magic" /\ v # "DOUBLE"))
      /\ committed' = IF w = "sum" /\ v = "payload" THEN ram["fault"].first ELSE committed
  BY <1>2, StoreHistory
<1>4. /\ todo' = Tail(todo)
      /\ DOMAIN ram' = Records /\ \A x \in Records : DOMAIN ram'[x] = Words
      /\ SameRecord("mode") /\ SameRecord("boot")
      /\ \A y \in Words : y # w => Same("fault", y)
      /\ w # "sum" => ram'["fault"][w] = v
      /\ w = "sum" /\ v = "payload" =>
           ram'["fault"].sum = <<ram["fault"].first, ram["fault"].second>>
      /\ w = "sum" /\ v # "payload" => ram'["fault"].sum = <<>>
  <2>1. /\ "fault" \in Records /\ "mode" \in Records /\ "boot" \in Records
        /\ "sum" \in Words /\ TypeOK
    BY DEF Records, Words
  <2> QED
    BY <1>2, <2>1, StoreOf DEF SameRecord, Words
<1> HIDE DEF IInv, Inv
<1>5. TypeOK /\ Inv
  BY DEF IInv
<1>6. TypeOK'
  <2>1. w = "sum" /\ v = "payload" => ram["fault"].first \in Traps
    BY <1>1, <1>2, Tuples DEF DoubleAt, HandlerAt, ConsumeAt, HandlerStores, DoubleFaultStores,
       obc_fault_consume, Into
  <2>2. /\ ram'["boot"].first = ram["boot"].first /\ ram'["boot"].second = ram["boot"].second
    BY <1>4 DEF SameRecord, Same, Words
  <2> QED
    BY <1>3, <1>4, <1>5, <2>1, <2>2 DEF TypeOK, boot, budget
<1>7. /\ pc' = pc /\ in_handler' = in_handler /\ torn' = torn
      /\ ram["fault"].magic = "DOUBLE" => nested
      /\ ram["fault"].sum \in {<<>>, <<committed, "TRAP">>}
      /\ pc = "resetting" => in_handler
      /\ pc \notin {"reset", "resetting"} => ~in_handler
      /\ pc = "escalate" => ~owed \/ "fault" \in torn
  BY <1>3, <1>5 DEF Inv, FaultOK, OwedOK
<1>8. ASSUME NEW t \in Traps, HandlerAt(t), pc = "resetting"
      PROVE  WriterOK' /\ FaultOK' /\ OwedOK'
  <2>1. CASE todo = HandlerStores(t)
    <3>1. /\ w = "first" /\ v = t
          /\ todo' = <<Into("fault", "second", "TRAP"), Into("fault", "sum", "payload"),
                       Into("fault", "magic", "MAGIC")>>
      BY <1>2, <1>4, <2>1, Tuples DEF HandlerStores, Into
    <3>2. /\ ram'["fault"].magic = ram["fault"].magic /\ ram'["fault"].sum = ram["fault"].sum
          /\ ram'["fault"].first = t
      BY <1>4, <3>1 DEF Same, Words
    <3>3. WriterOK'
      BY <1>7, <1>8, <3>1, <3>2 DEF WriterOK, HandlerAt
    <3>4. FaultOK'
      BY <1>3, <1>7, <1>8, <3>1, <3>2 DEF FaultOK
    <3>5. OwedOK'
      BY <1>7, <1>8, <3>1, Tuples DEF OwedOK, Into
    <3> QED
      BY <3>3, <3>4, <3>5
  <2>2. CASE todo = <<Into("fault", "second", "TRAP"), Into("fault", "sum", "payload"),
                      Into("fault", "magic", "MAGIC")>> /\ ram["fault"].first = t
    <3>1. /\ w = "second" /\ v = "TRAP"
          /\ todo' = <<Into("fault", "sum", "payload"), Into("fault", "magic", "MAGIC")>>
      BY <1>2, <1>4, <2>2, Tuples DEF Into
    <3>2. /\ ram'["fault"].magic = ram["fault"].magic /\ ram'["fault"].sum = ram["fault"].sum
          /\ ram'["fault"].first = t /\ ram'["fault"].second = "TRAP"
      BY <1>4, <2>2, <3>1 DEF Same, Words
    <3>3. WriterOK'
      BY <1>7, <1>8, <3>1, <3>2 DEF WriterOK, HandlerAt
    <3>4. FaultOK'
      BY <1>3, <1>7, <1>8, <3>1, <3>2 DEF FaultOK
    <3>5. OwedOK'
      BY <1>7, <1>8, <3>1, Tuples DEF OwedOK, Into
    <3> QED
      BY <3>3, <3>4, <3>5
  <2>3. CASE /\ todo = <<Into("fault", "sum", "payload"), Into("fault", "magic", "MAGIC")>>
             /\ ram["fault"].first = t /\ ram["fault"].second = "TRAP"
    <3>1. /\ w = "sum" /\ v = "payload" /\ todo' = <<Into("fault", "magic", "MAGIC")>>
      BY <1>2, <1>4, <2>3, Tuples DEF Into
    <3>2. /\ ram'["fault"].magic = ram["fault"].magic /\ ram'["fault"].sum = <<t, "TRAP">>
          /\ ram'["fault"].first = t /\ ram'["fault"].second = "TRAP"
      BY <1>4, <2>3, <3>1 DEF Same, Words
    <3>3. WriterOK'
      BY <1>7, <1>8, <3>1, <3>2 DEF WriterOK, HandlerAt, FaultSums
    <3>4. FaultOK'
      BY <1>3, <1>7, <1>8, <2>3, <3>1, <3>2 DEF FaultOK
    <3>5. OwedOK'
      BY <1>7, <1>8, <3>1, Tuples DEF OwedOK, Into
    <3> QED
      BY <3>3, <3>4, <3>5
  <2>4. CASE /\ todo = <<Into("fault", "magic", "MAGIC")>>
             /\ ram["fault"].second = "TRAP" /\ FaultSums
    <3>1. w = "magic" /\ v = "MAGIC" /\ todo' = <<>>
      BY <1>2, <1>4, <2>4, Tuples DEF Into
    <3>2. /\ ram'["fault"].magic = "MAGIC" /\ ram'["fault"].sum = ram["fault"].sum
          /\ ram'["fault"].first = ram["fault"].first /\ ram'["fault"].second = "TRAP"
      BY <1>4, <2>4, <3>1 DEF Same, Words
    <3>3. Validates'
      BY <2>4, <3>2 DEF Validates, obc_fault_validate, intact, is_intact, FaultSums
    <3> QED
      BY <1>3, <1>7, <1>8, <3>1, <3>2, <3>3 DEF WriterOK, FaultOK, OwedOK
  <2> QED
    BY <1>8, <2>1, <2>2, <2>3, <2>4 DEF HandlerAt
<1>9. ASSUME DoubleAt, pc = "resetting"
      PROVE  WriterOK' /\ FaultOK' /\ OwedOK'
  <2>1. w = "magic" /\ v = "DOUBLE" /\ todo' = <<>>
    BY <1>2, <1>4, <1>9, Tuples DEF DoubleAt, DoubleFaultStores, Into
  <2>2. ram'["fault"].magic = "DOUBLE" /\ ram'["fault"].sum = ram["fault"].sum
    BY <1>4, <2>1 DEF Same, Words
  <2>3. Validates'
    BY <2>2 DEF Validates, obc_fault_validate
  <2> QED
    BY <1>3, <1>7, <1>9, <2>1, <2>2, <2>3 DEF WriterOK, FaultOK, OwedOK, DoubleAt
<1>10. ASSUME ConsumeAt, pc = "escalate"
       PROVE  WriterOK' /\ FaultOK' /\ OwedOK'
  <2>1. ram'["fault"].magic = "none" /\ (w = "magic" => v = "none")
    BY <1>2, <1>4, <1>10, Tuples DEF ConsumeAt, obc_fault_consume, Into, Same, Words
  <2>2. WriterOK'
    <3>1. CASE todo = obc_fault_consume
      <4>1. todo' = <<Into("fault", "sum", "zero"), Into("fault", "first", "none"),
                      Into("fault", "second", "UNKNOWN")>>
        BY <1>4, <3>1, Tuples DEF obc_fault_consume
      <4> QED
        BY <1>7, <1>10, <2>1, <4>1 DEF WriterOK, ConsumeAt
    <3>2. CASE todo # obc_fault_consume
      <4>1. CASE todo = <<Into("fault", "sum", "zero"), Into("fault", "first", "none"),
                          Into("fault", "second", "UNKNOWN")>>
        <5>1. todo' = <<Into("fault", "first", "none"), Into("fault", "second", "UNKNOWN")>>
          BY <1>4, <4>1, Tuples
        <5> QED
          BY <1>7, <1>10, <2>1, <5>1 DEF WriterOK, ConsumeAt
      <4>2. CASE todo = <<Into("fault", "first", "none"), Into("fault", "second", "UNKNOWN")>>
        <5>1. todo' = <<Into("fault", "second", "UNKNOWN")>>
          BY <1>4, <4>2, Tuples
        <5> QED
          BY <1>7, <1>10, <2>1, <5>1 DEF WriterOK, ConsumeAt
      <4>3. CASE todo = <<Into("fault", "second", "UNKNOWN")>>
        <5>1. todo' = <<>>
          BY <1>4, <4>3, Tuples
        <5> QED
          BY <5>1 DEF WriterOK
      <4> QED
        BY <1>10, <3>2, <4>1, <4>2, <4>3 DEF ConsumeAt
    <3> QED
      BY <3>1, <3>2
  <2>3. w = "sum" => v = "zero"
    BY <1>2, <1>10, Tuples DEF ConsumeAt, obc_fault_consume, Into
  <2>4. committed' = committed /\ ram'["fault"].sum \in {<<>>, ram["fault"].sum}
    BY <1>3, <1>4, <2>3 DEF Same, Words
  <2>5. FaultOK'
    BY <1>3, <1>7, <1>10, <2>1, <2>4 DEF FaultOK
  <2>6. OwedOK'
    BY <1>3, <1>7, <1>10, <2>1 DEF OwedOK, Commits, is_intact
  <2> QED
    BY <2>2, <2>5, <2>6
<1>11. todo' = <<>> \/ Head(todo').record = "fault"
  BY <1>1, <1>4, Tuples DEF DoubleAt, HandlerAt, ConsumeAt, HandlerStores, DoubleFaultStores,
     obc_fault_consume, Into
<1>12. ModeOK'
  <2>1. intact("mode")' <=> intact("mode")
    BY <1>4 DEF SameRecord, Same, Words, intact, is_intact
  <2>2. todo' # <<>> => todo'[1] # Into("mode", "magic", "none")
    BY <1>11 DEF Into
  <2>3. todo # <<>> => Head(todo).record # "mode"
    OBVIOUS
  <2> QED
    BY <1>3, <1>5, <2>1, <2>2, <2>3 DEF Inv, ModeOK, boot
<1>13. RaisedOK' /\ RungOK'
  BY <1>1, <1>3, <1>5 DEF Inv, RaisedOK, RungOK, boot
<1>14. StreakOK'
  <2>1. /\ intact("boot")' <=> intact("boot")
        /\ Count' = Count
        /\ ram'["boot"].first = ram["boot"].first /\ ram'["boot"].second = ram["boot"].second
    BY <1>4 DEF SameRecord, Same, Words, intact, is_intact, Count, obc_recover_short_boots
  <2>2. ~Writing /\ ~Writing'
    BY <1>11 DEF Writing
  <2> QED
    BY <1>3, <1>5, <2>1, <2>2 DEF Inv, StreakOK
<1> QED
  BY <1>1, <1>6, <1>8, <1>9, <1>10, <1>12, <1>13, <1>14 DEF IInv, Inv

(* A store into the mode record: the system is degraded already, and the   *)
(* last store makes the record say so.                                     *)
LEMMA ModeStore ==
  ASSUME IInv, Store, Head(todo).record = "mode"
  PROVE  IInv'
<1>1. TypeOK /\ Inv
  BY DEF IInv
<1>2. /\ pc \in {"consume", "checks", "window"} /\ mode = "safe" /\ announced
      /\ \E reason : ModeAt(reason)
  BY <1>1, Tuples DEF Inv, WriterOK, Store, DoubleAt, HandlerAt, ConsumeAt, HandlerStores,
     DoubleFaultStores, obc_fault_consume, BootAt, boot_record_write, Into
<1>3. PICK reason : ModeAt(reason)
  BY <1>2
<1>4. PICK w, v : w \in Words /\ Head(todo) = Into("mode", w, v)
  BY <1>3, Tuples DEF ModeAt, mode_record_write, Words
<1>5. /\ UNCHANGED <<raised, shorts, loops, nested, committed, pc, in_handler, boot, torn, budget>>
      /\ owed' \in BOOLEAN /\ (owed' <=> owed /\ ~Commits("mode"))
      /\ degraded' \in BOOLEAN /\ (degraded' <=> degraded \/ Commits("mode"))
  BY <1>1, <1>4, StoreHistory
<1>6. /\ todo' = Tail(todo)
      /\ DOMAIN ram' = Records /\ \A x \in Records : DOMAIN ram'[x] = Words
      /\ SameRecord("fault") /\ SameRecord("boot")
      /\ \A y \in Words : y # w => Same("mode", y)
      /\ w # "sum" => ram'["mode"][w] = v
      /\ w = "sum" /\ v = "payload" =>
           ram'["mode"].sum = <<ram["mode"].first, ram["mode"].second>>
  <2>1. /\ "fault" \in Records /\ "mode" \in Records /\ "boot" \in Records /\ "sum" \in Words
    BY DEF Records, Words
  <2> QED
    BY <1>1, <1>4, <2>1, StoreOf DEF SameRecord, Words
<1>7. /\ ram'["boot"].first = ram["boot"].first /\ ram'["boot"].second = ram["boot"].second
      /\ ram'["fault"].magic = ram["fault"].magic /\ ram'["fault"].sum = ram["fault"].sum
      /\ intact("boot")' <=> intact("boot")
      /\ Count' = Count /\ Validates' = Validates
  BY <1>6 DEF SameRecord, Same, Words, intact, is_intact, Count, obc_recover_short_boots,
     Validates, obc_fault_validate
<1>8. TypeOK'
  BY <1>1, <1>5, <1>6, <1>7 DEF TypeOK, boot, budget
<1>9. FaultOK' /\ RaisedOK' /\ RungOK'
  BY <1>1, <1>2, <1>5, <1>7 DEF Inv, FaultOK, RaisedOK, RungOK, boot
<1> DEFINE GoesOn == /\ todo' # <<>> /\ Head(todo').record = "mode"
                     /\ Head(todo') # Into("mode", "magic", "none")
                     /\ ram'["mode"].magic = "none"
           Ends == todo' = <<>> /\ intact("mode")'
<1>10. WriterOK' /\ (GoesOn \/ Ends)
  <2>1. CASE todo = mode_record_write(reason)
    <3>1. /\ w = "magic" /\ v = "none"
          /\ todo' = <<Into("mode", "first", reason), Into("mode", "sum", "payload"),
                       Into("mode", "magic", "MAGIC")>>
      BY <1>4, <1>6, <2>1, Tuples DEF mode_record_write, Into
    <3>2. ram'["mode"].magic = "none"
      BY <1>6, <3>1
    <3>3. WriterOK'
      BY <1>2, <1>5, <3>1, <3>2 DEF WriterOK, ModeAt, boot
    <3> QED
      BY <3>1, <3>2, <3>3, Tuples DEF Into
  <2>2. CASE /\ todo = <<Into("mode", "first", reason), Into("mode", "sum", "payload"),
                        Into("mode", "magic", "MAGIC")>>
             /\ ram["mode"].magic = "none"
    <3>1. /\ w = "first"
          /\ todo' = <<Into("mode", "sum", "payload"), Into("mode", "magic", "MAGIC")>>
      BY <1>4, <1>6, <2>2, Tuples DEF Into
    <3>2. ram'["mode"].magic = "none"
      BY <1>6, <2>2, <3>1 DEF Same, Words
    <3>3. WriterOK'
      BY <1>2, <1>5, <3>1, <3>2 DEF WriterOK, ModeAt, boot
    <3> QED
      BY <3>1, <3>2, <3>3, Tuples DEF Into
  <2>3. CASE /\ todo = <<Into("mode", "sum", "payload"), Into("mode", "magic", "MAGIC")>>
             /\ ram["mode"].magic = "none"
    <3>1. /\ w = "sum" /\ v = "payload" /\ todo' = <<Into("mode", "magic", "MAGIC")>>
      BY <1>4, <1>6, <2>3, Tuples DEF Into
    <3>2. ram'["mode"].magic = "none" /\ ModeSums'
      BY <1>6, <2>3, <3>1 DEF Same, Words, ModeSums
    <3>3. WriterOK'
      BY <1>2, <1>5, <3>1, <3>2 DEF WriterOK, ModeAt, boot
    <3> QED
      BY <3>1, <3>2, <3>3, Tuples DEF Into
  <2>4. CASE todo = <<Into("mode", "magic", "MAGIC")>> /\ ModeSums
    <3>1. w = "magic" /\ v = "MAGIC" /\ todo' = <<>>
      BY <1>4, <1>6, <2>4, Tuples DEF Into
    <3>2. intact("mode")'
      BY <1>6, <2>4, <3>1 DEF Same, Words, ModeSums, intact, is_intact
    <3> QED
      BY <3>1, <3>2 DEF WriterOK
  <2> QED
    BY <1>3, <2>1, <2>2, <2>3, <2>4 DEF ModeAt
<1>11. OwedOK'
  <2>1. GoesOn => ~Commits("mode") /\ todo' # <<>>
    BY DEF Commits, is_intact
  <2>2. Ends => Commits("mode")
    BY DEF Commits, intact
  <2>3. Validates' = Validates
    BY <1>7
  <2> QED
    BY <1>1, <1>2, <1>5, <1>10, <2>1, <2>2, <2>3 DEF Inv, OwedOK
<1>12. ModeOK'
  BY <1>1, <1>2, <1>5, <1>10 DEF Inv, ModeOK, boot
<1>13. StreakOK'
  <2>1. ~Writing /\ ~Writing'
    BY <1>10 DEF Writing
  <2> QED
    BY <1>1, <1>5, <1>7, <2>1 DEF Inv, StreakOK
<1> QED
  BY <1>8, <1>9, <1>10, <1>11, <1>12, <1>13 DEF IInv, Inv

(* A store into the boot record: raising the flag at the start of a boot,  *)
(* or lowering it at the end of a healthy one.                             *)
LEMMA BootStore ==
  ASSUME IInv, Store, Head(todo).record = "boot"
  PROVE  IInv'
<1>1. TypeOK /\ Inv
  BY DEF IInv
<1>2. \/ /\ pc = "restore" /\ ~raised
         /\ \E n \in Nat : BootAt(n, 1) /\ ("boot" \in torn \/ n = shorts)
      \/ pc = "parked" /\ raised /\ BootAt(0, 0)
  BY <1>1, Tuples DEF Inv, WriterOK, Store, DoubleAt, HandlerAt, ConsumeAt, HandlerStores,
     DoubleFaultStores, obc_fault_consume, ModeAt, mode_record_write, Into
<1>3. PICK n \in Nat, b \in {0, 1} :
        /\ BootAt(n, b)
        /\ \/ pc = "restore" /\ ~raised /\ b = 1 /\ ("boot" \in torn \/ n = shorts)
           \/ pc = "parked" /\ raised /\ b = 0 /\ n = 0
  BY <1>2
<1>4. PICK w, v : w \in Words /\ Head(todo) = Into("boot", w, v)
  BY <1>3, Tuples DEF BootAt, boot_record_write, Words
<1>5. /\ UNCHANGED <<nested, committed, owed, degraded, pc, in_handler, boot, torn, budget>>
      /\ Commits("boot") => /\ raised' \in BOOLEAN /\ (raised' <=> ram["boot"].second # 0)
                            /\ shorts' = IF ram["boot"].second # 0 THEN shorts ELSE 0
                            /\ loops' = IF ram["boot"].second # 0 THEN loops ELSE 0
      /\ ~Commits("boot") => UNCHANGED <<raised, shorts, loops>>
  BY <1>1, <1>4, StoreHistory
<1>6. /\ todo' = Tail(todo)
      /\ DOMAIN ram' = Records /\ \A x \in Records : DOMAIN ram'[x] = Words
      /\ SameRecord("fault") /\ SameRecord("mode")
      /\ \A y \in Words : y # w => Same("boot", y)
      /\ w # "sum" => ram'["boot"][w] = v
      /\ w = "sum" /\ v = "payload" =>
           ram'["boot"].sum = <<ram["boot"].first, ram["boot"].second>>
  <2>1. /\ "fault" \in Records /\ "mode" \in Records /\ "boot" \in Records /\ "sum" \in Words
    BY DEF Records, Words
  <2> QED
    BY <1>1, <1>4, <2>1, StoreOf DEF SameRecord, Words
<1>7. /\ ram'["fault"].magic = ram["fault"].magic /\ ram'["fault"].sum = ram["fault"].sum
      /\ intact("mode")' <=> intact("mode")
      /\ Validates' = Validates
  BY <1>6 DEF SameRecord, Same, Words, intact, is_intact, Validates, obc_fault_validate
<1> DEFINE GoesOn == /\ todo' # <<>> /\ Head(todo').record = "boot" /\ Writing'
                     /\ Head(todo') # Into("mode", "magic", "none")
                     /\ ram'["boot"].magic = "none"
                     /\ ram'["boot"].first \in Nat /\ ram'["boot"].second \in {0, 1}
                     /\ BootAt(n, b)'
           Ends == /\ todo' = <<>> /\ intact("boot")'
                   /\ ram["boot"].second = b
                   /\ ram'["boot"].first = n /\ ram'["boot"].second = b
<1>8. GoesOn \/ Ends
  <2>1. ram["boot"].first \in Nat /\ ram["boot"].second \in {0, 1}
    BY <1>1 DEF TypeOK
  <2>2. CASE todo = boot_record_write(n, b)
    <3>1. /\ w = "magic" /\ v = "none"
          /\ todo' = <<Into("boot", "first", n), Into("boot", "second", b),
                       Into("boot", "sum", "payload"), Into("boot", "magic", "MAGIC")>>
      BY <1>4, <1>6, <2>2, Tuples DEF boot_record_write, Into
    <3>2. /\ ram'["boot"].magic = "none" /\ ram'["boot"].first = ram["boot"].first
          /\ ram'["boot"].second = ram["boot"].second
      BY <1>6, <3>1 DEF Same, Words
    <3>3. Writing' /\ Head(todo').record = "boot"
      BY <3>1, Tuples DEF Writing, Into
    <3> QED
      BY <2>1, <3>1, <3>2, <3>3 DEF BootAt, Writing, Into
  <2>3. CASE /\ todo = <<Into("boot", "first", n), Into("boot", "second", b),
                        Into("boot", "sum", "payload"), Into("boot", "magic", "MAGIC")>>
             /\ ram["boot"].magic = "none"
    <3>1. /\ w = "first" /\ v = n
          /\ todo' = <<Into("boot", "second", b), Into("boot", "sum", "payload"),
                       Into("boot", "magic", "MAGIC")>>
      BY <1>4, <1>6, <2>3, Tuples DEF Into
    <3>2. /\ ram'["boot"].magic = "none" /\ ram'["boot"].first = n
          /\ ram'["boot"].second = ram["boot"].second
      BY <1>6, <2>3, <3>1 DEF Same, Words
    <3>3. Writing' /\ Head(todo').record = "boot"
      BY <3>1, Tuples DEF Writing, Into
    <3> QED
      BY <2>1, <3>1, <3>2, <3>3 DEF BootAt, Writing, Into
  <2>4. CASE /\ todo = <<Into("boot", "second", b), Into("boot", "sum", "payload"),
                        Into("boot", "magic", "MAGIC")>>
             /\ ram["boot"].magic = "none" /\ ram["boot"].first = n
    <3>1. /\ w = "second" /\ v = b
          /\ todo' = <<Into("boot", "sum", "payload"), Into("boot", "magic", "MAGIC")>>
      BY <1>4, <1>6, <2>4, Tuples DEF Into
    <3>2. ram'["boot"].magic = "none" /\ ram'["boot"].first = n /\ ram'["boot"].second = b
      BY <1>6, <2>4, <3>1 DEF Same, Words
    <3>3. Writing' /\ Head(todo').record = "boot"
      BY <3>1, Tuples DEF Writing, Into
    <3> QED
      BY <3>1, <3>2, <3>3 DEF BootAt, Writing, Into
  <2>5. CASE /\ todo = <<Into("boot", "sum", "payload"), Into("boot", "magic", "MAGIC")>>
             /\ ram["boot"].magic = "none" /\ ram["boot"].first = n /\ ram["boot"].second = b
    <3>1. w = "sum" /\ v = "payload" /\ todo' = <<Into("boot", "magic", "MAGIC")>>
      BY <1>4, <1>6, <2>5, Tuples DEF Into
    <3>2. /\ ram'["boot"].magic = "none" /\ ram'["boot"].first = n /\ ram'["boot"].second = b
          /\ BootSums'
      BY <1>6, <2>5, <3>1 DEF Same, Words, BootSums
    <3>3. Writing' /\ Head(todo').record = "boot"
      BY <3>1, Tuples DEF Writing, Into
    <3> QED
      BY <3>1, <3>2, <3>3 DEF BootAt, Writing, Into
  <2>6. CASE /\ todo = <<Into("boot", "magic", "MAGIC")>>
             /\ ram["boot"].first = n /\ ram["boot"].second = b /\ BootSums
    <3>1. w = "magic" /\ v = "MAGIC" /\ todo' = <<>>
      BY <1>4, <1>6, <2>6, Tuples DEF Into
    <3> QED
      BY <1>6, <2>6, <3>1 DEF Same, Words, BootSums, intact, is_intact
  <2> QED
    BY <1>3, <2>2, <2>3, <2>4, <2>5, <2>6 DEF BootAt
<1>9. GoesOn => ~Commits("boot")
  BY DEF Commits, is_intact
<1>10. Ends => Commits("boot")
  BY DEF Commits, intact
<1>11. FaultOK' /\ OwedOK' /\ ModeOK'
  <2>1. /\ UNCHANGED <<nested, committed, owed, degraded, pc, in_handler, torn, mode, announced>>
        /\ pc \in {"restore", "parked"}
    BY <1>3, <1>5 DEF boot
  <2>2. todo' # <<>> => Head(todo').record # "mode"
    BY <1>8
  <2>3. todo # <<>> => Head(todo).record # "mode"
    OBVIOUS
  <2>4. todo' # <<>> => todo'[1] # Into("mode", "magic", "none")
    BY <1>8 DEF Into
  <2>5. FaultOK'
    BY <1>1, <1>7, <2>1 DEF Inv, FaultOK
  <2>6. OwedOK'
    BY <1>1, <1>7, <2>1 DEF Inv, OwedOK
  <2>7. ModeOK'
    BY <1>1, <1>7, <2>1, <2>2, <2>3, <2>4 DEF Inv, ModeOK
  <2> QED
    BY <2>5, <2>6, <2>7
<1>12. CASE GoesOn
  <2>1. UNCHANGED <<raised, shorts, loops, boot, pc, torn>>
    BY <1>5, <1>9, <1>12
  <2>2. TypeOK'
    BY <1>1, <1>5, <1>6, <1>12, <2>1 DEF TypeOK, boot, budget
  <2>3. WriterOK'
    BY <1>3, <1>12, <2>1 DEF WriterOK
  <2>4. RaisedOK'
    BY <1>1, <1>3, <1>12, <2>1 DEF Inv, RaisedOK
  <2>5. StreakOK'
    BY <1>1, <1>12, <2>1 DEF Inv, StreakOK
  <2>6. RungOK'
    BY <1>1, <2>1 DEF Inv, RungOK, boot
  <2> QED
    BY <1>11, <2>2, <2>3, <2>4, <2>5, <2>6 DEF IInv, Inv
<1>13. CASE Ends
  <2>1. /\ UNCHANGED <<boot, pc, torn>>
        /\ raised' \in BOOLEAN /\ (raised' <=> b = 1)
        /\ shorts' = IF b = 1 THEN shorts ELSE 0
        /\ loops' = IF b = 1 THEN loops ELSE 0
    BY <1>5, <1>10, <1>13
  <2>2. TypeOK'
    BY <1>1, <1>5, <1>6, <1>13, <2>1 DEF TypeOK, boot, budget
  <2>3. WriterOK' /\ ~Writing'
    BY <1>13 DEF WriterOK, Writing
  <2>4. RaisedOK'
    BY <1>3, <2>1 DEF RaisedOK
  <2>5. StreakOK'
    <3>1. loops \in Nat /\ ShortBootLimit \in Nat /\ shorts \in Nat
      BY <1>1, BootAssumption DEF TypeOK
    <3>2. CASE b = 1
      BY <1>1, <1>3, <1>13, <2>1, <2>3, <3>1, <3>2 DEF Inv, StreakOK
    <3>3. CASE b = 0
      <4>1. Count' = 0
        BY <1>3, <1>13, <3>3 DEF Count, obc_recover_short_boots
      <4> QED
        BY <1>1, <1>3, <1>13, <2>1, <2>3, <3>1, <3>3, <4>1 DEF Inv, StreakOK
    <3> QED
      BY <3>2, <3>3
  <2>6. RungOK'
    BY <1>1, <1>3, <2>1 DEF Inv, RungOK, boot
  <2> QED
    BY <1>11, <2>2, <2>3, <2>4, <2>5, <2>6 DEF IInv, Inv
<1> QED
  BY <1>8, <1>12, <1>13

-----------------------------------------------------------------------------
(* The other steps leave the records alone.                                *)

LEMMA RamSame ==
  ASSUME UNCHANGED ram
  PROVE  /\ \A r : intact(r)' <=> intact(r)
         /\ obc_fault_validate' = obc_fault_validate
         /\ Validates' <=> Validates
         /\ Count' = Count /\ obc_recover_short_boots' = obc_recover_short_boots
BY DEF intact, is_intact, obc_fault_validate, Validates, Count, obc_recover_short_boots

LEMMA Validity ==
  ASSUME TypeOK, FaultOK
  PROVE  obc_fault_validate \in {"UNKNOWN", "TRAP", "DOUBLE_FAULT"}
<1>1. intact("fault") => ram["fault"].second = "TRAP"
  BY DEF FaultOK, intact, is_intact
<1> QED
  BY <1>1 DEF obc_fault_validate

LEMMA ShortBoots ==
  ASSUME TypeOK, StreakOK
  PROVE  /\ Count \in Nat /\ obc_recover_short_boots \in Nat
         /\ "boot" \notin torn /\ ~Writing =>
              IF raised THEN obc_recover_short_boots = shorts /\ Count = shorts + 1
              ELSE Count = shorts
BY DEF TypeOK, StreakOK, Count, obc_recover_short_boots

(* What each writer stores first.                                          *)
LEMMA FirstStores ==
  /\ \A t : HandlerStores(t) # <<>> /\ Head(HandlerStores(t)) = Into("fault", "first", t)
  /\ DoubleFaultStores # <<>> /\ Head(DoubleFaultStores) = Into("fault", "magic", "DOUBLE")
  /\ obc_fault_consume # <<>> /\ Head(obc_fault_consume) = Into("fault", "magic", "none")
  /\ \A r : mode_record_write(r) # <<>>
            /\ Head(mode_record_write(r)) = Into("mode", "magic", "none")
  /\ \A n, b : boot_record_write(n, b) # <<>>
               /\ Head(boot_record_write(n, b)) = Into("boot", "magic", "none")
BY Tuples DEF HandlerStores, DoubleFaultStores, obc_fault_consume, mode_record_write,
   boot_record_write

LEMMA HeadIsStore ==
  ASSUME WriterOK, todo # <<>>
  PROVE  /\ todo[1] = Head(todo)
         /\ \E r \in Records, w \in Words : \E v :
              /\ Head(todo) = Into(r, w, v)
              /\ r = "fault" <=> pc \in {"escalate", "resetting"}
              /\ r = "mode" <=> pc \in {"consume", "checks", "window"}
              /\ r = "boot" <=> pc \in {"restore", "parked"}
<1> DEFINE From(r) == \E w \in Words : \E v : Head(todo) = Into(r, w, v)
<1>1. todo[1] = Head(todo)
  OBVIOUS
<1>2. ASSUME NEW t \in Traps, HandlerAt(t)
      PROVE  From("fault")
  BY <1>2, Tuples DEF HandlerAt, HandlerStores, Words
<1>3. DoubleAt => From("fault")
  BY Tuples DEF DoubleAt, DoubleFaultStores, Words
<1>4. ConsumeAt => From("fault")
  BY Tuples DEF ConsumeAt, obc_fault_consume, Words
<1>5. ASSUME NEW reason, ModeAt(reason)
      PROVE  From("mode")
  BY <1>5, Tuples DEF ModeAt, mode_record_write, Words
<1>6. ASSUME NEW n, NEW b, BootAt(n, b)
      PROVE  From("boot")
  BY <1>6, Tuples DEF BootAt, boot_record_write, Words
<1> HIDE DEF From
<1>7. \/ pc \in {"escalate", "resetting"} /\ From("fault")
      \/ pc \in {"consume", "checks", "window"} /\ From("mode")
      \/ pc \in {"restore", "parked"} /\ From("boot")
  BY <1>2, <1>3, <1>4, <1>5, <1>6 DEF WriterOK
<1>8. CASE pc \in {"escalate", "resetting"} /\ From("fault")
  BY <1>1, <1>8 DEF From, Records
<1>9. CASE pc \in {"consume", "checks", "window"} /\ From("mode")
  BY <1>1, <1>9 DEF From, Records
<1>10. CASE pc \in {"restore", "parked"} /\ From("boot")
  BY <1>1, <1>10 DEF From, Records
<1> QED
  BY <1>7, <1>8, <1>9, <1>10

(* What a trap or a reset leaves half written, when the writer is stopped. *)
LEMMA Interrupted ==
  ASSUME IInv
  PROVE  /\ HalfWritten \subseteq Records
         /\ pc = "resetting" /\ "fault" \notin HalfWritten =>
              Validates \/ ~owed \/ "fault" \in torn
         /\ degraded /\ "mode" \notin torn \cup HalfWritten => intact("mode")
         /\ "boot" \notin HalfWritten => ~Writing
<1>1. WriterOK /\ FaultOK /\ OwedOK /\ ModeOK
  BY DEF IInv, Inv
<1>2. CASE todo = <<>>
  BY <1>1, <1>2 DEF HalfWritten, FaultOK, ModeOK, Writing
<1>3. CASE todo # <<>>
  <2>1. PICK r, w, v :
          /\ r \in Records /\ w \in Words /\ Head(todo) = Into(r, w, v)
          /\ r = "fault" <=> pc \in {"escalate", "resetting"}
          /\ r = "mode" <=> pc \in {"consume", "checks", "window"}
          /\ r = "boot" <=> pc \in {"restore", "parked"}
    BY <1>1, <1>3, HeadIsStore
  <2>2. Head(todo).record = r /\ Head(todo).word = w /\ Head(todo).value = v
    BY <2>1 DEF Into
  <2>3. todo[1] = Head(todo)
    BY <1>1, <1>3, HeadIsStore
  <2>4. CASE r = "fault"
    BY <1>1, <1>3, <2>1, <2>2, <2>4 DEF HalfWritten, OwedOK, ModeOK, Writing, Records
  <2>5. CASE r = "mode"
    BY <1>1, <1>3, <2>1, <2>2, <2>3, <2>5 DEF HalfWritten, ModeOK, Writing, Records, Into
  <2>6. CASE r = "boot"
    BY <1>1, <1>3, <2>1, <2>2, <2>6 DEF HalfWritten, ModeOK, Writing, Records, Into
  <2> QED
    BY <2>1, <2>4, <2>5, <2>6 DEF Records
<1> QED
  BY <1>2, <1>3

-----------------------------------------------------------------------------
(* The end of a boot, however it comes: the next one finds the records as  *)
(* the last store left them, and counts one more.                          *)
LEMMA DieStep ==
  ASSUME IInv, Die, resets' \in 0 .. MaxResets,
         \/ loops' = loops
         \/ loops' = loops + 1 /\ raised /\ ("boot" \notin torn => shorts < ShortBootLimit)
  PROVE  IInv'
<1>1. TypeOK /\ Inv
  BY DEF IInv
<1>2. /\ pc' = "reset" /\ todo' = <<>> /\ raised' = FALSE
      /\ shorts' = IF raised THEN shorts + 1 ELSE shorts
      /\ torn' = torn \cup HalfWritten
      /\ UNCHANGED <<ram, in_handler, boot, committed, owed, degraded, nested, traps>>
  BY DEF Die
<1>3. TypeOK'
  <2>1. torn' \subseteq Records
    BY <1>1, <1>2, Interrupted DEF TypeOK
  <2>2. shorts' \in Nat /\ loops' \in Nat
    BY <1>1, <1>2 DEF TypeOK
  <2> QED
    BY <1>1, <1>2, <2>1, <2>2 DEF TypeOK, boot
<1>4. WriterOK' /\ RaisedOK' /\ RungOK'
  BY <1>2 DEF WriterOK, RaisedOK, RungOK
<1>5. FaultOK'
  BY <1>1, <1>2 DEF Inv, FaultOK
<1>6. OwedOK'
  BY <1>1, <1>2, Interrupted, RamSame DEF Inv, OwedOK
<1>7. ModeOK'
  BY <1>1, <1>2, Interrupted, RamSame DEF Inv, ModeOK, boot
<1>8. StreakOK'
  <2>1. loops \in Nat /\ shorts \in Nat /\ ShortBootLimit \in Nat
    BY <1>1, BootAssumption DEF TypeOK
  <2>2. Count' = Count /\ ~Writing'
    BY <1>2, RamSame DEF Writing
  <2>3. "boot" \notin torn' => "boot" \notin torn /\ ~Writing
    BY <1>2, Interrupted
  <2>4. "boot" \notin torn' => Count' = shorts'
    BY <1>1, <1>2, <2>2, <2>3, ShortBoots DEF Inv
  <2> QED
    BY <1>1, <1>2, <2>1, <2>3, <2>4 DEF Inv, StreakOK
<1> QED
  BY <1>3, <1>4, <1>5, <1>6, <1>7, <1>8 DEF IInv, Inv

LEMMA TrapStep ==
  ASSUME IInv, Trap
  PROVE  IInv'
<1>1. TypeOK /\ Inv
  BY DEF IInv
<1>2. /\ pc # "reset" /\ traps < MaxTraps /\ traps' = traps + 1
      /\ pc' = "resetting" /\ in_handler' = TRUE
      /\ torn' = torn \cup (HalfWritten \ {"fault"})
      /\ nested' = (nested \/ pc = "resetting")
      /\ UNCHANGED <<ram, boot, committed, owed, degraded, raised, shorts, loops, resets>>
  BY DEF Trap
<1>3. TypeOK'
  <2>1. traps' \in 0 .. MaxTraps
    BY <1>1, <1>2, BootAssumption DEF TypeOK
  <2>2. torn' \subseteq Records
    BY <1>1, <1>2, Interrupted DEF TypeOK
  <2>3. nested' \in BOOLEAN
    BY <1>2
  <2> QED
    BY <1>1, <1>2, <2>1, <2>2, <2>3 DEF TypeOK, boot
<1>4. \/ todo' = DoubleFaultStores /\ pc = "resetting" /\ nested'
      \/ pc # "resetting" /\ \E t \in Traps : todo' = HandlerStores(t)
  BY <1>1, <1>2 DEF Inv, FaultOK, Trap
<1>5. todo' # <<>> /\ Head(todo').record = "fault"
  BY <1>4, FirstStores DEF Into
<1>6. WriterOK'
  BY <1>2, <1>4 DEF WriterOK, DoubleAt, HandlerAt
<1>7. FaultOK'
  BY <1>1, <1>2, <1>5 DEF Inv, FaultOK
<1>8. OwedOK'
  <2>1. CASE todo' = DoubleFaultStores
    BY <1>2, <2>1, FirstStores DEF OwedOK, Into
  <2>2. CASE pc # "resetting"
    BY <1>1, <1>2, <2>2, RamSame DEF Inv, OwedOK
  <2> QED
    BY <1>4, <2>1, <2>2
<1>9. ModeOK'
  <2>1. todo'[1] # Into("mode", "magic", "none")
    BY <1>5 DEF Into
  <2> QED
    BY <1>1, <1>2, <2>1, Interrupted, RamSame DEF Inv, ModeOK, boot
<1>10. RaisedOK' /\ RungOK'
  BY <1>2 DEF RaisedOK, RungOK
<1>11. StreakOK'
  <2>1. "boot" \notin torn' => "boot" \notin torn /\ ~Writing
    BY <1>2, Interrupted
  <2>2. ~Writing'
    BY <1>5 DEF Writing
  <2> QED
    BY <1>1, <1>2, <2>1, <2>2, RamSame DEF Inv, StreakOK
<1> QED
  BY <1>3, <1>6, <1>7, <1>8, <1>9, <1>10, <1>11 DEF IInv, Inv

-----------------------------------------------------------------------------
(* The steps of obc_main that may enter safe mode after the records have   *)
(* been read.                                                              *)
LEMMA DegradeStep ==
  ASSUME IInv, todo = <<>>, NEW reason, obc_mode_enter_safe(reason, announced),
         pc \in {"escalate", "checks", "window"}, pc' \in {"checks", "window"},
         UNCHANGED <<ram, in_handler, boot_rung, cause, frames, history, budget>>
  PROVE  IInv'
<1>1. TypeOK /\ Inv
  BY DEF IInv
<1>2. \/ announced /\ todo' = <<>> /\ UNCHANGED <<mode, announced>>
      \/ mode' = "safe" /\ announced' = TRUE /\ todo' = mode_record_write(reason)
  BY <1>1 DEF obc_mode_enter_safe, TypeOK
<1>3. mode' = "safe" /\ announced' \in BOOLEAN
  BY <1>1, <1>2 DEF TypeOK, Inv, ModeOK
<1>4. TypeOK'
  BY <1>1, <1>3 DEF TypeOK, history, budget
<1>5. WriterOK'
  BY <1>2, <1>3 DEF WriterOK, ModeAt
<1>6. FaultOK' /\ OwedOK' /\ RaisedOK' /\ RungOK'
  BY <1>1, <1>3 DEF Inv, FaultOK, OwedOK, RaisedOK, RungOK, history
<1>7. todo' # <<>> => Head(todo').record = "mode"
  BY <1>2, FirstStores DEF Into
<1>8. ModeOK'
  BY <1>1, <1>3, RamSame DEF Inv, ModeOK, history
<1>9. StreakOK'
  <2>1. ~Writing /\ ~Writing'
    BY <1>7 DEF Writing
  <2> QED
    BY <1>1, <2>1, RamSame DEF Inv, StreakOK, history
<1> QED
  BY <1>4, <1>5, <1>6, <1>8, <1>9 DEF IInv, Inv

(* The window is over, or was never opened: the flag is lowered or left.   *)
LEMMA ParkStep ==
  ASSUME IInv, todo = <<>>, pc \in {"checks", "window"}, pc' = "parked",
         todo' = boot_is_healthy, UNCHANGED <<ram, in_handler, boot, history, budget>>
  PROVE  IInv'
<1>1. TypeOK /\ Inv
  BY DEF IInv
<1>2. raised
  BY <1>1 DEF Inv, RaisedOK
<1>3. todo' = <<>> \/ todo' = boot_record_write(0, 0)
  BY DEF boot_is_healthy
<1>4. TypeOK'
  BY <1>1 DEF TypeOK, boot, history, budget
<1>5. WriterOK'
  BY <1>2, <1>3 DEF WriterOK, BootAt, history
<1>6. FaultOK' /\ OwedOK' /\ RaisedOK' /\ RungOK'
  BY <1>1 DEF Inv, FaultOK, OwedOK, RaisedOK, RungOK, history
<1>7. todo' # <<>> => Head(todo') = Into("boot", "magic", "none")
  BY <1>3, FirstStores
<1>8. ModeOK'
  <2>1. todo' # <<>> => todo'[1] # Into("mode", "magic", "none")
    BY <1>7 DEF Into
  <2> QED
    BY <1>1, <2>1, RamSame DEF Inv, ModeOK, history, boot
<1>9. StreakOK'
  <2>1. ~Writing /\ ~Writing'
    BY <1>7 DEF Writing
  <2> QED
    BY <1>1, <2>1, RamSame DEF Inv, StreakOK, history
<1> QED
  BY <1>4, <1>5, <1>6, <1>8, <1>9 DEF IInv, Inv

-----------------------------------------------------------------------------
(* The boot itself, step by step.                                          *)
LEMMA StartupStep ==
  ASSUME IInv, Startup
  PROVE  IInv'
<1>1. TypeOK /\ Inv /\ todo = <<>> /\ todo' = <<>> /\ ~raised
  BY DEF IInv, Inv, RaisedOK, Startup
<1>2. TypeOK'
  BY <1>1 DEF Startup, TypeOK, history, budget
<1>3. WriterOK' /\ RungOK' /\ RaisedOK'
  BY <1>1 DEF Startup, WriterOK, RungOK, RaisedOK, history
<1>4. FaultOK' /\ OwedOK' /\ ModeOK'
  BY <1>1, RamSame DEF Startup, Inv, FaultOK, OwedOK, ModeOK, history
<1>5. StreakOK'
  BY <1>1, RamSame DEF Startup, Inv, StreakOK, Writing, history
<1> QED
  BY <1>2, <1>3, <1>4, <1>5 DEF IInv, Inv

LEMMA BootBeginsStep ==
  ASSUME IInv, BootBegins
  PROVE  IInv'
<1>1. TypeOK /\ Inv /\ ~raised
  BY DEF IInv, Inv, RaisedOK, BootBegins
<1>2. Count \in Nat /\ ("boot" \notin torn => Count = shorts)
  BY <1>1, ShortBoots DEF Inv, BootBegins, Writing
<1>3. /\ todo' # <<>> /\ Head(todo') = Into("boot", "magic", "none")
      /\ todo'[1] # Into("mode", "magic", "none")
  BY FirstStores DEF BootBegins, Into
<1>4. TypeOK'
  BY <1>1 DEF BootBegins, TypeOK, history, budget
<1>5. WriterOK'
  BY <1>1, <1>2 DEF BootBegins, WriterOK, BootAt, history
<1>6. RungOK' /\ RaisedOK'
  BY <1>2, <1>3 DEF BootBegins, RungOK, RaisedOK, history
<1>7. FaultOK' /\ OwedOK' /\ ModeOK'
  BY <1>1, <1>3, RamSame DEF BootBegins, Inv, FaultOK, OwedOK, ModeOK, history
<1>8. StreakOK'
  BY <1>1, <1>3, RamSame DEF BootBegins, Inv, StreakOK, Writing, history
<1> QED
  BY <1>4, <1>5, <1>6, <1>7, <1>8 DEF IInv, Inv

LEMMA RestoreStep ==
  ASSUME IInv, Restore
  PROVE  IInv'
<1>1. TypeOK /\ Inv /\ raised
  BY DEF IInv, Inv, RaisedOK, Restore
<1>2. /\ pc = "restore" /\ todo = <<>> /\ pc' = "consume" /\ cause' = obc_fault_validate
      /\ UNCHANGED <<ram, in_handler, boot_rung, frames, history, budget>>
  BY DEF Restore
<1>3. \/ /\ Validates \/ intact("mode")
         /\ mode' = "safe" /\ announced' = TRUE
         /\ \E reason : todo' = mode_record_write(reason)
      \/ /\ ~Validates /\ ~intact("mode")
         /\ mode' = "nominal" /\ announced' = FALSE /\ todo' = <<>>
  BY DEF Restore, Validates, obc_mode_enter_safe
<1>4. TypeOK'
  BY <1>1, <1>2, <1>3, Validity DEF TypeOK, Inv, history, budget
<1>5. WriterOK'
  BY <1>2, <1>3 DEF WriterOK, ModeAt
<1>6. RungOK' /\ RaisedOK' /\ FaultOK'
  BY <1>1, <1>2 DEF Inv, RungOK, RaisedOK, FaultOK, history
<1>7. OwedOK'
  BY <1>1, <1>2, <1>3, RamSame, FirstStores DEF Inv, OwedOK, history
<1>8. ModeOK'
  BY <1>1, <1>2, <1>3, RamSame DEF Inv, ModeOK, history
<1>9. StreakOK'
  <2>1. ~Writing /\ ~Writing'
    BY <1>2, <1>3, FirstStores DEF Writing, Into
  <2> QED
    BY <1>1, <1>2, <2>1, RamSame DEF Inv, StreakOK, history
<1> QED
  BY <1>4, <1>5, <1>6, <1>7, <1>8, <1>9 DEF IInv, Inv

LEMMA ConsumeStep ==
  ASSUME IInv, Consume
  PROVE  IInv'
<1>1. TypeOK /\ Inv
  BY DEF IInv
<1>2. todo' # <<>> /\ Head(todo').record = "fault"
  BY FirstStores DEF Consume, Into
<1>3. TypeOK'
  BY <1>1 DEF Consume, TypeOK, boot, history, budget
<1>4. WriterOK' /\ RungOK' /\ RaisedOK'
  BY <1>1 DEF Consume, Inv, WriterOK, ConsumeAt, RungOK, RaisedOK, boot, history
<1>5. FaultOK' /\ OwedOK'
  BY <1>1 DEF Consume, Inv, FaultOK, OwedOK, history
<1>6. ModeOK'
  <2>1. todo'[1] # Into("mode", "magic", "none")
    BY <1>2 DEF Into
  <2> QED
    BY <1>1, <2>1, RamSame DEF Consume, Inv, ModeOK, boot, history
<1>7. StreakOK'
  <2>1. ~Writing /\ ~Writing'
    BY <1>2 DEF Consume, Writing
  <2> QED
    BY <1>1, <2>1, RamSame DEF Consume, Inv, StreakOK, history
<1> QED
  BY <1>3, <1>4, <1>5, <1>6, <1>7 DEF IInv, Inv

(* A step that decides nothing.  A full streak never reaches it from the   *)
(* escalation.                                                             *)
LEMMA QuietStep ==
  ASSUME IInv, todo = <<>>, todo' = <<>>, frames' \in {0} \cup Frames,
         pc \in {"escalate", "checks", "window"}, pc' \in {"checks", "window"},
         pc = "escalate" /\ "boot" \notin torn => shorts < ShortBootLimit,
         UNCHANGED <<ram, in_handler, boot_rung, cause, mode, announced, history, budget>>
  PROVE  IInv'
<1>1. TypeOK /\ Inv
  BY DEF IInv
<1>2. TypeOK'
  BY <1>1 DEF TypeOK, history, budget
<1>3. WriterOK' /\ RaisedOK' /\ FaultOK' /\ OwedOK'
  BY <1>1 DEF Inv, WriterOK, RaisedOK, FaultOK, OwedOK, history
<1>4. RungOK'
  <2>1. shorts \in Nat /\ ShortBootLimit \in Nat
    BY <1>1, BootAssumption DEF TypeOK
  <2> QED
    BY <1>1, <2>1 DEF Inv, RungOK, history
<1>5. ModeOK'
  BY <1>1, RamSame DEF Inv, ModeOK, history
<1>6. StreakOK'
  BY <1>1, RamSame DEF Inv, StreakOK, Writing, history
<1> QED
  BY <1>2, <1>3, <1>4, <1>5, <1>6 DEF IInv, Inv

LEMMA EscalateStep ==
  ASSUME IInv, Escalate
  PROVE  IInv'
<1>1. pc = "escalate" /\ todo = <<>>
  BY DEF Escalate
<1>2. TypeOK /\ Inv /\ raised /\ ~Writing
  BY <1>1 DEF IInv, Inv, RaisedOK, Writing
<1>3. obc_recover_short_boots \in Nat /\ ShortBootLimit \in Nat /\ shorts \in Nat
  BY <1>2, ShortBoots, BootAssumption DEF Inv, TypeOK
<1>4. CASE boot_rung # "RESET_MACHINE"
  <2>1. pc' = "checks" /\ UNCHANGED <<todo, ram, in_handler, boot, history, budget>>
    BY <1>4 DEF Escalate
  <2>2. "boot" \notin torn => shorts < ShortBootLimit
    BY <1>1, <1>2, <1>3, <1>4 DEF Inv, RungOK
  <2>3. UNCHANGED <<boot_rung, cause, mode, announced, frames>>
    BY <2>1 DEF boot
  <2> QED
    BY <1>1, <1>2, <2>1, <2>2, <2>3, QuietStep DEF TypeOK
<1>5. CASE boot_rung = "RESET_MACHINE" /\ obc_recover_short_boots >= ShortBootLimit
  <2>1. /\ pc' = "checks" /\ obc_mode_enter_safe("RESET_LOOP", announced)
        /\ UNCHANGED <<ram, in_handler, boot_rung, cause, frames, history, budget>>
    BY <1>5 DEF Escalate
  <2> QED
    BY <1>1, <2>1, DegradeStep
<1>6. CASE boot_rung = "RESET_MACHINE" /\ ~(obc_recover_short_boots >= ShortBootLimit)
  <2>1. loops' = loops + 1 /\ Die /\ resets' = resets
    BY <1>6 DEF Escalate
  <2>2. "boot" \notin torn => shorts < ShortBootLimit
    BY <1>2, <1>3, <1>6, ShortBoots DEF Inv
  <2> QED
    BY <1>2, <2>1, <2>2, DieStep DEF TypeOK
<1> QED
  BY <1>4, <1>5, <1>6

LEMMA LadderStep ==
  ASSUME IInv, LadderClimbs
  PROVE  IInv'
<1>1. pc = "window" /\ todo = <<>>
  BY DEF LadderClimbs
<1>2. CASE obc_recover_short_boots >= ShortBootLimit
  <2>1. /\ obc_mode_enter_safe("RESET_LOOP", announced)
        /\ UNCHANGED <<pc, ram, in_handler, boot_rung, cause, frames, history, budget>>
    BY <1>2 DEF LadderClimbs, history, budget, obc_mode_enter_safe
  <2> QED
    BY <1>1, <2>1, DegradeStep
<1>3. CASE ~(obc_recover_short_boots >= ShortBootLimit)
  <2>1. loops' = loops + 1 /\ Die /\ resets' = resets
    BY <1>3 DEF LadderClimbs
  <2>2. TypeOK /\ Inv /\ raised /\ ~Writing
    BY <1>1 DEF IInv, Inv, RaisedOK, Writing
  <2>3. obc_recover_short_boots \in Nat /\ ShortBootLimit \in Nat
    BY <2>2, ShortBoots, BootAssumption DEF Inv
  <2>4. "boot" \notin torn => shorts < ShortBootLimit
    BY <1>3, <2>2, <2>3, ShortBoots DEF Inv
  <2> QED
    BY <2>1, <2>2, <2>4, DieStep DEF TypeOK
<1> QED
  BY <1>2, <1>3

-----------------------------------------------------------------------------
LEMMA Initially == Init => IInv
<1> SUFFICES ASSUME Init PROVE IInv
  OBVIOUS
<1>1. /\ DOMAIN ram = Records /\ \A r \in Records : DOMAIN ram[r] = Words
      /\ ram["fault"].magic # "DOUBLE" /\ ram["fault"].sum = <<>>
      /\ ram["boot"].first = 0 /\ ram["boot"].second = 0 /\ ram["boot"].sum = <<>>
  BY DEF Init, Blank, Records, Words
<1>2. TypeOK
  <2>1. /\ pc = "reset" /\ in_handler \in BOOLEAN /\ boot_rung = "NONE" /\ cause = "UNKNOWN"
        /\ mode = "nominal" /\ announced = FALSE /\ frames = 0 /\ traps = 0 /\ resets = 0
        /\ committed = "none" /\ owed = FALSE /\ degraded = FALSE
        /\ raised = FALSE /\ shorts = 0 /\ loops = 0 /\ torn = {} /\ nested = FALSE
    BY DEF Init
  <2>2. traps \in 0 .. MaxTraps /\ resets \in 0 .. MaxResets
    BY <2>1, BootAssumption
  <2>3. /\ announced \in BOOLEAN /\ owed \in BOOLEAN /\ degraded \in BOOLEAN
        /\ raised \in BOOLEAN /\ nested \in BOOLEAN
    BY <2>1
  <2> QED
    BY <1>1, <2>1, <2>2, <2>3 DEF TypeOK
<1>3. WriterOK /\ OwedOK /\ ModeOK /\ RaisedOK
  BY DEF Init, WriterOK, OwedOK, ModeOK, RaisedOK
<1>4. FaultOK
  BY <1>1 DEF Init, FaultOK
<1>5. Count = 0
  BY <1>1 DEF Count, obc_recover_short_boots, intact, is_intact
<1>6. StreakOK /\ RungOK
  BY <1>5, BootAssumption DEF Init, StreakOK, RungOK, Writing
<1> QED
  BY <1>2, <1>3, <1>4, <1>6 DEF IInv, Inv

LEMMA Inductive == IInv /\ [Next]_vars => IInv'
<1> SUFFICES ASSUME IInv, [Next]_vars PROVE IInv'
  OBVIOUS
<1>1. TypeOK /\ Inv
  BY DEF IInv
<1>2. CASE Startup \/ BootBegins \/ Restore \/ Consume \/ Escalate \/ Trap \/ LadderClimbs
  BY <1>2, StartupStep, BootBeginsStep, RestoreStep, ConsumeStep, EscalateStep, TrapStep,
     LadderStep
<1>3. CASE AuditFails
  BY <1>3, DegradeStep DEF AuditFails
<1>4. CASE WindowDegrades
  BY <1>4, DegradeStep DEF WindowDegrades
<1>5. CASE ChecksPass
  BY <1>1, <1>5, QuietStep DEF ChecksPass, boot, TypeOK
<1>6. CASE WindowTurns
  BY <1>6, QuietStep DEF WindowTurns
<1>7. CASE ChecksFail \/ WindowReturns
  BY <1>7, ParkStep DEF ChecksFail, WindowReturns
<1>8. CASE Store
  <2>1. todo # <<>> /\ WriterOK
    BY <1>1, <1>8 DEF Store, Inv
  <2>2. Head(todo).record \in Records
    BY <2>1, HeadIsStore DEF Into
  <2> QED
    BY <1>8, <2>2, FaultStore, ModeStore, BootStore DEF Records
<1>9. CASE ResetNow
  BY <1>1, <1>9, DieStep DEF ResetNow, TypeOK
<1>10. CASE HardwareResets
  <2>1. resets' \in 0 .. MaxResets
    BY <1>1, <1>10, BootAssumption DEF HardwareResets, TypeOK
  <2> QED
    BY <1>10, <2>1, DieStep DEF HardwareResets
<1>11. CASE Parked \/ UNCHANGED vars
  <2>1. UNCHANGED <<pc, todo, ram, in_handler, boot_rung, cause, mode, announced, frames,
                    traps, resets, committed, owed, degraded, raised, shorts, loops, torn,
                    nested>>
    BY <1>11 DEF Parked, vars, boot, history, budget
  <2>2. TypeOK'
    BY <1>1, <2>1 DEF TypeOK
  <2>3. WriterOK'
    BY <1>1, <2>1 DEF Inv, WriterOK, DoubleAt, HandlerAt, ConsumeAt, ModeAt, BootAt, FaultSums,
       ModeSums, BootSums
  <2>4. FaultOK' /\ OwedOK' /\ ModeOK' /\ RaisedOK' /\ RungOK'
    BY <1>1, <2>1, RamSame DEF Inv, FaultOK, OwedOK, ModeOK, RaisedOK, RungOK
  <2>5. StreakOK'
    BY <1>1, <2>1, RamSame DEF Inv, StreakOK, Writing
  <2> QED
    BY <2>2, <2>3, <2>4, <2>5 DEF IInv, Inv
<1> QED
  BY <1>2, <1>3, <1>4, <1>5, <1>6, <1>7, <1>8, <1>9, <1>10, <1>11 DEF Next

-----------------------------------------------------------------------------
(* What is on the records and what each writer still has to store agree at *)
(* every step of every boot (fault.c, mode.c, recover.c, trap.S).          *)
THEOREM InvariantHolds == Spec => []IInv
<1>1. IInv /\ UNCHANGED vars => IInv'
  BY Inductive
<1> QED
  BY Initially, Inductive, PTL DEF Spec

(* The records, the variables of a boot and the bounds keep their types,   *)
(* whatever stores a trap or a reset leaves undone (fault.h, recover.c).   *)
THEOREM TypeCorrect == Spec => []TypeOK
<1>1. IInv => TypeOK
  BY DEF IInv
<1> QED
  BY <1>1, InvariantHolds, PTL

(* trap.S and fault.c 63: a fault record that validates holds one trap,    *)
(* the last whose handler came to its checksum.                            *)
THEOREM RecordIsOneTrapHolds == Spec => []RecordIsOneTrap
<1>1. IInv => RecordIsOneTrap
  <2> SUFFICES ASSUME IInv, obc_fault_validate = "TRAP"
               PROVE  ram["fault"].first = committed
    BY DEF RecordIsOneTrap
  <2>1. ram["fault"].sum = <<ram["fault"].first, ram["fault"].second>>
    BY DEF obc_fault_validate, intact, is_intact
  <2>2. ram["fault"].sum = <<>> \/ ram["fault"].sum = <<committed, "TRAP">>
    BY DEF IInv, Inv, FaultOK
  <2> QED
    BY <2>1, <2>2
<1> QED
  BY <1>1, InvariantHolds, PTL

(* start.S 64: a double fault is reported only when a trap fell inside the *)
(* handler.                                                                *)
THEOREM DoubleFaultIsRealHolds == Spec => []DoubleFaultIsReal
<1>1. IInv => DoubleFaultIsReal
  <2> SUFFICES ASSUME IInv, obc_fault_validate = "DOUBLE_FAULT"
               PROVE  nested
    BY DEF DoubleFaultIsReal
  <2>1. intact("fault") => ram["fault"].second = "TRAP"
    BY DEF IInv, Inv, FaultOK, intact, is_intact
  <2>2. ram["fault"].magic = "DOUBLE"
    BY <2>1 DEF obc_fault_validate
  <2> QED
    BY <2>2 DEF IInv, Inv, FaultOK
<1> QED
  BY <1>1, InvariantHolds, PTL

(* main.c 638: no boot opens its window before a recorded trap degraded it *)
(* and the mode record says so.                                            *)
THEOREM NoTrapIsForgottenHolds == Spec => []NoTrapIsForgotten
<1>1. IInv => NoTrapIsForgotten
  BY DEF IInv, Inv, OwedOK, NoTrapIsForgotten
<1> QED
  BY <1>1, InvariantHolds, PTL

(* mode.c 105: degraded once, degraded in every later boot.                *)
THEOREM SafeModeIsKeptHolds == Spec => []SafeModeIsKept
<1>1. IInv => SafeModeIsKept
  BY DEF IInv, Inv, ModeOK, SafeModeIsKept
<1> QED
  BY <1>1, InvariantHolds, PTL

(* recover.c 110: the count read in the window is the number of boots that *)
(* raised the flag and died, in a row.                                     *)
THEOREM StreakIsExactHolds == Spec => []StreakIsExact
<1>1. IInv => StreakIsExact
  <2> SUFFICES ASSUME IInv, pc = "window", "boot" \notin torn
               PROVE  obc_recover_short_boots = shorts
    BY DEF StreakIsExact
  <2>1. raised
    BY DEF IInv, Inv, RaisedOK
  <2>2. ~Writing
    BY Interrupted, HeadIsStore DEF IInv, Inv, Writing, Into
  <2> QED
    BY <2>1, <2>2, ShortBoots DEF IInv, Inv
<1> QED
  BY <1>1, InvariantHolds, PTL

(* main.c 669: a streak as long as the limit, and the executive runs       *)
(* degraded.                                                               *)
THEOREM StreakEndsInSafeHolds == Spec => []StreakEndsInSafe
<1>1. IInv => StreakEndsInSafe
  BY DEF IInv, Inv, RungOK, StreakEndsInSafe
<1> QED
  BY <1>1, InvariantHolds, PTL

(* recover.c 216: the ladder resets no more often than the limit between   *)
(* two healthy boots.                                                      *)
THEOREM LadderStopsHolds == Spec => []LadderStops
<1>1. IInv => LadderStops
  BY DEF IInv, Inv, StreakOK, LadderStops
<1> QED
  BY <1>1, InvariantHolds, PTL

=============================================================================

-------------------------- MODULE Critical_proof --------------------------
(***************************************************************************)
(* Proofs about Critical for every registry size, set of values and number *)
(* of corruptions, taken between any two loads of a vote.                  *)
(***************************************************************************)
EXTENDS Critical, FiniteSetTheorems, TLAPS

(* Where the vote is says what its locals hold; a vote that has its winner *)
(* votes for what the item is kept to hold.                                *)
Counting == {"candidate", "peer", "compare", "winner"}
Rewriting == {"survey", "dissent", "answer"}

Control ==
  /\ voting = 0 <=> step = "idle"
  /\ step = "idle" => cand = 0
  /\ winner # NoWord <=> step \in Rewriting
  /\ winner # NoWord => kept[voting] = winner
  /\ disturbed => step \in Counting \cup {"refuse"}
  /\ loaded # 0 => step \in {"candidate", "peer", "compare", "survey"} /\ word \in Words
  /\ step \in {"peer", "compare"} => other # cand /\ agreeing >= 1

(* A copy not hit since it was written or surveyed holds what the item is  *)
(* kept to hold, and at most one copy is intact and wrong: why the voter   *)
(* can be trusted.                                                         *)
UntouchedAgree ==
  \A i \in Items : \A c \in Copies \ Awaiting(i) :
    c \notin struck[i] => copies[i][c] = written(kept[i])[c]

OneForgery ==
  \A i \in Items : \A c, d \in Forged(i) : c = d

(* What a half-made test holds is what the copy holds, unless it was hit.  *)
Source(k) ==
  IF step = "candidate" \/ (step = "compare" /\ k = 2) THEN cand ELSE other

LoadedIsCurrent ==
  loaded # 0 /\ Source(loaded) \notin struck[voting] => word = Operand(loaded)

(* So is what a survey has found.                                          *)
SurveyIsCurrent ==
  step = "dissent" /\ other \notin struck[voting] => copy_is_intact(voting, other)

(* A vote that nothing disturbed has seen what is there.                   *)
Agrees(c, d) == copy_is_intact(voting, d) /\ copies[voting][d].value = copies[voting][c].value

UndisturbedSees ==
  step \in Counting /\ ~disturbed =>
    /\ loaded # 0 => word = Operand(loaded)
    /\ step # "candidate" => copy_is_intact(voting, cand)
    /\ step = "compare" => copy_is_intact(voting, other)
    /\ step = "winner" \/ (step # "candidate" /\ agreeing >= 2) =>
         \E d \in Copies \ {cand} : Agrees(cand, d)

(* A candidate that was passed over was hit, or both the others were; one  *)
(* that was not hit counts each peer that was not.                         *)
Excused(c) == c \in struck[voting] \/ Copies \ {c} \subseteq struck[voting]

PassedWereStruck ==
  /\ step \in Counting => \A c \in Copies : c < cand => Excused(c)
  /\ step = "refuse" => \A c \in Copies : Excused(c)
  /\ step \in {"peer", "compare"} /\ cand \notin struck[voting] =>
       \A d \in Copies \ {cand} : d < other /\ d \notin struck[voting] => agreeing >= 2

(* Items hit and not yet seen failing: each holds one strike in reserve    *)
(* for the event it may still cause.  An item that is failing owes none    *)
(* again when a vote that resolves has surveyed a copy and it is hit.      *)
Ahead ==
  {c \in Copies : \/ step = "survey" /\ loaded = 0 /\ c >= other
                  \/ step # "answer" /\ c > other}

HitLate(i) == voting = i /\ step \in Rewriting /\ struck[i] \ Ahead # {}

Pending ==
  {i \in Items : struck[i] # {} /\ (was_resolving[item_index(i)] \/ HitLate(i))}

EventInv == unresolvable_events + Cardinality(Pending) <= strikes
OwnSlot == \A i \in Items : was_resolving[item_index(i)] <=> i \notin failing

SafetyInv ==
  /\ TypeOK /\ Control
  /\ UntouchedAgree /\ OneForgery
  /\ LoadedIsCurrent /\ SurveyIsCurrent /\ UndisturbedSees /\ PassedWereStruck

-----------------------------------------------------------------------------
LEMMA CopiesFinite == IsFiniteSet(Copies) /\ Cardinality(Copies) = 3
<1>1. 0 \in Int /\ 2 \in Int
  OBVIOUS
<1>2. IsFiniteSet(0 .. 2)
  BY <1>1, FS_Interval, Zenon
<1>3. Cardinality(0 .. 2) = IF 0 > 2 THEN 0 ELSE 2 - 0 + 1
  BY <1>1, FS_Interval, Zenon
<1> QED
  BY <1>2, <1>3 DEF Copies

LEMMA WrittenType ==
  ASSUME NEW v \in Values
  PROVE  written(v) \in [Copies -> Copy]
BY DEF written, checksum_of, Seed, Copy, Sums

LEMMA WrittenWords ==
  ASSUME NEW v, NEW c \in Copies
  PROVE  written(v)[c].value = v /\ written(v)[c].sum = <<v, c>>
BY DEF written, checksum_of, Seed

LEMMA OwnIndex ==
  ASSUME NEW i \in Items
  PROVE  item_index(i) = i /\ i \in 1 .. MaxItems /\ i # 0
BY CriticalAssumption DEF Items, item_index

(* A vote that runs is of an item of the registry.                         *)
LEMMA VotesAnItem ==
  ASSUME TypeOK, Control, step # "idle"
  PROVE  /\ voting \in Items
         /\ copies[voting] \in [Copies -> Copy]
         /\ \A k \in {1, 2} : Operand(k) \in Words
<1>1. voting \in Items
  BY CriticalAssumption DEF TypeOK, Control, Items
<1>2. copies[voting] \in [Copies -> Copy]
  BY <1>1 DEF TypeOK
<1>3. \A c \in Copies : copies[voting][c].sum \in Words /\ copies[voting][c].value \in Words
  BY <1>2 DEF Copy, Words
<1>4. cand \in Copies /\ other \in Copies /\ Looked \in Copies
  BY DEF TypeOK, Looked
<1>5. \A k \in {1, 2} : Operand(k) \in Words
  BY <1>3, <1>4 DEF Operand
<1> QED
  BY <1>1, <1>2, <1>5

(* What a corruption does to one item leaves the types alone.              *)
LEMMA HitType ==
  ASSUME TypeOK, Control, NEW i \in Items, NEW S \in SUBSET Copies, NEW new,
         \A c \in S : new[c] \in Copy, Hit(i, S, new)
  PROVE  TypeOK' /\ Control'
<1>1. [c \in Copies |-> IF c \in S THEN new[c] ELSE copies[i][c]]
        \in [Copies -> Copy]
  BY DEF TypeOK
<1>2. copies' \in [Items -> [Copies -> Copy]]
  BY <1>1 DEF TypeOK, Hit
<1>3. struck' \in [Items -> SUBSET Copies]
  BY DEF TypeOK, Hit
<1>4. TypeOK'
  BY <1>2, <1>3 DEF TypeOK, Hit, counters, locals
<1>5. i # 0
  BY OwnIndex
<1>6. Control'
  <2>1. disturbed' => disturbed \/ (voting = i /\ winner = NoWord)
    BY DEF Hit
  <2>2. voting = i /\ winner = NoWord => step \in Counting \cup {"refuse"}
    BY <1>5 DEF Control, TypeOK, Steps, Counting, Rewriting
  <2> QED
    BY <2>1, <2>2 DEF Hit, Control, counters, locals
<1> QED
  BY <1>4, <1>6

LEMMA UpsetIsHit ==
  ASSUME TypeOK, NEW i \in Items, NEW c \in Copies, Upset(i, c)
  PROVE  \E new : new[c] \in Copy /\ Hit(i, {c}, new)
<1>1. copies[i][c].value \in Values /\ copies[i][c].sum \in Sums
  BY DEF TypeOK, Copy
<1>2. ASSUME NEW v \in Values,
             Hit(i, {c}, [d \in {c} |-> [value |-> v, sum |-> copies[i][c].sum]])
      PROVE  \E new : new[c] \in Copy /\ Hit(i, {c}, new)
  <2>1. [d \in {c} |-> [value |-> v, sum |-> copies[i][c].sum]][c] \in Copy
    BY <1>1 DEF Copy
  <2> QED
    BY <1>2, <2>1
<1>3. ASSUME Hit(i, {c}, [d \in {c} |-> [value |-> copies[i][c].value, sum |-> Junk]])
      PROVE  \E new : new[c] \in Copy /\ Hit(i, {c}, new)
  <2>1. [d \in {c} |-> [value |-> copies[i][c].value, sum |-> Junk]][c] \in Copy
    BY <1>1 DEF Copy, Sums
  <2> QED
    BY <1>3, <2>1
<1> QED
  BY <1>2, <1>3 DEF Upset

LEMMA BurstIsHit ==
  ASSUME NEW i \in Items, NEW S \in SUBSET Copies, Burst(i, S)
  PROVE  \E new : (\A c \in S : new[c] \in Copy) /\ Hit(i, S, new)
<1>1. PICK pattern \in Patterns : Hit(i, S, [d \in S |-> pattern])
  BY DEF Burst
<1>2. \A c \in S : [d \in S |-> pattern][c] \in Copy
  BY PatternsAssumption
<1> QED
  BY <1>1, <1>2

(* Where a loop over the copies goes next.                                 *)
LEMMA NextPeerType ==
  ASSUME TypeOK, Control, NEW count \in Nat, count >= 1, NextPeer(count),
         step \in {"peer", "compare"}
  PROVE  /\ step' \in {"peer", "winner", "candidate", "refuse"}
         /\ cand' \in Copies /\ other' \in Copies /\ agreeing' \in Nat
         /\ step' = "peer" => other' # cand' /\ agreeing' >= 1
<1>1. cand \in 0 .. 2 /\ other \in 0 .. 2
  BY DEF TypeOK, Copies
<1> QED
  BY <1>1 DEF NextPeer, NextCandidate, Copies

LEMMA NextCandidateType ==
  ASSUME TypeOK, NextCandidate
  PROVE  /\ step' \in {"candidate", "refuse"}
         /\ cand' \in Copies /\ other' \in Copies /\ agreeing' \in Nat
BY DEF NextCandidate, TypeOK, Copies

LEMMA NextSurveyType ==
  ASSUME TypeOK, NextSurvey
  PROVE  /\ step' \in {"survey", "answer"}
         /\ cand' \in Copies /\ other' \in Copies /\ agreeing' \in Nat
BY DEF NextSurvey, TypeOK, Copies

LEMMA RewriteType ==
  ASSUME TypeOK, Control, step \in {"survey", "dissent"}, Rewrite
  PROVE  /\ copies' \in [Items -> [Copies -> Copy]]
         /\ struck' \in [Items -> SUBSET Copies] /\ repairs' \in Nat
         /\ winner \in Values
<1>1. voting \in Items /\ winner \in Values /\ other \in Copies
  BY VotesAnItem DEF Control, TypeOK, Rewriting
<1>2. written(winner)[other] \in Copy
  BY <1>1, WrittenType
<1>3. copies' \in [Items -> [Copies -> Copy]]
  BY <1>1, <1>2 DEF Rewrite, TypeOK
<1> QED
  BY <1>1, <1>3 DEF Rewrite, TypeOK

LEMMA VoteType ==
  ASSUME TypeOK, Control, vote
  PROVE  TypeOK' /\ Control'
<1> USE DEF counters, locals
<1>0. step # "idle"
  BY DEF vote, LoadFirst, TestCandidate, TestPeer, TestAgreement, LoadWinner, TestSurvey,
         LoadDissent, Resolve, Refuse, Testing
<1>1. /\ voting \in Items /\ \A k \in {1, 2} : Operand(k) \in Words
      /\ \A c \in Copies : copies[voting][c].value \in Values
  BY <1>0, VotesAnItem DEF Copy
<1>2. item_index(voting) \in 1 .. MaxItems /\ voting # 0
  BY <1>1, OwnIndex
<1>3. CASE LoadFirst
  <2>1. struck' \in [Items -> SUBSET Copies]
    BY <1>1, <1>3 DEF LoadFirst, TypeOK
  <2>2. loaded' \in {1, 2} /\ word' \in Words
    BY <1>1, <1>3 DEF LoadFirst
  <2>3. TypeOK'
    BY <1>3, <2>1, <2>2 DEF LoadFirst, TypeOK
  <2>4. Control'
    BY <1>3, <2>2 DEF LoadFirst, Control
  <2> QED
    BY <2>3, <2>4
<1>4. CASE TestCandidate
  <2>1. /\ step' \in {"peer", "candidate", "refuse"}
        /\ cand' \in Copies /\ other' \in Copies /\ agreeing' \in Nat
        /\ step' = "peer" => other' # cand' /\ agreeing' >= 1
    BY <1>4, NextCandidateType DEF TestCandidate, TypeOK, Copies
  <2>2. TypeOK'
    BY <1>4, <2>1 DEF TestCandidate, Testing, TypeOK, Steps
  <2>3. Control'
    BY <1>4, <2>1 DEF TestCandidate, Testing, Control, Counting, Rewriting
  <2> QED
    BY <2>2, <2>3
<1>5. ASSUME step \in {"peer", "compare"}, Testing(step), UNCHANGED <<copies, repairs, struck>>,
             \/ step' = "compare" /\ UNCHANGED <<cand, other, agreeing>>
             \/ \E count \in Nat : count >= 1 /\ NextPeer(count)
      PROVE  TypeOK' /\ Control'
  <2>1. /\ step' \in {"compare", "peer", "winner", "candidate", "refuse"}
        /\ cand' \in Copies /\ other' \in Copies /\ agreeing' \in Nat
        /\ step' \in {"peer", "compare"} => other' # cand' /\ agreeing' >= 1
    BY <1>5, NextPeerType DEF TypeOK, Control
  <2>2. TypeOK'
    BY <1>5, <2>1 DEF Testing, TypeOK, Steps
  <2>3. Control'
    BY <1>5, <2>1 DEF Testing, Control, Counting, Rewriting
  <2> QED
    BY <2>2, <2>3
<1>6. CASE TestPeer
  BY <1>5, <1>6 DEF TestPeer, Testing, TypeOK, Control
<1>7. CASE TestAgreement
  <2>1. agreeing \in Nat /\ agreeing >= 1 /\ agreeing + 1 \in Nat /\ agreeing + 1 >= 1
    BY <1>7 DEF TestAgreement, Testing, TypeOK, Control
  <2> QED
    BY <1>5, <1>7, <2>1 DEF TestAgreement, Testing
<1>8. CASE LoadWinner
  <2>1. winner' \in Values /\ winner' # NoWord /\ kept' = [kept EXCEPT ![voting] = winner']
    BY <1>1, <1>8, CriticalAssumption DEF LoadWinner, TypeOK
  <2>5. kept' \in [Items -> Values] /\ 0 \in Copies /\ "survey" \in Steps
    BY <1>1, <2>1 DEF TypeOK, Copies, Steps
  <2>2. TypeOK'
    BY <1>8, <2>1, <2>5 DEF LoadWinner, TypeOK
  <2>3. kept'[voting] = winner'
    BY <1>1, <2>1 DEF TypeOK
  <2>4. Control'
    BY <1>8, <2>1, <2>3 DEF LoadWinner, Control, Rewriting
  <2> QED
    BY <2>2, <2>4
<1>9. CASE TestSurvey
  <2>1. /\ step' \in {"dissent", "survey", "answer"}
        /\ cand' \in Copies /\ other' \in Copies /\ agreeing' \in Nat
    BY <1>9, NextSurveyType DEF TestSurvey, Rewrite, TypeOK
  <2>2. /\ copies' \in [Items -> [Copies -> Copy]]
        /\ struck' \in [Items -> SUBSET Copies] /\ repairs' \in Nat
    BY <1>9, RewriteType DEF TestSurvey, Testing, TypeOK
  <2>3. TypeOK'
    BY <1>9, <2>1, <2>2 DEF TestSurvey, Testing, TypeOK, Steps
  <2>4. Control'
    BY <1>9, <2>1 DEF TestSurvey, Testing, Control, Rewriting, Counting
  <2> QED
    BY <2>3, <2>4
<1>10. CASE LoadDissent
  <2>1. /\ step' \in {"survey", "answer"}
        /\ cand' \in Copies /\ other' \in Copies /\ agreeing' \in Nat
    BY <1>10, NextSurveyType DEF LoadDissent, Rewrite
  <2>2. /\ copies' \in [Items -> [Copies -> Copy]]
        /\ struck' \in [Items -> SUBSET Copies] /\ repairs' \in Nat
    BY <1>10, RewriteType DEF LoadDissent, TypeOK
  <2>3. TypeOK'
    BY <1>10, <2>1, <2>2 DEF LoadDissent, TypeOK, Steps
  <2>4. Control'
    BY <1>10, <2>1 DEF LoadDissent, Control, Rewriting, Counting
  <2> QED
    BY <2>3, <2>4
<1>11. ASSUME Return, NEW b \in BOOLEAN,
              was_resolving' = [was_resolving EXCEPT ![item_index(voting)] = b],
              failing' \in SUBSET Items, failed_votes' \in Nat, unresolvable_events' \in Nat,
              reply' \in [item : Items, status : {"none", "OK", "UNSTABLE"},
                          value : Values \cup {NoWord}]
       PROVE  TypeOK' /\ Control'
  <2>1. scrubbing' \in 0 .. N
    BY <1>11, CriticalAssumption DEF Return, TypeOK
  <2>2. was_resolving' \in [1 .. MaxItems -> BOOLEAN]
    BY <1>2, <1>11 DEF TypeOK
  <2>5. 0 \in 0 .. N /\ 0 \in Copies /\ 0 \in 0 .. 2 /\ 0 \in Nat /\ "idle" \in Steps
    BY CriticalAssumption DEF Copies, Steps
  <2>3. TypeOK'
    BY <1>11, <2>1, <2>2, <2>5 DEF Return, Idle, TypeOK
  <2>4. Control'
    BY <1>11 DEF Return, Idle, Control, Rewriting
  <2> QED
    BY <2>3, <2>4
<1>12. CASE Resolve
  <2>1. winner \in Values
    BY <1>12 DEF Resolve, Control, TypeOK, Rewriting
  <2> QED
    BY <1>1, <1>11, <1>12, <2>1 DEF Resolve, TypeOK
<1>13. CASE Refuse
  <2>1. failed_votes' \in Nat /\ unresolvable_events' \in Nat
    BY <1>13 DEF Refuse, TypeOK
  <2>2. failing' \in SUBSET Items
    BY <1>1, <1>13 DEF Refuse, TypeOK
  <2>3. reply' \in [item : Items, status : {"none", "OK", "UNSTABLE"},
                    value : Values \cup {NoWord}]
    BY <1>1, <1>13 DEF Refuse
  <2> QED
    BY <1>11, <1>13, <2>1, <2>2, <2>3 DEF Refuse
<1> QED
  BY <1>3, <1>4, <1>6, <1>7, <1>8, <1>9, <1>10, <1>12, <1>13 DEF vote

LEMMA TypeAndControl == Spec => [](TypeOK /\ Control)
<1>1. Init => TypeOK /\ Control
  <2> SUFFICES ASSUME Init PROVE TypeOK /\ Control
    OBVIOUS
  <2>1. TypeOK
    <3>1. copies \in [Items -> [Copies -> Copy]]
      BY WrittenType DEF Init
    <3>2. 1 \in Items /\ 0 \in 0 .. N /\ 0 \in Copies /\ 0 \in 0 .. 2 /\ "idle" \in Steps
      BY CriticalAssumption DEF Items, Copies, Steps
    <3>3. reply \in [item : Items, status : {"none", "OK", "UNSTABLE"},
                     value : Values \cup {NoWord}]
      BY <3>2 DEF Init
    <3> QED
      BY <3>1, <3>2, <3>3 DEF Init, TypeOK
  <2>2. Control
    BY DEF Init, Control, Rewriting
  <2> QED
    BY <2>1, <2>2
<1>2. TypeOK /\ Control /\ [Next]_vars => TypeOK' /\ Control'
  <2> SUFFICES ASSUME TypeOK, Control, [Next]_vars PROVE TypeOK' /\ Control'
    OBVIOUS
  <2>1. ASSUME NEW i \in Items, VoteBegins(i), UNCHANGED scrubbing
        PROVE  TypeOK' /\ Control'
    <3>1. i \in 0 .. N /\ i # 0
      BY CriticalAssumption DEF Items
    <3>2. TypeOK'
      BY <2>1, <3>1 DEF VoteBegins, TypeOK, counters, locals, history, Steps
    <3>3. Control'
      BY <2>1, <3>1 DEF VoteBegins, Control, counters, locals, history, Counting, Rewriting
    <3> QED
      BY <3>2, <3>3
  <2>2. ASSUME NEW i \in Items, NEW v \in Values, obc_critical_set(i, v)
        PROVE  TypeOK' /\ Control'
    <3>1. TypeOK'
      BY <2>2, WrittenType DEF obc_critical_set, TypeOK, counters, locals
    <3>2. winner = NoWord
      BY <2>2 DEF obc_critical_set, Control, Rewriting
    <3>3. Control'
      BY <2>2, <3>2 DEF obc_critical_set, Control, counters, locals
    <3> QED
      BY <3>1, <3>3
  <2>3. CASE ScrubBegins
    BY <2>3, CriticalAssumption DEF ScrubBegins, TypeOK, Control, counters, locals, history
  <2>4. CASE ScrubVotes
    BY <2>1, <2>4, CriticalAssumption DEF ScrubVotes, TypeOK, Items
  <2>5. CASE vote
    BY <2>5, VoteType
  <2>6. ASSUME NEW i \in Items, NEW c \in Copies, Upset(i, c) PROVE TypeOK' /\ Control'
    <3>1. PICK new : new[c] \in Copy /\ Hit(i, {c}, new)
      BY <2>6, UpsetIsHit
    <3>2. {c} \in SUBSET Copies /\ \A d \in {c} : new[d] \in Copy
      BY <3>1
    <3> QED
      BY <3>1, <3>2, HitType
  <2>7. ASSUME NEW i \in Items, NEW S \in SUBSET Copies, Burst(i, S)
        PROVE  TypeOK' /\ Control'
    BY <2>7, BurstIsHit, HitType
  <2>8. CASE UNCHANGED vars
    BY <2>8 DEF vars, counters, locals, history, TypeOK, Control
  <2> QED
    BY <2>1, <2>2, <2>3, <2>4, <2>5, <2>6, <2>7, <2>8
    DEF Next, Calls, Corruption, obc_critical_get
<1> QED
  BY <1>1, <1>2, PTL DEF Spec

(* Counters stay naturals, copies stay pairs of words, a vote and a scrub  *)
(* stay inside the registry.                                               *)
THEOREM TypeCorrect == Spec => []TypeOK
BY TypeAndControl, PTL

-----------------------------------------------------------------------------
(* The words of the copies and what they are compared with stay as they    *)
(* are: so does what is said of them.                                      *)
LEMMA SameWordsAgree ==
  ASSUME SafetyInv, UNCHANGED <<copies, kept>>,
         \A i \in Items : Awaiting(i)' = Awaiting(i),
         \A i \in Items : \A c \in Copies \ Awaiting(i) : c \in struck[i] => c \in struck'[i]
  PROVE  UntouchedAgree' /\ OneForgery'
<1>1. UntouchedAgree'
  BY DEF SafetyInv, UntouchedAgree
<1>2. \A i \in Items : Forged(i)' = Forged(i)
  BY DEF Forged, copy_is_intact, checksum_of, Seed
<1> QED
  BY <1>1, <1>2 DEF SafetyInv, OneForgery

LEMMA GoodCopy ==
  ASSUME TypeOK, NEW i \in Items, NEW c \in Copies, copies[i][c] = written(kept[i])[c]
  PROVE  copy_is_intact(i, c) /\ copies[i][c].value = kept[i]
BY WrittenWords DEF copy_is_intact, checksum_of, Seed

(* In a vote that still counts, no copy awaits a rewriting.                *)
LEMMA CountingAgree ==
  ASSUME SafetyInv, step \in Counting, NEW c \in Copies, c \notin struck[voting]
  PROVE  copy_is_intact(voting, c) /\ copies[voting][c].value = kept[voting]
<1>1. voting \in Items
  BY VotesAnItem DEF SafetyInv, Counting
<1>2. Awaiting(voting) = {}
  BY DEF Awaiting, Counting
<1>3. copies[voting][c] = written(kept[voting])[c]
  BY <1>1, <1>2 DEF SafetyInv, UntouchedAgree
<1> QED
  BY <1>1, <1>3, GoodCopy DEF SafetyInv

(* A test whose first word is still what the copy holds tests the copy.    *)
LEMMA TestSees ==
  ASSUME TypeOK, loaded # 0, word = Operand(loaded)
  PROVE  /\ step # "compare" => (IsIntact <=> copy_is_intact(voting, Looked))
         /\ step = "compare" =>
              (IsEqual <=> copies[voting][other].value = copies[voting][cand].value)
<1>1. loaded = 1 \/ loaded = 2
  BY DEF TypeOK
<1>2. Got(1) = Operand(1) /\ Got(2) = Operand(2)
  BY <1>1 DEF Got
<1> QED
  BY <1>2 DEF IsIntact, IsEqual, Operand, copy_is_intact

-----------------------------------------------------------------------------
(* The loop over the peers.                                                *)
LEMMA NextPeerPassed ==
  ASSUME SafetyInv, step \in {"peer", "compare"}, UNCHANGED <<voting, struck>>,
         NEW count \in Nat, NextPeer(count),
         cand \notin struck[voting] =>
           \A d \in Copies \ {cand} : d <= other /\ d \notin struck[voting] => count >= 2
  PROVE  PassedWereStruck'
<1> DEFINE next == IF other + 1 = cand THEN other + 2 ELSE other + 1
<1>1. cand \in 0 .. 2 /\ other \in 0 .. 2 /\ Copies = 0 .. 2 /\ cand # other
  BY DEF SafetyInv, TypeOK, Control, Copies
<1>2. \A c \in Copies : c < cand => Excused(c)
  BY DEF SafetyInv, PassedWereStruck, Counting
<1>3. \A c : Excused(c)' <=> Excused(c)
  BY DEF Excused
<1>4. CASE next <= 2 /\ step' = "peer" /\ other' = next /\ agreeing' = count /\ cand' = cand
  <2>1. \A d \in Copies \ {cand} : d < next => d <= other
    BY <1>1
  <2> QED
    BY <1>2, <1>3, <1>4, <2>1 DEF PassedWereStruck
<1>5. CASE step' = "winner" /\ cand' = cand
  BY <1>2, <1>3, <1>5 DEF PassedWereStruck
<1>6. CASE next > 2 /\ count < 2 /\ NextCandidate
  <2>1. \A d \in Copies \ {cand} : d <= other
    BY <1>1, <1>6
  <2>2. Excused(cand)
    BY <1>6, <2>1 DEF Excused
  <2>3. \A c \in Copies : c < cand + 1 => Excused(c)
    BY <1>1, <1>2, <2>2
  <2>4. cand >= 2 => \A c \in Copies : Excused(c)
    BY <1>1, <2>3
  <2>5. step' \notin {"peer", "compare"}
    BY <1>6 DEF NextCandidate
  <2>6. step' = "refuse" => cand >= 2
    BY <1>1, <1>6 DEF NextCandidate
  <2>7. step' \in Counting => cand' = cand + 1
    BY <1>1, <1>6 DEF NextCandidate, Counting
  <2> QED
    BY <1>3, <2>3, <2>4, <2>5, <2>6, <2>7 DEF PassedWereStruck
<1> QED
  BY <1>4, <1>5, <1>6 DEF NextPeer

LEMMA NextPeerSees ==
  ASSUME TypeOK, UNCHANGED <<copies, voting, disturbed>>, loaded' = 0,
         NEW count \in Nat, NextPeer(count),
         ~disturbed => /\ copy_is_intact(voting, cand)
                       /\ count >= 2 => \E d \in Copies \ {cand} : Agrees(cand, d)
  PROVE  UndisturbedSees'
<1>1. ASSUME NEW c PROVE copy_is_intact(voting, c)' <=> copy_is_intact(voting, c)
  BY DEF copy_is_intact, checksum_of, Seed
<1>2. ASSUME NEW c, NEW d PROVE Agrees(c, d)' <=> Agrees(c, d)
  BY <1>1 DEF Agrees, copy_is_intact, checksum_of, Seed
<1>3. CASE step' = "peer" /\ agreeing' = count /\ cand' = cand
  BY <1>1, <1>2, <1>3 DEF UndisturbedSees, copy_is_intact, Agrees, checksum_of, Seed
<1>4. CASE step' = "winner" /\ count >= 2 /\ cand' = cand
  BY <1>1, <1>2, <1>4 DEF UndisturbedSees, copy_is_intact, Agrees, checksum_of, Seed
<1>5. CASE NextCandidate
  BY <1>5 DEF NextCandidate, UndisturbedSees, Counting
<1> QED
  BY <1>3, <1>4, <1>5 DEF NextPeer

(* A test while the vote still counts changes no word.                     *)
LEMMA CountingTestSafe ==
  ASSUME SafetyInv, NEW s \in {"candidate", "peer", "compare"}, Testing(s),
         UNCHANGED <<copies, struck>>,
         step' \in {"candidate", "peer", "compare", "winner", "refuse"}
  PROVE  UntouchedAgree' /\ OneForgery' /\ LoadedIsCurrent' /\ SurveyIsCurrent'
<1>1. \A i \in Items : Awaiting(i) = {} /\ Awaiting(i)' = {}
  BY DEF Testing, Awaiting
<1>2. UntouchedAgree' /\ OneForgery'
  BY <1>1, SameWordsAgree DEF Testing
<1> QED
  BY <1>2 DEF Testing, LoadedIsCurrent, SurveyIsCurrent

LEMMA TestCandidateSafe ==
  ASSUME SafetyInv, TestCandidate
  PROVE  /\ UntouchedAgree' /\ OneForgery'
         /\ LoadedIsCurrent' /\ SurveyIsCurrent' /\ UndisturbedSees' /\ PassedWereStruck'
<1>0. /\ step = "candidate" /\ loaded # 0 /\ loaded' = 0 /\ Looked = cand
      /\ UNCHANGED <<copies, struck, voting, disturbed>>
      /\ Source(loaded) = cand
  BY DEF TestCandidate, Testing, Looked, Source
<1>1. cand \in 0 .. 2 /\ Copies = 0 .. 2
  BY DEF SafetyInv, TypeOK, Copies
<1>2. \A c \in Copies : c < cand => Excused(c)
  BY <1>0 DEF SafetyInv, PassedWereStruck, Counting
<1>3. \A c : Excused(c)' <=> Excused(c)
  BY <1>0 DEF Excused
<1>4. step' \in {"candidate", "peer", "compare", "winner", "refuse"}
  BY DEF TestCandidate, NextCandidate
<1>5. UntouchedAgree' /\ OneForgery' /\ LoadedIsCurrent' /\ SurveyIsCurrent'
  BY <1>0, <1>4, CountingTestSafe DEF TestCandidate
<1>6. CASE IsIntact /\ step' = "peer" /\ other' = (IF cand = 0 THEN 1 ELSE 0)
           /\ agreeing' = 1 /\ cand' = cand
  <2>1. ~disturbed => copy_is_intact(voting, cand)
    BY <1>0, <1>6, TestSees DEF SafetyInv, UndisturbedSees, Counting
  <2>2. UndisturbedSees'
    BY <1>0, <1>6, <2>1 DEF UndisturbedSees, copy_is_intact, checksum_of, Seed
  <2>3. \A d \in Copies \ {cand} : ~(d < other')
    BY <1>1, <1>6
  <2>4. PassedWereStruck'
    BY <1>2, <1>3, <1>6, <2>3 DEF PassedWereStruck
  <2> QED
    BY <1>5, <2>2, <2>4
<1>7. CASE ~IsIntact /\ NextCandidate
  <2>1. cand \in struck[voting]
    <3> SUFFICES ASSUME cand \notin struck[voting] PROVE FALSE
      OBVIOUS
    <3>1. word = Operand(loaded)
      BY <1>0 DEF SafetyInv, LoadedIsCurrent
    <3>2. copy_is_intact(voting, cand)
      BY <1>0, <1>1, CountingAgree DEF Counting
    <3> QED
      BY <1>0, <1>7, <3>1, <3>2, TestSees DEF SafetyInv
  <2>2. Excused(cand)
    BY <2>1 DEF Excused
  <2>3. \A c \in Copies : c < cand + 1 => Excused(c)
    BY <1>1, <1>2, <2>2
  <2>4. cand >= 2 => \A c \in Copies : Excused(c)
    BY <1>1, <2>3
  <2>5. step' \notin {"peer", "compare"} /\ (step' = "refuse" => cand >= 2)
    BY <1>1, <1>7 DEF NextCandidate
  <2>6. step' \in Counting => cand' = cand + 1
    BY <1>1, <1>7 DEF NextCandidate, Counting
  <2>7. PassedWereStruck'
    BY <1>3, <2>3, <2>4, <2>5, <2>6 DEF PassedWereStruck
  <2>8. UndisturbedSees'
    BY <1>0, <1>7 DEF NextCandidate, UndisturbedSees, Counting
  <2> QED
    BY <1>5, <2>7, <2>8
<1> QED
  BY <1>6, <1>7 DEF TestCandidate

LEMMA TestPeerSafe ==
  ASSUME SafetyInv, TestPeer
  PROVE  /\ UntouchedAgree' /\ OneForgery'
         /\ LoadedIsCurrent' /\ SurveyIsCurrent' /\ UndisturbedSees' /\ PassedWereStruck'
<1>0. /\ step = "peer" /\ loaded # 0 /\ loaded' = 0 /\ Looked = other
      /\ UNCHANGED <<copies, struck, voting, disturbed>>
      /\ Source(loaded) = other
  BY DEF TestPeer, Testing, Looked, Source
<1>1. cand \in Copies /\ other \in Copies /\ agreeing \in Nat
  BY DEF SafetyInv, TypeOK
<1>4. step' \in {"candidate", "peer", "compare", "winner", "refuse"}
  BY DEF TestPeer, NextPeer, NextCandidate
<1>5. UntouchedAgree' /\ OneForgery' /\ LoadedIsCurrent' /\ SurveyIsCurrent'
  BY <1>0, <1>4, CountingTestSafe DEF TestPeer
<1>6. CASE IsIntact /\ step' = "compare" /\ UNCHANGED <<cand, other, agreeing>>
  <2>1. ~disturbed => copy_is_intact(voting, other)
    BY <1>0, <1>6, TestSees DEF SafetyInv, UndisturbedSees, Counting
  <2>2. UndisturbedSees'
    BY <1>0, <1>6, <2>1
    DEF SafetyInv, UndisturbedSees, copy_is_intact, checksum_of, Seed, Counting, Agrees
  <2>3. PassedWereStruck'
    BY <1>0, <1>6 DEF SafetyInv, PassedWereStruck, Excused, Counting
  <2> QED
    BY <1>5, <2>2, <2>3
<1>7. CASE ~IsIntact /\ NextPeer(agreeing)
  <2>1. other \in struck[voting]
    <3> SUFFICES ASSUME other \notin struck[voting] PROVE FALSE
      OBVIOUS
    <3>1. word = Operand(loaded)
      BY <1>0 DEF SafetyInv, LoadedIsCurrent
    <3>2. copy_is_intact(voting, other)
      BY <1>0, <1>1, CountingAgree DEF Counting
    <3> QED
      BY <1>0, <1>7, <3>1, <3>2, TestSees DEF SafetyInv
  <2>2. cand \notin struck[voting] =>
          \A d \in Copies \ {cand} : d < other /\ d \notin struck[voting] => agreeing >= 2
    BY <1>0 DEF SafetyInv, PassedWereStruck
  <2>3. \A d \in Copies : d <= other => d < other \/ d = other
    BY <1>1 DEF Copies
  <2>4. PassedWereStruck'
    BY <1>0, <1>1, <1>7, <2>1, <2>2, <2>3, NextPeerPassed
  <2>5. UndisturbedSees'
    BY <1>0, <1>1, <1>7, NextPeerSees DEF SafetyInv, UndisturbedSees, Counting
  <2> QED
    BY <1>5, <2>4, <2>5
<1> QED
  BY <1>6, <1>7 DEF TestPeer

LEMMA TestAgreementSafe ==
  ASSUME SafetyInv, TestAgreement
  PROVE  /\ UntouchedAgree' /\ OneForgery'
         /\ LoadedIsCurrent' /\ SurveyIsCurrent' /\ UndisturbedSees' /\ PassedWereStruck'
<1>0. /\ step = "compare" /\ loaded # 0 /\ loaded' = 0
      /\ UNCHANGED <<copies, struck, voting, disturbed>>
      /\ Source(loaded) \in {cand, other}
  BY DEF TestAgreement, Testing, Source
<1>1. cand \in Copies /\ other \in Copies /\ agreeing \in Nat /\ agreeing >= 1 /\ other # cand
  BY <1>0 DEF SafetyInv, TypeOK, Control
<1>4. step' \in {"candidate", "peer", "compare", "winner", "refuse"}
  BY DEF TestAgreement, NextPeer, NextCandidate
<1>5. UntouchedAgree' /\ OneForgery' /\ LoadedIsCurrent' /\ SurveyIsCurrent'
  BY <1>0, <1>4, CountingTestSafe DEF TestAgreement
<1>6. cand \notin struck[voting] =>
        \A d \in Copies \ {cand} : d < other /\ d \notin struck[voting] => agreeing >= 2
  BY <1>0 DEF SafetyInv, PassedWereStruck
<1>7. \A d \in Copies : d <= other => d < other \/ d = other
  BY <1>1 DEF Copies
<1>8. ~disturbed => /\ copy_is_intact(voting, cand) /\ copy_is_intact(voting, other)
                    /\ word = Operand(loaded)
                    /\ agreeing >= 2 => \E d \in Copies \ {cand} : Agrees(cand, d)
  BY <1>0 DEF SafetyInv, UndisturbedSees, Counting
<1>9. CASE IsEqual /\ NextPeer(agreeing + 1)
  <2>1. agreeing + 1 \in Nat /\ agreeing + 1 >= 2
    BY <1>1
  <2>2. PassedWereStruck'
    BY <1>0, <1>9, <2>1, NextPeerPassed
  <2>3. ~disturbed => Agrees(cand, other)
    BY <1>0, <1>8, <1>9, TestSees DEF SafetyInv, Agrees
  <2>4. UndisturbedSees'
    BY <1>0, <1>1, <1>8, <1>9, <2>1, <2>3, NextPeerSees DEF SafetyInv
  <2> QED
    BY <1>5, <2>2, <2>4
<1>10. CASE ~IsEqual /\ NextPeer(agreeing)
  <2>1. cand \in struck[voting] \/ other \in struck[voting]
    <3> SUFFICES ASSUME cand \notin struck[voting], other \notin struck[voting] PROVE FALSE
      OBVIOUS
    <3>1. word = Operand(loaded)
      BY <1>0 DEF SafetyInv, LoadedIsCurrent
    <3>2. copies[voting][other].value = copies[voting][cand].value
      BY <1>0, <1>1, CountingAgree DEF Counting
    <3> QED
      BY <1>0, <1>10, <3>1, <3>2, TestSees DEF SafetyInv
  <2>2. PassedWereStruck'
    BY <1>0, <1>1, <1>6, <1>7, <1>10, <2>1, NextPeerPassed
  <2>3. UndisturbedSees'
    BY <1>0, <1>1, <1>8, <1>10, NextPeerSees DEF SafetyInv
  <2> QED
    BY <1>5, <2>2, <2>3
<1> QED
  BY <1>9, <1>10 DEF TestAgreement

LEMMA LoadFirstSafe ==
  ASSUME SafetyInv, LoadFirst
  PROVE  /\ UntouchedAgree' /\ OneForgery'
         /\ LoadedIsCurrent' /\ SurveyIsCurrent' /\ UndisturbedSees' /\ PassedWereStruck'
<1>0. /\ step \in {"candidate", "peer", "compare", "survey"}
      /\ UNCHANGED <<copies, kept, voting, step, cand, other, agreeing, disturbed>>
      /\ step # "survey" => struck' = struck
  BY DEF LoadFirst
<1>1. voting \in Items
  BY <1>0, VotesAnItem DEF SafetyInv
<1>2. /\ loaded' \in {1, 2}
      /\ word' = Operand(loaded')
  BY DEF LoadFirst
<1>3. word' = Operand(loaded)'
  BY <1>0, <1>2 DEF Operand, Looked
<1>4. \A i \in Items : Awaiting(i)' = Awaiting(i)
  BY <1>0 DEF Awaiting
<1>5. \A i \in Items : \A c \in Copies \ Awaiting(i) : c \in struck[i] => c \in struck'[i]
  <2>1. step = "survey" => other \in Awaiting(voting)
    BY DEF SafetyInv, TypeOK, Awaiting, Copies
  <2> QED
    BY <1>1, <2>1 DEF LoadFirst, SafetyInv, TypeOK
<1>6. UntouchedAgree' /\ OneForgery'
  BY <1>0, <1>4, <1>5, SameWordsAgree
<1>7. LoadedIsCurrent' /\ SurveyIsCurrent'
  BY <1>0, <1>3 DEF LoadedIsCurrent, SurveyIsCurrent
<1>8. UndisturbedSees'
  BY <1>0, <1>3
  DEF SafetyInv, UndisturbedSees, Counting, Agrees, copy_is_intact, checksum_of, Seed
<1>9. PassedWereStruck'
  BY <1>0 DEF SafetyInv, PassedWereStruck, Excused, Counting
<1> QED
  BY <1>6, <1>7, <1>8, <1>9

(* What an undisturbed vote takes is what the item is kept to hold: two    *)
(* intact copies of another value would be two forgeries.                  *)
LEMMA WinnerIsKept ==
  ASSUME SafetyInv, step = "winner", ~disturbed
  PROVE  copies[voting][cand].value = kept[voting]
<1> SUFFICES ASSUME copies[voting][cand].value # kept[voting] PROVE FALSE
  OBVIOUS
<1>1. voting \in Items /\ cand \in Copies /\ Awaiting(voting) = {}
  BY VotesAnItem DEF SafetyInv, TypeOK, Awaiting
<1>2. copy_is_intact(voting, cand) /\ \E d \in Copies \ {cand} : Agrees(cand, d)
  BY DEF SafetyInv, UndisturbedSees, Counting
<1>3. PICK d \in Copies \ {cand} : Agrees(cand, d)
  BY <1>2
<1>4. cand \in Forged(voting) /\ d \in Forged(voting)
  BY <1>1, <1>2, <1>3 DEF Forged, Agrees
<1> QED
  BY <1>1, <1>3, <1>4 DEF SafetyInv, OneForgery

LEMMA LoadWinnerSafe ==
  ASSUME SafetyInv, LoadWinner
  PROVE  /\ UntouchedAgree' /\ OneForgery'
         /\ LoadedIsCurrent' /\ SurveyIsCurrent' /\ UndisturbedSees' /\ PassedWereStruck'
<1>1. voting \in Items /\ loaded' = 0 /\ step' = "survey"
  BY VotesAnItem DEF LoadWinner, SafetyInv, Control
<1>2. Awaiting(voting)' = Copies
  BY DEF LoadWinner, Awaiting, Copies
<1>3. ASSUME NEW i \in Items, i # voting
      PROVE  Awaiting(i)' = Awaiting(i) /\ kept'[i] = kept[i]
  BY <1>3 DEF LoadWinner, Awaiting, SafetyInv, TypeOK
<1>4. UntouchedAgree'
  BY <1>2, <1>3 DEF LoadWinner, SafetyInv, UntouchedAgree
<1>5. Forged(voting)' = {}
  BY <1>2 DEF Forged
<1>6. \A i \in Items : i # voting => Forged(i)' = Forged(i)
  BY <1>3 DEF LoadWinner, Forged, copy_is_intact, checksum_of, Seed
<1>7. OneForgery'
  <2> SUFFICES ASSUME NEW i \in Items PROVE \A c, d \in Forged(i)' : c = d
    BY DEF OneForgery
  <2>1. CASE i = voting
    BY <1>5, <2>1 DEF Forged, LoadWinner
  <2>2. CASE i # voting
    BY <1>6, <2>2 DEF SafetyInv, OneForgery
  <2> QED
    BY <2>1, <2>2
<1>8. LoadedIsCurrent' /\ SurveyIsCurrent' /\ UndisturbedSees' /\ PassedWereStruck'
  BY <1>1
  DEF LoadedIsCurrent, SurveyIsCurrent, UndisturbedSees, PassedWereStruck, Counting
<1> QED
  BY <1>4, <1>7, <1>8

-----------------------------------------------------------------------------
(* A copy that has been surveyed or rewritten holds the winner.            *)
LEMMA SurveyedSafe ==
  ASSUME SafetyInv, step \in {"survey", "dissent"}, NextSurvey, UNCHANGED <<voting, kept>>,
         loaded' = 0,
         \A i \in Items, c \in Copies :
           i # voting \/ c # other =>
             copies'[i][c] = copies[i][c] /\ (c \in struck[i] => c \in struck'[i]),
         copies'[voting][other].value = winner,
         other \notin struck'[voting] => copies'[voting][other] = written(winner)[other]
  PROVE  /\ UntouchedAgree' /\ OneForgery'
         /\ LoadedIsCurrent' /\ SurveyIsCurrent' /\ UndisturbedSees' /\ PassedWereStruck'
<1>1. voting \in Items /\ other \in 0 .. 2 /\ Copies = 0 .. 2 /\ kept[voting] = winner
  BY VotesAnItem DEF SafetyInv, TypeOK, Copies, Control, Rewriting
<1>2. Awaiting(voting)' = Awaiting(voting) \ {other}
  BY <1>1 DEF Awaiting, NextSurvey
<1>3. ASSUME NEW i \in Items, i # voting PROVE Awaiting(i)' = Awaiting(i)
  BY <1>3 DEF Awaiting
<1>4. UntouchedAgree'
  <2> SUFFICES ASSUME NEW i \in Items, NEW c \in Copies, c \notin Awaiting(i)',
                      c \notin struck'[i]
               PROVE  copies'[i][c] = written(kept'[i])[c]
    BY DEF UntouchedAgree, written, checksum_of, Seed
  <2>1. CASE i = voting /\ c = other
    BY <1>1, <2>1
  <2>2. CASE ~(i = voting /\ c = other)
    <3>1. c \notin Awaiting(i)
      BY <1>2, <1>3, <2>2
    <3> QED
      BY <2>2, <3>1 DEF SafetyInv, UntouchedAgree
  <2> QED
    BY <2>1, <2>2
<1>5. \A i \in Items : Forged(i)' \subseteq Forged(i)
  <2> SUFFICES ASSUME NEW i \in Items, NEW c \in Copies, c \in Forged(i)'
               PROVE  c \in Forged(i)
    BY DEF Forged
  <2>1. ~(i = voting /\ c = other)
    BY <1>1 DEF Forged
  <2>2. c \notin Awaiting(i) /\ copies'[i][c] = copies[i][c]
    BY <1>2, <1>3, <2>1 DEF Forged
  <2> QED
    BY <2>2 DEF Forged, copy_is_intact, checksum_of, Seed
<1>6. OneForgery'
  BY <1>5 DEF SafetyInv, OneForgery
<1>7. LoadedIsCurrent' /\ SurveyIsCurrent' /\ UndisturbedSees' /\ PassedWereStruck'
  BY DEF NextSurvey, LoadedIsCurrent, SurveyIsCurrent, UndisturbedSees, PassedWereStruck,
         Counting
<1> QED
  BY <1>4, <1>6, <1>7

LEMMA RewriteSafe ==
  ASSUME SafetyInv, step \in {"survey", "dissent"}, Rewrite, UNCHANGED <<voting, kept>>,
         loaded' = 0
  PROVE  /\ UntouchedAgree' /\ OneForgery'
         /\ LoadedIsCurrent' /\ SurveyIsCurrent' /\ UndisturbedSees' /\ PassedWereStruck'
<1>1. voting \in Items /\ other \in Copies
  BY VotesAnItem DEF SafetyInv, TypeOK
<1>2. copies'[voting][other] = written(winner)[other]
  BY <1>1 DEF Rewrite, SafetyInv, TypeOK
<1>3. copies'[voting][other].value = winner
  BY <1>1, <1>2, WrittenWords
<1>4. \A i \in Items, c \in Copies :
        i # voting \/ c # other =>
          copies'[i][c] = copies[i][c] /\ (c \in struck[i] => c \in struck'[i])
  BY <1>1 DEF Rewrite, SafetyInv, TypeOK
<1> QED
  BY <1>2, <1>3, <1>4, SurveyedSafe DEF Rewrite

LEMMA TestSurveySafe ==
  ASSUME SafetyInv, TestSurvey
  PROVE  /\ UntouchedAgree' /\ OneForgery'
         /\ LoadedIsCurrent' /\ SurveyIsCurrent' /\ UndisturbedSees' /\ PassedWereStruck'
<1>0. /\ step = "survey" /\ loaded # 0 /\ loaded' = 0 /\ Looked = other
      /\ UNCHANGED <<voting, kept>> /\ Source(loaded) = other
  BY DEF TestSurvey, Testing, Looked, Source
<1>1. CASE /\ IsIntact /\ step' = "dissent"
           /\ UNCHANGED <<copies, repairs, struck, cand, other, agreeing>>
  <2>1. \A i \in Items : Awaiting(i)' = Awaiting(i)
    BY <1>0, <1>1 DEF Awaiting
  <2>2. UntouchedAgree' /\ OneForgery'
    BY <1>0, <1>1, <2>1, SameWordsAgree
  <2>3. other \notin struck[voting] => copy_is_intact(voting, other)
    BY <1>0, <1>1, TestSees DEF SafetyInv, LoadedIsCurrent
  <2>4. SurveyIsCurrent'
    BY <1>0, <1>1, <2>3 DEF SurveyIsCurrent, copy_is_intact, checksum_of, Seed
  <2>5. LoadedIsCurrent' /\ UndisturbedSees' /\ PassedWereStruck'
    BY <1>0, <1>1 DEF LoadedIsCurrent, UndisturbedSees, PassedWereStruck, Counting
  <2> QED
    BY <2>2, <2>4, <2>5
<1>2. CASE Rewrite
  BY <1>0, <1>2, RewriteSafe
<1> QED
  BY <1>1, <1>2 DEF TestSurvey

LEMMA LoadDissentSafe ==
  ASSUME SafetyInv, LoadDissent
  PROVE  /\ UntouchedAgree' /\ OneForgery'
         /\ LoadedIsCurrent' /\ SurveyIsCurrent' /\ UndisturbedSees' /\ PassedWereStruck'
<1>0. /\ step = "dissent" /\ loaded' = 0 /\ UNCHANGED <<voting, kept>>
  BY DEF LoadDissent, SafetyInv, Control
<1>1. CASE Rewrite
  BY <1>0, <1>1, RewriteSafe
<1>2. CASE /\ copies[voting][other].value = winner /\ NextSurvey
           /\ UNCHANGED <<copies, repairs, struck>>
  <2>1. voting \in Items /\ other \in Copies /\ copies[voting][other] \in Copy
    BY <1>0, VotesAnItem DEF SafetyInv, TypeOK
  <2>2. other \notin struck[voting] => copies[voting][other] = written(winner)[other]
    <3> SUFFICES ASSUME other \notin struck[voting]
                 PROVE  copies[voting][other] = written(winner)[other]
      OBVIOUS
    <3>1. copy_is_intact(voting, other)
      BY <1>0 DEF SafetyInv, SurveyIsCurrent
    <3> QED
      BY <1>2, <2>1, <3>1 DEF copy_is_intact, written, Copy
  <2> QED
    BY <1>0, <1>2, <2>2, SurveyedSafe
<1> QED
  BY <1>1, <1>2 DEF LoadDissent

LEMMA ReturnSafe ==
  ASSUME SafetyInv, step \in {"answer", "refuse"}, Return
  PROVE  /\ UntouchedAgree' /\ OneForgery'
         /\ LoadedIsCurrent' /\ SurveyIsCurrent' /\ UndisturbedSees' /\ PassedWereStruck'
<1>1. \A i \in Items : Awaiting(i) = {} /\ Awaiting(i)' = {}
  BY DEF Return, Idle, Awaiting
<1>2. UntouchedAgree' /\ OneForgery'
  BY <1>1, SameWordsAgree DEF Return
<1> QED
  BY <1>2
  DEF Return, Idle, LoadedIsCurrent, SurveyIsCurrent, UndisturbedSees, PassedWereStruck,
      Counting

-----------------------------------------------------------------------------
(* A corruption leaves the copies outside S alone, and at most one forgery *)
(* if it makes none but one.                                               *)
LEMMA HitSafe ==
  ASSUME SafetyInv, NEW i \in Items, NEW S \in SUBSET Copies, NEW new,
         Hit(i, S, new),
         \A c, d \in Forged(i)' : c = d
  PROVE  /\ UntouchedAgree' /\ OneForgery'
         /\ LoadedIsCurrent' /\ SurveyIsCurrent' /\ UndisturbedSees' /\ PassedWereStruck'
<1>1. /\ UNCHANGED <<kept, voting, step, cand, other, agreeing, winner, loaded, word>>
      /\ \A j \in Items : j # i => copies'[j] = copies[j] /\ struck'[j] = struck[j]
      /\ \A j \in Items : struck[j] \subseteq struck'[j]
  BY DEF Hit, SafetyInv, TypeOK, locals
<1>2. \A j \in Items, c \in Copies : c \notin struck'[j] =>
        c \notin struck[j] /\ copies'[j][c] = copies[j][c]
  BY DEF Hit, SafetyInv, TypeOK
<1>3. \A j \in Items : Awaiting(j)' = Awaiting(j)
  BY <1>1 DEF Awaiting
<1>4. \A j \in Items : j # i => Forged(j)' = Forged(j)
  BY <1>1, <1>3 DEF Forged, copy_is_intact, checksum_of, Seed
<1>5. OneForgery'
  BY <1>4 DEF SafetyInv, OneForgery
<1>6. UntouchedAgree'
  BY <1>1, <1>2, <1>3 DEF SafetyInv, UntouchedAgree
<1>7. step # "idle" => voting \in Items
  BY VotesAnItem DEF SafetyInv
<1>8. cand \in Copies /\ other \in Copies
  BY DEF SafetyInv, TypeOK
<1>9. LoadedIsCurrent'
  <2> SUFFICES ASSUME loaded # 0, Source(loaded) \notin struck'[voting]
               PROVE  word = Operand(loaded)'
    BY <1>1 DEF LoadedIsCurrent, Source
  <2>1. voting \in Items /\ step \in {"candidate", "peer", "compare", "survey"}
        /\ loaded \in {1, 2}
    BY <1>7 DEF SafetyInv, Control, TypeOK
  <2>2. copies'[voting][Source(loaded)] = copies[voting][Source(loaded)]
        /\ Source(loaded) \notin struck[voting]
    BY <1>2, <1>8, <2>1 DEF Source
  <2>3. word = Operand(loaded)
    BY <2>2 DEF SafetyInv, LoadedIsCurrent
  <2> QED
    BY <1>1, <2>1, <2>2, <2>3 DEF Operand, Source, Looked
<1>10. SurveyIsCurrent'
  <2> SUFFICES ASSUME step = "dissent", other \notin struck'[voting]
               PROVE  copy_is_intact(voting, other)'
    BY <1>1 DEF SurveyIsCurrent, copy_is_intact, checksum_of, Seed
  <2> QED
    BY <1>1, <1>2, <1>7, <1>8
    DEF SafetyInv, SurveyIsCurrent, copy_is_intact, checksum_of, Seed
<1>11. UndisturbedSees'
  <2> SUFFICES ASSUME step \in Counting, ~disturbed' PROVE UndisturbedSees'
    BY <1>1 DEF UndisturbedSees, Counting
  <2>1. winner = NoWord /\ voting \in Items
    BY <1>7 DEF SafetyInv, Control, Counting, Rewriting
  <2>2. voting # i /\ ~disturbed
    BY <2>1 DEF Hit
  <2>3. copies'[voting] = copies[voting]
    BY <1>1, <2>1, <2>2
  <2>4. Operand(loaded)' = Operand(loaded)
    BY <1>1, <2>3 DEF Operand, Looked
  <2> QED
    BY <1>1, <2>2, <2>3, <2>4
    DEF SafetyInv, UndisturbedSees, Agrees, copy_is_intact, checksum_of, Seed, Counting
<1>12. PassedWereStruck'
  <2>1. step # "idle" => struck[voting] \subseteq struck'[voting]
    BY <1>1, <1>7
  <2> QED
    BY <1>1, <2>1 DEF SafetyInv, PassedWereStruck, Excused, Counting
<1> QED
  BY <1>5, <1>6, <1>9, <1>10, <1>11, <1>12

(* An upset word never makes a copy intact and wrong.                      *)
LEMMA UpsetForgesNothing ==
  ASSUME SafetyInv, NEW i \in Items, NEW c \in Copies, Upset(i, c)
  PROVE  Forged(i)' \subseteq Forged(i)
<1> SUFFICES ASSUME NEW d \in Copies, d \in Forged(i)' PROVE d \in Forged(i)
  BY DEF Forged
<1>1. UNCHANGED <<kept, voting, step, other>>
  BY DEF Upset, Hit, locals
<1>2. copies[i][c] \in Copy
  BY DEF SafetyInv, TypeOK
<1>3. d \notin Awaiting(i)
  BY <1>1 DEF Forged, Awaiting
<1>4. CASE d # c
  <2>1. copies'[i][d] = copies[i][d]
    BY <1>4 DEF Upset, Hit, SafetyInv, TypeOK
  <2> QED
    BY <1>1, <1>3, <2>1 DEF Forged, copy_is_intact, checksum_of, Seed
<1>5. CASE d = c
  <2>1. ASSUME NEW v \in Values,
               copies[i][c].sum = checksum_of(v, Seed(c)) => v = kept[i] \/ c \in Awaiting(i),
               copies'[i][c] = [value |-> v, sum |-> copies[i][c].sum]
        PROVE  FALSE
    BY <1>1, <1>3, <1>5, <2>1 DEF Forged, copy_is_intact, checksum_of, Seed
  <2>2. ASSUME copies'[i][c] = [value |-> copies[i][c].value, sum |-> Junk]
        PROVE  FALSE
    <3>1. copies[i][c].value \in Values /\ c \in 0 .. 2
      BY <1>2 DEF Copy, Copies
    <3>2. copies'[i][c].sum = <<copies'[i][c].value, c>>
      BY <1>5 DEF Forged, copy_is_intact, checksum_of, Seed
    <3>3. copies'[i][c].sum = Junk /\ copies'[i][c].value = copies[i][c].value
      BY <2>2
    <3>4. Junk # <<copies[i][c].value, c>>
      BY <3>1, CriticalAssumption
    <3> QED
      BY <3>2, <3>3, <3>4
  <2> QED
    BY <2>1, <2>2 DEF Upset, Hit, SafetyInv, TypeOK
<1> QED
  BY <1>4, <1>5

(* One pattern is intact under one seed at most: the seeds of critical.h.  *)
LEMMA BurstForgesOne ==
  ASSUME SafetyInv, NEW i \in Items, NEW S \in SUBSET Copies, Burst(i, S)
  PROVE  \A c, d \in Forged(i)' : c = d
<1>1. PICK pattern \in Patterns : Hit(i, S, [d \in S |-> pattern])
  BY DEF Burst
<1>2. UNCHANGED <<kept, voting, step, other>>
  BY <1>1 DEF Hit, locals
<1>3. \A c \in Copies : copies'[i][c] = IF c \in S THEN pattern ELSE copies[i][c]
  BY <1>1 DEF Hit, SafetyInv, TypeOK
<1>4. ASSUME NEW c \in Forged(i)' PROVE pattern.sum = <<pattern.value, c>>
  <2>1. c \in Copies /\ c \notin Forged(i) /\ c \notin Awaiting(i)
    BY <1>2, <1>4 DEF Burst, Forged, Awaiting
  <2> QED
    BY <1>2, <1>3, <1>4, <2>1 DEF Forged, copy_is_intact, checksum_of, Seed
<1> QED
  BY <1>4

LEMMA SafetyInvHolds == Spec => []SafetyInv
<1> DEFINE Goal == /\ UntouchedAgree' /\ OneForgery'
                   /\ LoadedIsCurrent' /\ SurveyIsCurrent'
                   /\ UndisturbedSees' /\ PassedWereStruck'
<1>1. Init => UntouchedAgree /\ OneForgery /\ LoadedIsCurrent /\ SurveyIsCurrent
              /\ UndisturbedSees /\ PassedWereStruck
  <2> SUFFICES ASSUME Init
               PROVE  UntouchedAgree /\ OneForgery /\ LoadedIsCurrent /\ SurveyIsCurrent
                      /\ UndisturbedSees /\ PassedWereStruck
    OBVIOUS
  <2>1. \A i \in Items : copies[i] = written(kept[i])
    BY DEF Init
  <2>2. UntouchedAgree
    BY <2>1 DEF UntouchedAgree
  <2>3. OneForgery
    <3>1. \A i \in Items, c \in Copies : copies[i][c].value = kept[i]
      BY <2>1, WrittenWords
    <3> QED
      BY <3>1 DEF OneForgery, Forged
  <2> QED
    BY <2>2, <2>3
    DEF Init, LoadedIsCurrent, SurveyIsCurrent, UndisturbedSees, PassedWereStruck, Counting
<1>2. SafetyInv /\ [Next]_vars => Goal
  <2> SUFFICES ASSUME SafetyInv, [Next]_vars PROVE Goal
    OBVIOUS
  <2>1. ASSUME step = "idle", step' \in {"idle", "candidate"},
               UNCHANGED <<copies, kept, struck, cand, loaded, disturbed>>
        PROVE  Goal
    <3>1. \A i \in Items : Awaiting(i) = {} /\ Awaiting(i)' = {}
      BY <2>1 DEF Awaiting
    <3>2. UntouchedAgree' /\ OneForgery'
      BY <2>1, <3>1, SameWordsAgree
    <3>3. loaded = 0 /\ cand = 0
      BY <2>1 DEF SafetyInv, Control
    <3>4. \A c \in Copies : ~(c < 0)
      BY DEF Copies
    <3>5. LoadedIsCurrent' /\ SurveyIsCurrent' /\ UndisturbedSees'
      BY <2>1, <3>3 DEF LoadedIsCurrent, SurveyIsCurrent, UndisturbedSees, Counting
    <3>6. PassedWereStruck'
      BY <2>1, <3>3, <3>4 DEF PassedWereStruck, Counting
    <3> QED
      BY <3>2, <3>5, <3>6
  <2>2. ASSUME NEW i \in Items, VoteBegins(i) PROVE Goal
    BY <2>1, <2>2 DEF VoteBegins, SafetyInv, Control, locals, history
  <2>3. ASSUME NEW i \in Items, NEW v \in Values, obc_critical_set(i, v)
        PROVE  Goal
    <3>1. /\ copies'[i] = written(v) /\ kept'[i] = v
          /\ \A j \in Items : j # i => /\ copies'[j] = copies[j]
                                      /\ kept'[j] = kept[j]
                                      /\ struck'[j] = struck[j]
      BY <2>3 DEF obc_critical_set, SafetyInv, TypeOK
    <3>2. step = "idle" /\ UNCHANGED <<step, voting, loaded>>
      BY <2>3 DEF obc_critical_set, SafetyInv, Control, locals
    <3>3. \A j \in Items : Awaiting(j) = {} /\ Awaiting(j)' = {}
      BY <3>2 DEF Awaiting
    <3>4. UntouchedAgree'
      BY <3>1, <3>3 DEF SafetyInv, UntouchedAgree
    <3>5. Forged(i)' = {}
      <4>1. \A c \in Copies : copies'[i][c].value = kept'[i]
        BY <3>1, WrittenWords
      <4> QED
        BY <4>1 DEF Forged
    <3>6. \A j \in Items : j # i => Forged(j)' = Forged(j)
      BY <3>1, <3>3 DEF Forged, copy_is_intact, checksum_of, Seed
    <3>7. OneForgery'
      BY <3>5, <3>6 DEF SafetyInv, OneForgery
    <3>8. loaded = 0
      BY <3>2 DEF SafetyInv, Control
    <3>9. LoadedIsCurrent' /\ SurveyIsCurrent' /\ UndisturbedSees' /\ PassedWereStruck'
      BY <3>2, <3>8
      DEF LoadedIsCurrent, SurveyIsCurrent, UndisturbedSees, PassedWereStruck, Counting
    <3> QED
      BY <3>4, <3>7, <3>9
  <2>4. CASE ScrubBegins
    BY <2>1, <2>4 DEF ScrubBegins, SafetyInv, Control, locals, history
  <2>5. CASE ScrubVotes
    BY <2>1, <2>5 DEF ScrubVotes, VoteBegins, SafetyInv, Control, locals, history
  <2>6. CASE vote
    <3>1. Resolve => step \in {"answer", "refuse"} /\ Return
      BY DEF Resolve
    <3>2. Refuse => step \in {"answer", "refuse"} /\ Return
      BY DEF Refuse
    <3> QED
      BY <2>6, <3>1, <3>2, LoadFirstSafe, TestCandidateSafe, TestPeerSafe, TestAgreementSafe,
         LoadWinnerSafe, TestSurveySafe, LoadDissentSafe, ReturnSafe
      DEF vote
  <2>7. ASSUME NEW i \in Items, NEW c \in Copies, Upset(i, c) PROVE Goal
    <3>1. \A a, b \in Forged(i)' : a = b
      BY <2>7, UpsetForgesNothing DEF SafetyInv, OneForgery
    <3>2. PICK new : Hit(i, {c}, new)
      BY <2>7 DEF Upset
    <3>3. {c} \in SUBSET Copies
      OBVIOUS
    <3> QED
      BY <3>1, <3>2, <3>3, HitSafe
  <2>8. ASSUME NEW i \in Items, NEW S \in SUBSET Copies, Burst(i, S) PROVE Goal
    <3>1. PICK new : Hit(i, S, new)
      BY <2>8 DEF Burst
    <3> QED
      BY <2>8, <3>1, BurstForgesOne, HitSafe
  <2>9. CASE UNCHANGED vars
    <3>1. UNCHANGED <<copies, kept, struck, voting, step, cand, other, agreeing, loaded, word,
                      disturbed>>
      BY <2>9 DEF vars, locals, history
    <3>2. \A i \in Items : Awaiting(i)' = Awaiting(i)
      BY <3>1 DEF Awaiting
    <3>3. UntouchedAgree' /\ OneForgery'
      BY <3>1, <3>2, SameWordsAgree
    <3>4. Operand(loaded)' = Operand(loaded) /\ Source(loaded)' = Source(loaded)
      BY <3>1 DEF Operand, Source, Looked
    <3>5. LoadedIsCurrent' /\ SurveyIsCurrent' /\ UndisturbedSees' /\ PassedWereStruck'
      BY <3>1, <3>4
      DEF SafetyInv, LoadedIsCurrent, SurveyIsCurrent, UndisturbedSees, PassedWereStruck,
          Agrees, Excused, copy_is_intact, checksum_of, Seed, Counting
    <3> QED
      BY <3>3, <3>5
  <2> HIDE DEF Goal
  <2> QED
    BY <2>2, <2>3, <2>4, <2>5, <2>6, <2>7, <2>8, <2>9
    DEF Next, Calls, Corruption, obc_critical_get
<1> QED
  BY <1>1, <1>2, TypeAndControl, PTL DEF Spec, SafetyInv

-----------------------------------------------------------------------------
(* obc_critical_get is a register that may refuse: a vote answers what the *)
(* item holds, and what it holds changes by a set, or in a vote that was   *)
(* disturbed before it loaded its winner, under any upsets and bursts.     *)
THEOREM VoterImplementsRegister == Spec => NeverAnswersFalse
<1> USE DEF Register!Reply
<1>1. Init => Register!Init
  BY CriticalAssumption DEF Init, Register!Init, Items
<1>2. SafetyInv /\ SafetyInv' /\ [Next]_vars
        => [Register!Next]_<<kept, voting, disturbed, reply>>
  <2> DEFINE Goal == [Register!Next]_<<kept, voting, disturbed, reply>>
  <2> SUFFICES ASSUME SafetyInv, SafetyInv', [Next]_vars PROVE Goal
    OBVIOUS
  <2>1. ASSUME UNCHANGED <<kept, voting, disturbed, reply>> PROVE Goal
    BY <2>1
  <2>2. ASSUME NEW i \in Items, VoteBegins(i) PROVE Goal
    <3>1. ~disturbed
      BY <2>2 DEF VoteBegins, SafetyInv, Control, Counting
    <3>2. Register!ReadBegins(i)
      BY <2>2, <3>1 DEF VoteBegins, history, Register!ReadBegins, SafetyInv, TypeOK
    <3> QED
      BY <2>2, <3>2 DEF Register!Next
  <2>3. ASSUME NEW i \in Items, NEW v \in Values, obc_critical_set(i, v) PROVE Goal
    <3>1. Register!Write(i, v)
      BY <2>3 DEF obc_critical_set, Register!Write
    <3> QED
      BY <3>1 DEF Register!Next
  <2>4. ASSUME NEW i \in Items, NEW S, NEW new, Hit(i, S, new) PROVE Goal
    <3>1. UNCHANGED <<kept, voting, reply>> /\ (disturbed' # disturbed => disturbed' /\ voting = i)
      BY <2>4 DEF Hit, SafetyInv, TypeOK
    <3>2. CASE disturbed' = disturbed
      BY <2>1, <3>1, <3>2
    <3>3. CASE disturbed' # disturbed
      <4>1. voting # 0 /\ disturbed' = TRUE
        BY <2>4, <3>1, <3>3, OwnIndex DEF Hit, SafetyInv, TypeOK
      <4>2. Register!Disturb
        BY <3>1, <4>1 DEF Register!Disturb
      <4> QED
        BY <4>2 DEF Register!Next
    <3> QED
      BY <3>2, <3>3
  <2>5. CASE LoadWinner
    <3>1. voting \in Items /\ voting # 0
      BY <2>5, VotesAnItem, OwnIndex DEF LoadWinner, SafetyInv
    <3>2. CASE disturbed
      <4>1. winner' \in Values
        BY <2>5 DEF LoadWinner, SafetyInv, TypeOK, Control, Rewriting
      <4>2. Register!Settle
        BY <2>5, <3>1, <3>2, <4>1 DEF LoadWinner, Register!Settle
      <4> QED
        BY <4>2 DEF Register!Next
    <3>3. CASE ~disturbed
      <4>1. winner' = kept[voting]
        BY <2>5, <3>3, WinnerIsKept DEF LoadWinner
      <4>2. kept' = kept
        BY <2>5, <3>1, <4>1 DEF LoadWinner, SafetyInv, TypeOK
      <4> QED
        BY <2>1, <2>5, <3>3, <4>2 DEF LoadWinner, SafetyInv, TypeOK
    <3> QED
      BY <3>2, <3>3
  <2>6. CASE Resolve
    <3>1. voting # 0 /\ winner = kept[voting]
      BY <2>6 DEF Resolve, SafetyInv, Control, Rewriting
    <3>2. Register!ReadEnds
      BY <2>6, <3>1 DEF Resolve, Return, Idle, Register!ReadEnds
    <3> QED
      BY <3>2 DEF Register!Next
  <2>7. CASE Refuse
    <3>1. voting # 0
      BY <2>7 DEF Refuse, SafetyInv, Control
    <3>2. Register!ReadEnds
      BY <2>7, <3>1 DEF Refuse, Return, Idle, Register!ReadEnds
    <3> QED
      BY <3>2 DEF Register!Next
  <2>8. CASE LoadFirst \/ TestCandidate \/ TestPeer \/ TestAgreement \/ TestSurvey \/ LoadDissent
    BY <2>1, <2>8
    DEF LoadFirst, TestCandidate, TestPeer, TestAgreement, TestSurvey, LoadDissent, Testing
  <2>9. CASE ScrubBegins
    BY <2>1, <2>9 DEF ScrubBegins, history
  <2>10. CASE ScrubVotes
    <3>1. scrubbing \in Items
      BY <2>10, CriticalAssumption DEF ScrubVotes, SafetyInv, TypeOK, Items
    <3> QED
      BY <2>2, <2>10, <3>1 DEF ScrubVotes
  <2>11. CASE UNCHANGED vars
    BY <2>1, <2>11 DEF vars, history
  <2> HIDE DEF Goal
  <2> QED
    BY <2>2, <2>3, <2>4, <2>5, <2>6, <2>7, <2>8, <2>9, <2>10, <2>11
    DEF Next, Calls, vote, Corruption, Upset, Burst, obc_critical_get
<1> QED
  BY <1>1, <1>2, SafetyInvHolds, PTL DEF Spec, NeverAnswersFalse, Register!Spec

-----------------------------------------------------------------------------
(* Every copy was passed over: two of them were hit.                       *)
LEMMA RefusedWasStruckTwice ==
  ASSUME SafetyInv, step = "refuse"
  PROVE  /\ \E c, d \in struck[voting] : c # d
         /\ IsFiniteSet(struck[voting]) /\ Cardinality(struck[voting]) >= 2
<1>1. voting \in Items
  BY VotesAnItem DEF SafetyInv
<1>2. struck[voting] \in SUBSET Copies
  BY <1>1 DEF SafetyInv, TypeOK
<1>3. \A c \in Copies : Excused(c)
  BY DEF SafetyInv, PassedWereStruck
<1>4. 0 \in Copies /\ 1 \in Copies /\ 2 \in Copies
  BY DEF Copies
<1>5. \E c, d \in struck[voting] : c # d
  <2>1. CASE 0 \in struck[voting] /\ 1 \in struck[voting]
    BY <2>1
  <2>2. CASE 0 \notin struck[voting]
    BY <1>3, <1>4, <2>2 DEF Excused
  <2>3. CASE 1 \notin struck[voting]
    BY <1>3, <1>4, <2>3 DEF Excused
  <2> QED
    BY <2>1, <2>2, <2>3
<1>6. PICK c \in struck[voting], d \in struck[voting] : c # d
  BY <1>5
<1>7. IsFiniteSet(struck[voting])
  BY <1>2, CopiesFinite, FS_Subset
<1>8. Cardinality({c, d}) = 2
  <2>1. IsFiniteSet({c}) /\ Cardinality({c}) = 1
    BY FS_Singleton
  <2>2. Cardinality({c} \cup {d}) = 2
    BY <1>6, <2>1, FS_AddElement
  <2>3. {c, d} = {c} \cup {d}
    OBVIOUS
  <2> QED
    BY <2>2, <2>3
<1>9. {c, d} \in SUBSET struck[voting]
  BY <1>6
<1>10. Cardinality({c, d}) <= Cardinality(struck[voting])
  BY <1>7, <1>9, FS_Subset
<1> QED
  BY <1>5, <1>7, <1>8, <1>10, FS_CardinalityType

(* One copy hit, before or inside a vote, never makes the vote refuse.     *)
THEOREM OneStrikeIsMaskedHolds == Spec => OneStrikeIsMasked
<1>1. SafetyInv /\ [Next]_vars
        => (failed_votes' # failed_votes => Cardinality(struck[voting]) >= 2)
  <2> SUFFICES ASSUME SafetyInv, [Next]_vars, failed_votes' # failed_votes
               PROVE  Cardinality(struck[voting]) >= 2
    OBVIOUS
  <2>1. Refuse
    BY DEF Next, Calls, vote, Corruption, Upset, Burst, Hit, obc_critical_get, obc_critical_set,
           VoteBegins, ScrubBegins, ScrubVotes, LoadFirst, TestCandidate, TestPeer,
           TestAgreement, LoadWinner, TestSurvey, LoadDissent, Resolve, Testing, vars, counters
  <2> QED
    BY <2>1, RefusedWasStruckTwice DEF Refuse
<1> QED
  BY <1>1, SafetyInvHolds, PTL DEF Spec, OneStrikeIsMasked

-----------------------------------------------------------------------------
LEMMA ItemsFinite == IsFiniteSet(Items)
<1>1. 1 \in Int /\ N \in Int
  BY CriticalAssumption
<1> QED
  BY <1>1, FS_Interval, Zenon DEF Items

LEMMA PendingFinite ==
  IsFiniteSet(Pending) /\ Cardinality(Pending) \in Nat
<1>1. Pending \in SUBSET Items
  BY DEF Pending
<1> QED
  BY <1>1, ItemsFinite, FS_Subset, FS_CardinalityType

(* A step that adds no item to Pending and counts no event.                *)
LEMMA FewerPending ==
  ASSUME EventInv, UNCHANGED <<strikes, unresolvable_events>>, SafetyInv,
         \A i \in Items : i \in Pending' => i \in Pending
  PROVE  EventInv'
<1>1. Pending' \in SUBSET Pending
  BY DEF Pending
<1>2. Cardinality(Pending') <= Cardinality(Pending) /\ Cardinality(Pending') \in Nat
  BY <1>1, PendingFinite, FS_Subset, FS_CardinalityType
<1> QED
  BY <1>2, PendingFinite DEF EventInv, SafetyInv, TypeOK

LEMMA HitFundsPending ==
  ASSUME SafetyInv, EventInv, NEW i \in Items, NEW S, NEW new, Hit(i, S, new)
  PROVE  EventInv'
<1>1. /\ UNCHANGED <<was_resolving, voting, step, other, loaded, unresolvable_events>>
      /\ strikes' = strikes + 1
      /\ \A j \in Items : j # i => struck'[j] = struck[j]
  BY DEF Hit, counters, locals, SafetyInv, TypeOK
<1>2. Ahead' = Ahead
  BY <1>1 DEF Ahead
<1>3. Pending' \in SUBSET (Pending \cup {i})
  BY <1>1, <1>2 DEF Pending, HitLate, item_index
<1>4. /\ IsFiniteSet(Pending \cup {i})
      /\ Cardinality(Pending \cup {i}) <= Cardinality(Pending) + 1
  <2>1. /\ IsFiniteSet(Pending \cup {i})
        /\ Cardinality(Pending \cup {i}) =
             IF i \in Pending THEN Cardinality(Pending) ELSE Cardinality(Pending) + 1
    BY PendingFinite, FS_AddElement, Zenon
  <2> QED
    BY <2>1, PendingFinite
<1>5. Cardinality(Pending') <= Cardinality(Pending \cup {i}) /\ IsFiniteSet(Pending')
  BY <1>3, <1>4, FS_Subset
<1>6. Cardinality(Pending') \in Nat /\ Cardinality(Pending \cup {i}) \in Nat
  BY <1>4, <1>5, FS_CardinalityType
<1> QED
  BY <1>1, <1>4, <1>5, <1>6, PendingFinite DEF EventInv, SafetyInv, TypeOK

(* A refusal spends what its item held in reserve.                         *)
LEMMA RefuseSpendsPending ==
  ASSUME SafetyInv, EventInv, Refuse
  PROVE  EventInv'
<1>1. /\ voting \in Items /\ item_index(voting) = voting
      /\ \A i \in Items : item_index(i) = i
  BY VotesAnItem, OwnIndex DEF Refuse, SafetyInv
<1>2. struck[voting] # {}
  BY RefusedWasStruckTwice DEF Refuse
<1>3. voting \in 1 .. MaxItems
  BY <1>1, OwnIndex
<1>4. was_resolving'[voting] = FALSE
      /\ \A i \in Items : i # voting => was_resolving'[i] = was_resolving[i]
  BY <1>1, <1>3, OwnIndex DEF Refuse, SafetyInv, TypeOK
<1>5. UNCHANGED <<struck, strikes>> /\ voting' = 0 /\ step' = "idle" /\ step = "refuse"
  BY DEF Refuse, Return, Idle
<1>6. ASSUME NEW i \in Items PROVE ~HitLate(i) /\ ~HitLate(i)'
  BY <1>5 DEF HitLate, Rewriting
<1>7. Pending' = Pending \ {voting}
  BY <1>1, <1>4, <1>5, <1>6 DEF Pending, item_index
<1>8. Cardinality(Pending') =
        IF voting \in Pending THEN Cardinality(Pending) - 1 ELSE Cardinality(Pending)
  BY <1>7, PendingFinite, FS_RemoveElement
<1>9. was_resolving[voting] => voting \in Pending
  BY <1>1, <1>2 DEF Pending
<1>10. unresolvable_events' =
         unresolvable_events + (IF was_resolving[voting] THEN 1 ELSE 0)
  BY <1>1 DEF Refuse
<1> QED
  BY <1>5, <1>8, <1>9, <1>10, PendingFinite DEF EventInv, SafetyInv, TypeOK

(* Surveying a copy takes its strike away; resolving calls due, at most,   *)
(* what was hit after its survey.                                          *)
LEMMA VoteKeepsPending ==
  ASSUME SafetyInv, EventInv, vote, ~Refuse
  PROVE  EventInv'
<1>0. voting \in Items /\ other \in 0 .. 2 /\ \A i \in Items : item_index(i) = i
  <2>1. step # "idle"
    BY DEF vote, LoadFirst, TestCandidate, TestPeer, TestAgreement, LoadWinner, TestSurvey,
           LoadDissent, Resolve, Testing
  <2> QED
    BY <2>1, VotesAnItem, OwnIndex DEF SafetyInv, TypeOK, Copies
<1>1. CASE LoadFirst
  <2>1. CASE step = "survey"
    <3>1. struck'[voting] = struck[voting] \ {other} /\ Ahead' = Ahead \ {other}
      <4>1. struck'[voting] = struck[voting] \ {other}
        BY <1>0, <1>1, <2>1 DEF LoadFirst, SafetyInv, TypeOK
      <4>2. step' = "survey" /\ other' = other /\ loaded = 0 /\ loaded' # 0
        BY <1>1, <2>1 DEF LoadFirst
      <4>3. \A c \in Copies : c \in Ahead' <=> c > other
        BY <2>1, <4>2 DEF Ahead
      <4>4. \A c \in Copies : c \in Ahead <=> c >= other
        BY <1>0, <2>1, <4>2 DEF Ahead, Copies
      <4>5. \A c \in Copies : c > other <=> c >= other /\ c # other
        BY <1>0 DEF Copies
      <4>6. Ahead \subseteq Copies /\ Ahead' \subseteq Copies
        BY DEF Ahead
      <4> QED
        BY <4>1, <4>3, <4>4, <4>5, <4>6
    <3>2. \A i \in Items : i # voting => struck'[i] = struck[i]
      BY <1>1 DEF LoadFirst, SafetyInv, TypeOK
    <3>3. other \in Ahead
      BY <1>0, <1>1, <2>1 DEF LoadFirst, Ahead, Copies
    <3>4. \A i \in Items : i \in Pending' => i \in Pending
      BY <1>1, <3>1, <3>2, <3>3 DEF LoadFirst, Pending, HitLate, item_index
    <3> QED
      BY <1>1, <3>4, FewerPending DEF LoadFirst, counters
  <2>2. CASE step # "survey"
    <3>1. \A i \in Items : i \in Pending' => i \in Pending
      BY <1>1, <2>2 DEF LoadFirst, Pending, HitLate, Rewriting, item_index
    <3> QED
      BY <1>1, <3>1, FewerPending DEF LoadFirst, counters
  <2> QED
    BY <2>1, <2>2
<1>2. CASE TestCandidate \/ TestPeer \/ TestAgreement
  <2>1. step' \notin Rewriting
    BY <1>2 DEF TestCandidate, TestPeer, TestAgreement, NextPeer, NextCandidate, Rewriting
  <2>2. UNCHANGED <<struck, was_resolving, strikes, unresolvable_events>>
    BY <1>2 DEF TestCandidate, TestPeer, TestAgreement, Testing
  <2>3. \A i \in Items : i \in Pending' => i \in Pending
    BY <2>1, <2>2 DEF Pending, HitLate, item_index
  <2> QED
    BY <2>2, <2>3, FewerPending
<1>3. CASE LoadWinner
  <2>1. Ahead' = Copies
    BY <1>3 DEF LoadWinner, Ahead, Copies, SafetyInv, Control
  <2>2. struck[voting] \subseteq Copies
    BY <1>0 DEF SafetyInv, TypeOK
  <2>3. ~HitLate(voting)'
    BY <1>3, <2>1, <2>2 DEF LoadWinner, HitLate
  <2>4. \A i \in Items : i # voting => ~HitLate(i)'
    BY <1>3 DEF LoadWinner, HitLate
  <2>5. \A i \in Items : i \in Pending' => i \in Pending
    BY <1>3, <2>3, <2>4 DEF LoadWinner, Pending, item_index
  <2> QED
    BY <1>3, <2>5, FewerPending DEF LoadWinner, counters
<1>4. ASSUME step \in {"survey", "dissent"}, loaded' = 0,
             UNCHANGED <<voting, was_resolving, strikes, unresolvable_events>>,
             \A i \in Items : struck'[i] \subseteq struck[i],
             \/ step' = "dissent" /\ other' = other /\ loaded # 0
             \/ NextSurvey /\ (loaded # 0 \/ step = "dissent")
      PROVE  EventInv'
  <2>1. Ahead' = Ahead
    BY <1>0, <1>4 DEF Ahead, NextSurvey, Copies
  <2>2. \A i \in Items : i \in Pending' => i \in Pending
    BY <1>4, <2>1 DEF Pending, HitLate, Rewriting, item_index
  <2> QED
    BY <1>4, <2>2, FewerPending
<1>5. Rewrite => NextSurvey /\ \A i \in Items : struck'[i] \subseteq struck[i]
  BY <1>0 DEF Rewrite, SafetyInv, TypeOK
<1>6. CASE TestSurvey
  <2>1. step = "survey" /\ loaded # 0 /\ loaded' = 0
        /\ UNCHANGED <<voting, was_resolving, strikes, unresolvable_events>>
    BY <1>6 DEF TestSurvey, Testing
  <2>2. \/ step' = "dissent" /\ UNCHANGED <<struck, other>>
        \/ Rewrite
    BY <1>6 DEF TestSurvey
  <2> QED
    BY <1>4, <1>5, <2>1, <2>2
<1>7. CASE LoadDissent
  <2>1. step = "dissent" /\ loaded' = 0
        /\ UNCHANGED <<voting, was_resolving, strikes, unresolvable_events>>
    BY <1>7 DEF LoadDissent, SafetyInv, Control
  <2>2. Rewrite \/ (NextSurvey /\ UNCHANGED struck)
    BY <1>7 DEF LoadDissent
  <2> QED
    BY <1>4, <1>5, <2>1, <2>2
<1>8. CASE Resolve
  <2>1. voting \in 1 .. MaxItems /\ step = "answer" /\ voting' = 0 /\ step' = "idle"
    BY <1>0, <1>8, OwnIndex DEF Resolve, Return, Idle
  <2>2. \A i \in Items : i # voting => was_resolving'[i] = was_resolving[i]
    BY <1>0, <1>8, <2>1, OwnIndex DEF Resolve, SafetyInv, TypeOK
  <2>3. Ahead = {}
    BY <1>0, <2>1 DEF Ahead
  <2>4. \A i \in Items : ~HitLate(i)'
    BY <2>1 DEF HitLate, Rewriting
  <2>5. \A i \in Items : i \in Pending' => i \in Pending
    BY <1>0, <1>8, <2>1, <2>2, <2>3, <2>4
    DEF Resolve, Return, Pending, HitLate, Rewriting, item_index
  <2> QED
    BY <1>8, <2>5, FewerPending DEF Resolve, Return
<1> QED
  BY <1>1, <1>2, <1>3, <1>6, <1>7, <1>8 DEF vote

(* However often a broken item is voted, obc_critical_unresolvable_events  *)
(* never exceeds the number of corruptions: events, not passages.          *)
THEOREM EventsNeedCorruptionHolds == Spec => []EventsNeedCorruption
<1>1. Init => EventInv
  <2> SUFFICES ASSUME Init PROVE EventInv
    OBVIOUS
  <2>1. Pending = {}
    BY DEF Init, Pending
  <2> QED
    BY <2>1, FS_EmptySet DEF Init, EventInv
<1>2. SafetyInv /\ EventInv /\ [Next]_vars => EventInv'
  <2> SUFFICES ASSUME SafetyInv, EventInv, [Next]_vars PROVE EventInv'
    OBVIOUS
  <2>1. ASSUME step = "idle", step' \in {"idle", "candidate"},
               UNCHANGED <<strikes, unresolvable_events, was_resolving>>,
               \A i \in Items : struck'[i] \subseteq struck[i]
        PROVE  EventInv'
    <3>1. \A i \in Items : ~HitLate(i) /\ ~HitLate(i)'
      BY <2>1 DEF HitLate, Rewriting
    <3>2. \A i \in Items : i \in Pending' => i \in Pending
      BY <2>1, <3>1 DEF Pending, item_index
    <3> QED
      BY <2>1, <3>2, FewerPending
  <2>2. ASSUME NEW i \in Items, VoteBegins(i) PROVE EventInv'
    BY <2>1, <2>2 DEF VoteBegins, SafetyInv, Control, counters, history
  <2>3. ASSUME NEW i \in Items, NEW v \in Values, obc_critical_set(i, v) PROVE EventInv'
    BY <2>1, <2>3 DEF obc_critical_set, SafetyInv, Control, counters, TypeOK
  <2>4. CASE ScrubBegins
    BY <2>1, <2>4 DEF ScrubBegins, SafetyInv, Control, counters, history
  <2>5. CASE ScrubVotes
    BY <2>1, <2>5 DEF ScrubVotes, VoteBegins, SafetyInv, Control, counters, history
  <2>6. CASE vote
    BY <2>6, RefuseSpendsPending, VoteKeepsPending
  <2>7. ASSUME NEW i \in Items, NEW c \in Copies, Upset(i, c) PROVE EventInv'
    BY <2>7, HitFundsPending DEF Upset
  <2>8. ASSUME NEW i \in Items, NEW S \in SUBSET Copies, Burst(i, S) PROVE EventInv'
    BY <2>8, HitFundsPending DEF Burst
  <2>9. CASE UNCHANGED vars
    <3>1. Pending' = Pending
      BY <2>9 DEF vars, locals, history, Pending, HitLate, Ahead, item_index
    <3> QED
      BY <2>9, <3>1 DEF EventInv, vars, counters, history
  <2> QED
    BY <2>2, <2>3, <2>4, <2>5, <2>6, <2>7, <2>8, <2>9
    DEF Next, Calls, Corruption, obc_critical_get
<1>3. SafetyInv /\ EventInv => EventsNeedCorruption
  BY PendingFinite DEF EventInv, EventsNeedCorruption, SafetyInv, TypeOK
<1> QED
  BY <1>1, <1>2, <1>3, SafetyInvHolds, PTL DEF Spec

-----------------------------------------------------------------------------
(* The slot of s_was_resolving an item votes with is its own, within the   *)
(* array: it is clear exactly while the item's own votes fail.             *)
MaskInv == OwnSlot /\ NoItemMasksAnother

LEMMA FailingFinite ==
  ASSUME TypeOK
  PROVE  IsFiniteSet(failing) /\ Cardinality(failing) \in Nat
<1>1. failing \in SUBSET Items
  BY DEF TypeOK
<1> QED
  BY <1>1, ItemsFinite, FS_Subset, FS_CardinalityType

(* An item that starts to fail is counted, one that fails again was.       *)
LEMMA ReturnCountsFailing ==
  ASSUME SafetyInv, MaskInv, Resolve \/ Refuse
  PROVE  MaskInv'
<1>0. /\ was_resolving \in [1 .. MaxItems -> BOOLEAN] /\ unresolvable_events \in Nat
      /\ Cardinality(failing) <= unresolvable_events
      /\ IsFiniteSet(failing) /\ Cardinality(failing) \in Nat
  BY FailingFinite DEF SafetyInv, TypeOK, MaskInv, NoItemMasksAnother
<1>1. /\ voting \in Items /\ voting \in 1 .. MaxItems
      /\ \A i \in Items : item_index(i) = i
  BY VotesAnItem, OwnIndex DEF Resolve, Refuse, SafetyInv
<1>2. CASE Refuse
  <2>1. /\ was_resolving' = [was_resolving EXCEPT ![voting] = FALSE]
        /\ failing' = failing \cup {voting}
        /\ unresolvable_events' =
             unresolvable_events + (IF was_resolving[voting] THEN 1 ELSE 0)
    BY <1>1, <1>2 DEF Refuse
  <2>2. ASSUME NEW i \in Items PROVE was_resolving'[i] <=> i \notin failing'
    <3>1. i \in 1 .. MaxItems /\ (was_resolving[i] <=> i \notin failing)
      BY <1>1, OwnIndex DEF MaskInv, OwnSlot
    <3>2. CASE i = voting
      BY <1>0, <1>1, <2>1, <3>1, <3>2
    <3>3. CASE i # voting
      BY <1>0, <1>1, <2>1, <3>1, <3>3
    <3> QED
      BY <3>2, <3>3
  <2>3. OwnSlot'
    BY <1>1, <2>2 DEF OwnSlot, item_index
  <2>4. Cardinality(failing \cup {voting}) =
          IF voting \in failing THEN Cardinality(failing) ELSE Cardinality(failing) + 1
    BY <1>0, FS_AddElement, Zenon
  <2>5. voting \notin failing => was_resolving[voting]
    BY <1>1 DEF MaskInv, OwnSlot
  <2>6. Cardinality(failing') <= unresolvable_events'
    BY <1>0, <2>1, <2>4, <2>5
  <2> QED
    BY <2>3, <2>6 DEF MaskInv, NoItemMasksAnother
<1>3. CASE Resolve
  <2>1. /\ was_resolving' = [was_resolving EXCEPT ![voting] = TRUE]
        /\ failing' = failing \ {voting}
        /\ unresolvable_events' = unresolvable_events
    BY <1>1, <1>3 DEF Resolve
  <2>2. ASSUME NEW i \in Items PROVE was_resolving'[i] <=> i \notin failing'
    <3>1. i \in 1 .. MaxItems /\ (was_resolving[i] <=> i \notin failing)
      BY <1>1, OwnIndex DEF MaskInv, OwnSlot
    <3>2. CASE i = voting
      BY <1>0, <1>1, <2>1, <3>1, <3>2
    <3>3. CASE i # voting
      BY <1>0, <1>1, <2>1, <3>1, <3>3
    <3> QED
      BY <3>2, <3>3
  <2>3. OwnSlot'
    BY <1>1, <2>2 DEF OwnSlot, item_index
  <2>4. failing' \in SUBSET failing
    BY <2>1
  <2>5. Cardinality(failing') <= Cardinality(failing) /\ Cardinality(failing') \in Nat
    BY <1>0, <2>4, FS_Subset, FS_CardinalityType
  <2>6. Cardinality(failing') <= unresolvable_events'
    BY <1>0, <2>1, <2>5
  <2> QED
    BY <2>3, <2>6 DEF MaskInv, NoItemMasksAnother
<1> QED
  BY <1>2, <1>3

(* critical.c: with s_was_resolving indexed by item, two items in different*)
(* states do not mask each other's events, for a registry of any size up   *)
(* to the OBC_CRITICAL_MAX_ITEMS slots of that array.                      *)
THEOREM NoItemMasksAnotherHolds == Spec => []NoItemMasksAnother
<1>1. Init => MaskInv
  <2> SUFFICES ASSUME Init PROVE MaskInv
    OBVIOUS
  <2>1. failing = {} /\ unresolvable_events = 0
        /\ \A i \in Items : was_resolving[item_index(i)]
    BY OwnIndex DEF Init
  <2>2. Cardinality(failing) <= unresolvable_events
    BY <2>1, FS_EmptySet
  <2> QED
    BY <2>1, <2>2 DEF MaskInv, OwnSlot, NoItemMasksAnother
<1>2. SafetyInv /\ MaskInv /\ [Next]_vars => MaskInv'
  <2> SUFFICES ASSUME SafetyInv, MaskInv, [Next]_vars PROVE MaskInv'
    OBVIOUS
  <2>1. CASE UNCHANGED <<was_resolving, unresolvable_events, failing>>
    BY <2>1 DEF MaskInv, OwnSlot, NoItemMasksAnother, item_index
  <2>2. CASE Resolve \/ Refuse
    BY <2>2, ReturnCountsFailing
  <2>3. ~(Resolve \/ Refuse) => UNCHANGED <<was_resolving, unresolvable_events, failing>>
    BY DEF Next, Calls, vote, Corruption, Upset, Burst, Hit, obc_critical_get, obc_critical_set,
           VoteBegins, ScrubBegins, ScrubVotes, LoadFirst, TestCandidate, TestPeer,
           TestAgreement, LoadWinner, TestSurvey, LoadDissent, Testing, vars, counters, history
  <2> QED
    BY <2>1, <2>2, <2>3
<1>3. MaskInv => NoItemMasksAnother
  BY DEF MaskInv
<1> QED
  BY <1>1, <1>2, <1>3, SafetyInvHolds, PTL DEF Spec
=============================================================================

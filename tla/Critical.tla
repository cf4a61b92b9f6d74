----------------------------- MODULE Critical -----------------------------
(***************************************************************************)
(* Triple-redundant critical state read through a voter,                   *)
(* flight/core/critical.c, under corruption of its copies at any moment.   *)
(*                                                                         *)
(* A copy is two volatile words, and the vote loads the words it needs     *)
(* again each time it needs them: one action is one load, so a corruption  *)
(* can fall between a check and the use of what was checked.  The stores   *)
(* of write_copy, and the six of obc_critical_set, are one action each:    *)
(* no load lies between them, and a corruption between two stores leaves   *)
(* what it would leave before the first or after the last.                 *)
(*                                                                         *)
(* checksum_of(value, seed) is abstracted to the pair <<value, seed>>:     *)
(* what the voter relies on is that the checksum of one value under one    *)
(* seed is that of no other, the limit the comment at checksum_of states.  *)
(* Junk is any word that is nobody's checksum.                             *)
(***************************************************************************)
EXTENDS Integers, FiniteSets

CONSTANTS
  N,               \* items in obc_critical_items; the flight image has one
  MaxItems,        \* OBC_CRITICAL_MAX_ITEMS, the slots of s_was_resolving
  Values,          \* what callers set
  Junk,            \* a checksum word that belongs to no value
  NoWord,          \* a local of the vote that holds nothing
  Patterns,        \* bound: the words a burst leaves in a copy
  MaxStrikes,      \* bound: corruptions of a behaviour
  MaxFailedVotes   \* bound: failed votes of a behaviour

ASSUME CriticalAssumption ==
  /\ N \in Nat \ {0} /\ MaxItems \in Nat
  /\ N <= MaxItems
  /\ MaxStrikes \in Nat /\ MaxFailedVotes \in Nat
  /\ \A v \in Values, c \in 0 .. 2 : Junk # <<v, c>>
  /\ NoWord \notin Values

VARIABLES
  copies,        \* item -> copy -> [value, sum]
  was_resolving, \* s_was_resolving
  repairs, failed_votes, unresolvable_events,
  scrubbing,     \* the item obc_critical_scrub is at, 0 outside a scrub
  voting,        \* the item of the vote that runs, 0 outside a vote
  step,          \* what the vote does next
  cand,          \* its i: the copy whose agreement is counted
  other,         \* its j: the copy compared, then the copy rewritten
  agreeing,
  winner,
  loaded, word,  \* which word of a test of two is loaded (0: none), and it
  reply,         \* item, status and value of the last vote to return
  kept,          \* history: the value set, or a disturbed vote's winner
  disturbed,     \* history: hit since the vote began, winner not yet loaded
  failing,       \* history: the items whose last vote refused
  struck,        \* history: copies hit since written or last surveyed
  strikes        \* history: corruptions so far

counters == <<repairs, failed_votes, unresolvable_events>>
locals == <<cand, other, agreeing, winner, loaded, word>>
history == <<kept, disturbed, failing, struck, strikes>>
vars == <<copies, was_resolving, counters, scrubbing, voting, step, locals, reply, history>>

Items == 1 .. N
Copies == 0 .. 2                     \* OBC_CRITICAL_COPIES
Sums == {Junk} \cup (Values \X Copies)
Copy == [value : Values, sum : Sums]

ASSUME PatternsAssumption == Patterns \subseteq Copy

(* A mistake to tell apart: one seed for the three copies.                 *)
OneSeed(c) == 0

(* One seed per copy: OBC_CRITICAL_SEED_0, _1, _2.                         *)
Seed(c) == c

checksum_of(v, seed) == <<v, seed>>

written(v) == [c \in Copies |-> [value |-> v, sum |-> checksum_of(v, Seed(c))]]

Idle ==
  /\ voting' = 0 /\ step' = "idle"
  /\ cand' = 0 /\ other' = 0 /\ agreeing' = 0 /\ winner' = NoWord
  /\ loaded' = 0 /\ word' = NoWord

(* Boot: obc_mode_restore has set every item before the first vote.        *)
Init ==
  /\ kept \in [Items -> Values]
  /\ copies = [i \in Items |-> written(kept[i])]
  /\ was_resolving = [slot \in 1 .. MaxItems |-> TRUE]
  /\ repairs = 0 /\ failed_votes = 0 /\ unresolvable_events = 0
  /\ scrubbing = 0 /\ voting = 0 /\ step = "idle"
  /\ cand = 0 /\ other = 0 /\ agreeing = 0 /\ winner = NoWord
  /\ loaded = 0 /\ word = NoWord
  /\ reply = [item |-> 1, status |-> "none", value |-> NoWord]
  /\ disturbed = FALSE
  /\ failing = {}
  /\ struck = [i \in Items |-> {}]
  /\ strikes = 0

(* A mistake to tell apart: one flag for the whole registry.               *)
SharedIndex(i) == 1

(* The slot of s_was_resolving an item votes with: slot 0 of the array for *)
(* an item past its end.                                                   *)
item_index(i) == IF i <= MaxItems THEN i ELSE 1

obc_critical_set(i, v) ==
  /\ scrubbing = 0 /\ voting = 0
  /\ copies' = [copies EXCEPT ![i] = written(v)]
  /\ kept' = [kept EXCEPT ![i] = v]
  /\ struck' = [struck EXCEPT ![i] = {}]
  /\ reply' = [item |-> i, status |-> "none", value |-> NoWord]
  /\ UNCHANGED <<was_resolving, counters, scrubbing, voting, step, locals,
                 disturbed, failing, strikes>>

-----------------------------------------------------------------------------
(* The vote, load by load.                                                 *)

Looked == IF step = "candidate" THEN cand ELSE other

(* The two words a test compares: checksum and value of the copy looked at *)
(* for copy_is_intact, the values of two copies for the agreement.         *)
Operand(k) ==
  IF step = "compare" THEN copies[voting][IF k = 1 THEN other ELSE cand].value
  ELSE IF k = 1 THEN copies[voting][Looked].sum
  ELSE copies[voting][Looked].value

(* C leaves the order of the two loads to the compiler.  A copy's survey   *)
(* begins with its first load.                                             *)
LoadFirst ==
  /\ step \in {"candidate", "peer", "compare", "survey"} /\ loaded = 0
  /\ \E k \in {1, 2} : loaded' = k /\ word' = Operand(k)
  /\ struck' = IF step = "survey" THEN [struck EXCEPT ![voting] = @ \ {other}] ELSE struck
  /\ UNCHANGED <<copies, was_resolving, counters, scrubbing, voting, step, cand, other,
                 agreeing, winner, reply, kept, disturbed, failing, strikes>>

(* The second load, and what the test makes of the two.                    *)
Got(k) == IF loaded = k THEN word ELSE Operand(k)
IsIntact == Got(1) = checksum_of(Got(2), Seed(Looked))
IsEqual == Got(1) = Got(2)

Testing(s) ==
  /\ step = s /\ loaded # 0
  /\ loaded' = 0 /\ word' = NoWord
  /\ UNCHANGED <<was_resolving, failed_votes, unresolvable_events, scrubbing, voting, winner,
                 reply, kept, disturbed, failing, strikes>>

(* The next copy of the loop over i, and the refusal after the last.       *)
NextCandidate ==
  /\ step' = IF cand < 2 THEN "candidate" ELSE "refuse"
  /\ cand' = IF cand < 2 THEN cand + 1 ELSE 0
  /\ other' = 0 /\ agreeing' = 0

(* The next copy of the loop over j # i, and the count after the last.     *)
NextPeer(count) ==
  LET next == IF other + 1 = cand THEN other + 2 ELSE other + 1 IN
  \/ /\ next <= 2
     /\ step' = "peer" /\ other' = next /\ agreeing' = count /\ cand' = cand
  \/ /\ next > 2 /\ count >= 2
     /\ step' = "winner" /\ other' = 0 /\ agreeing' = 0 /\ cand' = cand
  \/ next > 2 /\ count < 2 /\ NextCandidate

TestCandidate ==
  /\ Testing("candidate")
  /\ \/ /\ IsIntact
        /\ step' = "peer" /\ other' = (IF cand = 0 THEN 1 ELSE 0) /\ agreeing' = 1
        /\ cand' = cand
     \/ ~IsIntact /\ NextCandidate
  /\ UNCHANGED <<copies, repairs, struck>>

TestPeer ==
  /\ Testing("peer")
  /\ \/ IsIntact /\ step' = "compare" /\ UNCHANGED <<cand, other, agreeing>>
     \/ ~IsIntact /\ NextPeer(agreeing)
  /\ UNCHANGED <<copies, repairs, struck>>

TestAgreement ==
  /\ Testing("compare")
  /\ \/ IsEqual /\ NextPeer(agreeing + 1)
     \/ ~IsEqual /\ NextPeer(agreeing)
  /\ UNCHANGED <<copies, repairs, struck>>

(* The winner is loaded again: from here on it is what the item holds.     *)
LoadWinner ==
  /\ step = "winner"
  /\ winner' = copies[voting][cand].value
  /\ kept' = [kept EXCEPT ![voting] = winner']
  /\ disturbed' = FALSE
  /\ step' = "survey" /\ cand' = 0 /\ other' = 0
  /\ UNCHANGED <<copies, was_resolving, counters, scrubbing, voting, agreeing, loaded, word,
                 reply, failing, struck, strikes>>

(* The next copy to survey, and the answer after the last.                 *)
NextSurvey ==
  /\ step' = IF other < 2 THEN "survey" ELSE "answer"
  /\ other' = IF other < 2 THEN other + 1 ELSE 0
  /\ UNCHANGED <<cand, agreeing>>

(* A mistake to tell apart: a repair that is counted and not made.         *)
RewriteNothing ==
  /\ copies' = copies
  /\ struck' = [struck EXCEPT ![voting] = @ \ {other}]
  /\ repairs' = repairs + 1
  /\ NextSurvey

Rewrite ==
  /\ copies' = [copies EXCEPT ![voting][other] = written(winner)[other]]
  /\ struck' = [struck EXCEPT ![voting] = @ \ {other}]
  /\ repairs' = repairs + 1
  /\ NextSurvey

TestSurvey ==
  /\ Testing("survey")
  /\ \/ /\ IsIntact
        /\ step' = "dissent"
        /\ UNCHANGED <<copies, repairs, struck, cand, other, agreeing>>
     \/ ~IsIntact /\ Rewrite

(* An intact copy may still hold another value than the winner.            *)
LoadDissent ==
  /\ step = "dissent"
  /\ \/ copies[voting][other].value # winner /\ Rewrite
     \/ /\ copies[voting][other].value = winner
        /\ NextSurvey
        /\ UNCHANGED <<copies, repairs, struck>>
  /\ UNCHANGED <<was_resolving, failed_votes, unresolvable_events, scrubbing, voting, winner,
                 loaded, word, reply, kept, disturbed, failing, strikes>>

(* The scrub goes on to the next registered item when a vote returns.      *)
Return ==
  /\ Idle
  /\ scrubbing' = IF scrubbing \in {0, N} THEN 0 ELSE scrubbing + 1
  /\ disturbed' = FALSE
  /\ UNCHANGED <<copies, repairs, kept, struck, strikes>>

(* Every copy has been surveyed: the vote resolves.                        *)
Resolve ==
  /\ step = "answer"
  /\ was_resolving' = [was_resolving EXCEPT ![item_index(voting)] = TRUE]
  /\ reply' = [item |-> voting, status |-> "OK", value |-> winner]
  /\ failing' = failing \ {voting}
  /\ UNCHANGED <<failed_votes, unresolvable_events>>
  /\ Return

(* A mistake to tell apart: an event for every passage.                    *)
RefuseCountingAll ==
  /\ step = "refuse"
  /\ failed_votes' = failed_votes + 1
  /\ unresolvable_events' = unresolvable_events + 1
  /\ was_resolving' = [was_resolving EXCEPT ![item_index(voting)] = FALSE]
  /\ reply' = [item |-> voting, status |-> "UNSTABLE", value |-> NoWord]
  /\ failing' = failing \cup {voting}
  /\ Return

(* No majority: counted, and counted as an event on the transition only.   *)
Refuse ==
  /\ step = "refuse"
  /\ failed_votes' = failed_votes + 1
  /\ unresolvable_events' =
       unresolvable_events + (IF was_resolving[item_index(voting)] THEN 1 ELSE 0)
  /\ was_resolving' = [was_resolving EXCEPT ![item_index(voting)] = FALSE]
  /\ reply' = [item |-> voting, status |-> "UNSTABLE", value |-> NoWord]
  /\ failing' = failing \cup {voting}
  /\ Return

vote ==
  \/ LoadFirst
  \/ TestCandidate \/ TestPeer \/ TestAgreement
  \/ LoadWinner
  \/ TestSurvey \/ LoadDissent
  \/ Resolve \/ Refuse

VoteBegins(i) ==
  /\ voting = 0
  /\ voting' = i /\ step' = "candidate"
  /\ reply' = [item |-> i, status |-> "none", value |-> NoWord]
  /\ UNCHANGED <<copies, was_resolving, counters, locals, history>>

(* Bound: room for one vote of every item.                                 *)
VotesLeft == failed_votes + N <= MaxFailedVotes

obc_critical_get(i) == scrubbing = 0 /\ VotesLeft /\ VoteBegins(i) /\ UNCHANGED scrubbing

(* obc_critical_scrub votes each registered item in turn.                  *)
ScrubBegins ==
  /\ scrubbing = 0 /\ voting = 0 /\ VotesLeft
  /\ scrubbing' = 1
  /\ UNCHANGED <<copies, was_resolving, counters, voting, step, locals, reply, history>>

ScrubVotes == scrubbing # 0 /\ VoteBegins(scrubbing) /\ UNCHANGED scrubbing

-----------------------------------------------------------------------------
(* Corruption, between any two loads.                                      *)

(* The copies a vote that has its winner has not finished surveying: it    *)
(* will compare them with the winner, whatever they hold.                  *)
Awaiting(i) ==
  IF voting = i /\ step \in {"survey", "dissent"} THEN other .. 2 ELSE {}

copy_is_intact(i, c) ==
  copies[i][c].sum = checksum_of(copies[i][c].value, Seed(c))

(* A copy that is intact and wrong.                                        *)
Forged(i) ==
  {c \in Copies \ Awaiting(i) : copy_is_intact(i, c) /\ copies[i][c].value # kept[i]}

(* The words of copies S of item i are overwritten.                        *)
Hit(i, S, new) ==
  /\ copies' = [copies EXCEPT ![i] = [c \in Copies |-> IF c \in S THEN new[c] ELSE @[c]]]
  /\ struck' = [struck EXCEPT ![i] = @ \cup S]
  /\ disturbed' = (disturbed \/ (voting = i /\ winner = NoWord))
  /\ strikes' = strikes + 1
  /\ UNCHANGED <<was_resolving, counters, scrubbing, voting, step, locals, reply, kept,
                 failing>>

(* Single-event upset of one word: the copy fails its checksum, unless the *)
(* upset undoes an earlier one.                                            *)
Upset(i, c) ==
  \/ \E v \in Values :
       /\ v # copies[i][c].value
       /\ copies[i][c].sum = checksum_of(v, Seed(c)) => v = kept[i] \/ c \in Awaiting(i)
       /\ Hit(i, {c}, [d \in {c} |-> [value |-> v, sum |-> copies[i][c].sum]])
  \/ /\ copies[i][c].sum # Junk
     /\ Hit(i, {c}, [d \in {c} |-> [value |-> copies[i][c].value, sum |-> Junk]])

(* A burst, a stuck DMA, a wild pointer: one pattern, any two words, over  *)
(* one or several copies.  No second one before the first is repaired.     *)
Burst(i, S) ==
  /\ Forged(i) = {}
  /\ \E pattern \in Patterns : Hit(i, S, [d \in S |-> pattern])

Corruption ==
  /\ strikes < MaxStrikes
  /\ \E i \in Items : \/ \E c \in Copies : Upset(i, c)
                      \/ \E S \in SUBSET Copies \ {{}} : Burst(i, S)

Calls ==
  \/ \E i \in Items : obc_critical_get(i) \/ \E v \in Values : obc_critical_set(i, v)
  \/ ScrubBegins
  \/ ScrubVotes

Next == Calls \/ vote \/ Corruption

Spec == Init /\ [][Next]_vars

-----------------------------------------------------------------------------
Steps == {"idle", "candidate", "peer", "compare", "winner", "survey", "dissent",
          "answer", "refuse"}
Words == Sums \cup Values

TypeOK ==
  /\ copies \in [Items -> [Copies -> Copy]]
  /\ was_resolving \in [1 .. MaxItems -> BOOLEAN]
  /\ repairs \in Nat /\ failed_votes \in Nat /\ unresolvable_events \in Nat
  /\ scrubbing \in 0 .. N /\ voting \in 0 .. N /\ step \in Steps
  /\ cand \in Copies /\ other \in Copies /\ agreeing \in Nat
  /\ winner \in Values \cup {NoWord}
  /\ loaded \in 0 .. 2 /\ word \in Words \cup {NoWord}
  /\ reply \in [item : Items, status : {"none", "OK", "UNSTABLE"}, value : Values \cup {NoWord}]
  /\ kept \in [Items -> Values] /\ disturbed \in BOOLEAN
  /\ failing \in SUBSET Items
  /\ struck \in [Items -> SUBSET Copies]
  /\ strikes \in Nat

(* The voter is a register: an answer it gives is the last value set and   *)
(* never another one, whatever is corrupted between two votes.  Only a     *)
(* corruption inside a vote, before the winner is loaded, can make it take *)
(* another value, once; every later answer is then that value.             *)
Register == INSTANCE VotedRegister WITH value <- kept, reading <- voting
NeverAnswersFalse == Register!Spec

(* One copy hit is never enough to make a vote fail, whenever it is hit:   *)
(* a vote refuses only if two copies were hit since each was written or    *)
(* surveyed.  Holds because every vote repairs.                            *)
OneStrikeIsMasked ==
  [][failed_votes' # failed_votes => Cardinality(struck[voting]) >= 2]_vars

(* unresolvable_events counts events, not passages: however often a broken *)
(* item is read, there are never more events than there were corruptions.  *)
EventsNeedCorruption == unresolvable_events <= strikes

(* Two items in different states must not mask each other: an item whose   *)
(* votes fail has been counted as an event of its own.                     *)
NoItemMasksAnother == Cardinality(failing) <= unresolvable_events
=============================================================================

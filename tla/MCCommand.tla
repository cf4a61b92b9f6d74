----------------------------- MODULE MCCommand -----------------------------
(* What the ground sends to the model checker's instance of Command.       *)
EXTENDS Command

Sent(op, arg, when, counters) ==
  [call : {[op |-> op, arg |-> arg]}, when : {when}, counter : counters, flaw : {"NONE"}]

(* Commands for the next frame and for the middle of frame 1, arms that    *)
(* name the critical command and another one, and one frame out of range.  *)
(* The last counter is not spent on an arm, nor the first on what needs    *)
(* one.                                                                    *)
MCGroundFrames ==
  Sent("ping", "none", 0, 1 .. 3) \cup Sent("ping", "none", 3, 1 .. 3)
    \cup Sent("safe", "none", 0, 2 .. 3) \cup Sent("safe", "none", 3, 2 .. 3)
    \cup Sent("arm", "safe", 0, 1 .. 2) \cup Sent("arm", "safe", 3, 1 .. 2)
    \cup Sent("arm", "ping", 0, 1 .. 2)
    \cup {[call |-> [op |-> "ping", arg |-> "none"], when |-> 0, counter |-> 1,
           flaw |-> "ARG"]}
=============================================================================

------------------------------ MODULE TlmCheck ------------------------------
(***************************************************************************)
(* The ground's side of the downlink: harness/runner/tlm_decode.py finds   *)
(* the frames in a capture, tlm_check.py judges their sequence numbers.    *)
(*                                                                         *)
(* A byte is the number of the frame it belongs to and its position there. *)
(* The first byte is the sync word; the sum comes out right for the bytes  *)
(* of one frame, all of them and in order, and for nothing else.           *)
(***************************************************************************)
EXTENDS Integers, Sequences, FiniteSetsExt

CONSTANT FrameLen     (* OBC_TLM_FRAME_LEN                                 *)

ASSUME FrameLenAssumption == FrameLen \in Nat \ {0}

FrameBytes(n) == [k \in 1 .. FrameLen |-> [of |-> n, part |-> k]]

SumIsRight(raw) == raw = FrameBytes(raw[1].of)

(* A mistake to tell apart: a match of the sync word is taken for a        *)
(* boundary, so a torn frame takes the head of the next one with it.       *)
find_frames_by_boundary(stream) ==
  LET Candidates(i) ==
        {at \in i .. Len(stream) - FrameLen + 1 : stream[at].part = 1}
      Scan[i \in 1 .. Len(stream) + 1] ==
        IF Candidates(i) = {} THEN <<>>
        ELSE LET at == Min(Candidates(i))
                 raw == SubSeq(stream, at, at + FrameLen - 1)
             IN (IF SumIsRight(raw) THEN <<raw[1].of>> ELSE <<>>) \o Scan[at + FrameLen]
  IN Scan[1]

(* The numbers of the frames found: a sync word is a candidate; when the   *)
(* sum fails the search goes on one byte further.                          *)
find_frames(stream) ==
  LET Candidates(i) ==
        {at \in i .. Len(stream) - FrameLen + 1 : stream[at].part = 1}
      Scan[i \in 1 .. Len(stream) + 1] ==
        IF Candidates(i) = {} THEN <<>>
        ELSE LET at == Min(Candidates(i))
                 raw == SubSeq(stream, at, at + FrameLen - 1)
             IN IF SumIsRight(raw) THEN <<raw[1].of>> \o Scan[at + FrameLen]
                ELSE Scan[at + 1]
  IN Scan[1]

(* A mistake to tell apart: any shed frame excuses any gap.                *)
FollowsLoosely(before, after) ==
  \/ after.seq = before.seq + 1
  \/ after.seq = 0
  \/ after.seq > before.seq + 1 /\ after.drops > before.drops

(* What may follow a frame: the next number, zero after a subsystem reset, *)
(* or a gap the drop counter rose by exactly.                              *)
Follows(before, after) ==
  \/ after.seq = before.seq + 1
  \/ after.seq = 0
  \/ LET gap == after.seq - before.seq - 1
     IN  gap > 0 /\ after.drops - before.drops = gap

check_sequence(frames) ==
  \A k \in 1 .. Len(frames) - 1 : Follows(frames[k], frames[k + 1])

(* What the host sees of a sensor in a frame: its flags and its value.     *)
check_both_directions(reading, low_to_high, substitute) ==
  /\ reading.flags # {} => reading.value = substitute
  /\ reading.flags = {} => reading.value \in low_to_high

(* check_honest needs one such frame; check_out_of_range and check_stuck   *)
(* need one that is not.                                                   *)
IsClean(reading) == reading.flags = {}
=============================================================================

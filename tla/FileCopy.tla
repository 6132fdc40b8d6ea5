------------------------------ MODULE FileCopy ------------------------------
(***************************************************************************)
(* What a file transfer promises its user, whatever the blocks, buffers    *)
(* and segments: the destination is what it was, or is emptied and then    *)
(* only ever extended by bytes that are further on in the source, without  *)
(* a gap unless the disk is full; once a verdict is given nothing is       *)
(* added; and when nothing fails "received" is said of a whole file only.  *)
(* If the source cannot be read beyond some byte, what was read of it may  *)
(* be followed by a bounded number of bytes that are not of the source.    *)
(* Bytes are named by their offset in the source, or in what follows the   *)
(* part of it that could be read; 0 is a byte of the old destination.      *)
(***************************************************************************)
EXTENDS Integers, Sequences

CONSTANTS Sizes,
          Stack   \* how many bytes that are not of the source may follow

VARIABLES calm,   \* nothing fails
          full,   \* the destination's disk may be full
          size,   \* of the source
          lost,   \* the source cannot be read on
          end,    \* bytes of the source that can be read
          dst,    \* the destination
          claim   \* what the receiving program has said of it

env  == <<calm, full, size>>
vars == <<env, lost, end, dst, claim>>

Init ==
  /\ calm \in BOOLEAN /\ full \in BOOLEAN /\ size \in Sizes
  /\ lost = FALSE /\ end = size
  /\ dst \in {<<>>, <<0>>} /\ claim = "nothing"

Empty == dst = <<0>> /\ dst' = <<>> /\ UNCHANGED <<env, lost, end, claim>>

\* Nothing beyond end' has been copied.
Lose ==
  /\ ~calm /\ ~lost /\ lost' = TRUE
  /\ end' \in 0..size /\ \A i \in 1..Len(dst) : dst[i] =< end'
  /\ UNCHANGED <<env, dst, claim>>

Limit == IF lost THEN end + Stack ELSE end

\* The bytes from up to to are appended.
Extend == \E from, to \in 0..Limit :
  /\ claim = "nothing" /\ from =< to
  /\ \A i \in 1..Len(dst) : dst[i] \in 1..from
  /\ from = Len(dst) \/ full
  /\ dst' = dst \o [i \in 1..(to - from) |-> from + i]
  /\ claim' = "nothing" \/ (claim' = "done" /\ (calm => to = size))
  /\ UNCHANGED <<env, lost, end>>

Fail == claim = "nothing" /\ claim' = "failed" /\ UNCHANGED <<env, lost, end, dst>>

Next == Empty \/ Lose \/ Extend \/ Fail

Spec == Init /\ [][Next]_vars
=============================================================================

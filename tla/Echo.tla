-------------------------------- MODULE Echo --------------------------------
(***************************************************************************)
(* What the message of the cw device promises: it only ever starts afresh  *)
(* or grows at its end, and it fits in the buffer.                         *)
(***************************************************************************)
EXTENDS Integers, Sequences

CONSTANTS Bytes, Limit

VARIABLE text

Init == text = <<>>

Clear == text' = <<>>

Extend ==
  \E k \in 1..Limit : \E s \in [1..k -> Bytes] :
    Len(text) + k <= Limit /\ text' = text \o s

Next == Clear \/ Extend

Spec == Init /\ [][Next]_text
==============================================================================

------------------------------ MODULE RowStream ------------------------------
(***************************************************************************)
(* What a streaming reader of rows promises (draft section 3.4.4): the     *)
(* rows of a dataset one at a time and in source order, the end of the     *)
(* sequence only after the last of them and only if the document is sound, *)
(* and nothing more once it has given up.  After the end another dataset   *)
(* may follow in the same document.                                        *)
(***************************************************************************)
EXTENDS Naturals, Sequences

VARIABLES
  rows,    \* the rows of the dataset being read
  sound,   \* nothing after those rows is malformed
  given,   \* the rows handed out so far
  status   \* "closed", "open", "ended" or "broken"

vars == <<rows, sound, given, status>>

Init == status = "closed" /\ rows = <<>> /\ sound = FALSE /\ given = <<>>

Open ==
  /\ status = "closed" /\ status' = "open"
  /\ rows' \in Seq([from : Nat, to : Nat]) /\ sound' \in BOOLEAN
  /\ given' = <<>>

Give ==
  /\ status = "open"
  /\ Len(given) < Len(rows)
  /\ given' = Append(given, rows[Len(given) + 1])
  /\ UNCHANGED <<rows, sound, status>>

End ==
  /\ status = "open" /\ status' = "ended"
  /\ given = rows /\ sound
  /\ UNCHANGED <<rows, sound, given>>

Break ==
  /\ status = "open" /\ status' = "broken"
  /\ UNCHANGED <<rows, sound, given>>

Close ==
  /\ status = "ended" /\ status' = "closed"
  /\ rows' = <<>> /\ sound' = FALSE /\ given' = <<>>

Next == Open \/ Give \/ End \/ Break \/ Close

Spec == Init /\ [][Next]_vars
=============================================================================

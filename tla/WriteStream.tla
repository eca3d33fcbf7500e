----------------------------- MODULE WriteStream -----------------------------
(***************************************************************************)
(* What a buffered writer promises, with no buffer in sight: a stream of   *)
(* bytes is accepted from the client and delivered to the destination.     *)
(* Nothing accepted is reordered, changed or taken back; a stream that has *)
(* ended was delivered completely.  A stream may fail; then only what was  *)
(* delivered still counts, and it remains what it was.                     *)
(***************************************************************************)
EXTENDS Naturals, Sequences, SequencesExt

VARIABLES
  content,    (* the bytes accepted so far                                 *)
  delivered,  (* how many of them reached the destination                  *)
  status      (* "open", "ended" or "failed"                               *)

vars == <<content, delivered, status>>

Init ==
  /\ content = <<>>
  /\ delivered = 0
  /\ status = "open"

(* The content grows, and with it the part that is delivered.              *)
Grow ==
  /\ IsPrefix(content, content')
  /\ delivered' \in delivered .. Len(content')

Proceed ==
  /\ status = "open" /\ status' = "open"
  /\ Grow

End ==
  /\ status = "open" /\ status' = "ended"
  /\ Grow
  /\ delivered' = Len(content')

Fail ==
  /\ status' = "failed"
  /\ IsPrefix(SubSeq(content, 1, delivered), content')
  /\ delivered' = Len(content')

Next == Proceed \/ End \/ Fail

Spec == Init /\ [][Next]_vars
=============================================================================

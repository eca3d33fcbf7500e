----------------------------- MODULE ReadStream -----------------------------
(***************************************************************************)
(* What a buffered reader promises, with no buffer in sight: the client    *)
(* receives the bytes of a source one after the other, passing over some   *)
(* of them unseen, until the source or the limit of the client is reached. *)
(* A stream that was broken off delivers nothing more.                     *)
(*                                                                         *)
(* Byte number i of the source is the number i; a byte that was passed     *)
(* over is a 0 in what the client received.                                *)
(***************************************************************************)
EXTENDS Naturals, Sequences

CONSTANT Unlimited   \* the value of bound while there is no limit

VARIABLES
  received,   (* what the client received or passed over                   *)
  total,      (* number of bytes the source holds                          *)
  bound,      (* the limit of the client, or Unlimited                     *)
  status      (* "open", "ended" or "broken"                               *)

vars == <<received, total, bound, status>>

Init ==
  /\ received = <<>>
  /\ total \in Nat
  /\ bound = Unlimited
  /\ status = "open"

(* The stream goes on to byte n: seen, or passed over.                     *)
Continue(n) ==
  /\ Len(received') = n /\ n >= Len(received)
  /\ \A i \in 1 .. n :
       received'[i] \in IF i <= Len(received) THEN {received[i]} ELSE {0, i}

Deliver ==
  /\ status = "open" /\ status' = "open"
  /\ \E n \in Len(received) .. total :
       /\ bound # Unlimited => n <= bound
       /\ Continue(n)
  /\ UNCHANGED <<total, bound>>

(* The client limits the stream, to more than it received: a limit at that *)
(* very place breaks it off.                                               *)
Limit ==
  /\ status = "open" /\ status' = "open"
  /\ bound' \in Nat /\ bound' > Len(received)
  /\ UNCHANGED <<received, total>>

(* The stream ends at the end of the source or at the limit, not before.   *)
End ==
  /\ status = "open" /\ status' = "ended"
  /\ Len(received) \in {total, bound}
  /\ bound' = Unlimited
  /\ UNCHANGED <<received, total>>

(* It breaks off, at most while it delivers its last bytes.                *)
Break ==
  /\ status # "broken" /\ status' = "broken"
  /\ \E n \in Len(received) .. total : Continue(n)
  /\ bound' = Unlimited
  /\ UNCHANGED total

Next == Deliver \/ Limit \/ End \/ Break

Spec == Init /\ [][Next]_vars
=============================================================================

------------------------------ MODULE RttiBytes ------------------------------
(***************************************************************************)
(* The functions of tiny.rtti.c that copy values without references byte   *)
(* by byte: the ones that call TinyMove, those that copy in pieces of      *)
(* falling size, those of a fixed size, the homogeneous floating-point     *)
(* aggregates kept in every other word of a register dump, short strings   *)
(* with their length in the first byte; and init_data, which clears.       *)
(* A value is copied to another one, or to itself: values do not overlap.  *)
(***************************************************************************)
EXTENDS TinyMove

CONSTANTS
    Null,       \* a byte that is 0
    Capped      \* a length byte that is less than the source's

(* A call has, beyond source, target and count, the function it is made to *)
(* and, for a short string of count characters, the longest that fits.     *)
MemCopies == {"TinyMove", "copy_staticarray", "copy_structure"}
PieceCopies == {"copy_metatype_bytes", "copy_data", "copy_shortstring"}
HfaCopies == {"copy_hfaread", "copy_hfawrite"}

Least(a, b) == IF a < b THEN a ELSE b

(* Bytes of the short string that is copied, its length byte included.     *)
StringBytes(c) == Least(c.count, c.cap) + 1

(* Bytes the functions that copy in pieces are to copy.                    *)
ValueBytes(c) == IF c.proc = "copy_shortstring" THEN StringBytes(c) ELSE c.count

(* Source and target lie in memory and do not overlap.                     *)
Apart(c, from, to) ==
    /\ Area(c.source, from) \subseteq Address /\ Area(c.target, to) \subseteq Address
    /\ c.source + from <= c.target \/ c.target + to <= c.source

ASSUME ValuesAssumption ==
    \A c \in Calls :
        /\ c.proc = "copy_shortstring" => c.cap \in Nat
        /\ c.proc \in PieceCopies =>
             \/ Apart(c, ValueBytes(c), ValueBytes(c))
             \/ c.source = c.target /\ Area(c.target, ValueBytes(c)) \subseteq Address
        /\ c.proc = "copy_hfaread" => Apart(c, 8 * c.count, 4 * c.count)
        /\ c.proc = "copy_hfawrite" => Apart(c, 4 * c.count, 8 * c.count)

-----------------------------------------------------------------------------
(* The pieces.                                                             *)

PieceSize(n) ==
    IF n >= 16 THEN 16
    ELSE IF n >= 8 THEN 8 ELSE IF n >= 4 THEN 4 ELSE IF n >= 2 THEN 2 ELSE 1

StartPieces(n) ==
    /\ pc = "start"
    /\ pc' = "pieces"
    /\ count' = n
    /\ UNCHANGED <<asked, memory, dir, s, t, blocks>>

(* One piece of k bytes; nothing left: the next step.                      *)
CopyPiece(k, next) ==
    /\ pc = "pieces"
    /\ \/ /\ count > 0
          /\ Copy(Piece(0, k))
          /\ s' = s + k /\ t' = t + k /\ count' = count - k
          /\ UNCHANGED pc
       \/ /\ count = 0
          /\ pc' = next
          /\ UNCHANGED <<memory, s, t, count>>
    /\ UNCHANGED <<asked, dir, blocks>>

copy_metatype_bytes ==
    /\ asked.proc = "copy_metatype_bytes"
    /\ StartPieces(ValueBytes(asked)) \/ CopyPiece(PieceSize(count), "copied")

(* copy_data1 .. copy_data64: structures of 32 bytes and a rest.           *)
copy_data ==
    /\ asked.proc = "copy_data"
    /\ StartPieces(ValueBytes(asked)) \/ CopyPiece(Least(32, count), "copied")

-----------------------------------------------------------------------------
(* Short strings.                                                          *)

StoredTarget_Moved == t

(* Where the code stores the length: past the 16-byte pieces, less one of  *)
(* them if there is an odd number.                                         *)
StoredTarget ==
    LET pieces == StringBytes(asked) \div 16
    IN  asked.target + 16 * (pieces - (pieces % 2))

StoreLength ==
    /\ pc = "length"
    /\ memory' = [memory EXCEPT ![StoredTarget] =
                    IF asked.count <= asked.cap THEN asked.source ELSE Capped]
    /\ pc' = "copied"
    /\ UNCHANGED <<asked, dir, s, t, count, blocks>>

copy_shortstring ==
    /\ asked.proc = "copy_shortstring"
    /\ \/ StartPieces(ValueBytes(asked))
       \/ CopyPiece(PieceSize(count), "length")
       \/ StoreLength

-----------------------------------------------------------------------------
(* Homogeneous aggregates of 2 to 4 singles: read from and write to every  *)
(* other word.                                                             *)

Spread(o) == 8 * (o \div 4) + (o % 4)

copy_hfaread ==
    /\ asked.proc = "copy_hfaread"
    /\ pc = "start"
    /\ memory' = [a \in Address |-> IF a - t \in 0 .. 4 * count - 1
                                    THEN memory[s + Spread(a - t)] ELSE memory[a]]
    /\ pc' = "copied"
    /\ UNCHANGED <<asked, dir, s, t, count, blocks>>

copy_hfawrite ==
    /\ asked.proc = "copy_hfawrite"
    /\ pc = "start"
    /\ memory' = [a \in Address |->
                    IF \E o \in 0 .. 4 * count - 1 : a = t + Spread(o)
                    THEN memory[s + 4 * ((a - t) \div 8) + ((a - t) % 8)] ELSE memory[a]]
    /\ pc' = "copied"
    /\ UNCHANGED <<asked, dir, s, t, count, blocks>>

(* init_data1 .. init_data32                                               *)
init_data ==
    /\ asked.proc = "init_data"
    /\ pc = "start"
    /\ memory' = [a \in Address |-> IF a \in Area(t, count) THEN Null ELSE memory[a]]
    /\ pc' = "copied"
    /\ UNCHANGED <<asked, dir, s, t, count, blocks>>

-----------------------------------------------------------------------------

(* After the copy the program does something else.                         *)
Copied == pc = "copied" /\ UNCHANGED vars

RttiNext ==
    \/ asked.proc \in MemCopies /\ Next
    \/ copy_metatype_bytes \/ copy_data \/ copy_shortstring
    \/ copy_hfaread \/ copy_hfawrite
    \/ init_data
    \/ Copied

RttiSpec == Init /\ [][RttiNext]_vars /\ WF_vars(RttiNext)

-----------------------------------------------------------------------------
(* Properties.                                                             *)

(* A copied short string has the length of the source, or the longest that *)
(* fits, and that many of its characters; what it does not use of its      *)
(* value may be anything, what is beside the value stays.                  *)
ShortStringCopied ==
    /\ \A i \in 0 .. StringBytes(asked) - 1 :
          memory[asked.target + i] =
              IF i = 0 /\ asked.count > asked.cap THEN Capped ELSE asked.source + i
    /\ \A a \in Address \ Area(asked.target, asked.cap + 1) : memory[a] = a

(* A copied value has the bytes of the source, in the order the function   *)
(* is for, a short string its length and characters; beside a value copied *)
(* in pieces nothing is written.  (What TinyMove moves for the others is   *)
(* what MovesBytes is about.)                                              *)
ValuesCopied ==
    pc = "copied" =>
        CASE asked.proc \in {"copy_metatype_bytes", "copy_data"} -> memory = Moved
          [] asked.proc = "copy_shortstring" -> ShortStringCopied
          [] asked.proc = "copy_hfaread" ->
               \A i \in 0 .. asked.count - 1, o \in 0 .. 3 :
                   memory[asked.target + 4 * i + o] = asked.source + 8 * i + o
          [] asked.proc = "copy_hfawrite" ->
               \A i \in 0 .. asked.count - 1, o \in 0 .. 3 :
                   memory[asked.target + 8 * i + o] = asked.source + 4 * i + o
          [] OTHER -> TRUE

(* Every call returns: what is left to be moved falls to nothing.          *)
Returns == <>(pc \in {"done", "copied"})

=============================================================================

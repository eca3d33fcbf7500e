----------------------------- MODULE RttiProofs -----------------------------
(***************************************************************************)
(* How values move in the C code.                                          *)
(*                                                                         *)
(* TinyMove, for every memory and every set of calls: the routine stays    *)
(* inside of its two areas and leaves in the target what the source held,  *)
(* however far they overlap.  The functions of RTTI that copy values       *)
(* without references: the value arrives.                                  *)
(*                                                                         *)
(* Those that copy and finalize managed values, for any objects, fields    *)
(* and variables: every reference is counted and no variable refers to an  *)
(* object that is gone, whatever destructors do in between.                *)
(***************************************************************************)
EXTENDS RttiBytes, RttiValues, FiniteSetTheorems, SequenceTheorems, TLAPS

(* How far the target lies behind the source.                              *)
Shift == asked.target - asked.source

(* The blocks of the run at hand that the pointers have already passed.    *)
Left == IF pc = "block" THEN blocks ELSE 0

(* The part of the target that holds its bytes.                            *)
DoneArea ==
    CASE pc \in {"start", "small"} -> {}
      [] pc = "done" -> Area(asked.target, asked.count)
      [] OTHER -> IF dir = "forward"
                  THEN asked.target .. (t - 16 * Left - 1)
                  ELSE (t + 16 * Left) .. (asked.target + asked.count - 1)

(* Before a large move the pointers are the arguments; during one they are *)
(* count bytes from the end they run to, and the direction fits the        *)
(* overlap: what is still to be read lies on the side not yet written.     *)
Pointers ==
    /\ pc \in {"start", "small"} =>
         s = asked.source /\ t = asked.target /\ count = asked.count
    /\ pc \in {"run", "block", "tail"} =>
         /\ count + 16 * Left <= asked.count
         /\ s = t - Shift
         /\ dir = "forward" =>
              /\ t = asked.target + asked.count - count
              /\ Shift < 0 \/ asked.count <= Shift
         /\ dir = "backward" =>
              /\ t = asked.target + count
              /\ 0 < Shift

(* What is left at each place: a run is entered with more than 32 bytes,   *)
(* the tail with 17 to 32.                                                 *)
Counts ==
    /\ pc = "small" => count <= 64
    /\ pc = "run" => count > 32
    /\ pc = "block" => count >= 17
    /\ pc = "tail" => count \in 17 .. 32

(* The target has its bytes as far as the move is done, and the rest of    *)
(* memory is as it was.                                                    *)
Bytes == \A a \in Address : memory[a] = IF a \in DoneArea THEN a - Shift ELSE a

Inv == TypeOK /\ Pointers /\ Counts /\ Bytes

-----------------------------------------------------------------------------
(* The pieces of a small move, table entry by table entry, are the whole.  *)
LEMMA SmallWhole ==
    ASSUME NEW n \in Nat, n <= 64
    PROVE  SmallOffsets(n) = 0 .. (n - 1)
<1>1. CASE n = 0
  <2>1. SmallOffsets(n) = {} BY <1>1 DEF SmallOffsets
  <2> QED BY <1>1, <2>1
<1>2. CASE n \in {1, 2, 4, 8, 16}
  <2>1. SmallOffsets(n) = Piece(0, n) BY <1>2 DEF SmallOffsets
  <2> QED BY <2>1 DEF Piece
<1>3. CASE n = 3
  <2>1. SmallOffsets(n) = Piece(0, 2) \cup Piece(2, 1) BY <1>3 DEF SmallOffsets
  <2>2. \A o : o \in SmallOffsets(n) <=> o \in 0 .. (n - 1) BY <1>3, <2>1 DEF Piece
  <2> QED BY <2>2
<1>4. CASE n \in 5 .. 7
  <2>1. SmallOffsets(n) = Piece(0, 4) \cup Piece(n - 4, 4) BY <1>4 DEF SmallOffsets
  <2>2. \A o : o \in SmallOffsets(n) <=> o \in 0 .. (n - 1) BY <1>4, <2>1 DEF Piece
  <2> QED BY <2>2
<1>5. CASE n \in 9 .. 12
  <2>1. SmallOffsets(n) = Piece(0, 8) \cup Piece(n - 4, 4) BY <1>5 DEF SmallOffsets
  <2>2. \A o : o \in SmallOffsets(n) <=> o \in 0 .. (n - 1) BY <1>5, <2>1 DEF Piece
  <2> QED BY <2>2
<1>6. CASE n \in 13 .. 15
  <2>1. SmallOffsets(n) = Piece(0, 8) \cup Piece(n - 8, 8) BY <1>6 DEF SmallOffsets
  <2>2. \A o : o \in SmallOffsets(n) <=> o \in 0 .. (n - 1) BY <1>6, <2>1 DEF Piece
  <2> QED BY <2>2
<1>7. CASE n \in 17 .. 32
  <2>1. SmallOffsets(n) = Piece(0, 16) \cup Piece(n - 16, 16) BY <1>7 DEF SmallOffsets
  <2>2. \A o : o \in SmallOffsets(n) <=> o \in 0 .. (n - 1) BY <1>7, <2>1 DEF Piece
  <2> QED BY <2>2
<1>8. CASE n \in 33 .. 48
  <2>1. SmallOffsets(n) = Piece(0, 16) \cup Piece(16, 16) \cup Piece(n - 16, 16)
    BY <1>8 DEF SmallOffsets
  <2>2. \A o : o \in SmallOffsets(n) <=> o \in 0 .. (n - 1) BY <1>8, <2>1 DEF Piece
  <2> QED BY <2>2
<1>9. CASE n \in 49 .. 64
  <2>1. SmallOffsets(n) = Piece(0, 16) \cup Piece(16, 16) \cup Piece(32, 16)
                          \cup Piece(n - 16, 16)
    BY <1>9 DEF SmallOffsets
  <2>2. \A o : o \in SmallOffsets(n) <=> o \in 0 .. (n - 1) BY <1>9, <2>1 DEF Piece
  <2> QED BY <2>2
<1> QED BY <1>1, <1>2, <1>3, <1>4, <1>5, <1>6, <1>7, <1>8, <1>9

(* The place where the last run is entered leaves 17 to 32 bytes.          *)
LEMMA LastRun ==
    ASSUME NEW n \in Nat, n > 32, n < 160
    PROVE  /\ (n - 17) \div 16 \in 1 .. 8
           /\ n - 16 * ((n - 17) \div 16) \in 17 .. 32
  OBVIOUS

(* What the assumption says of the call under way.                         *)
LEMMA TheCall ==
    ASSUME asked \in Calls
    PROVE  /\ asked.source \in Int /\ asked.target \in Int /\ asked.count \in Nat
           /\ Shift \in Int
           /\ \A a \in asked.target .. (asked.target + asked.count - 1) :
                a \in Address /\ a - Shift \in Address
           /\ Address \subseteq Int
<1>1. /\ asked.source \in Int /\ asked.target \in Int /\ asked.count \in Nat
      /\ Area(asked.source, asked.count) \subseteq Address
      /\ Area(asked.target, asked.count) \subseteq Address
      /\ Address \subseteq Int
  BY CallsAssumption
<1> QED BY <1>1 DEF Area, Shift

(* Where the invariant holds, the next step stays inside.                  *)
LEMMA InvInside == Inv => StaysInside
<1> SUFFICES ASSUME Inv, NEW o \in Offsets
             PROVE  /\ s + o \in Area(asked.source, asked.count)
                    /\ t + o \in Area(asked.target, asked.count)
  BY DEF StaysInside
<1> USE DEF Inv, TypeOK
<1>0. asked.source \in Int /\ asked.target \in Int /\ asked.count \in Nat
  BY TheCall
<1>1. CASE pc = "small"
  <2>1. o \in 0 .. (count - 1) BY <1>1, SmallWhole DEF Offsets, Counts
  <2> QED BY <1>0, <1>1, <2>1 DEF Pointers, Area
<1>2. CASE pc = "block"
  BY <1>0, <1>2 DEF Offsets, BlockOffsets, Piece, Pointers, Counts, Left, Shift, Area
<1>3. CASE pc = "tail"
  BY <1>0, <1>3 DEF Offsets, TailOffsets, Piece, Pointers, Counts, Left, Shift, Area
<1>4. CASE pc \notin {"small", "block", "tail"} BY <1>4 DEF Offsets
<1> QED BY <1>1, <1>2, <1>3, <1>4

-----------------------------------------------------------------------------
LEMMA InitInv == Init => Inv
<1> SUFFICES ASSUME Init PROVE Inv OBVIOUS
<1> USE DEF Init
<1>1. asked.source \in Int /\ asked.target \in Int /\ asked.count \in Nat
  BY TheCall
<1>2. TypeOK BY <1>1 DEF TypeOK
<1>3. Pointers BY DEF Pointers
<1>4. Counts BY DEF Counts
<1>5. Bytes BY DEF Bytes, DoneArea
<1> QED BY <1>2, <1>3, <1>4, <1>5 DEF Inv

LEMMA StartInv == Inv /\ Start => Inv'
<1> SUFFICES ASSUME Inv, Start PROVE Inv' OBVIOUS
<1> USE DEF Inv, Start, TypeOK
<1>1. asked.source \in Int /\ asked.target \in Int /\ asked.count \in Nat
      /\ Address \subseteq Int
  BY TheCall
<1>2. s = asked.source /\ t = asked.target /\ count = asked.count
  BY DEF Pointers
<1>3. TypeOK' BY <1>1
<1>4. Pointers' BY <1>1, <1>2 DEF Pointers, Left, Shift
<1>5. Counts' BY <1>2 DEF Counts
<1>6. Bytes'
  <2>1. \A a \in Address : memory'[a] = a BY DEF Bytes, DoneArea
  <2>2. CASE pc' = "done"
    BY <1>1, <1>2, <2>1, <2>2 DEF Bytes, DoneArea, Shift
  <2>3. CASE pc' = "small" BY <2>1, <2>3 DEF Bytes, DoneArea
  <2>4. CASE pc' = "run"
    <3>1. DoneArea' = {} BY <1>1, <1>2, <2>4 DEF DoneArea, Left
    <3> QED BY <2>1, <3>1 DEF Bytes
  <2> QED BY <2>2, <2>3, <2>4
<1> QED BY <1>3, <1>4, <1>5, <1>6

(* A step that copies to a part of the target whose sources are not yet    *)
(* overwritten adds that part to what is done.                             *)
LEMMA CopyBytes ==
    ASSUME Inv, s = t - Shift, UNCHANGED asked,
           NEW offsets, Copy(offsets),
           \A a \in Address :
             /\ a \in DoneArea' <=> (a \in DoneArea \/ a - t \in offsets)
             /\ a - t \in offsets =>
                  /\ a \in asked.target .. (asked.target + asked.count - 1)
                  /\ a \notin DoneArea
                  /\ a - Shift \notin DoneArea
    PROVE  Bytes' /\ memory' \in [Address -> Address]
<1> USE DEF Inv, TypeOK
<1>1. /\ Shift \in Int /\ Address \subseteq Int
      /\ \A a \in asked.target .. (asked.target + asked.count - 1) :
           a \in Address /\ a - Shift \in Address
  BY TheCall
<1>2. Shift' = Shift BY DEF Shift
<1>3. ASSUME NEW a \in Address
      PROVE  /\ memory'[a] = IF a \in DoneArea' THEN a - Shift ELSE a
             /\ memory'[a] \in Address
  <2>1. a \in Int /\ t \in Int BY <1>1
  <2>2. memory'[a] = IF a - t \in offsets THEN memory[a - t + s] ELSE memory[a]
    BY DEF Copy
  <2>3. CASE a - t \in offsets
    <3>1. a - t + s = a - Shift BY <1>1, <2>1
    <3>2. a - Shift \in Address /\ a - Shift \notin DoneArea BY <1>1, <2>3, <3>1
    <3>3. memory[a - Shift] = a - Shift BY <3>2 DEF Bytes
    <3> QED BY <2>2, <2>3, <3>1, <3>2, <3>3
  <2>4. CASE a - t \notin offsets
    BY <2>2, <2>4 DEF Bytes
  <2> QED BY <2>3, <2>4
<1>4. Bytes' BY <1>2, <1>3 DEF Bytes
<1>5. memory' \in [Address -> Address] BY <1>3 DEF Copy
<1> QED BY <1>4, <1>5

LEMMA SmallInv == Inv /\ Small => Inv'
<1> SUFFICES ASSUME Inv, Small PROVE Inv' OBVIOUS
<1> USE DEF Inv, TypeOK
<1>1. /\ asked.source \in Int /\ asked.target \in Int /\ asked.count \in Nat
      /\ Shift \in Int /\ Address \subseteq Int
  BY TheCall
<1>2. /\ SmallOffsets(count) = 0 .. (count - 1) /\ s = t - Shift
      /\ asked.target .. (asked.target + asked.count - 1) = t .. (t + count - 1)
  BY SMTT(40), <1>1, SmallWhole DEF Small, Pointers, Counts, Shift
<1>3. DoneArea = {} /\ DoneArea' = t .. (t + count - 1)
  BY <1>2 DEF Small, DoneArea, Area
<1>4. Bytes' /\ memory' \in [Address -> Address]
  <2>1. Copy(0 .. (count - 1)) /\ UNCHANGED asked BY <1>2 DEF Small
  <2>2. \A a \in Address :
          /\ a \in DoneArea' <=> (a \in DoneArea \/ a - t \in 0 .. (count - 1))
          /\ a - t \in 0 .. (count - 1) =>
               /\ a \in asked.target .. (asked.target + asked.count - 1)
               /\ a \notin DoneArea
               /\ a - Shift \notin DoneArea
    BY SMTT(40), <1>1, <1>2, <1>3
  <2> QED BY <1>2, <2>1, <2>2, CopyBytes
<1>5. Pointers' /\ Counts' BY DEF Small, Pointers, Counts
<1> QED BY <1>4, <1>5 DEF Small

(* Moving the pointers past a run of n blocks changes nothing else.        *)
LEMMA EnterInv ==
    ASSUME Inv, pc = "run", NEW n \in 1 .. 8, Enter(n), count - 16 * n >= 17
    PROVE  Inv'
<1> USE DEF Inv, TypeOK, Enter
<1>1. /\ asked.source \in Int /\ asked.target \in Int /\ asked.count \in Nat
      /\ Shift \in Int /\ Shift' = Shift
  BY TheCall DEF Shift
<1>2. TypeOK' OBVIOUS
<1>3. Pointers'
  BY <1>1 DEF Pointers, Left
<1>4. Counts' BY DEF Counts
<1>5. DoneArea' = DoneArea
  <2>1. CASE dir = "forward" BY SMTT(40), <2>1 DEF DoneArea, Left
  <2>2. CASE dir = "backward" BY <2>2 DEF DoneArea, Left
  <2> QED BY <2>1, <2>2
<1>6. Bytes' BY <1>1, <1>5 DEF Bytes
<1> QED BY <1>2, <1>3, <1>4, <1>6

LEMMA LoopInv == Inv /\ Loop => Inv'
BY EnterInv DEF Loop, Inv, TypeOK

LEMMA JumpInv == Inv /\ Jump => Inv'
<1> SUFFICES ASSUME Inv, Jump PROVE Inv' OBVIOUS
<1>1. count \in Nat /\ count > 32 /\ count < 160 /\ pc = "run"
  BY DEF Inv, TypeOK, Counts, Jump
<1>2. /\ (count - 17) \div 16 \in 1 .. 8
      /\ count - 16 * ((count - 17) \div 16) \in 17 .. 32
  BY <1>1, LastRun
<1> QED BY <1>1, <1>2, EnterInv DEF Jump

(* Forward: a piece of n bytes that begins where the done part ends is in  *)
(* the target, its sources are not in the done part, and it extends it.    *)
LEMMA ForwardPiece ==
    ASSUME NEW start \in Int, NEW total \in Nat, NEW shift \in Int,
           shift <= 0 \/ total <= shift,
           NEW p \in Int, NEW n \in Nat, start <= p, p + n <= start + total
    PROVE  /\ \A a \in p .. (p + n - 1) :
                /\ a \in start .. (start + total - 1)
                /\ a - shift \notin start .. (p - 1)
                /\ a \notin start .. (p - 1)
           /\ \A a \in Int : a \in start .. (p + n - 1) <=>
                a \in start .. (p - 1) \/ a \in p .. (p + n - 1)
  OBVIOUS

(* Backward, the same with the done part behind the piece.                 *)
LEMMA BackwardPiece ==
    ASSUME NEW start \in Int, NEW total \in Nat, NEW shift \in Int, shift > 0,
           NEW p \in Int, NEW n \in Nat, start <= p, p + n <= start + total
    PROVE  /\ \A a \in p .. (p + n - 1) :
                /\ a \in start .. (start + total - 1)
                /\ a - shift \notin (p + n) .. (start + total - 1)
                /\ a \notin (p + n) .. (start + total - 1)
           /\ \A a \in Int : a \in p .. (start + total - 1) <=>
                a \in (p + n) .. (start + total - 1) \/ a \in p .. (p + n - 1)
  OBVIOUS

LEMMA BlockInv == Inv /\ Block => Inv'
<1> SUFFICES ASSUME Inv, Block PROVE Inv' OBVIOUS
<1> USE DEF Inv, TypeOK
<1>1. /\ asked.source \in Int /\ asked.target \in Int /\ asked.count \in Nat
      /\ Shift \in Int /\ Shift' = Shift /\ Address \subseteq Int
  BY TheCall DEF Shift, Block
<1>2. pc = "block" /\ blocks \in 1 .. 8 /\ blocks' = blocks - 1 /\ Left = blocks
  BY DEF Block, Left
<1>3. Left' = blocks - 1
  BY <1>2 DEF Block, Left
<1>4. /\ s = t - Shift
      /\ count + 16 * blocks <= asked.count
      /\ dir = "forward" =>
           /\ t = asked.target + asked.count - count
           /\ Shift < 0 \/ asked.count <= Shift
      /\ dir = "backward" =>
           /\ t = asked.target + count
           /\ 0 < Shift
  BY <1>2 DEF Pointers
<1>5. Bytes' /\ memory' \in [Address -> Address]
  <2>1. CASE dir = "forward"
    <3>1. BlockOffsets = (-16 * blocks) .. (-16 * blocks + 15)
      BY <1>2, <2>1 DEF BlockOffsets, Piece
    <3>2. /\ DoneArea = asked.target .. (t - 16 * blocks - 1)
          /\ DoneArea' = asked.target .. (t - 16 * (blocks - 1) - 1)
      BY <1>2, <1>3, <2>1 DEF DoneArea, Block
    <3>3. Copy(BlockOffsets) /\ UNCHANGED asked BY DEF Block
    <3> DEFINE p == t - 16 * blocks
    <3>p. /\ p \in Int /\ asked.target <= p /\ p + 16 <= asked.target + asked.count
          /\ Shift < 0 \/ asked.count <= Shift
      BY <1>1, <1>2, <1>4, <2>1
    <3>q. /\ DoneArea = asked.target .. (p - 1)
          /\ DoneArea' = asked.target .. (p + 16 - 1)
          /\ \A a \in Int : a - t \in BlockOffsets <=> a \in p .. (p + 16 - 1)
      BY <1>2, <3>1, <3>2
    <3> HIDE DEF p
    <3>4. \A a \in Address :
            /\ a \in DoneArea' <=> (a \in DoneArea \/ a - t \in BlockOffsets)
            /\ a - t \in BlockOffsets =>
                 /\ a \in asked.target .. (asked.target + asked.count - 1)
                 /\ a \notin DoneArea
                 /\ a - Shift \notin DoneArea
      BY SMTT(40), <1>1, <3>p, <3>q, ForwardPiece
    <3> QED BY <1>4, <3>3, <3>4, CopyBytes
  <2>2. CASE dir = "backward"
    <3> DEFINE p == t + 16 * (blocks - 1)
    <3>1. BlockOffsets = (16 * (blocks - 1)) .. (16 * (blocks - 1) + 15)
      BY <1>2, <2>2 DEF BlockOffsets, Piece
    <3>2. /\ DoneArea = (t + 16 * blocks) .. (asked.target + asked.count - 1)
          /\ DoneArea' = (t + 16 * (blocks - 1)) .. (asked.target + asked.count - 1)
      BY <1>2, <1>3, <2>2 DEF DoneArea, Block
    <3>3. Copy(BlockOffsets) /\ UNCHANGED asked BY DEF Block
    <3>p. /\ p \in Int /\ asked.target <= p /\ p + 16 <= asked.target + asked.count
          /\ Shift > 0
      BY <1>1, <1>2, <1>4, <2>2
    <3>q. /\ DoneArea = (p + 16) .. (asked.target + asked.count - 1)
          /\ DoneArea' = p .. (asked.target + asked.count - 1)
          /\ \A a \in Int : a - t \in BlockOffsets <=> a \in p .. (p + 16 - 1)
      <4>1. t + 16 * blocks = p + 16 BY <1>2
      <4> QED BY <1>2, <3>1, <3>2, <4>1
    <3> HIDE DEF p
    <3>4. \A a \in Address :
            /\ a \in DoneArea' <=> (a \in DoneArea \/ a - t \in BlockOffsets)
            /\ a - t \in BlockOffsets =>
                 /\ a \in asked.target .. (asked.target + asked.count - 1)
                 /\ a \notin DoneArea
                 /\ a - Shift \notin DoneArea
      BY SMTT(40), <1>1, <3>p, <3>q, BackwardPiece
    <3> QED BY <1>4, <3>3, <3>4, CopyBytes
  <2> QED BY <2>1, <2>2
<1>6. TypeOK' BY <1>2, <1>5 DEF Block
<1>7. Pointers' BY <1>1, <1>2, <1>3, <1>4 DEF Pointers, Block
<1>8. Counts' BY <1>2 DEF Counts, Block
<1> QED BY <1>5, <1>6, <1>7, <1>8

LEMMA TailInv == Inv /\ MoveTail => Inv'
<1> SUFFICES ASSUME Inv, MoveTail PROVE Inv' OBVIOUS
<1> USE DEF Inv, TypeOK
<1>1. /\ asked.source \in Int /\ asked.target \in Int /\ asked.count \in Nat
      /\ Shift \in Int /\ Address \subseteq Int
  BY TheCall
<1>2. /\ pc = "tail" /\ count \in 17 .. 32 /\ Left = 0
      /\ s = t - Shift /\ count <= asked.count
      /\ dir = "forward" =>
           /\ t = asked.target + asked.count - count
           /\ Shift < 0 \/ asked.count <= Shift
      /\ dir = "backward" =>
           /\ t = asked.target + count
           /\ 0 < Shift
  BY DEF MoveTail, Pointers, Counts, Left
<1>3. DoneArea' = asked.target .. (asked.target + asked.count - 1)
  BY DEF DoneArea, MoveTail, Area
<1>4. Copy(TailOffsets) /\ UNCHANGED asked BY DEF MoveTail
<1>5. Bytes' /\ memory' \in [Address -> Address]
  <2>1. CASE dir = "forward"
    <3>1. TailOffsets = 0 .. (count - 1)
      BY <1>2, <2>1 DEF TailOffsets, Piece
    <3>2. DoneArea = asked.target .. (t - 1)
      BY <1>2, <2>1 DEF DoneArea
    <3>p. /\ asked.target <= t /\ t + count = asked.target + asked.count
          /\ Shift < 0 \/ asked.count <= Shift
      BY <1>1, <1>2, <2>1
    <3>q. /\ DoneArea' = asked.target .. (t + count - 1)
          /\ \A a \in Int : a - t \in TailOffsets <=> a \in t .. (t + count - 1)
      <4>1. DoneArea' = asked.target .. (t + count - 1) BY <1>1, <1>3, <3>p
      <4>2. t \in Int /\ count \in Int OBVIOUS
      <4> QED BY <3>1, <4>1, <4>2
    <3>4. \A a \in Address :
            /\ a \in DoneArea' <=> (a \in DoneArea \/ a - t \in TailOffsets)
            /\ a - t \in TailOffsets =>
                 /\ a \in asked.target .. (asked.target + asked.count - 1)
                 /\ a \notin DoneArea
                 /\ a - Shift \notin DoneArea
      BY SMTT(40), <1>1, <3>2, <3>p, <3>q, ForwardPiece
    <3> QED BY <1>2, <1>4, <3>4, CopyBytes
  <2>2. CASE dir = "backward"
    <3>1. TailOffsets = (-count) .. -1
      BY <1>2, <2>2 DEF TailOffsets, Piece
    <3>2. DoneArea = t .. (asked.target + asked.count - 1)
      BY <1>2, <2>2 DEF DoneArea
    <3> DEFINE p == t - count
    <3>p. /\ p \in Int /\ asked.target <= p /\ p + count <= asked.target + asked.count
          /\ p = asked.target /\ Shift > 0
      BY <1>1, <1>2, <2>2
    <3>q. /\ DoneArea = (p + count) .. (asked.target + asked.count - 1)
          /\ DoneArea' = p .. (asked.target + asked.count - 1)
          /\ \A a \in Int : a - t \in TailOffsets <=> a \in p .. (p + count - 1)
      <4>1. p + count = t OBVIOUS
      <4>2. DoneArea' = p .. (asked.target + asked.count - 1) BY <1>3, <3>p
      <4>3. \A a \in Int : a - t \in (-count) .. -1 <=> a \in p .. (p + count - 1) OBVIOUS
      <4> QED BY <3>1, <3>2, <4>1, <4>2, <4>3
    <3> HIDE DEF p
    <3>4. \A a \in Address :
            /\ a \in DoneArea' <=> (a \in DoneArea \/ a - t \in TailOffsets)
            /\ a - t \in TailOffsets =>
                 /\ a \in asked.target .. (asked.target + asked.count - 1)
                 /\ a \notin DoneArea
                 /\ a - Shift \notin DoneArea
      <4>1. /\ p \in Int /\ asked.target <= p /\ p + count <= asked.target + asked.count
            /\ Shift > 0
        BY <3>p
      <4> QED BY <1>1, <3>q, <4>1, BackwardPiece
    <3> QED BY <1>2, <1>4, <3>4, CopyBytes
  <2> QED BY <2>1, <2>2
<1>6. Pointers' /\ Counts' BY DEF MoveTail, Pointers, Counts
<1>7. TypeOK' BY <1>5 DEF MoveTail
<1> QED BY <1>5, <1>6, <1>7

LEMMA StutterInv == Inv /\ UNCHANGED vars => Inv'
BY DEF Inv, TypeOK, Pointers, Counts, Bytes, DoneArea, Left, Shift, vars

(* The invariant is inductive.                                             *)
THEOREM Invariant == Spec => []Inv
<1>1. Init => Inv BY InitInv
<1>2. Inv /\ [Next]_vars => Inv'
  BY StartInv, SmallInv, LoopInv, JumpInv, BlockInv, TailInv, StutterInv DEF Next, Done
<1> QED BY <1>1, <1>2, PTL DEF Spec

(* Every variable keeps its type; in particular every run has at most the  *)
(* eight blocks the table of labels has entries for.                       *)
THEOREM TypeCorrect == Spec => []TypeOK
<1>1. Inv => TypeOK BY DEF Inv
<1> QED BY Invariant, <1>1, PTL

(* No call loads outside of its source or stores outside of its target.    *)
THEOREM Inside == Spec => []StaysInside
BY Invariant, InvInside, PTL

(* After the last step the bytes done are all of them.                     *)
LEMMA InvMoves == Inv => MovesBytes
<1> SUFFICES ASSUME Inv, pc = "done" PROVE memory = Moved
  BY DEF MovesBytes
<1>1. /\ asked.source \in Int /\ asked.target \in Int /\ Address \subseteq Int
  BY TheCall DEF Inv, TypeOK
<1>2. ASSUME NEW a \in Address PROVE memory[a] = Moved[a]
  <2>1. memory[a] = IF a \in Area(asked.target, asked.count) THEN a - Shift ELSE a
    BY DEF Inv, Bytes, DoneArea
  <2>2. a \in Int /\ a - Shift = a - asked.target + asked.source BY <1>1 DEF Shift
  <2> QED BY <2>1, <2>2 DEF Moved
<1>3. memory \in [Address -> Address] /\ Moved = [a \in Address |-> Moved[a]]
  BY DEF Inv, TypeOK, Moved
<1> QED BY <1>2, <1>3

(* Every call that returns has moved its bytes and nothing else, whatever  *)
(* the overlap of source and target.                                       *)
THEOREM Correct == Spec => []MovesBytes
BY Invariant, InvMoves, PTL

-----------------------------------------------------------------------------
(* The functions of RTTI.                                                  *)

(* The first n bytes of the target have arrived, all else is as it was.    *)
Arrived(n) ==
    /\ memory \in [Address -> Address]
    /\ \A a \in Address :
         memory[a] = IF a \in Area(asked.target, n) THEN a - Shift ELSE a

(* A function that copies in pieces: the pointers are behind the bytes     *)
(* that have arrived.                                                      *)
PieceInv ==
    /\ pc \in {"start", "pieces", "length", "copied"}
    /\ pc = "start" => s = asked.source /\ t = asked.target /\ Arrived(0)
    /\ pc = "pieces" =>
         /\ count \in 0 .. ValueBytes(asked)
         /\ t = asked.target + ValueBytes(asked) - count
         /\ s = t - Shift
         /\ Arrived(ValueBytes(asked) - count)
    /\ pc = "length" => asked.proc = "copy_shortstring" /\ Arrived(ValueBytes(asked))

(* A function of one step.                                                 *)
StepInv ==
    /\ pc \in {"start", "copied"}
    /\ pc = "start" =>
         /\ s = asked.source /\ t = asked.target /\ count = asked.count
         /\ \A a \in Address : memory[a] = a

(* The invariant of a call, whichever function it is made to.  A function  *)
(* of RTTI has no business with the places of TinyMove and the other way   *)
(* round, so that ValuesCopied speaks of the others only.                  *)
RttiInv ==
    /\ asked \in Calls
    /\ asked.proc \in MemCopies => Inv
    /\ asked.proc \in PieceCopies => PieceInv
    /\ asked.proc \notin MemCopies \cup PieceCopies => StepInv
    /\ ValuesCopied

(* Short strings of up to 30 characters: the bytes up to the next odd      *)
(* number of 16-byte pieces, where the code still finds the length byte.   *)
ShortStringsAreShort ==
    \A c \in Calls : c.proc = "copy_shortstring" => StringBytes(c) < 32

(* What is known of a call to a function that copies in pieces.            *)
LEMMA PieceCall ==
    ASSUME asked \in Calls, asked.proc \in PieceCopies
    PROVE  /\ ValueBytes(asked) \in Nat
           /\ asked.proc = "copy_shortstring" => ValueBytes(asked) >= 1
           /\ Shift <= 0 \/ ValueBytes(asked) <= Shift
           /\ \A a \in asked.target .. (asked.target + ValueBytes(asked) - 1) :
                a \in Address /\ a - Shift \in Address
<1>1. /\ asked.source \in Int /\ asked.target \in Int /\ asked.count \in Nat
      /\ Address \subseteq Int
  BY TheCall
<1>2. /\ asked.proc = "copy_shortstring" => asked.cap \in Nat
      /\ \/ Apart(asked, ValueBytes(asked), ValueBytes(asked))
         \/ /\ asked.source = asked.target
            /\ Area(asked.target, ValueBytes(asked)) \subseteq Address
  BY ValuesAssumption
<1>3. /\ ValueBytes(asked) \in Nat
      /\ asked.proc = "copy_shortstring" => ValueBytes(asked) >= 1
  BY <1>1, <1>2 DEF ValueBytes, StringBytes, Least
<1>4. CASE Apart(asked, ValueBytes(asked), ValueBytes(asked))
  BY <1>1, <1>3, <1>4 DEF Apart, Area, Shift
<1>5. CASE /\ asked.source = asked.target
           /\ Area(asked.target, ValueBytes(asked)) \subseteq Address
  BY <1>1, <1>3, <1>5 DEF Area, Shift
<1> QED BY <1>2, <1>3, <1>4, <1>5

(* The memory after a copy of n bytes from source to target.               *)
Image(n) ==
    [a \in Address |-> IF a \in Area(asked.target, n)
                       THEN a - asked.target + asked.source ELSE a]

(* All bytes of a value have arrived: this is the image.                   *)
LEMMA ArrivedImage ==
    ASSUME asked \in Calls, NEW n \in Nat, Arrived(n)
    PROVE  memory = Image(n)
<1>1. Address \subseteq Int /\ asked.source \in Int /\ asked.target \in Int
  BY TheCall
<1>2. ASSUME NEW a \in Address PROVE memory[a] = Image(n)[a]
  <2>1. a \in Int /\ a - Shift = a - asked.target + asked.source BY <1>1 DEF Shift
  <2> QED BY <2>1 DEF Image, Arrived
<1>3. memory \in [Address -> Address] /\ Image(n) = [a \in Address |-> Image(n)[a]]
  BY DEF Arrived, Image
<1> QED BY <1>2, <1>3

(* A piece is copied: it continues what has arrived, and its sources are   *)
(* not among that.                                                         *)
LEMMA PieceArrives ==
    ASSUME asked \in Calls, asked.proc \in PieceCopies, UNCHANGED asked,
           NEW n \in Nat, NEW k \in Nat, n + k <= ValueBytes(asked),
           Arrived(n), t = asked.target + n, s = t - Shift, Copy(Piece(0, k))
    PROVE  Arrived(n + k)'
<1>1. /\ asked.source \in Int /\ asked.target \in Int
      /\ Address \subseteq Int /\ Shift \in Int /\ Shift' = Shift /\ t \in Int
  BY TheCall DEF Shift
<1>2. /\ ValueBytes(asked) \in Nat
      /\ Shift <= 0 \/ ValueBytes(asked) <= Shift
      /\ \A a \in asked.target .. (asked.target + ValueBytes(asked) - 1) :
           a \in Address /\ a - Shift \in Address
  BY PieceCall
<1>3. /\ \A a \in t .. (t + k - 1) :
           /\ a \in asked.target .. (asked.target + ValueBytes(asked) - 1)
           /\ a - Shift \notin asked.target .. (t - 1)
           /\ a \notin asked.target .. (t - 1)
      /\ \A a \in Int : a \in asked.target .. (t + k - 1) <=>
           a \in asked.target .. (t - 1) \/ a \in t .. (t + k - 1)
  <2>1. asked.target <= t /\ t + k <= asked.target + ValueBytes(asked) BY <1>1, <1>2
  <2> QED BY <1>1, <1>2, <2>1, ForwardPiece
<1>4. /\ Area(asked.target, n) = asked.target .. (t - 1)
      /\ Area(asked'.target, n + k) = asked.target .. (t + k - 1)
      /\ \A a \in Int : a - t \in Piece(0, k) <=> a \in t .. (t + k - 1)
  <2>1. asked.target + n - 1 = t - 1 /\ asked.target + (n + k) - 1 = t + k - 1 BY <1>1
  <2>2. asked' = asked OBVIOUS
  <2>3. \A a \in Int : a - t \in 0 .. (0 + k - 1) <=> a \in t .. (t + k - 1) BY <1>1
  <2> QED BY <2>1, <2>2, <2>3 DEF Area, Piece
<1>5. ASSUME NEW a \in Address
      PROVE  /\ memory'[a] = IF a \in asked.target .. (t + k - 1) THEN a - Shift ELSE a
             /\ memory'[a] \in Address
  <2>1. a \in Int BY <1>1
  <2>2. memory'[a] = IF a \in t .. (t + k - 1) THEN memory[a - t + s] ELSE memory[a]
    BY <1>4, <2>1 DEF Copy
  <2>3. CASE a \in t .. (t + k - 1)
    <3>1. a - t + s = a - Shift BY <1>1, <2>1
    <3>2. a - Shift \in Address /\ a - Shift \notin Area(asked.target, n)
      BY <1>2, <1>3, <1>4, <2>3
    <3>3. memory[a - Shift] = a - Shift BY <3>2 DEF Arrived
    <3> QED BY <1>3, <2>1, <2>2, <2>3, <3>1, <3>2, <3>3
  <2>4. CASE a \notin t .. (t + k - 1)
    <3>1. memory'[a] = IF a \in asked.target .. (t - 1) THEN a - Shift ELSE a
      BY <1>4, <2>2, <2>4 DEF Arrived
    <3>2. memory'[a] \in Address BY <2>2, <2>4 DEF Arrived
    <3> QED BY <1>3, <2>1, <2>4, <3>1, <3>2
  <2> QED BY <2>3, <2>4
<1>6. memory' \in [Address -> Address] BY <1>5 DEF Copy
<1> QED BY <1>1, <1>4, <1>5, <1>6 DEF Arrived

(* No piece is larger than what is left.                                   *)
LEMMA PiecesFit ==
    ASSUME NEW n \in Nat, n > 0
    PROVE  PieceSize(n) \in 1 .. n /\ Least(32, n) \in 1 .. n
BY DEF PieceSize, Least

LEMMA StartPiecesInv ==
    ASSUME asked \in Calls, asked.proc \in PieceCopies, PieceInv,
           StartPieces(ValueBytes(asked))
    PROVE  PieceInv' /\ ValuesCopied'
<1>1. ValueBytes(asked) \in Nat /\ ValueBytes(asked)' = ValueBytes(asked)
  BY PieceCall DEF StartPieces, ValueBytes, StringBytes
<1>2. asked.source \in Int /\ asked.target \in Int BY TheCall
<1>3. /\ pc = "start" /\ pc' = "pieces" /\ count' = ValueBytes(asked)
      /\ UNCHANGED <<asked, memory, s, t>>
  BY DEF StartPieces
<1>4. s = asked.source /\ t = asked.target /\ Arrived(0) BY <1>3 DEF PieceInv
<1>5. Arrived(0)' BY <1>3, <1>4 DEF Arrived, Shift
<1>6. /\ count' \in 0 .. ValueBytes(asked)
      /\ t' = asked.target + ValueBytes(asked) - count'
      /\ s' = t' - Shift' /\ ValueBytes(asked) - count' = 0
  BY <1>1, <1>2, <1>3, <1>4 DEF Shift
<1> QED BY <1>1, <1>3, <1>5, <1>6 DEF PieceInv, ValuesCopied

LEMMA CopyPieceInv ==
    ASSUME asked \in Calls, asked.proc \in PieceCopies, PieceInv,
           NEW k, NEW next \in {"length", "copied"}, CopyPiece(k, next),
           count > 0 => k \in 1 .. count,
           next = "length" <=> asked.proc = "copy_shortstring"
    PROVE  PieceInv' /\ ValuesCopied'
<1>1. /\ ValueBytes(asked) \in Nat /\ ValueBytes(asked)' = ValueBytes(asked)
      /\ UNCHANGED asked /\ Shift' = Shift
  BY PieceCall DEF CopyPiece, ValueBytes, StringBytes, Shift
<1>2. asked.source \in Int /\ asked.target \in Int /\ Shift \in Int BY TheCall
<1>3. /\ pc = "pieces" /\ count \in 0 .. ValueBytes(asked)
      /\ t = asked.target + ValueBytes(asked) - count
      /\ s = t - Shift
      /\ Arrived(ValueBytes(asked) - count)
  BY DEF CopyPiece, PieceInv
<1>4. CASE count > 0
  <2>1. /\ Copy(Piece(0, k)) /\ k \in 1 .. count /\ pc' = "pieces"
        /\ s' = s + k /\ t' = t + k /\ count' = count - k
    BY <1>3, <1>4 DEF CopyPiece
  <2>2. PICK n \in Nat : n = ValueBytes(asked) - count BY <1>1, <1>3
  <2>3. /\ n + k <= ValueBytes(asked) /\ t = asked.target + n /\ Arrived(n)
    BY <1>1, <1>2, <1>3, <2>1, <2>2
  <2>4. Arrived(n + k)'
    BY <1>1, <1>3, <2>1, <2>3, PieceArrives
  <2>5. /\ n + k = ValueBytes(asked) - count'
        /\ count' \in 0 .. ValueBytes(asked)
        /\ t' = asked.target + ValueBytes(asked) - count'
        /\ s' = t' - Shift
    BY <1>1, <1>2, <1>3, <2>1, <2>2, <2>3
  <2> QED BY <1>1, <2>1, <2>4, <2>5 DEF PieceInv, ValuesCopied
<1>5. CASE ~(count > 0)
  <2>1. /\ count = 0 /\ pc' = next /\ UNCHANGED memory
    BY <1>3, <1>5 DEF CopyPiece
  <2>2. ValueBytes(asked) - count = ValueBytes(asked) BY <1>1, <2>1
  <2>3. Arrived(ValueBytes(asked)) BY <1>3, <2>2
  <2>4. CASE next = "length"
    <3>1. Arrived(ValueBytes(asked))' BY <1>1, <2>1, <2>3 DEF Arrived
    <3> QED BY <1>1, <2>1, <2>4, <3>1 DEF PieceInv, ValuesCopied
  <2>5. CASE next = "copied"
    <3>1. asked.proc # "copy_shortstring" /\ ValueBytes(asked) = asked.count
      BY <2>5 DEF ValueBytes
    <3>2. memory = Image(ValueBytes(asked)) BY <1>1, <2>3, ArrivedImage
    <3>3. memory = Moved BY <3>1, <3>2 DEF Image, Moved
    <3>4. memory' = Moved' BY <1>1, <2>1, <3>3 DEF Moved
    <3>5. asked.proc \in {"copy_metatype_bytes", "copy_data"}
      BY <3>1 DEF PieceCopies
    <3>6. ValuesCopied' BY <1>1, <3>4, <3>5 DEF ValuesCopied
    <3> QED BY <2>1, <2>5, <3>6 DEF PieceInv
  <2> QED BY <2>4, <2>5
<1> QED BY <1>4, <1>5

(* With at most one 16-byte piece the length goes where it belongs.        *)
LEMMA StoreLengthInv ==
    ASSUME asked \in Calls, asked.proc = "copy_shortstring", PieceInv,
           StringBytes(asked) < 32, StoreLength
    PROVE  PieceInv' /\ ValuesCopied'
<1>1. asked.target \in Int /\ asked.proc \in PieceCopies /\ UNCHANGED asked
  BY TheCall DEF PieceCopies, StoreLength
<1>2. StringBytes(asked) \in Nat /\ ValueBytes(asked) = StringBytes(asked)
  BY <1>1, PieceCall DEF ValueBytes
<1>3. StoredTarget = asked.target
  <2>1. PICK p \in 0 .. 1 : StringBytes(asked) \div 16 = p
    BY <1>2
  <2>2. p - (p % 2) = 0 BY <2>1
  <2> QED BY <1>1, <2>1, <2>2 DEF StoredTarget
<1>4. pc = "length" /\ Arrived(ValueBytes(asked)) BY DEF StoreLength, PieceInv
<1>5. memory = Image(StringBytes(asked)) BY <1>2, <1>4, ArrivedImage
<1>6. PICK n \in Nat : n = StringBytes(asked) /\ n >= 1
  BY <1>1, <1>2, PieceCall
<1>7. PICK x : x = IF asked.count <= asked.cap THEN asked.source ELSE Capped OBVIOUS
<1>8. /\ asked.source \in Int /\ asked.count \in Nat /\ asked.cap \in Nat
      /\ Address \subseteq Int /\ n <= asked.cap + 1
      /\ \A i \in 0 .. n - 1 : asked.target + i \in Address
  <2>1. \A i \in 0 .. n - 1 :
          asked.target + i \in asked.target .. (asked.target + n - 1)
    BY <1>1
  <2> QED BY <1>1, <1>2, <1>6, <2>1, TheCall, ValuesAssumption, PieceCall
          DEF StringBytes, Least
<1>9. \A a \in Address :
        memory'[a] = IF a = asked.target THEN x
                     ELSE IF a \in asked.target .. (asked.target + n - 1)
                     THEN a - asked.target + asked.source ELSE a
  BY <1>3, <1>5, <1>6, <1>7 DEF StoreLength, Image, Area
<1>10. /\ \A i \in 0 .. n - 1 :
            memory'[asked.target + i] = IF i = 0 THEN x ELSE asked.source + i
       /\ \A a \in Address \ Area(asked.target, asked.cap + 1) : memory'[a] = a
  <2>1. ASSUME NEW i \in 0 .. n - 1
        PROVE  memory'[asked.target + i] = IF i = 0 THEN x ELSE asked.source + i
    <3>1. PICK a \in Int : a = asked.target + i BY <1>1
    <3>2. /\ a \in asked.target .. (asked.target + n - 1)
          /\ a = asked.target <=> i = 0
          /\ a - asked.target + asked.source = asked.source + i
      BY <1>1, <1>8, <3>1
    <3> QED BY <1>8, <1>9, <3>1, <3>2
  <2>2. ASSUME NEW a \in Address, a \notin Area(asked.target, asked.cap + 1)
        PROVE  memory'[a] = a
    <3>1. a \in Int /\ a \notin asked.target .. (asked.target + n - 1) /\ a # asked.target
      BY <1>1, <1>6, <1>8, <2>2 DEF Area
    <3> QED BY <1>9, <3>1
  <2> QED BY <2>1, <2>2
<1>11. ShortStringCopied'
  <2>1. StringBytes(asked)' = n /\ asked' = asked BY <1>1, <1>6 DEF StringBytes
  <2>2. x = IF asked.count > asked.cap THEN Capped ELSE asked.source BY <1>7, <1>8
  <2>3. ASSUME NEW i \in 0 .. n - 1
        PROVE  memory'[asked.target + i] =
                 IF i = 0 /\ asked.count > asked.cap THEN Capped ELSE asked.source + i
    <3>1. i = 0 => asked.source + i = asked.source BY <1>8
    <3> QED BY <1>10, <2>2, <2>3, <3>1
  <2> QED BY <1>10, <2>1, <2>3 DEF ShortStringCopied, Area
<1>12. pc' = "copied" BY DEF StoreLength
<1>13. ValuesCopied' BY <1>1, <1>11, <1>12 DEF ValuesCopied
<1> QED BY <1>12, <1>13 DEF PieceInv

(* A function of RTTI that copies in pieces.                               *)
LEMMA PiecesInv ==
    ASSUME ShortStringsAreShort, asked \in Calls, asked.proc \in PieceCopies, PieceInv,
           copy_metatype_bytes \/ copy_data \/ copy_shortstring
    PROVE  PieceInv' /\ ValuesCopied' /\ UNCHANGED asked
<1>1. UNCHANGED asked
  BY DEF copy_metatype_bytes, copy_data, copy_shortstring, StartPieces, CopyPiece, StoreLength
<1>2. ASSUME pc = "pieces" PROVE count \in Nat
  BY <1>2, PieceCall DEF PieceInv
<1>3. CASE copy_metatype_bytes
  <2>1. CASE StartPieces(ValueBytes(asked)) BY <1>1, <2>1, StartPiecesInv
  <2>2. CASE CopyPiece(PieceSize(count), "copied")
    <3>1. count > 0 => PieceSize(count) \in 1 .. count
      BY <1>2, <2>2, PiecesFit DEF CopyPiece
    <3> QED BY <1>1, <1>3, <2>2, <3>1, CopyPieceInv DEF copy_metatype_bytes
  <2> QED BY <1>3, <2>1, <2>2 DEF copy_metatype_bytes
<1>4. CASE copy_data
  <2>1. CASE StartPieces(ValueBytes(asked)) BY <1>1, <2>1, StartPiecesInv
  <2>2. CASE CopyPiece(Least(32, count), "copied")
    <3>1. count > 0 => Least(32, count) \in 1 .. count
      BY <1>2, <2>2, PiecesFit DEF CopyPiece
    <3> QED BY <1>1, <1>4, <2>2, <3>1, CopyPieceInv DEF copy_data
  <2> QED BY <1>4, <2>1, <2>2 DEF copy_data
<1>5. CASE copy_shortstring
  <2>1. CASE StartPieces(ValueBytes(asked)) BY <1>1, <2>1, StartPiecesInv
  <2>2. CASE CopyPiece(PieceSize(count), "length")
    <3>1. count > 0 => PieceSize(count) \in 1 .. count
      BY <1>2, <2>2, PiecesFit DEF CopyPiece
    <3> QED BY <1>1, <1>5, <2>2, <3>1, CopyPieceInv DEF copy_shortstring
  <2>3. CASE StoreLength
    <3>1. StringBytes(asked) < 32 BY <1>5 DEF ShortStringsAreShort, copy_shortstring
    <3> QED BY <1>1, <1>5, <2>3, <3>1, StoreLengthInv DEF copy_shortstring
  <2> QED BY <1>5, <2>1, <2>2, <2>3 DEF copy_shortstring
<1> QED BY <1>3, <1>4, <1>5

(* Where the byte o of word i is in the other words of a dump.             *)
LEMMA EveryOtherWord ==
    ASSUME NEW i \in Nat, NEW o \in 0 .. 3
    PROVE  /\ Spread(4 * i + o) = 8 * i + o
           /\ 4 * ((8 * i + o) \div 8) + ((8 * i + o) % 8) = 4 * i + o
<1>1. (4 * i + o) \div 4 = i /\ (4 * i + o) % 4 = o OBVIOUS
<1>2. (8 * i + o) \div 8 = i /\ (8 * i + o) % 8 = o OBVIOUS
<1> QED BY <1>1, <1>2 DEF Spread

LEMMA HfaReadInv ==
    ASSUME asked \in Calls, StepInv, copy_hfaread
    PROVE  StepInv' /\ ValuesCopied' /\ UNCHANGED asked
<1>1. /\ asked.source \in Int /\ asked.target \in Int /\ asked.count \in Nat
      /\ Address \subseteq Int
  BY TheCall
<1>2. /\ Area(asked.source, 8 * asked.count) \subseteq Address
      /\ Area(asked.target, 4 * asked.count) \subseteq Address
  BY ValuesAssumption DEF copy_hfaread, Apart
<1>3. /\ asked' = asked /\ pc' = "copied" /\ asked.proc = "copy_hfaread"
      /\ s = asked.source /\ t = asked.target /\ count = asked.count
      /\ \A a \in Address : memory[a] = a
  BY DEF copy_hfaread, StepInv
<1>4. ASSUME NEW i \in 0 .. asked.count - 1, NEW o \in 0 .. 3
      PROVE  memory'[asked.target + 4 * i + o] = asked.source + 8 * i + o
  <2>1. i \in Nat /\ 4 * i + o \in 0 .. 4 * asked.count - 1
        /\ 8 * i + o \in 0 .. 8 * asked.count - 1
    BY <1>1
  <2>2. /\ asked.target + 4 * i + o \in Address
        /\ asked.source + (8 * i + o) \in Address
        /\ (asked.target + 4 * i + o) - t = 4 * i + o
    BY <1>1, <1>2, <1>3, <2>1 DEF Area
  <2>3. memory'[asked.target + 4 * i + o] = memory[s + Spread(4 * i + o)]
    BY <1>3, <2>1, <2>2 DEF copy_hfaread
  <2>4. s + Spread(4 * i + o) = asked.source + (8 * i + o)
    BY <1>3, <2>1, EveryOtherWord
  <2>5. memory[asked.source + (8 * i + o)] = asked.source + (8 * i + o) BY <1>3, <2>2
  <2> QED BY <1>1, <2>1, <2>3, <2>4, <2>5
<1> QED BY <1>3, <1>4 DEF StepInv, ValuesCopied

LEMMA HfaWriteInv ==
    ASSUME asked \in Calls, StepInv, copy_hfawrite
    PROVE  StepInv' /\ ValuesCopied' /\ UNCHANGED asked
<1>1. /\ asked.source \in Int /\ asked.target \in Int /\ asked.count \in Nat
      /\ Address \subseteq Int
  BY TheCall
<1>2. /\ Area(asked.source, 4 * asked.count) \subseteq Address
      /\ Area(asked.target, 8 * asked.count) \subseteq Address
  BY ValuesAssumption DEF copy_hfawrite, Apart
<1>3. /\ asked' = asked /\ pc' = "copied" /\ asked.proc = "copy_hfawrite"
      /\ s = asked.source /\ t = asked.target /\ count = asked.count
      /\ \A a \in Address : memory[a] = a
  BY DEF copy_hfawrite, StepInv
<1>4. ASSUME NEW i \in 0 .. asked.count - 1, NEW o \in 0 .. 3
      PROVE  memory'[asked.target + 8 * i + o] = asked.source + 4 * i + o
  <2>1. i \in Nat /\ 4 * i + o \in 0 .. 4 * asked.count - 1
        /\ 8 * i + o \in 0 .. 8 * asked.count - 1
    BY <1>1
  <2>2. /\ asked.target + 8 * i + o \in Address
        /\ asked.source + (4 * i + o) \in Address
        /\ (asked.target + 8 * i + o) - t = 8 * i + o
    BY <1>1, <1>2, <1>3, <2>1 DEF Area
  <2>3. Spread(4 * i + o) = 8 * i + o BY <2>1, EveryOtherWord
  <2>9. asked.target + 8 * i + o = t + Spread(4 * i + o)
    BY <1>1, <1>3, <2>1, <2>3
  <2>4. memory'[asked.target + 8 * i + o]
          = memory[s + 4 * ((8 * i + o) \div 8) + ((8 * i + o) % 8)]
    BY <1>3, <2>1, <2>2, <2>9 DEF copy_hfawrite
  <2>5. PICK p \in Int, q \in Int : p = (8 * i + o) \div 8 /\ q = (8 * i + o) % 8
    BY <2>1
  <2>6. 4 * p + q = 4 * i + o BY <2>1, <2>5, EveryOtherWord
  <2>7. s + 4 * p + q = asked.source + (4 * i + o) BY <1>1, <1>3, <2>1, <2>6
  <2>8. memory[asked.source + (4 * i + o)] = asked.source + (4 * i + o) BY <1>3, <2>2
  <2> QED BY <1>1, <2>1, <2>4, <2>5, <2>7, <2>8
<1> QED BY <1>3, <1>4 DEF StepInv, ValuesCopied

LEMMA InitDataInv ==
    ASSUME asked \in Calls, StepInv, init_data
    PROVE  StepInv' /\ ValuesCopied' /\ UNCHANGED asked
BY DEF init_data, StepInv, ValuesCopied

LEMMA InitRttiInv == Init => RttiInv
<1> SUFFICES ASSUME Init PROVE RttiInv OBVIOUS
<1>1. asked \in Calls /\ pc = "start" /\ \A a \in Address : memory[a] = a BY DEF Init
<1>2. Inv BY InitInv
<1>3. StepInv BY <1>1 DEF StepInv, Init
<1>4. Arrived(0)
  BY <1>2, TheCall, <1>1 DEF Arrived, Area, Inv, TypeOK
<1>5. PieceInv BY <1>1, <1>4 DEF PieceInv, Init
<1>6. ValuesCopied BY <1>1 DEF ValuesCopied
<1> QED BY <1>1, <1>2, <1>3, <1>5, <1>6 DEF RttiInv

(* A step of TinyMove, called for itself or by RTTI.                       *)
LEMMA MoveInv == Inv /\ Next => Inv' /\ UNCHANGED asked
<1>1. Inv /\ Next => Inv'
  BY StartInv, SmallInv, LoopInv, JumpInv, BlockInv, TailInv, StutterInv DEF Next, Done
<1>2. Next => UNCHANGED asked
  BY DEF Next, Start, Small, Loop, Jump, Enter, Block, MoveTail, Done, vars
<1> QED BY <1>1, <1>2

LEMMA NextRttiInv ==
    ASSUME ShortStringsAreShort, RttiInv, RttiNext
    PROVE  RttiInv'
<1> USE DEF RttiInv
<1>0. MemCopies \cap PieceCopies = {} BY DEF MemCopies, PieceCopies
<1>1. CASE asked.proc \in MemCopies /\ Next
  <2>1. Inv' /\ asked' = asked BY <1>1, MoveInv
  <2>2. pc' # "copied" BY <2>1 DEF Inv, TypeOK
  <2>3. ValuesCopied' BY <2>2 DEF ValuesCopied
  <2> QED BY <1>0, <1>1, <2>1, <2>3
<1>2. CASE copy_metatype_bytes \/ copy_data \/ copy_shortstring
  <2>1. asked.proc \in PieceCopies
    BY <1>2 DEF copy_metatype_bytes, copy_data, copy_shortstring, PieceCopies
  <2>2. PieceInv' /\ ValuesCopied' /\ UNCHANGED asked BY <1>2, <2>1, PiecesInv
  <2> QED BY <1>0, <2>1, <2>2
<1>3. CASE copy_hfaread \/ copy_hfawrite \/ init_data
  <2>1. asked.proc \notin MemCopies \cup PieceCopies
    BY <1>3 DEF copy_hfaread, copy_hfawrite, init_data, MemCopies, PieceCopies
  <2>2. StepInv' /\ ValuesCopied' /\ UNCHANGED asked
    BY <1>3, <2>1, HfaReadInv, HfaWriteInv, InitDataInv
  <2> QED BY <2>1, <2>2
<1>4. CASE Copied
  BY <1>4 DEF Copied, vars, Inv, TypeOK, Pointers, Counts, Bytes, DoneArea, Left, Shift,
              PieceInv, Arrived, StepInv, ValuesCopied, ValueBytes, StringBytes, Moved,
              ShortStringCopied
<1> QED BY <1>1, <1>2, <1>3, <1>4 DEF RttiNext

LEMMA StutterRttiInv == RttiInv /\ UNCHANGED vars => RttiInv'
BY DEF RttiInv, vars, Inv, TypeOK, Pointers, Counts, Bytes, DoneArea, Left, Shift,
       PieceInv, Arrived, StepInv, ValuesCopied, ValueBytes, StringBytes, Moved,
              ShortStringCopied

(* The invariant of the functions of RTTI is inductive, as long as no      *)
(* short string has more than 30 characters.                               *)
THEOREM RttiInvariant == ShortStringsAreShort /\ RttiSpec => []RttiInv
<1>1. Init => RttiInv BY InitRttiInv
<1>2. ShortStringsAreShort /\ RttiInv /\ [RttiNext]_vars => RttiInv'
  BY NextRttiInv, StutterRttiInv
<1>3. ShortStringsAreShort => []ShortStringsAreShort
  OBVIOUS
<1> QED BY <1>1, <1>2, <1>3, PTL DEF RttiSpec

(* Every copied value has the bytes of its source, whichever function      *)
(* copied it.                                                              *)
THEOREM CopiesValues == ShortStringsAreShort /\ RttiSpec => []ValuesCopied
<1>1. RttiInv => ValuesCopied BY DEF RttiInv
<1> QED BY RttiInvariant, <1>1, PTL

(* Whatever strings there are: a call made to TinyMove, directly or by a   *)
(* function of RTTI, is where TinyMove can be, and no other call is.       *)
MoveOnly ==
    /\ asked.proc \in MemCopies => Inv
    /\ asked.proc \notin MemCopies => pc \in {"start", "pieces", "length", "copied"}

LEMMA MoveOnlyInvariant == RttiSpec => []MoveOnly
<1>1. Init => MoveOnly BY InitInv DEF MoveOnly, Init
<1>2. MoveOnly /\ [RttiNext]_vars => MoveOnly'
  <2> SUFFICES ASSUME MoveOnly, [RttiNext]_vars PROVE MoveOnly' OBVIOUS
  <2>1. CASE asked.proc \in MemCopies /\ Next
    BY <2>1, MoveInv DEF MoveOnly
  <2>2. CASE copy_metatype_bytes \/ copy_data \/ copy_shortstring
             \/ copy_hfaread \/ copy_hfawrite \/ init_data
    BY <2>2 DEF MoveOnly, MemCopies, copy_metatype_bytes, copy_data, copy_shortstring,
                StartPieces, CopyPiece, StoreLength, copy_hfaread, copy_hfawrite, init_data
  <2>3. CASE UNCHANGED vars BY <2>3, StutterInv DEF MoveOnly, vars
  <2> QED BY <2>1, <2>2, <2>3 DEF RttiNext, Copied
<1> QED BY <1>1, <1>2, PTL DEF RttiSpec

(* The moves RTTI makes stay inside of the values they are made for.       *)
THEOREM RttiStaysInside == RttiSpec => []StaysInside
<1>1. MoveOnly => StaysInside
  BY InvInside DEF MoveOnly, StaysInside, Offsets
<1> QED BY MoveOnlyInvariant, <1>1, PTL

(* And they move the values.                                               *)
THEOREM RttiMovesBytes == RttiSpec => []MovesBytes
<1>1. MoveOnly => MovesBytes
  BY InvMoves DEF MoveOnly, MovesBytes
<1> QED BY MoveOnlyInvariant, <1>1, PTL


-----------------------------------------------------------------------------
(* Managed values.                                                         *)
USE ConstantsAssumption, FieldsAssumption

(* The compilers for which the properties are claimed.  Instances of       *)
(* classes are among the objects only where the compiler counts them;      *)
(* elsewhere a variable of such a type is a plain pointer.  And a compiler *)
(* that has weak interfaces has weak references to objects as well: for    *)
(* the others init_library replaces the function that copies a weak        *)
(* interface.                                                              *)
Supported ==
    /\ \A o \in Objects : Family[o] = "refobject" => ~Fpc /\ WEAKINSTREF
    /\ Fpc \/ ~WEAKINTFREF \/ WEAKINSTREF

(* A slot that holds a reference of its own.                               *)
Strong(f) == FinalFunc(f) \in Releasing \cup {"final_value"}

(* The stack, taken apart: its frames, the fields that are still to be     *)
(* finalized, and how often an object is to be given back.                 *)
Frame == [op : {"release", "destructor", "destroy"}, object : Objects, left : SUBSET Slots]
FramesOf(q) == {q[i] : i \in DOMAIN q}
LeftIn(q) == UNION {x.left : x \in {y \in FramesOf(q) : y.op = "destroy"}}
Releases(q, o) == {i \in DOMAIN q : q[i].op = "release" /\ q[i].object = o}
Count(q, o) == Cardinality(Releases(q, o))

(* The slots that exist: a field of a dying object until it is finalized.  *)
Live == Roots \cup LeftIn(stack) \cup UNION {Fields[o] : o \in {p \in Objects : state[p] = "alive"}}
Held(o) == {f \in Slots : slot[f] = o /\ Strong(f) /\ f \in Live}

ValuesTypeOK ==
    /\ slot \in [Slots -> Objects \cup {Nil, Dummy}]
    /\ refs \in [Objects -> Nat]
    /\ state \in [Objects -> {"free", "alive", "dying"}]
    /\ told \in SUBSET Slots
    /\ stack \in Seq(Frame)

(* An object is destroyed by one frame, and a destructor runs in front of  *)
(* it, before any field is finalized.                                      *)
Neat(q) ==
    /\ \A i \in DOMAIN q : q[i].op = "destroy" => q[i].left \subseteq Fields[q[i].object]
    /\ \A i, j \in DOMAIN q :
         q[i].op = "destroy" /\ q[j].op = "destroy" /\ q[i].object = q[j].object => i = j
    /\ \A i \in DOMAIN q : q[i].op = "destructor" =>
         /\ i + 1 \in DOMAIN q
         /\ q[i + 1].op = "destroy"
         /\ q[i + 1].object = q[i].object
         /\ q[i + 1].left = Fields[q[i].object]

(* What is given back is alive, what is being destroyed is not.            *)
Stands(x) == state[x.object] = (IF x.op = "release" THEN "alive" ELSE "dying")
Standing == \A x \in FramesOf(stack) : Stands(x)

Counted ==
    \A o \in Objects : state[o] = "alive" =>
        refs[o] = Cardinality(Held(o)) + Count(stack, o) /\ refs[o] > 0

(* A slot refers to nothing that is not alive; the table knows the weak    *)
(* ones.                                                                   *)
Known ==
    \A f \in Live : slot[f] \in Objects =>
        /\ state[slot[f]] = "alive"
        /\ ~Strong(f) => f \in told

(* A slot refers to objects of its own type.                               *)
Fits(f, q) ==
    q \in Objects => Family[q] = (IF Type[f] = "value" THEN "interface" ELSE StrongType(f))
Kinds == \A f \in Slots : Fits(f, slot[f])

IInv == ValuesTypeOK /\ Neat(stack) /\ Standing /\ Counted /\ Known /\ Kinds

-----------------------------------------------------------------------------
(* Stacks.  A step takes the top frame away and puts others in its place.  *)

LEMMA Cons ==
    ASSUME NEW x \in Frame, NEW q \in Seq(Frame)
    PROVE  /\ <<x>> \o q \in Seq(Frame) /\ <<x>> \o q # <<>>
           /\ DOMAIN (<<x>> \o q) = 1 .. Len(q) + 1 /\ DOMAIN q = 1 .. Len(q) /\ Len(q) \in Nat
           /\ (<<x>> \o q)[1] = x
           /\ \A i \in DOMAIN q : (<<x>> \o q)[i + 1] = q[i] /\ q[i] \in Frame
<1>1. <<x>> \in Seq(Frame) /\ Len(<<x>>) = 1 /\ <<x>>[1] = x
  OBVIOUS
<1> DEFINE c == <<x>> \o q
<1>2. /\ c \in Seq(Frame) /\ Len(c) = Len(q) + 1 /\ Len(q) \in Nat
      /\ c[1] = x
      /\ \A i \in 1 .. Len(q) : c[i + 1] = q[i]
  BY <1>1
<1>3. c # <<>>
  BY <1>2
<1>4. DOMAIN c = 1 .. Len(c) /\ DOMAIN q = 1 .. Len(q)
  BY <1>2
<1>5. \A i \in DOMAIN q : q[i] \in Frame
  OBVIOUS
<1>6. QED
  BY <1>2, <1>3, <1>4, <1>5

LEMMA ConsFrames ==
    ASSUME NEW x \in Frame, NEW q \in Seq(Frame)
    PROVE  /\ FramesOf(<<x>> \o q) = {x} \cup FramesOf(q)
           /\ x.op = "destroy" => LeftIn(<<x>> \o q) = x.left \cup LeftIn(q)
           /\ x.op # "destroy" => LeftIn(<<x>> \o q) = LeftIn(q)
<1>1. PICK c : c = <<x>> \o q
  OBVIOUS
<1>2. /\ DOMAIN c = 1 .. Len(q) + 1 /\ DOMAIN q = 1 .. Len(q) /\ Len(q) \in Nat
      /\ c[1] = x /\ \A i \in DOMAIN q : c[i + 1] = q[i]
  BY <1>1, Cons
<1>3. FramesOf(c) = {x} \cup FramesOf(q)
  <2>1. ASSUME NEW i \in DOMAIN c
        PROVE  c[i] \in {x} \cup FramesOf(q)
    <3>1. CASE i = 1
      BY <1>2, <3>1
    <3>2. CASE i # 1
      <4>1. i - 1 \in DOMAIN q /\ (i - 1) + 1 = i
        BY <1>2, <3>2
      <4>2. c[i] = q[i - 1]
        BY <1>2, <4>1
      <4>3. QED
        BY <4>1, <4>2 DEF FramesOf
    <3>3. QED
      BY <3>1, <3>2
  <2>2. 1 \in DOMAIN c /\ \A i \in DOMAIN q : i + 1 \in DOMAIN c
    BY <1>2
  <2>3. FramesOf(c) \subseteq {x} \cup FramesOf(q)
    BY <2>1 DEF FramesOf
  <2>4. x \in FramesOf(c)
    BY <1>2, <2>2 DEF FramesOf
  <2>5. FramesOf(q) \subseteq FramesOf(c)
    BY <1>2, <2>2 DEF FramesOf
  <2>6. QED
    BY <2>3, <2>4, <2>5
<1>4. /\ x.op = "destroy" => LeftIn(c) = x.left \cup LeftIn(q)
      /\ x.op # "destroy" => LeftIn(c) = LeftIn(q)
  BY <1>3 DEF LeftIn
<1>5. QED
  BY <1>1, <1>3, <1>4

LEMMA ReleasesFinite ==
    ASSUME NEW q \in Seq(Frame), NEW o
    PROVE  IsFiniteSet(Releases(q, o)) /\ Count(q, o) \in Nat
<1>1. IsFiniteSet(1 .. Len(q))
  BY FS_Interval
<1>2. Releases(q, o) \subseteq 1 .. Len(q)
  BY DEF Releases
<1>3. QED
  BY <1>1, <1>2, FS_Subset, FS_CardinalityType DEF Count

(* One frame more is one reference to give back more, or none.             *)
LEMMA ConsCount ==
    ASSUME NEW x \in Frame, NEW q \in Seq(Frame), NEW o
    PROVE  /\ x.op = "release" /\ x.object = o => Count(<<x>> \o q, o) = Count(q, o) + 1
           /\ ~(x.op = "release" /\ x.object = o) => Count(<<x>> \o q, o) = Count(q, o)
<1>1. PICK c : c = <<x>> \o q
  OBVIOUS
<1>2. /\ DOMAIN c = 1 .. Len(q) + 1 /\ DOMAIN q = 1 .. Len(q) /\ Len(q) \in Nat
      /\ c[1] = x /\ \A i \in DOMAIN q : c[i + 1] = q[i]
  BY <1>1, Cons
<1> DEFINE R == Releases(q, o)
           T == {i \in Releases(c, o) : i # 1}
           shift == [i \in R |-> i + 1]
<1>3. IsFiniteSet(R)
  BY ReleasesFinite
<1>4. shift \in Bijection(R, T)
  <2>1. \A i \in R : i \in Nat /\ i \in DOMAIN q
    BY <1>2 DEF Releases
  <2>2. ASSUME NEW i \in R
        PROVE  i + 1 \in T
    <3>1. i + 1 \in DOMAIN c /\ c[i + 1] = q[i] /\ i + 1 # 1
      BY <1>2, <2>1
    <3>2. QED
      BY <3>1 DEF Releases
  <2>3. ASSUME NEW j \in T
        PROVE  \E i \in R : i + 1 = j
    <3>1. j - 1 \in DOMAIN q /\ (j - 1) + 1 = j /\ j \in DOMAIN c
      BY <1>2 DEF Releases
    <3>2. c[j] = q[j - 1]
      BY <1>2, <3>1
    <3>3. j - 1 \in R
      BY <3>1, <3>2 DEF Releases
    <3>4. QED
      BY <3>1, <3>3
  <2>4. \A i, j \in R : i + 1 = j + 1 => i = j
    BY <2>1
  <2>5. QED
    BY <2>2, <2>3, <2>4 DEF Bijection, Injection, Surjection, IsInjective
<1>5. IsFiniteSet(T) /\ Cardinality(T) = Cardinality(R)
  BY <1>3, <1>4, FS_Bijection DEF ExistsBijection
<1>6. ASSUME x.op = "release", x.object = o
      PROVE  Count(c, o) = Count(q, o) + 1
  <2>1. Releases(c, o) = T \cup {1} /\ 1 \notin T
    BY <1>2, <1>6 DEF Releases
  <2>2. Cardinality(T \cup {1}) = Cardinality(T) + 1
    BY <1>5, <2>1, FS_AddElement
  <2>3. QED
    BY <1>5, <2>1, <2>2 DEF Count
<1>7. ASSUME ~(x.op = "release" /\ x.object = o)
      PROVE  Count(c, o) = Count(q, o)
  <2>1. Releases(c, o) = T
    BY <1>2, <1>7 DEF Releases
  <2>2. QED
    BY <1>5, <2>1 DEF Count
<1>8. QED
  BY <1>1, <1>6, <1>7

(* What is neat stays neat without its top, and with another one.          *)
LEMMA NeatTail ==
    ASSUME NEW x \in Frame, NEW q \in Seq(Frame), Neat(<<x>> \o q)
    PROVE  /\ Neat(q)
           /\ x.op = "destroy" =>
                /\ x.left \subseteq Fields[x.object]
                /\ \A y \in FramesOf(q) : y.op = "destroy" => y.object # x.object
           /\ x.op = "destructor" => \E y \in FramesOf(q) :
                y.op = "destroy" /\ y.object = x.object /\ y.left = Fields[x.object]
<1>1. PICK c : c = <<x>> \o q
  OBVIOUS
<1>2. /\ DOMAIN c = 1 .. Len(q) + 1 /\ DOMAIN q = 1 .. Len(q) /\ Len(q) \in Nat
      /\ c[1] = x /\ \A i \in DOMAIN q : c[i + 1] = q[i]
  BY <1>1, Cons
<1>3. Neat(c) /\ 1 \in DOMAIN c /\ \A i \in DOMAIN q : i \in Nat /\ i # 0 /\ i + 1 \in DOMAIN c
  BY <1>1, <1>2
<1>4. ASSUME NEW i \in DOMAIN q, q[i].op = "destroy"
      PROVE  q[i].left \subseteq Fields[q[i].object]
  BY <1>2, <1>3, <1>4 DEF Neat
<1>5. ASSUME NEW i \in DOMAIN q, NEW j \in DOMAIN q,
             q[i].op = "destroy", q[j].op = "destroy", q[i].object = q[j].object
      PROVE  i = j
  <2>1. i + 1 = j + 1
    BY <1>2, <1>3, <1>5 DEF Neat
  <2>2. QED
    BY <1>3, <2>1
<1>6. ASSUME NEW i \in DOMAIN q, q[i].op = "destructor"
      PROVE  /\ i + 1 \in DOMAIN q
             /\ q[i + 1].op = "destroy"
             /\ q[i + 1].object = q[i].object
             /\ q[i + 1].left = Fields[q[i].object]
  <2>1. /\ (i + 1) + 1 \in DOMAIN c
        /\ c[(i + 1) + 1].op = "destroy"
        /\ c[(i + 1) + 1].object = c[i + 1].object
        /\ c[(i + 1) + 1].left = Fields[c[i + 1].object]
    BY <1>2, <1>3, <1>6 DEF Neat
  <2>2. i + 1 \in DOMAIN q
    BY <1>2, <1>3, <2>1
  <2>3. QED
    BY <1>2, <2>1, <2>2
<1>7. ASSUME x.op = "destroy"
      PROVE  /\ x.left \subseteq Fields[x.object]
             /\ \A y \in FramesOf(q) : y.op = "destroy" => y.object # x.object
  <2>1. x.left \subseteq Fields[x.object]
    BY <1>2, <1>3, <1>7 DEF Neat
  <2>2. ASSUME NEW i \in DOMAIN q, q[i].op = "destroy", q[i].object = x.object
        PROVE  FALSE
    <3>1. i + 1 = 1
      BY <1>2, <1>3, <1>7, <2>2 DEF Neat
    <3>2. QED
      BY <1>3, <3>1
  <2>3. QED
    BY <2>1, <2>2 DEF FramesOf
<1>8. ASSUME x.op = "destructor"
      PROVE  \E y \in FramesOf(q) :
                y.op = "destroy" /\ y.object = x.object /\ y.left = Fields[x.object]
  <2>1. /\ 1 + 1 \in DOMAIN c /\ c[1 + 1].op = "destroy" /\ c[1 + 1].object = x.object
        /\ c[1 + 1].left = Fields[x.object]
    BY <1>2, <1>3, <1>8 DEF Neat
  <2>2. 1 \in DOMAIN q
    BY <1>2, <2>1
  <2>3. QED
    BY <1>2, <2>1, <2>2 DEF FramesOf
<1>9. QED
  BY <1>4, <1>5, <1>6, <1>7, <1>8 DEF Neat

LEMMA NeatCons ==
    ASSUME NEW x \in Frame, NEW q \in Seq(Frame), Neat(q),
           x.op = "destroy" =>
             /\ x.left \subseteq Fields[x.object]
             /\ \A y \in FramesOf(q) : y.op = "destroy" => y.object # x.object,
           x.op = "destructor" =>
             /\ q # <<>> /\ q[1].op = "destroy" /\ q[1].object = x.object
             /\ q[1].left = Fields[x.object]
    PROVE  Neat(<<x>> \o q)
<1>1. PICK c : c = <<x>> \o q
  OBVIOUS
<1>2. /\ DOMAIN c = 1 .. Len(q) + 1 /\ DOMAIN q = 1 .. Len(q) /\ Len(q) \in Nat
      /\ c[1] = x /\ \A i \in DOMAIN q : c[i + 1] = q[i]
  BY <1>1, Cons
<1>3. ASSUME NEW i \in DOMAIN c, i # 1
      PROVE  i - 1 \in DOMAIN q /\ c[i] = q[i - 1] /\ q[i - 1] \in FramesOf(q) /\ i \in Nat
  <2>1. i - 1 \in DOMAIN q /\ (i - 1) + 1 = i
    BY <1>2, <1>3
  <2>2. c[(i - 1) + 1] = q[i - 1]
    BY <1>2, <2>1
  <2>3. QED
    BY <1>2, <2>1, <2>2 DEF FramesOf
<1>4. ASSUME NEW i \in DOMAIN c, c[i].op = "destroy"
      PROVE  c[i].left \subseteq Fields[c[i].object]
  <2>1. CASE i = 1
    BY <1>2, <1>4, <2>1
  <2>2. CASE i # 1
    BY <1>3, <1>4, <2>2 DEF Neat
  <2>3. QED
    BY <2>1, <2>2
<1>5. ASSUME NEW i \in DOMAIN c, NEW j \in DOMAIN c,
             c[i].op = "destroy", c[j].op = "destroy", c[i].object = c[j].object
      PROVE  i = j
  <2>1. CASE i = 1 \/ j = 1
    BY <1>2, <1>3, <1>5, <2>1
  <2>2. CASE i # 1 /\ j # 1
    <3>1. i - 1 = j - 1 /\ i \in Nat /\ j \in Nat
      BY <1>3, <1>5, <2>2 DEF Neat
    <3>2. QED
      BY <3>1
  <2>3. QED
    BY <2>1, <2>2
<1>6. ASSUME NEW i \in DOMAIN c, c[i].op = "destructor"
      PROVE  /\ i + 1 \in DOMAIN c
             /\ c[i + 1].op = "destroy"
             /\ c[i + 1].object = c[i].object
             /\ c[i + 1].left = Fields[c[i].object]
  <2>1. CASE i = 1
    <3>1. x.op = "destructor"
      BY <1>2, <1>6, <2>1
    <3>2. Len(q) # 0
      BY <3>1
    <3>3. 1 \in DOMAIN q /\ i + 1 \in DOMAIN c
      BY <1>2, <2>1, <3>2
    <3>4. c[i + 1] = q[1] /\ c[i] = x
      BY <1>2, <2>1, <3>3
    <3>5. QED
      BY <3>1, <3>3, <3>4
  <2>2. CASE i # 1
    <3>1. i - 1 \in DOMAIN q /\ c[i] = q[i - 1] /\ i \in Nat /\ (i - 1) + 1 = i
      BY <1>3, <2>2
    <3>2. /\ i \in DOMAIN q
          /\ q[i].op = "destroy" /\ q[i].object = c[i].object
          /\ q[i].left = Fields[c[i].object]
      BY <1>6, <3>1 DEF Neat
    <3>3. i + 1 \in DOMAIN c /\ c[i + 1] = q[i]
      BY <1>2, <3>2
    <3>4. QED
      BY <3>2, <3>3
  <2>3. QED
    BY <2>1, <2>2
<1>7. Neat(c)
  BY <1>4, <1>5, <1>6 DEF Neat
<1>8. QED
  BY <1>1, <1>7

-----------------------------------------------------------------------------
(* The functions init_library chooses.  A strong slot is one whose copies  *)
(* count, and the value type; a weak one that can hold an object is kept   *)
(* in the table by its copies and taken out when it is finalized.          *)

LEMMA StrongFits ==
    ASSUME NEW f \in Slots
    PROVE  /\ CopyFunc(f) \in Counting => Strong(f)
           /\ Type[f] = "value" <=> CopyFunc(f) = "copy_value"
           /\ Type[f] = "value" => Strong(f) /\ StrongType(f) = "value"
           /\ Type[f] # "value" => StrongType(f) \in {"interface", "refobject", "dynarray"}
           /\ StrongType(f) = "value" => Type[f] = "value"
           /\ Type[f] = "interface" => Strong(f) /\ StrongType(f) = "interface"
           /\ CopyFunc(f) \in {"copy_weakinterface", "copy_weakrefobject", "copy_native"} =>
                ~Strong(f) /\ Type[f] # "value"
           /\ Strong(f) => FinalFunc(f) # "none_func"
                           /\ FinalFunc(f) \notin {"final_weakinterface", "final_weakrefobject"}
<1>1. Type[f] \in {"interface", "weakinterface", "refobject", "weakrefobject", "value", "dynarray"}
  OBVIOUS
<1> USE DEF CopyFunc, FinalFunc, Counting, Releasing, Strong, StrongType
<1>2. CASE Type[f] = "interface"
  BY <1>2
<1>3. CASE Type[f] = "weakinterface"
  BY <1>3 DEF WeakInterfaceCopy, WeakInterfaceFinal
<1>4. CASE Type[f] = "refobject"
  BY <1>4 DEF RefObjectCopy, RefObjectFinal
<1>5. CASE Type[f] = "weakrefobject"
  BY <1>5 DEF WeakRefObjectCopy, WeakRefObjectFinal
<1>6. CASE Type[f] = "value"
  BY <1>6
<1>7. CASE Type[f] = "dynarray"
  BY <1>7
<1>8. QED
  BY <1>1, <1>2, <1>3, <1>4, <1>5, <1>6, <1>7

LEMMA WeakFits ==
    ASSUME Supported, NEW f \in Slots, ~Strong(f), NEW o \in Objects, Fits(f, o)
    PROVE  /\ CopyFunc(f) # "copy_native"
           /\ FinalFunc(f) \in {"final_weakinterface", "final_weakrefobject"}
<1>1. Type[f] \in {"interface", "weakinterface", "refobject", "weakrefobject", "value", "dynarray"}
  OBVIOUS
<1> USE DEF CopyFunc, FinalFunc, Releasing, Strong, StrongType, Supported, Fits
<1>2. CASE Type[f] = "weakinterface"
  BY <1>2 DEF WeakInterfaceCopy, WeakInterfaceFinal
<1>3. CASE Type[f] = "refobject"
  BY <1>3 DEF RefObjectCopy, RefObjectFinal
<1>4. CASE Type[f] = "weakrefobject"
  BY <1>4 DEF WeakRefObjectCopy, WeakRefObjectFinal
<1>5. CASE Type[f] \in {"interface", "value", "dynarray"}
  BY <1>5
<1>6. QED
  BY <1>1, <1>2, <1>3, <1>4, <1>5

LEMMA CreatedFits ==
    ASSUME Supported, NEW f \in Slots, NEW o \in Objects, Type[f] = Family[o]
    PROVE  Strong(f) /\ Fits(f, o)
<1>1. Type[f] \in {"interface", "refobject", "dynarray"}
  OBVIOUS
<1> USE DEF FinalFunc, Releasing, Strong, StrongType, Supported, Fits
<1>2. CASE Type[f] = "refobject"
  BY <1>2 DEF RefObjectFinal
<1>3. CASE Type[f] \in {"interface", "dynarray"}
  BY <1>3
<1>4. QED
  BY <1>1, <1>2, <1>3

(* Copying within one kind keeps the kinds apart.                          *)
LEMMA KindsFit ==
    ASSUME NEW f \in Slots, NEW g \in Slots, NEW q, StrongType(g) = StrongType(f), Fits(g, q)
    PROVE  Fits(f, q)
BY StrongFits DEF Fits

-----------------------------------------------------------------------------
(* The stack in front of a step.                                           *)
Rest == IF stack = <<>> THEN <<>> ELSE Tail(stack)

LEMMA Uncover ==
    ASSUME ValuesTypeOK, Neat(stack), stack # <<>>
    PROVE  /\ Rest \in Seq(Frame) /\ Head(stack) \in Frame /\ Neat(Rest)
           /\ stack = <<Head(stack)>> \o Rest
           /\ FramesOf(stack) = {Head(stack)} \cup FramesOf(Rest)
<1>1. /\ Head(stack) \in Frame /\ Tail(stack) \in Seq(Frame)
      /\ stack = <<Head(stack)>> \o Tail(stack)
  BY HeadTailProperties DEF ValuesTypeOK
<1>2. Rest = Tail(stack)
  BY DEF Rest
<1>3. PICK h \in Frame : h = Head(stack)
  BY <1>1
<1>4. PICK r \in Seq(Frame) : r = Tail(stack)
  BY <1>1
<1>5. stack = <<h>> \o r /\ Rest = r
  BY <1>1, <1>2, <1>3, <1>4
<1>6. Neat(<<h>> \o r)
  BY <1>5
<1>7. Neat(r)
  BY <1>6, NeatTail
<1>8. FramesOf(<<h>> \o r) = {h} \cup FramesOf(r)
  BY ConsFrames
<1>9. QED
  BY <1>3, <1>5, <1>7, <1>8

LEMMA TwoFrames ==
    ASSUME NEW x \in Frame, NEW y \in Frame
    PROVE  <<x>> \in Seq(Frame) /\ <<y>> \in Seq(Frame) /\ <<x>> \o <<y>> = <<x, y>>
<1>1. <<x>> \in Seq(Frame) /\ <<y>> \in Seq(Frame) /\ <<x, y>> \in Seq(Frame)
  OBVIOUS
<1>2. /\ <<x>> \o <<y>> \in Seq(Frame) /\ Len(<<x>> \o <<y>>) = 2
      /\ (<<x>> \o <<y>>)[1] = x /\ (<<x>> \o <<y>>)[2] = y
  BY <1>1
<1>3. \A i \in 1 .. 2 : (<<x>> \o <<y>>)[i] = <<x, y>>[i]
  BY <1>2
<1>4. QED
  BY <1>1, <1>2, <1>3, SeqEqual

LEMMA Pushing ==
    ASSUME Rest \in Seq(Frame)
    PROVE  /\ Push(<<>>) = Rest
           /\ \A x \in Frame : Push(<<x>>) = <<x>> \o Rest
           /\ \A x, y \in Frame : Push(<<x, y>>) = <<x>> \o (<<y>> \o Rest)
<1>1. Push(<<>>) = Rest
  BY ConcatEmptySeq DEF Push, Rest
<1>2. ASSUME NEW x \in Frame
      PROVE  Push(<<x>>) = <<x>> \o Rest
  BY DEF Push, Rest
<1>3. ASSUME NEW x \in Frame, NEW y \in Frame
      PROVE  Push(<<x, y>>) = <<x>> \o (<<y>> \o Rest)
  <2>1. <<x>> \in Seq(Frame) /\ <<y>> \in Seq(Frame) /\ <<x>> \o <<y>> = <<x, y>>
    BY TwoFrames
  <2>2. (<<x>> \o <<y>>) \o Rest = <<x>> \o (<<y>> \o Rest)
    BY <2>1, ConcatAssociative
  <2>3. QED
    BY <2>1, <2>2 DEF Push, Rest
<1>4. QED
  BY <1>1, <1>2, <1>3

LEMMA GivingIs ==
    ASSUME NEW o \in Objects
    PROVE  \E x \in Frame : Giving(o) = <<x>> /\ x.op = "release" /\ x.object = o
<1> DEFINE x == [op |-> "release", object |-> o, left |-> {}]
<1>1. x \in Frame /\ x.op = "release" /\ x.object = o
  BY DEF Frame
<1>2. Giving(o) = <<x>>
  BY DEF Giving
<1>3. QED
  BY <1>1, <1>2

LEMMA FramesAre ==
    ASSUME ValuesTypeOK
    PROVE  \A x \in FramesOf(stack) : x \in Frame /\ x.object \in Objects /\ x.left \subseteq Slots
<1>1. \A i \in DOMAIN stack : stack[i] \in Frame
  BY DEF ValuesTypeOK
<1>2. \A x \in Frame : x.object \in Objects /\ x.left \subseteq Slots
  BY DEF Frame
<1>3. QED
  BY <1>1, <1>2 DEF FramesOf

LEMMA LiveSlots ==
    ASSUME ValuesTypeOK
    PROVE  Live \subseteq Slots
<1>1. \A x \in FramesOf(stack) : x.left \subseteq Slots
  BY FramesAre
<1>2. QED
  BY <1>1 DEF Live, LeftIn, Slots

(* What a program can reach is live: the fields an object's destructor     *)
(* uses are the ones its frame has still to finalize.                      *)
LEMMA InUseIsLive ==
    ASSUME ValuesTypeOK, Neat(stack), NEW f, InUse(f)
    PROVE  f \in Live
<1>1. CASE f \in Roots
  BY <1>1 DEF Live
<1>2. ASSUME NEW o \in Objects, f \in Fields[o], state[o] = "alive"
      PROVE  f \in Live
  BY <1>2 DEF Live
<1>3. ASSUME NEW o \in Objects, f \in Fields[o], Destructor(o)
      PROVE  f \in Live
  <2>1. PICK y \in FramesOf(Rest) :
          y.op = "destroy" /\ y.object = Head(stack).object /\ y.left = Fields[Head(stack).object]
    <3>1. stack # <<>> /\ Head(stack).op = "destructor"
      BY <1>3 DEF Destructor
    <3>2. PICK h \in Frame, r \in Seq(Frame) : h = Head(stack) /\ r = Rest /\ stack = <<h>> \o r
      BY <3>1, Uncover
    <3>3. Neat(<<h>> \o r)
      BY <3>2
    <3>4. QED
      BY <3>1, <3>2, <3>3, NeatTail
  <2>2. y \in FramesOf(stack) /\ y.left = Fields[o]
    BY <1>3, <2>1, Uncover DEF Destructor
  <2>3. QED
    BY <1>3, <2>1, <2>2 DEF Live, LeftIn
<1>4. QED
  BY <1>1, <1>2, <1>3 DEF InUse

LEMMA HeldByIsHeld ==
    ASSUME ValuesTypeOK, Neat(stack), NEW o
    PROVE  HeldBy(o) = Held(o)
<1>1. ASSUME NEW f \in Slots, f \in Live
      PROVE  InUse(f) \/ \E i \in DOMAIN stack : stack[i].op = "destroy" /\ f \in stack[i].left
  <2>1. CASE f \in LeftIn(stack)
    BY <2>1 DEF LeftIn, FramesOf
  <2>2. CASE f \notin LeftIn(stack)
    BY <1>1, <2>2 DEF Live, InUse
  <2>3. QED
    BY <2>1, <2>2
<1>2. ASSUME NEW f \in Slots, NEW i \in DOMAIN stack, stack[i].op = "destroy", f \in stack[i].left
      PROVE  f \in Live
  BY <1>2 DEF Live, LeftIn, FramesOf
<1>3. QED
  BY <1>1, <1>2, InUseIsLive DEF HeldBy, Held, Strong

-----------------------------------------------------------------------------
(* Steps, by what they do to the slots.                                    *)

LEMMA HeldFinite ==
    ASSUME NEW S \in SUBSET Slots
    PROVE  IsFiniteSet(S) /\ Cardinality(S) \in Nat
BY FS_Subset, FS_CardinalityType

LEMMA HeldAfter ==
    ASSUME ValuesTypeOK, NEW f \in Live, Strong(f), NEW q, q # slot[f],
           slot' = [slot EXCEPT ![f] = q],
           Live' = Live \/ (Live' = Live \ {f} /\ q \notin Objects),
           NEW o \in Objects
    PROVE  /\ Cardinality(Held(o)) \in Nat /\ Cardinality(Held(o))' \in Nat
           /\ o = q => Cardinality(Held(o))' = Cardinality(Held(o)) + 1
           /\ o = slot[f] => Cardinality(Held(o)) = Cardinality(Held(o))' + 1
           /\ o # q /\ o # slot[f] => Cardinality(Held(o))' = Cardinality(Held(o))
<1>1. f \in Slots
  BY LiveSlots
<1>2. \A g \in Slots : slot'[g] = IF g = f THEN q ELSE slot[g]
  BY <1>1 DEF ValuesTypeOK
<1>3. PICK H \in SUBSET Slots : H = Held(o)
  BY DEF Held
<1>4. PICK K \in SUBSET Slots : K = Held(o)'
  BY DEF Held
<1>5. CASE o = q
  <2>1. K = H \cup {f} /\ f \notin H
    BY <1>1, <1>2, <1>3, <1>4, <1>5 DEF Held
  <2>2. Cardinality(K) = Cardinality(H) + 1
    BY <2>1, HeldFinite, FS_AddElement
  <2>3. QED
    BY <1>3, <1>4, <1>5, <2>2, HeldFinite
<1>6. CASE o = slot[f]
  <2>1. H = K \cup {f} /\ f \notin K
    BY <1>1, <1>2, <1>3, <1>4, <1>6 DEF Held
  <2>2. Cardinality(H) = Cardinality(K) + 1
    BY <2>1, HeldFinite, FS_AddElement
  <2>3. QED
    BY <1>3, <1>4, <1>6, <2>2, HeldFinite
<1>7. CASE o # q /\ o # slot[f]
  <2>1. H = K
    BY <1>1, <1>2, <1>3, <1>4, <1>7 DEF Held
  <2>2. QED
    BY <1>3, <1>4, <1>7, <2>1, HeldFinite
<1>8. QED
  BY <1>5, <1>6, <1>7

(* A strong slot gives up its reference, which is given back, for another, *)
(* which is counted.                                                       *)
LEMMA Assigns ==
    ASSUME IInv, ValuesTypeOK', Neat(stack)', Standing',
           NEW f \in Live, Strong(f), NEW q, q # slot[f],
           q \in Objects => state[q] = "alive", Fits(f, q),
           slot' = [slot EXCEPT ![f] = q], UNCHANGED <<state, told>>,
           Live' = Live \/ (Live' = Live \ {f} /\ q \notin Objects),
           \A o \in Objects : refs'[o] = IF o = q THEN refs[o] + 1 ELSE refs[o],
           \A o \in Objects :
             Count(stack, o)' = IF o = slot[f] THEN Count(stack, o) + 1 ELSE Count(stack, o)
    PROVE  IInv'
<1>1. ValuesTypeOK /\ f \in Slots
  BY LiveSlots DEF IInv
<1>2. \A g \in Slots : slot'[g] = IF g = f THEN q ELSE slot[g]
  BY <1>1 DEF ValuesTypeOK
<1>3. Counted'
  <2>1. ASSUME NEW o \in Objects, state[o] = "alive"
        PROVE  refs'[o] = Cardinality(Held(o))' + Count(stack, o)' /\ refs'[o] > 0
    <3>0. /\ Cardinality(Held(o)) \in Nat /\ Cardinality(Held(o))' \in Nat
          /\ o = q => Cardinality(Held(o))' = Cardinality(Held(o)) + 1
          /\ o = slot[f] => Cardinality(Held(o)) = Cardinality(Held(o))' + 1
          /\ o # q /\ o # slot[f] => Cardinality(Held(o))' = Cardinality(Held(o))
      BY ZenonT(60), <1>1, HeldAfter
    <3>1. PICK n \in Nat, m \in Nat, c \in Nat :
            n = Cardinality(Held(o)) /\ m = Cardinality(Held(o))' /\ c = Count(stack, o)
      BY <1>1, <3>0, ReleasesFinite DEF ValuesTypeOK
    <3>2. /\ o = q => m = n + 1
          /\ o = slot[f] => n = m + 1
          /\ o # q /\ o # slot[f] => m = n
      BY <3>0, <3>1
    <3>3. refs[o] = n + c /\ refs[o] > 0
      BY <2>1, <3>1 DEF IInv, Counted
    <3>4. Count(stack, o)' = IF o = slot[f] THEN c + 1 ELSE c
      BY <3>1
    <3>5. refs'[o] = m + Count(stack, o)' /\ refs'[o] > 0
      BY <3>2, <3>3, <3>4
    <3>6. QED
      BY <3>1, <3>5
  <2>2. QED
    BY <2>1 DEF Counted
<1>4. Known'
  BY <1>1, <1>2, LiveSlots DEF IInv, Known
<1>5. Kinds'
  BY <1>2 DEF IInv, Kinds
<1>6. QED
  BY <1>3, <1>4, <1>5 DEF IInv

(* A weak slot changes, or nothing at all: no counter is concerned.        *)
LEMMA AssignsWeak ==
    ASSUME IInv, ValuesTypeOK', Neat(stack)', Standing',
           NEW f \in Slots, ~Strong(f), NEW q, Fits(f, q),
           slot' = [slot EXCEPT ![f] = q], UNCHANGED <<state, refs>>,
           Live' = Live \/ Live' = Live \ {f},
           q \in Objects /\ f \in Live' => f \in told' /\ state[q] = "alive",
           told \subseteq told' \cup {f},
           \A o \in Objects : Count(stack, o)' = Count(stack, o)
    PROVE  IInv'
<1>1. \A g \in Slots : slot'[g] = IF g = f THEN q ELSE slot[g]
  BY DEF IInv, ValuesTypeOK
<1>2. \A o : Held(o)' = Held(o)
  BY <1>1 DEF Held
<1>3. Counted'
  BY <1>2 DEF IInv, Counted
<1>4. Known'
  <2>1. Live \subseteq Slots
    BY LiveSlots DEF IInv
  <2>2. QED
    BY <1>1, <2>1 DEF IInv, Known
<1>5. Kinds'
  BY <1>1 DEF IInv, Kinds
<1>6. QED
  BY <1>3, <1>4, <1>5 DEF IInv

(* No slot and no counter changes.                                         *)
LEMMA Untouched ==
    ASSUME IInv, ValuesTypeOK', Neat(stack)', Standing', Live' = Live,
           UNCHANGED <<slot, refs, told>>,
           \A o \in Objects : state'[o] = "alive" <=> state[o] = "alive",
           \A o \in Objects : Count(stack, o)' = Count(stack, o)
    PROVE  IInv'
<1>1. \A o : Held(o)' = Held(o)
  BY DEF Held
<1>2. Counted'
  BY <1>1 DEF IInv, Counted
<1>3. Known' /\ Kinds'
  BY DEF IInv, Known, Kinds
<1>4. QED
  BY <1>2, <1>3 DEF IInv

-----------------------------------------------------------------------------
(* Operations of a program: it is outermost, or the destructor on top.     *)
Calling == stack = <<>> \/ OnTop("destructor")

LEMMA Ready ==
    ASSUME ValuesTypeOK, Neat(stack), Calling
    PROVE  /\ Rest \in Seq(Frame) /\ Neat(Rest)
           /\ LeftIn(Rest) = LeftIn(stack) /\ FramesOf(Rest) \subseteq FramesOf(stack)
           /\ \A o : Count(Rest, o) = Count(stack, o)
<1>1. CASE stack = <<>>
  BY <1>1 DEF Rest, ValuesTypeOK
<1>2. CASE OnTop("destructor")
  <2>1. stack # <<>> /\ Head(stack).op = "destructor"
    BY <1>2 DEF OnTop
  <2>2. PICK h \in Frame, r \in Seq(Frame) :
          h = Head(stack) /\ r = Rest /\ stack = <<h>> \o r /\ Neat(r)
    BY <2>1, Uncover
  <2>3. h.op = "destructor"
    BY <2>1, <2>2
  <2>4. /\ LeftIn(<<h>> \o r) = LeftIn(r) /\ FramesOf(r) \subseteq FramesOf(<<h>> \o r)
        /\ \A o : Count(<<h>> \o r, o) = Count(r, o)
    BY <2>3, ConsFrames, ConsCount
  <2>5. QED
    BY <2>2, <2>4
<1>3. QED
  BY <1>1, <1>2 DEF Calling

LEMMA Gives ==
    ASSUME IInv, Calling, NEW v, v \in Objects => state[v] = "alive", UNCHANGED state,
           stack' = Push(IF IsObject(v) THEN Giving(v) ELSE <<>>)
    PROVE  /\ stack' \in Seq(Frame) /\ Neat(stack)' /\ Standing' /\ Live' = Live
           /\ \A o \in Objects :
                Count(stack, o)' = IF o = v THEN Count(stack, o) + 1 ELSE Count(stack, o)
<1>1. /\ Rest \in Seq(Frame) /\ Neat(Rest)
      /\ LeftIn(Rest) = LeftIn(stack) /\ FramesOf(Rest) \subseteq FramesOf(stack)
      /\ \A o : Count(Rest, o) = Count(stack, o)
  BY Ready DEF IInv
<1>2. \A x \in FramesOf(stack) : Stands(x)'
  BY DEF IInv, Standing, Stands
<1>3. CASE v \in Objects
  <2>1. PICK x \in Frame : Giving(v) = <<x>> /\ x.op = "release" /\ x.object = v
    BY <1>3, GivingIs
  <2>2. PICK r \in Seq(Frame) : r = Rest
    BY <1>1
  <2>3. stack' = <<x>> \o r
    BY <1>1, <1>3, <2>1, <2>2, Pushing DEF IsObject
  <2>4. <<x>> \o r \in Seq(Frame) /\ Neat(<<x>> \o r)
    BY <1>1, <2>1, <2>2, Cons, NeatCons
  <2>5. FramesOf(<<x>> \o r) = {x} \cup FramesOf(r) /\ LeftIn(<<x>> \o r) = LeftIn(r)
    BY <2>1, ConsFrames
  <2>6. Standing'
    <3>1. Stands(x)'
      BY <1>3, <2>1 DEF Stands
    <3>2. QED
      BY <1>1, <1>2, <2>2, <2>3, <2>5, <3>1 DEF Standing
  <2>7. Live' = Live
    BY <1>1, <2>2, <2>3, <2>5 DEF Live
  <2>8. ASSUME NEW o \in Objects
        PROVE  Count(<<x>> \o r, o) = IF o = v THEN Count(r, o) + 1 ELSE Count(r, o)
    BY <2>1, ConsCount
  <2>9. QED
    BY <1>1, <2>2, <2>3, <2>4, <2>6, <2>7, <2>8
<1>4. CASE v \notin Objects
  <2>1. stack' = Rest
    BY <1>1, <1>4, Pushing DEF IsObject
  <2>2. Standing' /\ Live' = Live
    BY <1>1, <1>2, <2>1 DEF Standing, Live
  <2>3. QED
    BY <1>1, <1>4, <2>1, <2>2
<1>5. QED
  BY <1>3, <1>4

LEMMA TypeStep ==
    ASSUME IInv, slot' \in [Slots -> Objects \cup {Nil, Dummy}], refs' \in [Objects -> Nat],
           UNCHANGED state, told' \subseteq Slots, stack' \in Seq(Frame)
    PROVE  ValuesTypeOK'
BY DEF IInv, ValuesTypeOK

LEMMA AddRefIs ==
    ASSUME ValuesTypeOK, NEW q, IF IsObject(q) THEN AddRef(q) ELSE UNCHANGED refs
    PROVE  /\ refs' \in [Objects -> Nat]
           /\ \A o \in Objects : refs'[o] = IF o = q THEN refs[o] + 1 ELSE refs[o]
<1>1. CASE q \in Objects
  BY <1>1 DEF ValuesTypeOK, AddRef, IsObject
<1>2. CASE q \notin Objects
  <2>1. refs' = refs /\ refs \in [Objects -> Nat]
    BY <1>2 DEF ValuesTypeOK, IsObject
  <2>2. QED
    BY <1>2, <2>1
<1>3. QED
  BY <1>1, <1>2

(* The common part of the operations that store a reference.               *)
LEMMA Stores ==
    ASSUME IInv, Calling, NEW f \in Live, Strong(f), NEW q \in Objects \cup {Nil, Dummy},
           q # slot[f], q \in Objects => state[q] = "alive", Fits(f, q),
           slot' = [slot EXCEPT ![f] = q], UNCHANGED <<state, told>>,
           IF IsObject(q) THEN AddRef(q) ELSE UNCHANGED refs,
           Release(slot[f])
    PROVE  IInv'
<1>1. ValuesTypeOK /\ f \in Slots /\ Known
  BY LiveSlots DEF IInv
<1>2. slot[f] \in Objects => state[slot[f]] = "alive"
  BY <1>1 DEF Known
<1>3. /\ stack' \in Seq(Frame) /\ Neat(stack)' /\ Standing' /\ Live' = Live
      /\ \A o \in Objects :
           Count(stack, o)' = IF o = slot[f] THEN Count(stack, o) + 1 ELSE Count(stack, o)
  BY <1>2, Gives DEF Release
<1>4. /\ refs' \in [Objects -> Nat]
      /\ \A o \in Objects : refs'[o] = IF o = q THEN refs[o] + 1 ELSE refs[o]
  BY <1>1, AddRefIs
<1>5. ValuesTypeOK'
  BY <1>1, <1>3, <1>4 DEF ValuesTypeOK
<1>6. QED
  BY <1>3, <1>4, <1>5, Assigns

(* The common part of those that store no reference that counts.           *)
LEMMA StoresWeak ==
    ASSUME IInv, Calling, NEW f \in Live, ~Strong(f), NEW q \in Objects \cup {Nil, Dummy},
           Fits(f, q), slot' = [slot EXCEPT ![f] = q], UNCHANGED <<state, refs>>,
           q \in Objects => f \in told' /\ state[q] = "alive",
           told' \subseteq Slots, told \subseteq told' \cup {f}, stack' = Push(<<>>)
    PROVE  IInv'
<1>1. ValuesTypeOK /\ f \in Slots
  BY LiveSlots DEF IInv
<1>2. /\ stack' \in Seq(Frame) /\ Neat(stack)' /\ Standing' /\ Live' = Live
      /\ \A o \in Objects :
           Count(stack, o)' = IF o = Nil THEN Count(stack, o) + 1 ELSE Count(stack, o)
  BY Gives DEF IsObject
<1>3. \A o \in Objects : Count(stack, o)' = Count(stack, o)
  BY <1>2
<1>4. ValuesTypeOK'
  BY <1>1, <1>2 DEF ValuesTypeOK
<1>5. QED
  BY <1>1, <1>2, <1>3, <1>4, AssignsWeak

LEMMA FinalizedIs ==
    ASSUME ValuesTypeOK, NEW f \in Slots
    PROVE  /\ Strong(f) =>
                /\ Finalized(f) = [slot EXCEPT ![f] = Nil] /\ ToldAfter(f) = told
                /\ GivenBack(f) = IF IsObject(slot[f]) THEN Giving(slot[f]) ELSE <<>>
           /\ ~Strong(f) =>
                /\ \E q \in {Nil, slot[f]} :
                     /\ Finalized(f) = [slot EXCEPT ![f] = q]
                     /\ FinalFunc(f) # "none_func" => q = Nil
                /\ ToldAfter(f) \in {told, told \ {f}}
                /\ GivenBack(f) = <<>>
<1>1. ASSUME Strong(f)
      PROVE  /\ Finalized(f) = [slot EXCEPT ![f] = Nil] /\ ToldAfter(f) = told
             /\ GivenBack(f) = IF IsObject(slot[f]) THEN Giving(slot[f]) ELSE <<>>
  BY <1>1, StrongFits DEF Finalized, ToldAfter, GivenBack, Strong
<1>2. ASSUME ~Strong(f)
      PROVE  /\ \E q \in {Nil, slot[f]} :
                  /\ Finalized(f) = [slot EXCEPT ![f] = q]
                  /\ FinalFunc(f) # "none_func" => q = Nil
             /\ ToldAfter(f) \in {told, told \ {f}}
             /\ GivenBack(f) = <<>>
  BY <1>2 DEF Finalized, ToldAfter, GivenBack, Strong
<1>3. QED
  BY <1>1, <1>2

(* A weak slot that refers to an object is finalized by forgetting it.     *)
LEMMA WeakForgets ==
    ASSUME Supported, IInv, NEW f \in Slots, ~Strong(f), NEW q \in {Nil, slot[f]},
           FinalFunc(f) # "none_func" => q = Nil
    PROVE  q \notin Objects /\ q \in Objects \cup {Nil, Dummy}
<1>1. ASSUME slot[f] \in Objects
      PROVE  FinalFunc(f) # "none_func"
  <2>1. Fits(f, slot[f])
    BY DEF IInv, Kinds
  <2>2. QED
    BY <1>1, <2>1, WeakFits
<1>2. slot[f] \in Objects \cup {Nil, Dummy}
  BY DEF IInv, ValuesTypeOK
<1>3. QED
  BY <1>1, <1>2

LEMMA FinalStep ==
    ASSUME Supported, IInv, Calling, NEW f \in Live, Final(f)
    PROVE  IInv'
<1>1. ValuesTypeOK /\ f \in Slots /\ slot[f] # Nil
  BY LiveSlots DEF IInv, Final
<1>2. CASE Strong(f)
  <2>1. /\ slot' = [slot EXCEPT ![f] = Nil] /\ UNCHANGED <<state, told, refs>>
        /\ Release(slot[f])
    BY <1>1, <1>2, FinalizedIs DEF Final, Release
  <2>2. Fits(f, Nil) /\ ~IsObject(Nil)
    BY DEF Fits, IsObject
  <2>3. QED
    BY <1>1, <1>2, <2>1, <2>2, Stores
<1>3. CASE ~Strong(f)
  <2>1. PICK q \in {Nil, slot[f]} :
          slot' = [slot EXCEPT ![f] = q] /\ (FinalFunc(f) # "none_func" => q = Nil)
    BY <1>1, <1>3, FinalizedIs DEF Final
  <2>2. told' \in {told, told \ {f}} /\ stack' = Push(<<>>) /\ UNCHANGED <<state, refs>>
    BY <1>1, <1>3, FinalizedIs DEF Final
  <2>3. q \notin Objects /\ q \in Objects \cup {Nil, Dummy} /\ Fits(f, q)
    BY <1>1, <1>3, <2>1, WeakForgets DEF Fits
  <2>4. told' \subseteq Slots /\ told \subseteq told' \cup {f}
    BY <1>1, <2>2 DEF ValuesTypeOK
  <2>5. QED
    BY <1>3, <2>1, <2>2, <2>3, <2>4, StoresWeak
<1>4. QED
  BY <1>2, <1>3

(* What a live slot holds may be stored in another one of its kind.        *)
LEMMA Source ==
    ASSUME IInv, NEW f \in Live, NEW g \in Live, StrongType(g) = StrongType(f)
    PROVE  /\ f \in Slots /\ slot[g] \in Objects \cup {Nil, Dummy} /\ Fits(f, slot[g])
           /\ slot[g] \in Objects => state[slot[g]] = "alive"
<1>1. f \in Slots /\ g \in Slots
  BY LiveSlots DEF IInv
<1>2. Fits(g, slot[g]) /\ slot[g] \in Objects \cup {Nil, Dummy}
  BY <1>1 DEF IInv, Kinds, ValuesTypeOK
<1>3. QED
  BY <1>1, <1>2, KindsFit DEF IInv, Known

LEMMA CopyCountedStep ==
    ASSUME IInv, Calling, NEW f \in Live, NEW g \in Live, StrongType(g) = StrongType(f),
           CopyCounted(f, g)
    PROVE  IInv'
<1>1. /\ f \in Slots /\ slot[g] \in Objects \cup {Nil, Dummy} /\ Fits(f, slot[g])
      /\ slot[g] \in Objects => state[slot[g]] = "alive"
  BY Source
<1>2. /\ Strong(f) /\ slot[g] # slot[f] /\ slot' = [slot EXCEPT ![f] = slot[g]]
      /\ UNCHANGED <<state, told>> /\ Release(slot[f])
      /\ IF IsObject(slot[g]) THEN AddRef(slot[g]) ELSE UNCHANGED refs
  BY <1>1, StrongFits DEF CopyCounted
<1>3. QED
  BY <1>1, <1>2, Stores

LEMMA NothingStored ==
    ASSUME IInv, Calling, UNCHANGED <<slot, refs, state, told>>, stack' = Push(<<>>)
    PROVE  IInv'
<1>1. /\ stack' \in Seq(Frame) /\ Neat(stack)' /\ Standing' /\ Live' = Live
      /\ \A o \in Objects :
           Count(stack, o)' = IF o = Nil THEN Count(stack, o) + 1 ELSE Count(stack, o)
  BY Gives DEF IsObject
<1>2. \A o \in Objects : Count(stack, o)' = Count(stack, o)
  BY <1>1
<1>3. ValuesTypeOK'
  BY <1>1 DEF IInv, ValuesTypeOK
<1>4. QED
  BY <1>1, <1>2, <1>3, Untouched

LEMMA copy_valueStep ==
    ASSUME IInv, Calling, NEW f \in Live, NEW g \in Live, StrongType(g) = StrongType(f),
           copy_value(f, g)
    PROVE  IInv'
<1>1. /\ f \in Slots /\ slot[g] \in Objects \cup {Nil, Dummy} /\ Fits(f, slot[g])
      /\ slot[g] \in Objects => state[slot[g]] = "alive"
  BY Source
<1>2. Strong(f) /\ slot' = [slot EXCEPT ![f] = slot[g]] /\ UNCHANGED <<state, told>>
  BY <1>1, StrongFits DEF copy_value
<1>3. CASE slot[f] = slot[g]
  <2>1. slot' = slot
    BY <1>1, <1>2, <1>3 DEF IInv, ValuesTypeOK
  <2>2. refs' = refs /\ stack' = Push(<<>>)
    BY <1>3 DEF copy_value, Release, IsObject
  <2>3. QED
    BY <1>2, <2>1, <2>2, NothingStored
<1>4. CASE slot[f] # slot[g]
  <2>1. /\ IF IsObject(slot[g]) THEN AddRef(slot[g]) ELSE UNCHANGED refs
        /\ Release(slot[f])
    BY <1>4 DEF copy_value
  <2>2. QED
    BY <1>1, <1>2, <1>4, <2>1, Stores
<1>5. QED
  BY <1>3, <1>4

LEMMA CopyPlainStep ==
    ASSUME Supported, IInv, Calling, NEW f \in Live, NEW g \in Live,
           StrongType(g) = StrongType(f), CopyPlain(f, g)
    PROVE  IInv'
<1>1. /\ f \in Slots /\ slot[g] \in Objects \cup {Nil, Dummy} /\ Fits(f, slot[g])
      /\ slot[g] \in Objects => state[slot[g]] = "alive"
  BY Source
<1>2. ~Strong(f) /\ slot' = [slot EXCEPT ![f] = slot[g]] /\ UNCHANGED <<state, refs>>
  BY <1>1, StrongFits DEF CopyPlain
<1>3. stack' = Push(<<>>)
  BY DEF CopyPlain, Release, IsObject
<1>4. slot[g] \in Objects => f \in told'
  <2>1. ASSUME slot[g] \in Objects
        PROVE  CopyFunc(f) # "copy_native"
    BY <1>1, <1>2, <2>1, WeakFits
  <2>2. QED
    BY <2>1 DEF CopyPlain
<1>5. told' \subseteq Slots /\ told \subseteq told' \cup {f}
  BY <1>1 DEF CopyPlain, IInv, ValuesTypeOK
<1>6. QED
  BY <1>1, <1>2, <1>3, <1>4, <1>5, StoresWeak

LEMMA FillStep ==
    ASSUME IInv, Calling, NEW f \in Live, Fill(f)
    PROVE  IInv'
<1>1. f \in Slots /\ Type[f] = "value" /\ slot[f] \in {Nil, Dummy}
  BY LiveSlots DEF IInv, Fill
<1>2. Strong(f) /\ Fits(f, Dummy) /\ ~IsObject(Dummy) /\ ~IsObject(Nil) /\ ~IsObject(slot[f])
  BY <1>1, StrongFits DEF Fits, IsObject
<1>3. /\ slot' = [slot EXCEPT ![f] = Dummy] /\ UNCHANGED <<refs, state, told>>
      /\ stack' = Push(<<>>)
  BY <1>2 DEF Fill, Release
<1>4. CASE slot[f] = Dummy
  <2>1. slot' = slot
    BY <1>1, <1>3, <1>4 DEF IInv, ValuesTypeOK
  <2>2. QED
    BY <1>3, <2>1, NothingStored
<1>5. CASE slot[f] = Nil
  <2>1. Release(slot[f])
    BY <1>2, <1>3 DEF Release
  <2>2. QED
    BY <1>2, <1>3, <1>5, <2>1, Stores
<1>6. QED
  BY <1>1, <1>4, <1>5

LEMMA BoxStep ==
    ASSUME IInv, Calling, NEW f \in Live, NEW g \in Live, Box(f, g)
    PROVE  IInv'
<1>1. /\ f \in Slots /\ g \in Slots /\ Type[f] = "value" /\ slot[f] = Nil
      /\ Type[g] = "interface" /\ slot[g] # Nil
  BY LiveSlots DEF IInv, Box
<1>2. /\ slot' = [slot EXCEPT ![f] = slot[g]] /\ UNCHANGED <<state, told>>
      /\ refs' = [refs EXCEPT ![slot[g]] = @ + 1] /\ stack' = Push(<<>>)
  BY DEF Box, AddRef, Release, IsObject
<1>3. Strong(f) /\ Strong(g) /\ StrongType(g) = "interface"
  BY <1>1, StrongFits
<1>4. slot[g] \in Objects \cup {Nil, Dummy} /\ Fits(f, slot[g])
  BY <1>1, <1>3 DEF IInv, ValuesTypeOK, Kinds, Fits
<1>5. slot[g] \in Objects => state[slot[g]] = "alive"
  BY DEF IInv, Known
<1>6. IF IsObject(slot[g]) THEN AddRef(slot[g]) ELSE UNCHANGED refs
  BY <1>2, <1>4 DEF IInv, ValuesTypeOK, AddRef, IsObject
<1>7. Release(slot[f])
  BY <1>1, <1>2 DEF Release, IsObject
<1>8. QED
  BY <1>1, <1>2, <1>3, <1>4, <1>5, <1>6, <1>7, Stores

(* A new object: its fields were nobody's, and the variable that gets it   *)
(* holds its only reference.                                               *)
LEMMA FreshFields ==
    ASSUME IInv, NEW o \in Objects, state[o] = "free"
    PROVE  /\ Live \cap Fields[o] = {} /\ Held(o) = {} /\ Count(stack, o) = 0
           /\ \A x \in FramesOf(stack) : x.object # o
<1>1. \A x \in FramesOf(stack) : x.object # o
  BY DEF IInv, Standing, Stands
<1>2. ASSUME NEW f \in LeftIn(stack)
      PROVE  f \notin Fields[o]
  <2>1. PICK i \in DOMAIN stack : stack[i].op = "destroy" /\ f \in stack[i].left
    BY <1>2 DEF LeftIn, FramesOf
  <2>2. f \in Fields[stack[i].object]
    BY <2>1 DEF IInv, Neat
  <2>3. stack[i].object \in Objects /\ stack[i].object # o
    <3>1. stack[i] \in FramesOf(stack)
      BY DEF FramesOf
    <3>2. QED
      BY <1>1, <3>1, FramesAre DEF IInv
  <2>4. QED
    BY <2>2, <2>3
<1>3. Live \cap Fields[o] = {}
  BY <1>2 DEF Live
<1>4. Held(o) = {}
  BY DEF IInv, Known, Held
<1>5. Releases(stack, o) = {}
  BY <1>1 DEF Releases, FramesOf
<1>6. QED
  BY <1>1, <1>3, <1>4, <1>5, FS_EmptySet DEF Count

LEMMA CreateStep ==
    ASSUME Supported, IInv, Calling, NEW f \in Live, Create(f)
    PROVE  IInv'
<1>1. PICK o \in Objects :
        /\ state[o] = "free" /\ slot[f] = Nil /\ Type[f] = Family[o]
        /\ state' = [state EXCEPT ![o] = "alive"] /\ refs' = [refs EXCEPT ![o] = 1]
        /\ slot' = [g \in Slots |-> IF g = f THEN o ELSE IF g \in Fields[o] THEN Nil ELSE slot[g]]
        /\ told' = told \ Fields[o]
        /\ stack' = Push(<<>>)
  BY DEF Create, Release, IsObject
<1>2. ValuesTypeOK /\ f \in Slots /\ Live \subseteq Slots
  BY LiveSlots DEF IInv
<1>3. Strong(f) /\ Fits(f, o)
  BY <1>1, <1>2, CreatedFits
<1>4. /\ Live \cap Fields[o] = {} /\ Held(o) = {} /\ Count(stack, o) = 0
      /\ \A x \in FramesOf(stack) : x.object # o
  BY <1>1, FreshFields
<1>5. /\ Rest \in Seq(Frame) /\ Neat(Rest)
      /\ LeftIn(Rest) = LeftIn(stack) /\ FramesOf(Rest) \subseteq FramesOf(stack)
      /\ \A p : Count(Rest, p) = Count(stack, p)
  BY Ready DEF IInv
<1>6. stack' = Rest
  BY <1>1, <1>5, Pushing
<1>7. /\ \A p \in Objects : state'[p] = IF p = o THEN "alive" ELSE state[p]
      /\ \A p \in Objects : refs'[p] = IF p = o THEN 1 ELSE refs[p]
  BY <1>1, <1>2 DEF ValuesTypeOK
<1>8. Live' = Live \cup Fields[o]
  <2>1. {p \in Objects : state'[p] = "alive"} = {p \in Objects : state[p] = "alive"} \cup {o}
    BY <1>7
  <2>2. QED
    BY <1>5, <1>6, <2>1 DEF Live
<1>9. \A g \in Slots : slot'[g] = IF g = f THEN o ELSE IF g \in Fields[o] THEN Nil ELSE slot[g]
  BY <1>1
<1>10. ValuesTypeOK'
  BY <1>1, <1>2, <1>5, <1>6 DEF ValuesTypeOK
<1>11. Standing'
  <2>1. \A x \in FramesOf(stack) : x.object \in Objects
    BY FramesAre DEF IInv
  <2>2. QED
    BY <1>4, <1>5, <1>6, <1>7, <2>1 DEF IInv, Standing, Stands
<1>12. Counted'
  <2>1. ASSUME NEW p \in Objects, state'[p] = "alive"
        PROVE  refs'[p] = Cardinality(Held(p))' + Count(stack, p)' /\ refs'[p] > 0
    <3>1. Count(stack, p)' = Count(stack, p)
      BY <1>5, <1>6
    <3>2. CASE p = o
      <4>1. Held(o)' = {f}
        BY <1>2, <1>3, <1>4, <1>8, <1>9 DEF Held
      <4>2. Cardinality({f}) = 1
        BY FS_Singleton
      <4>3. Cardinality(Held(p))' = 1
        BY <3>2, <4>1, <4>2
      <4>4. Count(stack, p)' = 0 /\ refs'[p] = 1
        BY <1>4, <1>7, <3>1, <3>2
      <4>5. QED
        BY <4>3, <4>4
    <3>3. CASE p # o
      <4>1. Held(p)' = Held(p)
        BY <1>1, <1>2, <1>4, <1>8, <1>9, <3>3 DEF Held
      <4>2. QED
        BY <1>7, <2>1, <3>1, <3>3, <4>1 DEF IInv, Counted
    <3>4. QED
      BY <3>2, <3>3
  <2>2. QED
    BY <2>1 DEF Counted
<1>13. Known'
  <2>1. ASSUME NEW g \in Live', slot'[g] \in Objects
        PROVE  state'[slot'[g]] = "alive" /\ (~Strong(g) => g \in told')
    <3>1. g \in Slots
      BY <1>2, <1>8 DEF Slots
    <3>2. CASE g = f
      BY <1>3, <1>7, <1>9, <3>1, <3>2
    <3>3. CASE g # f
      <4>1. g \notin Fields[o] /\ slot'[g] = slot[g] /\ g \in Live
        BY <1>8, <1>9, <2>1, <3>1, <3>3
      <4>2. state[slot[g]] = "alive" /\ (~Strong(g) => g \in told)
        BY <2>1, <4>1 DEF IInv, Known
      <4>3. QED
        BY <1>1, <1>7, <2>1, <4>1, <4>2
    <3>4. QED
      BY <3>2, <3>3
  <2>2. QED
    BY <2>1 DEF Known
<1>14. Kinds'
  <2>1. \A g \in Slots : Fits(g, Nil)
    BY DEF Fits
  <2>2. QED
    BY <1>3, <1>9, <2>1 DEF IInv, Kinds
<1>15. QED
  BY <1>5, <1>6, <1>10, <1>11, <1>12, <1>13, <1>14 DEF IInv

LEMMA OperationStep ==
    ASSUME Supported, IInv, Calling, Operation
    PROVE  IInv'
<1>1. PICK f \in Slots :
        /\ InUse(f)
        /\ \/ Create(f) \/ Fill(f) \/ Final(f)
           \/ \E g \in Slots :
                /\ InUse(g)
                /\ \/ Box(f, g)
                   \/ /\ StrongType(g) = StrongType(f)
                      /\ CopyCounted(f, g) \/ copy_value(f, g) \/ CopyPlain(f, g)
  BY DEF Operation
<1>2. \A g : InUse(g) => g \in Live
  BY InUseIsLive DEF IInv
<1>3. CASE Create(f) \/ Fill(f) \/ Final(f)
  BY <1>1, <1>2, <1>3, CreateStep, FillStep, FinalStep
<1>4. ASSUME NEW g \in Slots, InUse(g), Box(f, g)
      PROVE  IInv'
  BY <1>1, <1>2, <1>4, BoxStep
<1>5. ASSUME NEW g \in Slots, InUse(g), StrongType(g) = StrongType(f),
             CopyCounted(f, g) \/ copy_value(f, g) \/ CopyPlain(f, g)
      PROVE  IInv'
  BY <1>1, <1>2, <1>5, CopyCountedStep, copy_valueStep, CopyPlainStep
<1>6. QED
  BY <1>1, <1>3, <1>4, <1>5

-----------------------------------------------------------------------------
(* Calls under way.                                                        *)
LEMMA Top ==
    ASSUME IInv, NEW op, OnTop(op)
    PROVE  \E h \in Frame, r \in Seq(Frame) :
             /\ h = Head(stack) /\ h.op = op /\ h.object \in Objects /\ h.left \subseteq Slots
             /\ r = Rest /\ stack = <<h>> \o r /\ Neat(r) /\ Neat(<<h>> \o r)
             /\ FramesOf(stack) = {h} \cup FramesOf(r) /\ Stands(h)
             /\ \A x \in FramesOf(r) : Stands(x) /\ x.object \in Objects
<1>1. stack # <<>> /\ Head(stack).op = op
  BY DEF OnTop
<1>2. PICK h \in Frame, r \in Seq(Frame) :
        /\ h = Head(stack) /\ r = Rest /\ stack = <<h>> \o r /\ Neat(r)
        /\ FramesOf(stack) = {h} \cup FramesOf(r)
  BY <1>1, Uncover DEF IInv
<1>3. Neat(<<h>> \o r)
  BY <1>2 DEF IInv
<1>4. \A x \in FramesOf(stack) : Stands(x) /\ x.object \in Objects /\ x.left \subseteq Slots
  BY FramesAre DEF IInv, Standing
<1>5. QED
  BY <1>1, <1>2, <1>3, <1>4

(* One reference less, and one less to give back.                          *)
LEMMA StillHeldStep ==
    ASSUME IInv, StillHeld
    PROVE  IInv'
<1>1. PICK h \in Frame, r \in Seq(Frame) :
        /\ h = Head(stack) /\ h.op = "release" /\ h.object \in Objects
        /\ r = Rest /\ stack = <<h>> \o r /\ Neat(r)
        /\ FramesOf(stack) = {h} \cup FramesOf(r)
        /\ \A x \in FramesOf(r) : Stands(x) /\ x.object \in Objects
  BY Top DEF StillHeld
<1>2. stack' = r
  BY <1>1, Pushing DEF StillHeld, Instead
<1>3. LeftIn(<<h>> \o r) = LeftIn(r)
  BY <1>1, ConsFrames
<1>4. UNCHANGED <<slot, state, told>>
  BY DEF StillHeld
<1>5. Live' = Live
  BY <1>1, <1>2, <1>3, <1>4 DEF Live
<1>6. \A o : Held(o)' = Held(o)
  BY <1>4, <1>5 DEF Held
<1>7. /\ refs[h.object] > 1
      /\ refs' = [refs EXCEPT ![h.object] = @ - 1]
  BY <1>1 DEF StillHeld
<1>8. ValuesTypeOK'
  BY <1>1, <1>2, <1>4, <1>7 DEF IInv, ValuesTypeOK
<1>9. Standing'
  BY <1>1, <1>2, <1>4 DEF Standing, Stands
<1>10. Counted'
  <2>1. ASSUME NEW o \in Objects, state[o] = "alive"
        PROVE  refs'[o] = Cardinality(Held(o)) + Count(r, o) /\ refs'[o] > 0
    <3>1. refs[o] = Cardinality(Held(o)) + Count(stack, o) /\ refs[o] > 0 /\ refs[o] \in Nat
      BY <2>1 DEF IInv, Counted, ValuesTypeOK
    <3>2. /\ o = h.object => Count(<<h>> \o r, o) = Count(r, o) + 1
          /\ o # h.object => Count(<<h>> \o r, o) = Count(r, o)
      BY <1>1, ConsCount
    <3>3. PICK n \in Nat, c \in Nat : n = Cardinality(Held(o)) /\ c = Count(r, o)
      <4>1. Held(o) \in SUBSET Slots
        BY DEF Held
      <4>2. QED
        BY <4>1, HeldFinite, ReleasesFinite
    <3>4. CASE o = h.object
      <4>1. refs[o] = n + (c + 1)
        BY <1>1, <3>1, <3>2, <3>3, <3>4
      <4>2. refs'[o] = refs[o] - 1 /\ refs[o] > 1
        BY <1>7, <3>4 DEF IInv, ValuesTypeOK
      <4>3. QED
        BY <3>1, <3>3, <4>1, <4>2
    <3>5. CASE o # h.object
      <4>1. refs'[o] = refs[o]
        BY <1>7, <3>5 DEF IInv, ValuesTypeOK
      <4>2. QED
        BY <1>1, <3>1, <3>2, <3>5, <4>1
    <3>6. QED
      BY <3>4, <3>5
  <2>2. QED
    BY <1>2, <1>4, <1>6, <2>1 DEF Counted
<1>11. Known' /\ Kinds'
  BY <1>4, <1>5 DEF IInv, Known, Kinds
<1>12. QED
  BY <1>1, <1>2, <1>8, <1>9, <1>10, <1>11 DEF IInv

(* The destructor returns: nothing of the object was finalized so far.     *)
LEMMA DestructorEndsStep ==
    ASSUME IInv, DestructorEnds
    PROVE  IInv'
<1>1. Calling
  BY DEF DestructorEnds, Calling
<1>2. stack' = Push(<<>>) /\ UNCHANGED <<slot, refs, state, told>>
  BY DEF DestructorEnds, Instead
<1>3. QED
  BY <1>1, <1>2, NothingStored

LEMMA FreeMemStep ==
    ASSUME IInv, FreeMem
    PROVE  IInv'
<1>1. PICK h \in Frame, r \in Seq(Frame) :
        /\ h = Head(stack) /\ h.op = "destroy" /\ h.object \in Objects /\ Stands(h)
        /\ r = Rest /\ stack = <<h>> \o r /\ Neat(r) /\ Neat(<<h>> \o r)
        /\ \A x \in FramesOf(r) : Stands(x) /\ x.object \in Objects
  <2>1. OnTop("destroy")
    BY DEF FreeMem
  <2>2. QED
    BY <2>1, Top
<1>2. stack' = r
  BY <1>1, Pushing DEF FreeMem, Instead
<1>3. /\ h.left = {} /\ UNCHANGED <<slot, refs, told>>
      /\ state' = [state EXCEPT ![h.object] = "free"]
  BY <1>1 DEF FreeMem
<1>4. state[h.object] = "dying"
  BY <1>1 DEF Stands
<1>5. \A o \in Objects : state'[o] = IF o = h.object THEN "free" ELSE state[o]
  BY <1>3 DEF IInv, ValuesTypeOK
<1>6. \A o \in Objects : state'[o] = "alive" <=> state[o] = "alive"
  BY <1>4, <1>5
<1>7. LeftIn(<<h>> \o r) = LeftIn(r) /\ \A o : Count(<<h>> \o r, o) = Count(r, o)
  <2>1. LeftIn(<<h>> \o r) = h.left \cup LeftIn(r)
    BY <1>1, ConsFrames
  <2>2. \A o : Count(<<h>> \o r, o) = Count(r, o)
    BY <1>1, ConsCount
  <2>3. QED
    BY <1>3, <2>1, <2>2
<1>8. Live' = Live
  <2>1. {o \in Objects : state'[o] = "alive"} = {o \in Objects : state[o] = "alive"}
    BY <1>6
  <2>2. QED
    BY <1>1, <1>2, <1>7, <2>1 DEF Live
<1>9. Standing'
  <2>1. ASSUME NEW x \in FramesOf(r)
        PROVE  Stands(x)'
    <3>1. CASE x.op = "destroy"
      <4>1. x.object # h.object
        BY <1>1, <3>1, NeatTail
      <4>2. QED
        BY <1>1, <1>5, <4>1 DEF Stands
    <3>2. CASE x.op = "release"
      BY <1>1, <1>4, <1>5, <3>2 DEF Stands
    <3>3. CASE x.op \notin {"destroy", "release"}
      <4>1. x.op = "destructor"
        <5>1. x \in Frame
          BY DEF FramesOf
        <5>2. QED
          BY <3>3, <5>1 DEF Frame
      <4>2. PICK i \in DOMAIN r : r[i] = x
        BY DEF FramesOf
      <4>3. r[i + 1].op = "destroy" /\ r[i + 1].object = x.object /\ i + 1 \in DOMAIN r
        BY <1>1, <4>1, <4>2 DEF Neat
      <4>4. r[i + 1].object # h.object
        BY <1>1, <4>3, NeatTail DEF FramesOf
      <4>5. QED
        BY <1>1, <1>5, <4>3, <4>4 DEF Stands
    <3>4. QED
      BY <3>1, <3>2, <3>3
  <2>2. QED
    BY <1>2, <2>1 DEF Standing
<1>10. ValuesTypeOK'
  BY <1>1, <1>2, <1>3 DEF IInv, ValuesTypeOK
<1>11. \A o \in Objects : Count(stack, o)' = Count(stack, o)
  BY <1>1, <1>2, <1>7
<1>12. QED
  BY <1>1, <1>2, <1>3, <1>6, <1>8, <1>9, <1>10, <1>11, Untouched

(* The last reference is given back: nothing else refers to the object.    *)
LEMMA LastOne ==
    ASSUME IInv, NEW h \in Frame, NEW r \in Seq(Frame), stack = <<h>> \o r, h.op = "release",
           state[h.object] = "alive", h.object \in Objects, refs[h.object] = 1
    PROVE  Held(h.object) = {} /\ Releases(r, h.object) = {}
<1>1. PICK o \in Objects : o = h.object
  OBVIOUS
<1>2. refs[o] = Cardinality(Held(o)) + Count(stack, o)
  BY <1>1 DEF IInv, Counted
<1>3. Count(stack, o) = Count(r, o) + 1
  BY <1>1, ConsCount
<1>4. Held(o) \in SUBSET Slots
  BY DEF Held
<1>5. /\ IsFiniteSet(Held(o)) /\ IsFiniteSet(Releases(r, o))
      /\ Cardinality(Held(o)) \in Nat /\ Count(r, o) \in Nat
  BY <1>4, HeldFinite, ReleasesFinite
<1>6. Cardinality(Held(o)) = 0 /\ Count(r, o) = 0
  BY <1>1, <1>2, <1>3, <1>5
<1>7. QED
  BY <1>1, <1>5, <1>6, FS_EmptySet DEF Count

(* The frames that destroy an object, in front of the others.              *)
LEMMA Destroying ==
    ASSUME NEW o \in Objects, NEW r \in Seq(Frame), r = Rest, Neat(r),
           \A z \in FramesOf(r) : z.op = "destroy" => z.object # o,
           Instead((IF Family[o] = "dynarray" THEN <<>>
                    ELSE <<[op |-> "destructor", object |-> o, left |-> {}]>>)
                   \o <<[op |-> "destroy", object |-> o, left |-> Fields[o]]>>)
    PROVE  /\ stack' \in Seq(Frame) /\ Neat(stack')
           /\ LeftIn(stack') = Fields[o] \cup LeftIn(r)
           /\ \A p : Count(stack', p) = Count(r, p)
           /\ \A x \in FramesOf(stack') :
                x \in FramesOf(r) \/ (x.object = o /\ x.op # "release")
<1>1. PICK y \in Frame :
        /\ y = [op |-> "destroy", object |-> o, left |-> Fields[o]]
        /\ y.op = "destroy" /\ y.object = o /\ y.left = Fields[o]
  <2>1. [op |-> "destroy", object |-> o, left |-> Fields[o]] \in Frame
    BY DEF Frame, Slots
  <2>2. QED
    BY <2>1
<1>2. PICK d \in Frame :
        /\ d = [op |-> "destructor", object |-> o, left |-> {}]
        /\ d.op = "destructor" /\ d.object = o
  <2>1. [op |-> "destructor", object |-> o, left |-> {}] \in Frame
    BY DEF Frame
  <2>2. QED
    BY <2>1
<1>3. PICK c \in Seq(Frame) : c = <<y>> \o r
  BY Cons
<1>4. c # <<>> /\ c[1] = y
  BY <1>3, Cons
<1>5. /\ Neat(c) /\ LeftIn(c) = Fields[o] \cup LeftIn(r) /\ FramesOf(c) = {y} \cup FramesOf(r)
      /\ \A p : Count(c, p) = Count(r, p)
  <2>1. Neat(<<y>> \o r)
    BY <1>1, NeatCons
  <2>2. LeftIn(<<y>> \o r) = Fields[o] \cup LeftIn(r) /\ FramesOf(<<y>> \o r) = {y} \cup FramesOf(r)
    BY <1>1, ConsFrames
  <2>3. \A p : Count(<<y>> \o r, p) = Count(r, p)
    BY <1>1, ConsCount
  <2>4. QED
    BY <1>3, <2>1, <2>2, <2>3
<1>6. CASE Family[o] = "dynarray"
  <2>1. <<>> \o <<y>> = <<y>>
    BY ConcatEmptySeq
  <2>2. stack' = c
    BY <1>1, <1>3, <1>6, <2>1, Pushing DEF Instead
  <2>3. QED
    BY <1>1, <1>5, <2>2
<1>7. CASE Family[o] # "dynarray"
  <2>1. <<d>> \o <<y>> = <<d, y>>
    BY TwoFrames
  <2>2. stack' = <<d>> \o c
    <3>1. Instead(<<d, y>>)
      BY <1>1, <1>2, <1>7, <2>1
    <3>2. Push(<<d, y>>) = <<d>> \o (<<y>> \o Rest)
      BY Pushing
    <3>3. QED
      BY <1>3, <3>1, <3>2 DEF Instead
  <2>3. <<d>> \o c \in Seq(Frame) /\ Neat(<<d>> \o c)
    <3>1. c[1].op = "destroy" /\ c[1].object = d.object /\ c[1].left = Fields[d.object]
      BY <1>1, <1>2, <1>4
    <3>2. d.op # "destroy"
      BY <1>2
    <3>3. Neat(<<d>> \o c)
      BY <1>4, <1>5, <3>1, <3>2, NeatCons
    <3>4. QED
      BY <3>3, Cons
  <2>4. LeftIn(<<d>> \o c) = LeftIn(c) /\ FramesOf(<<d>> \o c) = {d} \cup FramesOf(c)
    BY <1>2, ConsFrames
  <2>5. ASSUME NEW p
        PROVE  Count(<<d>> \o c, p) = Count(c, p)
    <3>1. ~(d.op = "release" /\ d.object = p)
      BY <1>2
    <3>2. QED
      BY <3>1, ConsCount
  <2>6. QED
    BY <1>1, <1>2, <1>5, <2>2, <2>3, <2>4, <2>5
<1>8. QED
  BY <1>6, <1>7

LEMMA DestroyStep ==
    ASSUME IInv, Destroy
    PROVE  IInv'
<1>1. PICK h \in Frame, r \in Seq(Frame) :
        /\ h = Head(stack) /\ h.op = "release" /\ h.object \in Objects /\ Stands(h)
        /\ r = Rest /\ stack = <<h>> \o r /\ Neat(r)
        /\ \A x \in FramesOf(r) : Stands(x) /\ x.object \in Objects
  <2>1. OnTop("release")
    BY DEF Destroy
  <2>2. QED
    BY <2>1, Top
<1>2. PICK o \in Objects : o = h.object
  BY <1>1
<1>3. PICK weak : weak = {f \in told : slot[f] = o}
  OBVIOUS
<1>4. /\ refs[o] = 1 /\ refs' = [refs EXCEPT ![o] = 0]
      /\ state' = [state EXCEPT ![o] = "dying"]
      /\ slot' = [f \in Slots |-> IF f \in weak THEN Nil ELSE slot[f]]
      /\ told' = told \ weak
      /\ Instead((IF Family[o] = "dynarray" THEN <<>>
                  ELSE <<[op |-> "destructor", object |-> o, left |-> {}]>>)
                 \o <<[op |-> "destroy", object |-> o, left |-> Fields[o]]>>)
  BY <1>1, <1>2, <1>3 DEF Destroy
<1>5. state[o] = "alive"
  BY <1>1, <1>2 DEF Stands
<1>6. Held(o) = {} /\ Releases(r, o) = {}
  BY <1>1, <1>2, <1>4, <1>5, LastOne
<1>7. \A x \in FramesOf(r) : x.object # o
  <2>1. ASSUME NEW i \in DOMAIN r, r[i].object = o
        PROVE  FALSE
    <3>1. Stands(r[i])
      BY <1>1 DEF FramesOf
    <3>2. r[i].op = "release"
      BY <1>5, <2>1, <3>1 DEF Stands
    <3>3. i \in Releases(r, o)
      BY <2>1, <3>2 DEF Releases
    <3>4. QED
      BY <1>6, <3>3
  <2>2. QED
    BY <2>1 DEF FramesOf
<1>8. /\ stack' \in Seq(Frame) /\ Neat(stack')
      /\ LeftIn(stack') = Fields[o] \cup LeftIn(r)
      /\ \A p : Count(stack', p) = Count(r, p)
      /\ \A x \in FramesOf(stack') : x \in FramesOf(r) \/ (x.object = o /\ x.op # "release")
  <2>1. \A z \in FramesOf(r) : z.op = "destroy" => z.object # o
    BY <1>7
  <2>2. r = Rest /\ Neat(r)
    BY <1>1
  <2>3. QED
    BY SMTT(40), <1>4, <2>1, <2>2, Destroying
<1>9. \A p \in Objects : state'[p] = IF p = o THEN "dying" ELSE state[p]
  BY <1>4 DEF IInv, ValuesTypeOK
<1>10. Live' = Live
  <2>1. LeftIn(<<h>> \o r) = LeftIn(r)
    BY <1>1, ConsFrames
  <2>2. {p \in Objects : state[p] = "alive"} = {p \in Objects : state'[p] = "alive"} \cup {o}
    BY <1>5, <1>9
  <2>3. QED
    BY <1>1, <1>8, <2>1, <2>2 DEF Live
<1>11. \A f \in Slots : slot'[f] = IF f \in weak THEN Nil ELSE slot[f]
  BY <1>4
<1>12. ValuesTypeOK'
  BY <1>4, <1>8 DEF IInv, ValuesTypeOK
<1>13. Standing'
  BY <1>1, <1>7, <1>8, <1>9 DEF Standing, Stands
<1>14. Counted'
  <2>1. ASSUME NEW p \in Objects, state'[p] = "alive"
        PROVE  refs'[p] = Cardinality(Held(p))' + Count(stack, p)' /\ refs'[p] > 0
    <3>1. p # o /\ state[p] = "alive"
      BY <1>9, <2>1
    <3>2. Held(p)' = Held(p)
      BY <1>3, <1>10, <1>11, <3>1 DEF Held
    <3>3. Count(<<h>> \o r, p) = Count(r, p)
      BY <1>2, <3>1, ConsCount
    <3>4. Count(stack, p)' = Count(stack, p)
      BY <1>1, <1>8, <3>3
    <3>5. refs'[p] = refs[p]
      BY <1>4, <3>1 DEF IInv, ValuesTypeOK
    <3>6. QED
      BY <3>1, <3>2, <3>4, <3>5 DEF IInv, Counted
  <2>2. QED
    BY <2>1 DEF Counted
<1>15. Known'
  <2>1. ASSUME NEW g \in Live, slot'[g] \in Objects
        PROVE  state'[slot'[g]] = "alive" /\ (~Strong(g) => g \in told')
    <3>1. g \in Slots
      BY LiveSlots DEF IInv
    <3>2. g \notin weak /\ slot'[g] = slot[g]
      BY <1>11, <2>1, <3>1
    <3>3. state[slot[g]] = "alive" /\ (~Strong(g) => g \in told)
      BY <2>1, <3>2 DEF IInv, Known
    <3>4. slot[g] # o
      <4>1. CASE Strong(g)
        BY <1>6, <3>1, <4>1 DEF Held
      <4>2. CASE ~Strong(g)
        BY <1>3, <3>2, <3>3, <4>2
      <4>3. QED
        BY <4>1, <4>2
    <3>5. QED
      BY <1>4, <1>9, <2>1, <3>2, <3>3, <3>4
  <2>2. QED
    BY <1>10, <2>1 DEF Known
<1>16. Kinds'
  <2>1. \A g \in Slots : Fits(g, Nil)
    BY DEF Fits
  <2>2. QED
    BY <1>11, <2>1 DEF IInv, Kinds
<1>17. QED
  BY <1>8, <1>12, <1>13, <1>14, <1>15, <1>16 DEF IInv

(* One more field is finalized.                                            *)
LEMMA FinalFieldStep ==
    ASSUME Supported, IInv, FinalField
    PROVE  IInv'
<1>1. PICK h \in Frame, r \in Seq(Frame) :
        /\ h = Head(stack) /\ h.op = "destroy" /\ h.object \in Objects /\ h.left \subseteq Slots
        /\ r = Rest /\ stack = <<h>> \o r /\ Neat(r) /\ Neat(<<h>> \o r) /\ Stands(h)
        /\ FramesOf(stack) = {h} \cup FramesOf(r)
        /\ \A x \in FramesOf(r) : Stands(x) /\ x.object \in Objects
  <2>1. OnTop("destroy")
    BY DEF FinalField
  <2>2. QED
    BY <2>1, Top
<1>2. PICK f \in h.left :
        /\ slot' = Finalized(f) /\ told' = ToldAfter(f)
        /\ Instead(GivenBack(f) \o <<[h EXCEPT !.left = @ \ {f}]>>)
        /\ UNCHANGED <<data, refs, state>>
  BY <1>1 DEF FinalField
<1>3. PICK y \in Frame :
        /\ y = [h EXCEPT !.left = @ \ {f}]
        /\ y.op = "destroy" /\ y.object = h.object /\ y.left = h.left \ {f}
  <2>1. /\ [h EXCEPT !.left = @ \ {f}] \in Frame
        /\ [h EXCEPT !.left = @ \ {f}].op = "destroy"
        /\ [h EXCEPT !.left = @ \ {f}].object = h.object
        /\ [h EXCEPT !.left = @ \ {f}].left = h.left \ {f}
    BY <1>1 DEF Frame
  <2>2. QED
    BY <2>1
<1>4. /\ h.left \subseteq Fields[h.object]
      /\ \A z \in FramesOf(r) : z.op = "destroy" => z.object # h.object
  BY <1>1, NeatTail
<1>5. f \in Slots /\ f \in Live /\ state[h.object] = "dying" /\ f \in Fields[h.object]
  BY <1>1, <1>2, <1>4 DEF Live, LeftIn, Stands
<1>6. f \notin LeftIn(r)
  <2>1. ASSUME NEW i \in DOMAIN r, r[i].op = "destroy", f \in r[i].left
        PROVE  FALSE
    <3>1. r[i] \in FramesOf(r)
      BY DEF FramesOf
    <3>2. r[i].object # h.object /\ r[i].object \in Objects
      BY <1>1, <1>4, <2>1, <3>1
    <3>3. f \in Fields[r[i].object]
      BY <1>1, <2>1 DEF Neat
    <3>4. QED
      BY <1>1, <1>5, <3>2, <3>3
  <2>2. QED
    BY <2>1 DEF LeftIn, FramesOf
<1>7. PICK c \in Seq(Frame) : c = <<y>> \o r
  BY Cons
<1>8. /\ Neat(c) /\ FramesOf(c) = {y} \cup FramesOf(r)
      /\ LeftIn(c) = (h.left \ {f}) \cup LeftIn(r)
      /\ \A p : Count(c, p) = Count(stack, p)
  <2>1. Neat(<<y>> \o r)
    <3>1. y.left \subseteq Fields[y.object]
      BY <1>3, <1>4
    <3>2. \A z \in FramesOf(r) : z.op = "destroy" => z.object # y.object
      BY <1>3, <1>4
    <3>3. QED
      BY <1>1, <1>3, <3>1, <3>2, NeatCons
  <2>2. /\ LeftIn(<<y>> \o r) = (h.left \ {f}) \cup LeftIn(r)
        /\ FramesOf(<<y>> \o r) = {y} \cup FramesOf(r)
    <3>1. LeftIn(<<y>> \o r) = y.left \cup LeftIn(r)
      BY <1>3, ConsFrames
    <3>2. FramesOf(<<y>> \o r) = {y} \cup FramesOf(r)
      BY ConsFrames
    <3>3. QED
      BY <1>3, <3>1, <3>2
  <2>3. ASSUME NEW p
        PROVE  Count(<<y>> \o r, p) = Count(<<h>> \o r, p)
    <3>1. ~(y.op = "release" /\ y.object = p) /\ ~(h.op = "release" /\ h.object = p)
      BY <1>1, <1>3
    <3>2. Count(<<y>> \o r, p) = Count(r, p)
      BY <3>1, ConsCount
    <3>3. Count(<<h>> \o r, p) = Count(r, p)
      BY <3>1, ConsCount
    <3>4. QED
      BY <3>2, <3>3
  <2>4. QED
    BY <1>1, <1>7, <2>1, <2>2, <2>3
<1>9. LeftIn(stack) = LeftIn(c) \cup {f} /\ f \notin LeftIn(c)
  <2>1. LeftIn(<<h>> \o r) = h.left \cup LeftIn(r)
    BY <1>1, ConsFrames
  <2>2. QED
    BY <1>1, <1>2, <1>6, <1>8, <2>1
<1>10. ASSUME LeftIn(stack)' = LeftIn(c)
       PROVE  Live' = Live \ {f}
  <2>1. f \notin Roots /\ \A p \in Objects : state[p] = "alive" => f \notin Fields[p]
    BY <1>1, <1>5
  <2>2. UNCHANGED state
    BY <1>2
  <2>3. QED
    BY <1>9, <1>10, <2>1, <2>2 DEF Live
<1>11. ASSUME NEW x \in FramesOf(c)
       PROVE  Stands(x)'
  <2>1. UNCHANGED state
    BY <1>2
  <2>2. QED
    BY <1>1, <1>3, <1>8, <2>1 DEF Stands
<1>12. ASSUME GivenBack(f) = <<>>
       PROVE  /\ stack' \in Seq(Frame) /\ Neat(stack)' /\ Standing' /\ Live' = Live \ {f}
              /\ \A p : Count(stack, p)' = Count(stack, p)
  <2>1. <<>> \o <<y>> = <<y>>
    BY ConcatEmptySeq
  <2>2. stack' = c
    BY <1>1, <1>2, <1>3, <1>7, <1>12, <2>1, Pushing DEF Instead
  <2>3. Standing'
    BY <1>11, <2>2 DEF Standing
  <2>4. QED
    BY <1>8, <1>10, <2>2, <2>3
<1>13. ASSUME NEW v \in Objects, state[v] = "alive", GivenBack(f) = Giving(v)
       PROVE  /\ stack' \in Seq(Frame) /\ Neat(stack)' /\ Standing' /\ Live' = Live \ {f}
              /\ \A p : Count(stack, p)' =
                          IF p = v THEN Count(stack, p) + 1 ELSE Count(stack, p)
  <2>1. PICK x \in Frame : Giving(v) = <<x>> /\ x.op = "release" /\ x.object = v
    BY GivingIs
  <2>2. <<x>> \o <<y>> = <<x, y>>
    BY TwoFrames
  <2>3. stack' = <<x>> \o c
    <3>1. Instead(<<x, y>>)
      BY <1>2, <1>3, <1>13, <2>1, <2>2
    <3>2. Push(<<x, y>>) = <<x>> \o (<<y>> \o Rest)
      BY <1>1, Pushing
    <3>3. QED
      BY <1>1, <1>7, <3>1, <3>2 DEF Instead
  <2>4. <<x>> \o c \in Seq(Frame) /\ Neat(<<x>> \o c)
    BY <1>8, <2>1, Cons, NeatCons
  <2>5. LeftIn(<<x>> \o c) = LeftIn(c) /\ FramesOf(<<x>> \o c) = {x} \cup FramesOf(c)
    BY <2>1, ConsFrames
  <2>6. ASSUME NEW p
        PROVE  Count(<<x>> \o c, p) = IF p = v THEN Count(stack, p) + 1 ELSE Count(stack, p)
    <3>1. /\ p = v => Count(<<x>> \o c, p) = Count(c, p) + 1
          /\ p # v => Count(<<x>> \o c, p) = Count(c, p)
      BY <2>1, ConsCount
    <3>2. QED
      BY <1>8, <3>1
  <2>7. Standing'
    <3>1. Stands(x)'
      BY <1>2, <1>13, <2>1 DEF Stands
    <3>2. QED
      BY <1>11, <2>3, <2>5, <3>1 DEF Standing
  <2>8. QED
    BY <1>10, <2>3, <2>4, <2>5, <2>6, <2>7
<1>14. ValuesTypeOK
  BY DEF IInv
<1>15. CASE Strong(f)
  <2>1. /\ slot' = [slot EXCEPT ![f] = Nil] /\ told' = told
        /\ GivenBack(f) = IF IsObject(slot[f]) THEN Giving(slot[f]) ELSE <<>>
    BY <1>2, <1>5, <1>14, <1>15, FinalizedIs
  <2>2. slot[f] \in Objects => state[slot[f]] = "alive"
    BY <1>5 DEF IInv, Known
  <2>3. /\ stack' \in Seq(Frame) /\ Neat(stack)' /\ Standing' /\ Live' = Live \ {f}
        /\ \A o \in Objects :
             Count(stack, o)' = IF o = slot[f] THEN Count(stack, o) + 1 ELSE Count(stack, o)
    <3>1. CASE slot[f] \in Objects
      <4>1. PICK v \in Objects : v = slot[f]
        BY <3>1
      <4>2. GivenBack(f) = Giving(v) /\ state[v] = "alive"
        BY <2>1, <2>2, <4>1 DEF IsObject
      <4>3. QED
        BY <1>13, <4>1, <4>2
    <3>2. CASE slot[f] \notin Objects
      <4>1. GivenBack(f) = <<>>
        BY <2>1, <3>2 DEF IsObject
      <4>2. QED
        BY <1>12, <3>2, <4>1
    <3>3. QED
      BY <3>1, <3>2
  <2>4. ValuesTypeOK'
    BY <1>2, <1>14, <2>1, <2>3 DEF ValuesTypeOK
  <2>5. CASE slot[f] = Nil
    <3>1. slot' = slot
      BY <1>5, <1>14, <2>1, <2>5 DEF ValuesTypeOK
    <3>2. \A o : Held(o)' = Held(o) \/ o = Nil
      BY <1>5, <2>3, <2>5, <3>1 DEF Held
    <3>3. \A o \in Objects : Held(o)' = Held(o) /\ Count(stack, o)' = Count(stack, o)
      BY <2>3, <2>5, <3>2
    <3>4. Counted'
      BY <1>2, <3>3 DEF IInv, Counted
    <3>5. Known' /\ Kinds'
      BY <1>2, <2>1, <2>3, <3>1 DEF IInv, Known, Kinds
    <3>6. QED
      BY <2>3, <2>4, <3>4, <3>5 DEF IInv
  <2>6. CASE slot[f] # Nil
    <3>1. Fits(f, Nil)
      BY DEF Fits
    <3>2. \A o \in Objects : refs'[o] = IF o = Nil THEN refs[o] + 1 ELSE refs[o]
      BY <1>2
    <3>3. UNCHANGED <<state, told>> /\ Nil \notin Objects
      BY <1>2, <2>1
    <3>4. PICK q : q = Nil /\ q # slot[f] /\ q \notin Objects /\ Fits(f, q)
      BY <2>6, <3>1, <3>3
    <3>5. slot' = [slot EXCEPT ![f] = q]
      BY <2>1, <3>4
    <3>6. \A o \in Objects : refs'[o] = IF o = q THEN refs[o] + 1 ELSE refs[o]
      BY <3>2, <3>4
    <3>7. /\ q \in Objects => state[q] = "alive"
          /\ Live' = Live \/ (Live' = Live \ {f} /\ q \notin Objects)
          /\ Neat(stack)' /\ Standing' /\ UNCHANGED <<state, told>>
      BY <2>3, <3>3, <3>4
    <3>8. \A o \in Objects :
            Count(stack, o)' = IF o = slot[f] THEN Count(stack, o) + 1 ELSE Count(stack, o)
      BY <2>3
    <3>9. IInv /\ f \in Live /\ q # slot[f] /\ Fits(f, q)
      BY <1>5, <3>4
    <3>10. QED
      BY ONLY <1>15, <2>4, <3>5, <3>6, <3>7, <3>8, <3>9, Assigns
  <2>7. QED
    BY <2>5, <2>6
<1>16. CASE ~Strong(f)
  <2>1. PICK q \in {Nil, slot[f]} :
          slot' = [slot EXCEPT ![f] = q] /\ (FinalFunc(f) # "none_func" => q = Nil)
    BY <1>2, <1>5, <1>14, <1>16, FinalizedIs
  <2>2. told' \in {told, told \ {f}} /\ GivenBack(f) = <<>>
    BY <1>2, <1>5, <1>14, <1>16, FinalizedIs
  <2>3. q \notin Objects /\ q \in Objects \cup {Nil, Dummy} /\ Fits(f, q)
    BY <1>5, <1>16, <2>1, WeakForgets DEF Fits
  <2>4. /\ stack' \in Seq(Frame) /\ Neat(stack)' /\ Standing' /\ Live' = Live \ {f}
        /\ \A p : Count(stack, p)' = Count(stack, p)
    BY <1>12, <2>2
  <2>5. ValuesTypeOK'
    <3>1. slot' \in [Slots -> Objects \cup {Nil, Dummy}]
      BY <1>14, <2>1, <2>3 DEF ValuesTypeOK
    <3>2. told' \in SUBSET Slots
      BY <1>14, <2>2 DEF ValuesTypeOK
    <3>3. QED
      BY <1>2, <1>14, <2>4, <3>1, <3>2 DEF ValuesTypeOK
  <2>6. told \subseteq told' \cup {f}
    BY <2>2
  <2>7. QED
    BY <1>2, <1>5, <1>16, <2>1, <2>3, <2>4, <2>5, <2>6, AssignsWeak
<1>17. QED
  BY <1>15, <1>16

-----------------------------------------------------------------------------
LEMMA InitIInv == ValuesInit => IInv
<1> SUFFICES ASSUME ValuesInit
             PROVE  IInv
  OBVIOUS
<1>1. FramesOf(stack) = {} /\ stack \in Seq(Frame)
  BY DEF ValuesInit, FramesOf
<1>2. ValuesTypeOK
  BY <1>1 DEF ValuesInit, ValuesTypeOK
<1>3. Neat(stack)
  BY DEF ValuesInit, Neat
<1>4. \A f \in Slots : slot[f] \notin Objects
  BY DEF ValuesInit
<1>5. Live \subseteq Slots
  BY <1>2, LiveSlots
<1>6. Standing /\ Counted /\ Known /\ Kinds
  BY <1>1, <1>4, <1>5 DEF ValuesInit, Standing, Counted, Known, Kinds, Fits
<1>7. QED
  BY <1>2, <1>3, <1>6 DEF IInv

LEMMA StepIInv ==
    ASSUME Supported, IInv, [ValuesNext]_valueVars
    PROVE  IInv'
<1>1. CASE UNCHANGED valueVars
  <2>1. UNCHANGED <<slot, refs, state, told, stack>>
    BY <1>1 DEF valueVars
  <2>2. ValuesTypeOK' /\ Neat(stack)' /\ Standing' /\ Live' = Live
    <3>1. ValuesTypeOK'
      BY <2>1 DEF IInv, ValuesTypeOK
    <3>2. Neat(stack)'
      BY <2>1 DEF IInv
    <3>3. Standing' /\ Live' = Live
      BY <2>1 DEF IInv, Standing, Stands, Live
    <3>4. QED
      BY <3>1, <3>2, <3>3
  <2>3. \A o \in Objects : Count(stack, o)' = Count(stack, o)
    BY <2>1
  <2>4. QED
    BY <2>1, <2>2, <2>3, Untouched
<1>2. CASE Call \/ Callback
  BY <1>2, OperationStep DEF Call, Callback, Calling
<1>3. CASE Continue
  BY <1>3, StillHeldStep, DestroyStep, DestructorEndsStep, FinalFieldStep, FreeMemStep
     DEF Continue
<1>4. QED
  BY <1>1, <1>2, <1>3 DEF ValuesNext

(* Every object that is alive has as many references as its counter says,  *)
(* in slots and in the calls under way that give one back, for any         *)
(* objects, fields and variables and whatever destructors do: none is      *)
(* destroyed twice, and none while a variable refers to it.                *)
THEOREM ReferencesAreCounted ==
    ASSUME Supported
    PROVE  ValuesSpec => []CountsReferences
<1>1. IInv => CountsReferences
  <2>1. ASSUME IInv
        PROVE  CountsReferences
    <3>1. \A o : HeldBy(o) = Held(o) /\ GivingBack(o) = Releases(stack, o)
      BY <2>1, HeldByIsHeld DEF IInv, GivingBack, Releases
    <3>2. QED
      BY <2>1, <3>1 DEF IInv, Counted, CountsReferences, Count
  <2>2. QED
    BY <2>1
<1>2. IInv /\ [ValuesNext]_valueVars => IInv'
  BY StepIInv
<1>3. QED
  BY InitIInv, <1>1, <1>2, PTL DEF ValuesSpec

(* No variable a program can reach, weak ones included, refers to an       *)
(* object that is destroyed or being destroyed.                            *)
THEOREM ValuesNeverDangle ==
    ASSUME Supported
    PROVE  ValuesSpec => []NothingDangles
<1>1. IInv => NothingDangles
  <2>1. ASSUME IInv
        PROVE  NothingDangles
    BY <2>1, InUseIsLive DEF IInv, Known, NothingDangles, IsObject
  <2>2. QED
    BY <2>1
<1>2. IInv /\ [ValuesNext]_valueVars => IInv'
  BY StepIInv
<1>3. QED
  BY InitIInv, <1>1, <1>2, PTL DEF ValuesSpec

-----------------------------------------------------------------------------
(* Equality of copies needs no more than that a value has a type and a     *)
(* buffer to store into.                                                   *)
Values == {f \in Slots : Type[f] = "value"}
Written == Data \cup {CHOOSE d \in Data : TRUE}
ValueOK ==
    /\ data \in [Values -> [type : Data \cup {"none", "interface"}, buffer : Written]]
    /\ DOMAIN slot = Slots

LEMMA OperationValues ==
    ASSUME ValueOK, Operation
    PROVE  ValueOK'
<1>1. PICK target \in Slots, source \in Slots :
         \/ Create(target) \/ Fill(target) \/ Final(target) \/ Box(target, source)
         \/ CopyCounted(target, source) \/ CopyPlain(target, source)
         \/ copy_value(target, source) /\ StrongType(source) = StrongType(target)
  BY DEF Operation
<1>2. CASE copy_value(target, source) /\ StrongType(source) = StrongType(target)
  <2>1. DOMAIN slot' = Slots
    BY <1>2 DEF copy_value, ValueOK
  <2>2. target \in Values /\ source \in Values
    <3>1. CopyFunc(target) = "copy_value"
      BY <1>2 DEF copy_value
    <3>2. Type[target] = "value" /\ Type[source] = "value"
      BY ONLY <1>2, <3>1, StrongFits, target \in Slots, source \in Slots
    <3>3. QED
      BY <3>2 DEF Values
  <2>3. \E v \in Data \cup {"none", "interface"}, b \in Written :
          data' = [data EXCEPT ![target].type = v, ![target].buffer = b]
    <3>1. /\ data[source].type \in Data \cup {"none", "interface"}
          /\ data[source].buffer \in Written /\ data[target].buffer \in Written
      BY <2>2 DEF ValueOK
    <3>2. CASE slot[source] = Dummy
      BY <1>2, <3>1, <3>2 DEF copy_value
    <3>3. CASE slot[source] # Dummy
      <4>1. data' = [data EXCEPT ![target].type = data[source].type,
                                 ![target].buffer = data[target].buffer]
        BY <1>2, <2>2, <3>3 DEF copy_value, ValueOK
      <4>2. QED
        BY <3>1, <4>1
    <3>4. QED
      BY <3>2, <3>3
  <2>4. data' \in [Values -> [type : Data \cup {"none", "interface"}, buffer : Written]]
    <3>1. PICK T : T = Data \cup {"none", "interface"}
      OBVIOUS
    <3>2. PICK v \in T, b \in Written :
            data' = [data EXCEPT ![target].type = v, ![target].buffer = b]
      BY <2>3, <3>1
    <3>3. data \in [Values -> [type : T, buffer : Written]]
      BY <3>1 DEF ValueOK
    <3>4. data' \in [Values -> [type : T, buffer : Written]]
      BY ONLY <2>2, <3>2, <3>3
    <3>5. QED
      BY <3>1, <3>4
  <2>5. QED
    BY <2>1, <2>4 DEF ValueOK
<1>3. CASE Fill(target)
  BY <1>3 DEF Fill, ValueOK, Values, Written
<1>4. CASE Box(target, source)
  BY <1>4 DEF Box, ValueOK, Values
<1>5. CASE Create(target) \/ Final(target) \/ CopyCounted(target, source)
           \/ CopyPlain(target, source)
  BY <1>5 DEF Create, Final, Finalized, CopyCounted, CopyPlain, ValueOK
<1>6. QED
  BY <1>1, <1>2, <1>3, <1>4, <1>5

LEMMA InitValues == ValuesInit => ValueOK
BY DEF ValuesInit, ValueOK, Values, Written

LEMMA StepValues == ValueOK /\ [ValuesNext]_valueVars => ValueOK'
<1> SUFFICES ASSUME ValueOK, [ValuesNext]_valueVars
             PROVE  ValueOK'
  OBVIOUS
<1>1. CASE Operation
  BY <1>1, OperationValues
<1>2. CASE StillHeld \/ Destroy \/ DestructorEnds \/ FinalField \/ FreeMem \/ UNCHANGED valueVars
  BY <1>2 DEF StillHeld, Destroy, DestructorEnds, FinalField, Finalized, FreeMem, valueVars, ValueOK
<1>3. QED
  BY <1>1, <1>2 DEF ValuesNext, Call, Callback, Continue

(* A value copied by copy_value is its source: the type, the reference,    *)
(* and the buffer of a value without a reference; for any variables.       *)
THEOREM CopiesAreEqual == ValuesSpec => CopiedValuesAreEqual
<1> DEFINE Equal == \A target, source \in {f \in Slots : Type[f] = "value"} :
       copy_value(target, source) =>
         /\ slot'[target] = slot[source]
         /\ data'[target].type = data[source].type
         /\ slot[source] = Dummy => data'[target].buffer = data[source].buffer
<1>1. ValueOK => Equal
  <2> SUFFICES ASSUME ValueOK, NEW target \in Values, NEW source \in Values,
                      copy_value(target, source)
               PROVE  /\ slot'[target] = slot[source]
                      /\ data'[target].type = data[source].type
                      /\ slot[source] = Dummy => data'[target].buffer = data[source].buffer
    BY DEF Values
  <2>1. slot'[target] = slot[source]
    BY DEF copy_value, ValueOK, Values
  <2>2. /\ data'[target].type = data[source].type
        /\ slot[source] = Dummy => data'[target].buffer = data[source].buffer
    BY DEF copy_value, ValueOK
  <2>3. QED
    BY <2>1, <2>2
<1>2. ValueOK /\ [ValuesNext]_valueVars => [Equal]_valueVars
  BY <1>1
<1>3. QED
  BY InitValues, StepValues, <1>2, PTL DEF ValuesSpec, CopiedValuesAreEqual
=============================================================================

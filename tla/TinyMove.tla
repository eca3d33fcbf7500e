------------------------------ MODULE TinyMove ------------------------------
(***************************************************************************)
(* TinyMove (tiny.types.c): copy count bytes from source to target, which  *)
(* may overlap.  Up to 64 bytes every load comes before the first store;   *)
(* longer areas are copied 16 bytes at a time, forward or backward, in     *)
(* runs of at most 8 that are entered through a table of labels, and the   *)
(* last 17 to 32 bytes again with all loads first.  A byte of memory is    *)
(* abstracted to the address it was at when the call began.                *)
(***************************************************************************)
EXTENDS Integers

CONSTANTS
    Address,    \* the addresses of the memory
    Calls       \* the calls: records [source, target, count]

Area(start, n) == start .. (start + n - 1)

ASSUME CallsAssumption ==
    /\ Address \subseteq Int
    /\ \A c \in Calls :
         /\ c.source \in Int /\ c.target \in Int /\ c.count \in Nat
         /\ Area(c.source, c.count) \subseteq Address
         /\ Area(c.target, c.count) \subseteq Address

VARIABLES
    asked,      \* the call under way
    memory,     \* address -> the address its byte was at in the beginning
    pc,
    dir,        \* "forward" or "backward"
    s, t,       \* the pointers source and target have become
    count,      \* bytes still to be copied when the run at hand is over
    blocks      \* 16-byte blocks left in the run at hand

vars == <<asked, memory, pc, dir, s, t, count, blocks>>

-----------------------------------------------------------------------------
(* Copy the bytes at the given offsets from s to t, all loaded before the  *)
(* first is stored.                                                        *)
Copy(offsets) ==
    memory' = [a \in Address |->
                 IF a - t \in offsets THEN memory[a - t + s] ELSE memory[a]]

(* A piece of n bytes at offset o.                                         *)
Piece(o, n) == o .. (o + n - 1)

(* What a call of up to 64 bytes loads and stores.                         *)
SmallOffsets(n) ==
    CASE n = 0 -> {}
      [] n \in {1, 2, 4, 8, 16} -> Piece(0, n)
      [] n = 3 -> Piece(0, 2) \cup Piece(2, 1)
      [] n \in 5 .. 7 -> Piece(0, 4) \cup Piece(n - 4, 4)
      [] n \in 9 .. 12 -> Piece(0, 8) \cup Piece(n - 4, 4)
      [] n \in 13 .. 15 -> Piece(0, 8) \cup Piece(n - 8, 8)
      [] n \in 17 .. 32 -> Piece(0, 16) \cup Piece(n - 16, 16)
      [] n \in 33 .. 48 -> Piece(0, 16) \cup Piece(16, 16) \cup Piece(n - 16, 16)
      [] n \in 49 .. 64 -> Piece(0, 16) \cup Piece(16, 16) \cup Piece(32, 16)
                           \cup Piece(n - 16, 16)

(* The next block of a run, relative to s and t, which already stand where *)
(* the run will end.                                                       *)
BlockOffsets ==
    IF dir = "forward" THEN Piece(-16 * blocks, 16) ELSE Piece(16 * (blocks - 1), 16)

(* The last 17 to 32 bytes.                                                *)
TailOffsets ==
    IF dir = "forward" THEN Piece(0, 16) \cup Piece(count - 16, 16)
    ELSE Piece(-count, 16) \cup Piece(-16, 16)

(* What the next step loads and stores.                                    *)
Offsets ==
    CASE pc = "small" -> SmallOffsets(count)
      [] pc = "block" -> BlockOffsets
      [] pc = "tail" -> TailOffsets
      [] OTHER -> {}

-----------------------------------------------------------------------------

(* The call: nothing to do, a small one, or a large one.                   *)
Start_Backward ==
    /\ pc = "start"
    /\ \/ s = t /\ pc' = "done" /\ UNCHANGED <<dir, s, t>>
       \/ s # t /\ count <= 64 /\ pc' = "small" /\ UNCHANGED <<dir, s, t>>
       \/ /\ s # t /\ count > 64
          /\ pc' = "run"
          /\ dir' = "forward"
          /\ UNCHANGED <<s, t>>
    /\ UNCHANGED <<asked, memory, count, blocks>>

Start ==
    /\ pc = "start"
    /\ \/ s = t /\ pc' = "done" /\ UNCHANGED <<dir, s, t>>
       \/ s # t /\ count <= 64 /\ pc' = "small" /\ UNCHANGED <<dir, s, t>>
       \/ /\ s # t /\ count > 64
          /\ pc' = "run"
          /\ IF t < s \/ s + count <= t
             THEN dir' = "forward" /\ UNCHANGED <<s, t>>
             ELSE dir' = "backward" /\ s' = s + count /\ t' = t + count
    /\ UNCHANGED <<asked, memory, count, blocks>>

Small ==
    /\ pc = "small"
    /\ Copy(SmallOffsets(count))
    /\ pc' = "done"
    /\ UNCHANGED <<asked, dir, s, t, count, blocks>>

(* Move the pointers past a run of n blocks and enter it.                  *)
Enter(n) ==
    /\ s' = IF dir = "forward" THEN s + 16 * n ELSE s - 16 * n
    /\ t' = IF dir = "forward" THEN t + 16 * n ELSE t - 16 * n
    /\ count' = count - 16 * n
    /\ blocks' = n
    /\ pc' = "block"
    /\ UNCHANGED <<asked, memory, dir>>

(* A full run of eight.                                                    *)
Loop ==
    /\ pc = "run"
    /\ count >= 32 + 128
    /\ Enter(8)

(* The last run: as many blocks as leave 17 to 32 bytes.                   *)
Jump_Short ==
    /\ pc = "run"
    /\ count < 32 + 128
    /\ Enter((count - 33) \div 16)

Jump_TooFar ==
    /\ pc = "run"
    /\ count < 32 + 128
    /\ Enter((count - 1) \div 16)

Jump ==
    /\ pc = "run"
    /\ count < 32 + 128
    /\ Enter((count - 17) \div 16)

Block ==
    /\ pc = "block"
    /\ Copy(BlockOffsets)
    /\ blocks' = blocks - 1
    /\ pc' = IF blocks > 1 THEN "block" ELSE IF count > 32 THEN "run" ELSE "tail"
    /\ UNCHANGED <<asked, dir, s, t, count>>

MoveTail ==
    /\ pc = "tail"
    /\ Copy(TailOffsets)
    /\ pc' = "done"
    /\ UNCHANGED <<asked, dir, s, t, count, blocks>>

-----------------------------------------------------------------------------

Init ==
    /\ asked \in Calls
    /\ memory = [a \in Address |-> a]
    /\ pc = "start"
    /\ dir = "forward"
    /\ s = asked.source
    /\ t = asked.target
    /\ count = asked.count
    /\ blocks = 0

(* After the call the program does something else.                         *)
Done == pc = "done" /\ UNCHANGED vars

Next == Start \/ Small \/ Loop \/ Jump \/ Block \/ MoveTail \/ Done

Spec == Init /\ [][Next]_vars /\ WF_vars(Next)

-----------------------------------------------------------------------------
(* Properties.                                                             *)

(* The type of every variable; a run is entered only through the eight     *)
(* labels of the table.                                                    *)
TypeOK ==
    /\ asked \in Calls
    /\ memory \in [Address -> Address]
    /\ pc \in {"start", "small", "run", "block", "tail", "done"}
    /\ dir \in {"forward", "backward"}
    /\ s \in Int /\ t \in Int /\ count \in Nat
    /\ blocks \in 0 .. 8
    /\ pc = "block" => blocks \in 1 .. 8

(* No load is outside the source and no store outside the target,          *)
(* whichever pieces a size is put together from.                           *)
StaysInside ==
    \A o \in Offsets :
        /\ s + o \in Area(asked.source, asked.count)
        /\ t + o \in Area(asked.target, asked.count)

(* What memory holds after a move: the source's bytes as they were in the  *)
(* target, everything else as it was.                                      *)
Moved ==
    [a \in Address |->
       IF a \in Area(asked.target, asked.count)
       THEN a - asked.target + asked.source ELSE a]

(* The call moves its bytes also when source and target overlap: no byte   *)
(* is overwritten before it was read.                                      *)
MovesBytes == pc = "done" => memory = Moved

=============================================================================

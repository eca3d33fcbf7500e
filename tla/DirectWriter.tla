----------------------------- MODULE DirectWriter -----------------------------
(***************************************************************************)
(* TCachedWriter with DirectWrite: a client goes back to a position it     *)
(* already wrote and stores other bytes there - a header that is known     *)
(* only at the end.  DirectWrite stores in the block what falls into the   *)
(* cached window, fails for what lies before it, and enlarges the block    *)
(* for what lies behind it (DoDirectFollowingWrite).                       *)
(*                                                                         *)
(* The enlarged block is a new one, but FStart keeps pointing into the old *)
(* one, which is freed: start is then any distance an allocator could put  *)
(* between two blocks.                                                     *)
(***************************************************************************)
EXTENDS CachedWriter

CONSTANTS
  Positions,   (* where DirectWrite is asked to write                      *)
  PatchSizes,  (* how much                                                 *)
  PageSize,    (* MEMORY_PAGE_SIZE                                         *)
  OldBlocks    (* where a freed block lies, seen from its successor        *)

ASSUME PatchAssumption ==
  /\ Positions \subseteq Nat /\ PatchSizes \subseteq Nat \ {0}
  /\ PageSize \in Nat \ {0} /\ OldBlocks \subseteq Int

VARIABLES
  patched      (* positions whose latest byte came from DirectWrite        *)

allVars == <<vars, patched>>

(* The byte DirectWrite stores at position p, unlike any byte of Write.    *)
Mark(p) == MaxBytes + 1 + p

RoundUp(n) == ((n + PageSize - 1) \div PageSize) * PageSize

CachedLow  == base + start
CachedHigh == base + overflow

(* Bug variant: the copy begins one byte early.                            *)
Covered_Shifted(p, n) ==
  IF CachedLow <= p /\ p < CachedHigh THEN p - 1 .. Least(p + n, CachedHigh) - 2
  ELSE {}

(* The positions that are copied into the block: from p on when p is       *)
(* cached, from the beginning of the window when p lies before it.         *)
Covered(p, n) ==
  IF CachedLow <= p /\ p < CachedHigh THEN p .. Least(p + n, CachedHigh) - 1
  ELSE IF p < CachedLow /\ CachedLow < p + n THEN CachedLow .. p + n - 1
  ELSE {}

Patched(ps) == [i \in DOMAIN mem |-> IF base + i \in ps THEN Mark(base + i) ELSE mem[i]]

Highest(ps) == CHOOSE p \in ps : \A q \in ps : q <= p

NewHigh(ps) == IF ps = {} THEN high ELSE Most(high, Highest(ps) + 1 - base)

MayDirectWrite(p, n) ==
  /\ pc = "idle" /\ ~eof /\ ~dropped
  /\ limit # NoLimit => p + n <= limit

(* Everything lies in the window.                                          *)
DirectWrite(p, n) ==
  /\ MayDirectWrite(p, n)
  /\ CachedLow <= p /\ p + n <= CachedHigh
  /\ LET ps == Covered(p, n)
     IN  /\ mem' = Patched(ps)
         /\ high' = NewHigh(ps)
         /\ patched' = patched \cup (p .. p + n - 1)
  /\ UNCHANGED <<size, window, pc, todo, ghosts, onProgress>>

(* It begins before the window: the cached part is stored, then the call   *)
(* raises (DoDirectPreviousWrite of a plain writer always fails).          *)
DirectWriteFails(p, n) ==
  /\ MayDirectWrite(p, n)
  /\ p < CachedLow
  /\ LET ps == Covered(p, n)
     IN  /\ mem' = Patched(ps)
         /\ high' = NewHigh(ps)
  /\ patched' = patched \cup {q \in p .. p + n - 1 : q >= CachedLow}
  /\ UNCHANGED <<size, window, pc, todo, ghosts, onProgress>>

(* It ends behind the window: DoDirectFollowingWrite allocates a block     *)
(* that reaches to its end, copies the old one up to Current, and stores   *)
(* the part behind the window below the offset it belongs to: FHighWritten *)
(* is set to the beginning of that part and its size is subtracted again.  *)
DirectWriteGrows(p, n) ==
  /\ MayDirectWrite(p, n)
  /\ CachedLow <= p /\ CachedHigh < p + n
  /\ LET ps   == Covered(p, n)
         old  == Patched(ps)
         from == Most(p, CachedHigh) - base
         part == p + n - base - from
     IN  /\ size' = RoundUp(from + part)
         /\ mem' = [i \in 0 .. size' + Extra - 1 |->
                      IF i \in from - part .. from - 1 THEN Mark(base + i + part)
                      ELSE IF i < current THEN old[i] ELSE 0]
         /\ high' = from
         /\ overflow' = size'
  /\ start' \in OldBlocks
  /\ patched' = patched \cup (p .. p + n - 1)
  /\ UNCHANGED <<current, base, limit, eof, pc, todo, ghosts, onProgress>>

(* Every other call: bytes of Write take the place of patches.             *)
Sequential ==
  /\ Next
  /\ patched' = patched \ (Len(out) + current .. Len(out) + current + given' - given - 1)

DirectInit == Init /\ onProgress = "none" /\ patched = {}

(* A client that only goes back: the bytes were written and are cached.    *)
GoesBack(p, n) == p + n <= Position

PatchNext ==
  \/ Sequential
  \/ \E p \in Positions, n \in PatchSizes :
       GoesBack(p, n) /\ (DirectWrite(p, n) \/ DirectWriteFails(p, n))

(* Any client.                                                             *)
DirectNext ==
  \/ Sequential
  \/ \E p \in Positions, n \in PatchSizes :
       DirectWrite(p, n) \/ DirectWriteFails(p, n) \/ DirectWriteGrows(p, n)

PatchSpec  == DirectInit /\ [][PatchNext]_allVars
DirectSpec == DirectInit /\ [][DirectNext]_allVars

-----------------------------------------------------------------------------
(* Whatever happens between a DirectWrite and the callback, the byte it    *)
(* stored is the one that arrives at its position: it survives flushes,    *)
(* moves of the Additional area and further calls of DirectWrite.          *)
PatchesSurvive ==
  ~dropped =>
    \A p \in patched :
      IF p < Len(out) THEN out[p + 1] = Mark(p)
      ELSE /\ p - Len(out) < Most(current, high)
           /\ mem[p - Len(out)] = Mark(p)

(* And where no patch is, the output is still the byte written there: a    *)
(* DirectWrite touches nothing outside of its range, also when it raises   *)
(* because the range begins in front of the window.                        *)
RestIsInOrder == \A i \in 1 .. Len(out) : i - 1 \notin patched => out[i] = i

(* The patches and nothing else change what was written.                   *)
OnlyPatchesChange == PatchesSurvive /\ RestIsInOrder
=============================================================================

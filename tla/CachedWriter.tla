---------------------------- MODULE CachedWriter ----------------------------
(***************************************************************************)
(* TCachedWriter (Tiny.Cache.Buffers.pas): bytes written by a client are   *)
(* collected in a memory block and handed to a callback in large pieces.   *)
(* The block has a Data area of FMemory.Size bytes and, behind it, an      *)
(* Additional area that takes what a WriteData stores past the end.        *)
(*                                                                         *)
(* Pointers are offsets from FMemory.Data.  The bytes a client writes one  *)
(* after the other are numbered 1, 2, 3, ..., so that the order of the     *)
(* output can be read off it.  A call is cut into steps where the code     *)
(* leaves for the callback or for OnProgress: both are code of the client. *)
(*                                                                         *)
(* The client here is the one the class documents: it stops writing once   *)
(* EOF is set or a call raised, and it does not widen a limit that already *)
(* cut the window.                                                         *)
(***************************************************************************)
EXTENDS Integers, Sequences

CONSTANTS
  Size,        (* bytes of the Data area                                   *)
  Extra,       (* bytes of the Additional area                             *)
  Widths,      (* sizes of the values WriteData stores                     *)
  Counts,      (* sizes of the blocks passed to Write                      *)
  Limits,      (* values a client sets Limit to                            *)
  NoLimit,     (* FLimited = False                                         *)
  MaxBytes     (* bound: bytes a client writes in all                      *)

ASSUME SizeAssumption == Size \in Nat \ {0} /\ Extra \in Nat /\ MaxBytes \in Nat
ASSUME ClientAssumption ==
  /\ Widths \subseteq Nat \ {0} /\ \A w \in Widths : w < Extra /\ w <= Size
  /\ Counts \subseteq Nat \ {0}
  /\ Limits \subseteq Nat
  /\ NoLimit \notin Nat

VARIABLES
  mem,       (* the memory block, from FMemory.Data on                     *)
  size,      (* FMemory.Size                                               *)
  start,     (* FStart                                                     *)
  current,   (* Current                                                    *)
  overflow,  (* FOverflow                                                  *)
  high,      (* FHighWritten                                               *)
  base,      (* FPositionBase                                              *)
  limit,     (* FLimit, or NoLimit while FLimited is False                 *)
  eof,       (* FEOF                                                       *)
  pc,        (* where the running call is                                  *)
  todo,      (* bytes of the running Write that are not consumed yet       *)
  given,     (* how many bytes were taken over from the client             *)
  out,       (* what the callback received                                 *)
  dropped,   (* the writing was broken off: error, cancel or EOF := True   *)
  onProgress (* how OnProgress is used: not set, watching, may cancel      *)

block  == <<mem, size, high>>
window == <<start, current, overflow, base, limit, eof>>
ghosts == <<given, out, dropped>>
vars   == <<mem, size, start, current, overflow, high, base, limit, eof,
            pc, todo, given, out, dropped, onProgress>>

Position == base + current
Margin   == overflow - current
Cancels  == IF onProgress = "cancel" THEN BOOLEAN ELSE {FALSE}

Least(a, b) == IF a < b THEN a ELSE b
Most(a, b)  == IF a < b THEN b ELSE a

(* n bytes of the client, the first one being number k + 1.                *)
Bytes(k, n) == [i \in 1 .. n |-> k + i]

(* The first n bytes of the Data area.                                     *)
Chunk(n) == [i \in 1 .. n |-> mem[i - 1]]

(* The block after the next n bytes of the client were stored at Current.  *)
Stored(n) ==
  [i \in DOMAIN mem |-> IF i \in current .. current + n - 1
                        THEN given + 1 + (i - current) ELSE mem[i]]

(* The client still writes: no call raised, EOF is not set.                *)
Writing(n) ==
  /\ pc = "idle" /\ ~eof /\ ~dropped
  /\ given + n <= MaxBytes

(* SetEOF(True), with Current and FPositionBase as they will be.           *)
Ended(cur, pos) ==
  /\ eof' = TRUE
  /\ start' = cur /\ overflow' = cur
  /\ limit' = pos

Kept == UNCHANGED <<start, overflow, limit, eof>>

(* Bug variants of the definitions below, each a plausible slip.           *)
WithinLimit_OffByOne(n) == limit # NoLimit => Position + n <= limit + 1

WriteData_NoFlush(w) ==
  /\ Writing(w)
  /\ mem' = Stored(w)
  /\ current' = current + w
  /\ given' = given + w
  /\ UNCHANGED <<size, high, start, overflow, base, limit, eof, pc, todo, out, dropped>>

Moved_Nothing(over)  == mem
NewBase_Whole        == Position
LastRound_Full       == Least(Most(current, high), size) <= size

Flushing == {"flush", "innerFlush", "closing"}

(* Where a Flush returns to, and where an exception leaves the object.     *)
After  == [flush |-> "idle", innerFlush |-> "direct", closing |-> "closed"]
Raised == [flush |-> "idle", innerFlush |-> "idle", closing |-> "closed"]

Init ==
  /\ mem = [i \in 0 .. Size + Extra - 1 |-> 0]
  /\ size = Size /\ start = 0 /\ current = 0 /\ overflow = Size /\ high = 0
  /\ base = 0 /\ limit = NoLimit /\ eof = FALSE
  /\ pc = "created" /\ todo = 0
  /\ given = 0 /\ out = <<>> /\ dropped = FALSE
  /\ onProgress \in {"none", "watch", "cancel"}

(* AfterConstruction lets OnProgress cancel before anything is written.    *)
AfterConstruction ==
  /\ pc = "created" /\ pc' = "idle"
  /\ \/ TRUE \in Cancels /\ Ended(current, Position)
     \/ Kept
  /\ UNCHANGED <<mem, size, high, current, base, todo, given, out, dropped>>

WithinLimit(n) == limit # NoLimit => Position + n <= limit

(* Write, when the block fits before FOverflow.                            *)
Write(n) ==
  /\ Writing(n)
  /\ current + n <= overflow
  /\ mem' = Stored(n)
  /\ current' = current + n
  /\ given' = given + n
  /\ UNCHANGED <<size, high, start, overflow, base, limit, eof, pc, todo, out, dropped>>

(* Write, when it does not: OverflowWrite fills the margin and goes to     *)
(* Flush, unless the buffer is empty.  A block that would pass the limit   *)
(* is refused with an exception and changes nothing.                       *)
OverflowWrite(n) ==
  /\ Writing(n)
  /\ current + n > overflow
  /\ WithinLimit(n)
  /\ LET room == Most(Margin, 0)
         used == IF current = 0 THEN 0 ELSE room
     IN  /\ mem' = Stored(used)
         /\ current' = current + used
         /\ given' = given + used
         /\ todo' = n - used
         /\ pc' = IF current = 0 THEN "direct" ELSE "innerFlush"
  /\ UNCHANGED <<size, high, start, overflow, base, limit, eof, out, dropped>>

(* WriteData stores first and looks at FOverflow afterwards.               *)
WriteData(w) ==
  /\ Writing(w)
  /\ mem' = Stored(w)
  /\ current' = current + w
  /\ given' = given + w
  /\ pc' = IF current + w >= overflow THEN "flush" ELSE "idle"
  /\ UNCHANGED <<size, high, start, overflow, base, limit, eof, todo, out, dropped>>

CallFlush ==
  /\ pc = "idle" /\ ~dropped
  /\ pc' = "flush"
  /\ UNCHANGED <<block, window, todo, ghosts>>

(* BeforeDestruction.                                                      *)
Destroy ==
  /\ pc = "idle"
  /\ pc' = IF eof THEN "closed" ELSE "closing"
  /\ UNCHANGED <<block, window, todo, ghosts>>

(* SetLimit: a limit below what the window admits cuts the window.         *)
SetLimit(v) ==
  /\ pc = "idle" /\ ~eof /\ ~dropped
  /\ v # limit /\ Position <= v
  /\ limit' = v
  /\ overflow' = Least(overflow, v - base)
  /\ UNCHANGED <<block, start, current, base, eof, pc, todo, ghosts>>

(* A documented client only narrows a limit once the window was cut.       *)
Narrow(v) ==
  /\ overflow # size => v <= limit
  /\ SetLimit(v)

(* EOF := True by the client: what is still buffered is given up.          *)
SetEOF ==
  /\ pc = "idle" /\ ~eof /\ ~dropped
  /\ Ended(current, Position)
  /\ dropped' = (current # 0)
  /\ UNCHANGED <<block, current, base, pc, todo, given, out>>

-----------------------------------------------------------------------------
(* DoFlush, wrapped by Flush.                                              *)

(* The pointer test at the top of DoFlush.                                 *)
PointersAreValid ==
  /\ start <= current /\ current < size + Extra
  /\ start <= overflow /\ overflow < size + Extra

OverLimit == limit # NoLimit /\ limit < Position

(* An exception inside Flush: its finally part calls SetEOF(True).         *)
FlushRaises ==
  /\ pc \in Flushing
  /\ \/ ~PointersAreValid
     \/ eof /\ current # overflow
     \/ ~eof /\ OverLimit
  /\ IF eof THEN Kept ELSE Ended(current, Position)
  /\ dropped' = TRUE
  /\ pc' = Raised[pc] /\ todo' = 0
  /\ UNCHANGED <<block, current, base, given, out>>

FlushAtEOF ==
  /\ pc \in Flushing
  /\ PointersAreValid /\ eof /\ current = overflow
  /\ pc' = After[pc]
  /\ UNCHANGED <<block, window, todo, ghosts>>

MayFlush == pc \in Flushing /\ PointersAreValid /\ ~eof /\ ~OverLimit

(* DoWriterFlush first moves Current up to FHighWritten.                   *)
Filled    == Most(current, high)
FlushSize == Least(Filled, size)

(* What lies behind the Data area moves to its beginning.                  *)
Moved(over) ==
  [i \in DOMAIN mem |-> IF i < over THEN mem[overflow + i] ELSE mem[i]]

(* FPositionBase afterwards, computed before Current is moved up.          *)
NewBase == Position - Most(current - overflow, 0)

(* The result of DoWriterFlush: a Data area that is not full is the last.  *)
LastRound == FlushSize < size

(* The limit cuts the window of the next round.                            *)
NextOverflow(over) ==
  IF limit = NoLimit THEN overflow
  ELSE Least(overflow, over + (limit - (base + Filled)))

Flush ==
  /\ MayFlush
  /\ \E cancel \in Cancels :
       LET over == Filled - FlushSize
       IN  /\ out' = out \o Chunk(FlushSize)
           /\ mem' = Moved(over)
           /\ current' = over /\ high' = over
           /\ base' = NewBase
           /\ IF LastRound \/ cancel
              THEN Ended(over, NewBase + over)
              ELSE /\ overflow' = NextOverflow(over)
                   /\ UNCHANGED <<start, limit, eof>>
           /\ dropped' = (dropped \/ cancel)
  /\ pc' = After[pc]
  /\ UNCHANGED <<size, todo, given>>

(* The callback took fewer bytes than it was given, or raised.             *)
FlushFails ==
  /\ MayFlush /\ FlushSize # 0
  /\ \E r \in 0 .. FlushSize - 1 : out' = out \o Chunk(r)
  /\ current' = Filled
  /\ Ended(Filled, base + Filled)
  /\ dropped' = TRUE
  /\ pc' = Raised[pc] /\ todo' = 0
  /\ UNCHANGED <<block, base, given>>

-----------------------------------------------------------------------------
(* The rest of OverflowWrite: whole pages past the buffer, then the tail.  *)

(* One call of the callback: everything, or page by page under OnProgress. *)
Page == IF onProgress = "none" THEN todo - (todo % size) ELSE size

Direct ==
  /\ pc = "direct" /\ todo >= size
  /\ out' = out \o Bytes(given, Page)
  /\ given' = given + Page
  /\ base' = base + Page
  /\ \E cancel \in Cancels :
       /\ IF cancel /\ ~eof
          THEN Ended(current, base + Page + current) ELSE Kept
       /\ dropped' = (dropped \/ cancel)
  /\ LET stop == onProgress # "none" /\ eof' /\ todo # Page
     IN  /\ todo' = IF stop THEN 0 ELSE todo - Page
         /\ pc' = IF stop THEN "idle" ELSE "direct"
  /\ UNCHANGED <<block, current>>

DirectFails ==
  /\ pc = "direct" /\ todo >= size
  /\ \E r \in 0 .. Page - 1 : out' = out \o Bytes(given, r)
  /\ dropped' = TRUE
  /\ pc' = "idle" /\ todo' = 0
  /\ UNCHANGED <<block, window, given>>

Remainder ==
  /\ pc = "direct" /\ todo < size
  /\ mem' = Stored(todo)
  /\ current' = current + todo
  /\ given' = given + todo
  /\ pc' = "idle" /\ todo' = 0
  /\ UNCHANGED <<size, high, start, overflow, base, limit, eof, out, dropped>>

-----------------------------------------------------------------------------
Calls ==
  \/ AfterConstruction \/ CallFlush \/ Destroy \/ SetEOF
  \/ \E n \in Counts : Write(n) \/ OverflowWrite(n)
  \/ \E w \in Widths : WriteData(w)
  \/ \E v \in Limits : Narrow(v)

Steps == FlushRaises \/ FlushAtEOF \/ Flush \/ FlushFails \/ Direct \/ DirectFails \/ Remainder

Next == (Calls \/ Steps) /\ UNCHANGED onProgress

Spec == Init /\ [][Next]_vars

-----------------------------------------------------------------------------
Numbers ==
  /\ size \in Nat \ {0} /\ high \in Nat
  /\ mem \in [0 .. size + Extra - 1 -> Nat]
  /\ start \in Nat /\ current \in Nat /\ overflow \in Nat /\ base \in Nat
  /\ limit \in Nat \cup {NoLimit}
  /\ todo \in Nat /\ given \in Nat
  /\ out \in Seq(Nat)

(* The type invariant.  Pointers are offsets that never become negative.   *)
TypeOK ==
  /\ Numbers
  /\ pc \in Flushing \cup {"created", "idle", "direct", "closed"}
  /\ eof \in BOOLEAN /\ dropped \in BOOLEAN
  /\ onProgress \in {"none", "watch", "cancel"}

(* The callback receives the client's bytes in the order in which they     *)
(* were written, none twice and none left out, whether they went through   *)
(* the block, through its Additional area or around it - and also when the *)
(* writing is broken off in the middle of a call.                          *)
OutputInOrder == out = Bytes(0, Len(out))

(* Position is the number of bytes written: what the callback received and *)
(* what is buffered, which is every byte taken over from the client.       *)
PositionIsHonest ==
  ~dropped => base = Len(out) /\ Position = given

(* The test at the top of DoFlush never fires: no call of this class moves *)
(* Current or FOverflow out of the block.                                  *)
PointersStayInside == pc \in Flushing => PointersAreValid

(* A destructor leaves nothing behind: unless the writing was broken off,  *)
(* every byte that a call accepted went to the callback.                   *)
ClosedIsDelivered == pc = "closed" /\ ~dropped => Len(out) = given

(* No call of the callback carries the output past Limit.  (SetEOF puts    *)
(* the position reached into FLimit.)                                      *)
LimitKept ==
  [][limit # NoLimit /\ ~eof => Len(out') <= Most(limit, Len(out))]_vars

(* The writer implements the abstract stream.                              *)
Stream == INSTANCE WriteStream WITH
  content   <- IF dropped THEN out ELSE out \o Chunk(current),
  delivered <- Len(out),
  status    <- IF dropped THEN "failed"
               ELSE IF eof \/ pc = "closed" THEN "ended" ELSE "open"

ImplementsStream == Stream!Spec
=============================================================================

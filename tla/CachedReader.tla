---------------------------- MODULE CachedReader ----------------------------
(***************************************************************************)
(* TCachedReader (Tiny.Cache.Buffers.pas): a callback fills the Data area  *)
(* of a memory block, the client consumes it through Read, Skip, DirectRead*)
(* or Current itself.  A Flush keeps what is not consumed yet by moving it *)
(* in front of the Data area, into the Previous area, which grows when it  *)
(* is too small.                                                           *)
(*                                                                         *)
(* Pointers are offsets from FMemory.Data, negative in the Previous area.  *)
(* The bytes of the source are numbered 1, 2, 3, ... in their order.  A    *)
(* call is cut into steps where the code leaves for the callback or for    *)
(* OnProgress: both are code of the client.                                *)
(*                                                                         *)
(* A call that raises without touching the reader (a block that would pass *)
(* the limit, a DirectRead of what is no longer cached) is not a step.     *)
(***************************************************************************)
EXTENDS Integers, Sequences

CONSTANTS
  Size,        (* bytes of the Data area                                   *)
  Extra,       (* bytes of the Additional area                             *)
  Before,      (* bytes of the Previous area                               *)
  PageSize,    (* MEMORY_PAGE_SIZE: what a new block is rounded up to      *)
  Totals,      (* how many bytes a source may hold                         *)
  NoLimit,     (* FLimited = False                                         *)
  OldBlocks,   (* where a freed block may lie, seen from its successor     *)
  Clients      (* how the reader is used, one record per kind of client:   *)
               (*   counts, skips, places  arguments of Read, of Skip and  *)
               (*                          positions given to DirectRead   *)
               (*   limits    values Limit is set to                       *)
               (*   rest      calls Flush with bytes left in the window;   *)
               (*             such a client of the model sets no limit     *)
               (*   progress  OnProgress: "none", "watch" or "cancel"      *)

ASSUME SizeAssumption ==
  /\ Size \in Nat \ {0} /\ Extra \in Nat \ {0} /\ Before \in Nat
  /\ PageSize \in Nat \ {0}
ASSUME ClientAssumption ==
  /\ Totals \subseteq Nat
  /\ NoLimit \notin Int /\ OldBlocks \subseteq Int
  /\ \A c \in Clients :
       /\ c.counts \subseteq Nat \ {0} /\ c.skips \subseteq Nat \ {0}
       /\ c.places \subseteq Nat /\ c.limits \subseteq Nat
       /\ c.rest \in BOOLEAN /\ (c.rest => c.limits = {})
       /\ c.progress \in {"none", "watch", "cancel"}

VARIABLES
  mem,        (* the memory block                                          *)
  size,       (* FMemory.Size                                              *)
  prev,       (* FMemory.PreviousSize                                      *)
  start,      (* FStart                                                    *)
  current,    (* Current                                                   *)
  overflow,   (* FOverflow                                                 *)
  base,       (* FPositionBase                                             *)
  limit,      (* FLimit, or NoLimit while FLimited is False                *)
  finishing,  (* FFinishing                                                *)
  eof,        (* FEOF                                                      *)
  pc,         (* where the running call is                                 *)
  todo,       (* bytes of the running Read or Skip that are missing        *)
  total,      (* the source: how many bytes it holds                       *)
  fetched,    (* the source: how many of them the callback returned        *)
  got,        (* what the client received; 0 is a byte it passed over      *)
  wild,       (* the callback was asked to fill more than there is room    *)
  dropped,    (* the reading was broken off: error, cancel, EOF := True,   *)
              (* or a limit at the very place it had reached               *)
  who         (* the client of this reader                                 *)

block  == <<mem, size, prev>>
window == <<start, current, overflow, base, limit, finishing, eof>>
source == <<total, fetched, wild>>
result == <<got, dropped>>
vars   == <<mem, size, prev, start, current, overflow, base, limit, finishing,
            eof, pc, todo, total, fetched, wild, got, dropped, who>>

Position == base + current
Margin   == overflow - current
Cancels  == IF who.progress = "cancel" THEN BOOLEAN ELSE {FALSE}

Least(a, b) == IF a < b THEN a ELSE b
Most(a, b)  == IF a < b THEN b ELSE a

RoundUp(n) == ((n + PageSize - 1) \div PageSize) * PageSize

(* The next n bytes of the source; n bytes of the window; n unseen bytes.  *)
Bytes(n)  == [i \in 1 .. n |-> fetched + i]
Cached(n) == [i \in 1 .. n |-> mem[current + i - 1]]
Unseen(n) == [i \in 1 .. n |-> 0]

(* A block whose bytes from offset at on are the next r of the source.     *)
Filled(old, lo, hi, at, r) ==
  [i \in lo .. hi |-> IF i \in at .. at + r - 1 THEN fetched + 1 + (i - at)
                      ELSE IF i \in DOMAIN old THEN old[i] ELSE 0]

(* How many bytes the callback returns when it is asked for n.             *)
Answer(n) == Most(0, Least(n, total - fetched))

(* SetEOF(True), with Current and FPositionBase as they will be.           *)
Ended(cur, pos) ==
  /\ eof' = TRUE /\ finishing' = FALSE
  /\ start' = cur /\ overflow' = cur
  /\ limit' = pos

Kept == UNCHANGED <<start, overflow, limit, finishing, eof>>

(* Bug variants of the definitions below, each a plausible slip.           *)
OverflowRead_KeepsCurrent(n) ==
  /\ pc = "idle" /\ ~eof /\ ~dropped
  /\ current + n > overflow
  /\ limit # NoLimit => Position + n <= limit
  /\ got' = got \o Cached(Margin)
  /\ todo' = n - Margin
  /\ pc' = "direct"
  /\ UNCHANGED <<block, window, source, dropped>>

NewBase_Page           == Most(base, 0) + size
FlushSize_Whole(pos)   == size
EndsNow_AtLast(last, r) == last

KeptWindow_Consumed     == [i \in start .. current - 1 |-> mem[i]]
DirectSize_NoRoom(room)  == IF limit = NoLimit THEN room ELSE limit - base - overflow

SkipOn_Blind ==
  /\ pc = "skip"
  /\ LET passed == Least(Margin, todo)
     IN  /\ got' = got \o Unseen(passed)
         /\ todo' = todo - passed
         /\ pc' = IF passed = todo THEN "idle" ELSE "skipFlush"
  /\ current' = overflow
  /\ UNCHANGED <<block, start, overflow, base, limit, finishing, eof, source, dropped>>

Flushing == {"flush", "innerFlush", "skipFlush"}
After    == [flush |-> "idle", innerFlush |-> "tail", skipFlush |-> "skip"]

Init ==
  /\ mem = [i \in -Before .. Size + Extra - 1 |-> 0]
  /\ size = Size /\ prev = Before
  /\ start = Size /\ current = Size /\ overflow = Size
  /\ base = -Size /\ limit = NoLimit /\ finishing = FALSE /\ eof = FALSE
  /\ pc = "created" /\ todo = 0
  /\ total \in Totals /\ fetched = 0 /\ wild = FALSE
  /\ got = <<>> /\ dropped = FALSE
  /\ who \in Clients

AfterConstruction ==
  /\ pc = "created" /\ pc' = "idle"
  /\ \/ TRUE \in Cancels /\ Ended(current, Position) /\ dropped' = TRUE
     \/ Kept /\ UNCHANGED dropped
  /\ UNCHANGED <<block, current, base, todo, source, got>>

Reading == pc = "idle" /\ ~eof /\ ~dropped

WithinLimit(n) == limit # NoLimit => Position + n <= limit

(* Read and Skip, when the window holds enough.                            *)
Read(n) ==
  /\ Reading
  /\ current + n <= overflow
  /\ got' = got \o Cached(n)
  /\ current' = current + n
  /\ UNCHANGED <<block, start, overflow, base, limit, finishing, eof,
                 pc, todo, source, dropped>>

Skip(n) ==
  /\ Reading
  /\ current + n <= overflow
  /\ got' = got \o Unseen(n)
  /\ current' = current + n
  /\ UNCHANGED <<block, start, overflow, base, limit, finishing, eof,
                 pc, todo, source, dropped>>

(* OverflowRead delivers the window and goes on without the buffer.        *)
OverflowRead(n) ==
  /\ Reading
  /\ current + n > overflow
  /\ WithinLimit(n)
  /\ got' = got \o Cached(Margin)
  /\ current' = overflow
  /\ todo' = n - Margin
  /\ pc' = "direct"
  /\ UNCHANGED <<block, start, overflow, base, limit, finishing, eof, source, dropped>>

CallFlush ==
  /\ pc = "idle" /\ ~dropped
  /\ who.rest \/ Margin = 0
  /\ pc' = "flush"
  /\ UNCHANGED <<block, window, todo, source, result>>

(* The client looked at bytes behind Overflow, moved Current there and     *)
(* calls Flush, which is documented to throw.                              *)
Overrun ==
  /\ Reading
  /\ overflow + 1 < size + Extra
  /\ got' = got \o Cached(Margin)
  /\ current' = overflow + 1
  /\ dropped' = TRUE
  /\ pc' = "flush"
  /\ UNCHANGED <<block, start, overflow, base, limit, finishing, eof, todo, source>>

(* SetLimit: a limit inside the window makes the window the last one.      *)
SetLimit(v) ==
  /\ Reading
  /\ v # limit /\ Position <= v
  /\ finishing => v <= Position + Margin
  /\ IF v = Position THEN Ended(current, v)
     ELSE /\ limit' = v
          /\ overflow' = Least(overflow, current + (v - Position))
          /\ finishing' = (finishing \/ v - Position <= Margin)
          /\ UNCHANGED <<start, eof>>
  /\ dropped' = (v = Position)
  /\ UNCHANGED <<block, current, base, pc, todo, source, got>>

(* EOF := True by the client.                                              *)
SetEOF ==
  /\ Reading
  /\ Ended(current, Position)
  /\ dropped' = TRUE
  /\ UNCHANGED <<block, current, base, pc, todo, source, got>>

-----------------------------------------------------------------------------
(* DoFlush, wrapped by Flush.                                              *)

PointersAreValid ==
  /\ start <= current /\ current < size + Extra
  /\ start <= overflow /\ overflow < size + Extra

(* An exception inside Flush: its finally part calls SetEOF(True).         *)
FlushRaises ==
  /\ pc \in Flushing
  /\ \/ ~PointersAreValid
     \/ eof /\ current # overflow
     \/ ~eof /\ current > overflow
  /\ IF eof THEN Kept ELSE Ended(current, Position)
  /\ dropped' = TRUE
  /\ pc' = "idle" /\ todo' = 0
  /\ UNCHANGED <<block, current, base, source, got>>

FlushAtEOF ==
  /\ pc \in Flushing
  /\ PointersAreValid /\ eof /\ current = overflow
  /\ pc' = After[pc]
  /\ UNCHANGED <<block, window, todo, source, result>>

MayFlush == pc \in Flushing /\ PointersAreValid /\ ~eof /\ current <= overflow

(* The window is the last one: nothing is fetched, an empty one is EOF.    *)
IdleFlush ==
  /\ MayFlush /\ finishing
  /\ IF Margin = 0 THEN Ended(current, Position) ELSE Kept
  /\ pc' = After[pc]
  /\ UNCHANGED <<block, current, base, todo, source, result>>

(* A rest that does not fit in the Previous area moves to a new block.     *)
Moves == Margin > prev

NewPrev == IF Moves THEN RoundUp(Margin) ELSE prev

(* What the code takes for Position when it computes how much the limit    *)
(* leaves: Current still points into the old block, FMemory is the new one.*)
Seen == IF Moves THEN {Position + d : d \in OldBlocks} ELSE {Position}

LimitCuts(pos) == limit # NoLimit /\ limit - pos <= size

FlushSize(pos) == IF LimitCuts(pos) THEN limit - pos ELSE size

(* The block with the rest moved in front of the Data area.                *)
Rested ==
  [i \in -NewPrev .. size + Extra - 1 |->
     IF i \in -Margin .. -1 THEN mem[overflow + i]
     ELSE IF i \in DOMAIN mem /\ ~Moves THEN mem[i] ELSE 0]

(* FPositionBase and FStart after a flush.                                 *)
NewBase  == Position
NewStart == -Margin

(* EOF: the last window, and nothing in it.                                *)
EndsNow(last, r) == last /\ -Margin = r

Flush ==
  /\ MayFlush /\ ~finishing
  /\ \E pos \in Seen, cancel \in Cancels :
       LET n    == FlushSize(pos)
           r    == Answer(n)
           last == LimitCuts(pos) \/ r < n
       IN  /\ mem' = Filled(Rested, -NewPrev, size + Extra - 1, 0, r)
           /\ prev' = NewPrev
           /\ fetched' = fetched + r
           /\ wild' = (wild \/ n \notin 0 .. size)
           /\ current' = -Margin
           /\ base' = NewBase
           /\ IF cancel \/ EndsNow(last, r) THEN Ended(-Margin, NewBase - Margin)
              ELSE /\ start' = NewStart /\ overflow' = r
                   /\ finishing' = last
                   /\ UNCHANGED <<limit, eof>>
           /\ dropped' = (dropped \/ cancel)
  /\ pc' = After[pc]
  /\ UNCHANGED <<size, todo, total, got>>

(* The callback raised.  In a block that was just replaced, Current is     *)
(* left where the old one was.                                             *)
FlushFails ==
  /\ MayFlush /\ ~finishing
  /\ \E pos \in Seen :
       /\ FlushSize(pos) # 0
       /\ wild' = (wild \/ FlushSize(pos) \notin 0 .. size)
       /\ current' = pos - base
       /\ Ended(pos - base, pos)
  /\ mem' = Rested /\ prev' = NewPrev
  /\ dropped' = TRUE
  /\ pc' = "idle" /\ todo' = 0
  /\ UNCHANGED <<size, base, total, fetched, got>>

-----------------------------------------------------------------------------
(* The rest of OverflowRead: whole pages past the buffer, then the tail.   *)

(* One call of the callback: everything, or page by page under OnProgress. *)
Page == IF who.progress = "none" THEN todo - (todo % size) ELSE size

Direct ==
  /\ pc = "direct" /\ todo >= size
  /\ Answer(Page) = Page
  /\ got' = got \o Bytes(Page)
  /\ fetched' = fetched + Page
  /\ base' = base + Page
  /\ \E cancel \in Cancels :
       /\ IF cancel /\ ~eof
          THEN Ended(current, base + Page + current) ELSE Kept
       /\ dropped' = (dropped \/ cancel)
  /\ LET stop == who.progress # "none" /\ eof' /\ todo # Page
     IN  /\ todo' = IF stop THEN 0 ELSE todo - Page
         /\ pc' = IF stop THEN "idle" ELSE "direct"
  /\ UNCHANGED <<block, current, total, wild>>

(* The callback raised or did not have as many bytes.                      *)
DirectFails ==
  /\ pc = "direct" /\ todo >= size
  /\ fetched' = fetched + Answer(Page)
  /\ dropped' = TRUE
  /\ pc' = "idle" /\ todo' = 0
  /\ UNCHANGED <<block, window, total, wild, got>>

Remainder ==
  /\ pc = "direct" /\ todo < size
  /\ pc' = IF todo = 0 THEN "idle" ELSE "innerFlush"
  /\ UNCHANGED <<block, window, todo, source, result>>

ReadTail ==
  /\ pc = "tail" /\ todo <= Margin
  /\ got' = got \o Cached(todo)
  /\ current' = current + todo
  /\ pc' = "idle" /\ todo' = 0
  /\ UNCHANGED <<block, start, overflow, base, limit, finishing, eof, source, dropped>>

ReadTailFails ==
  /\ pc = "tail" /\ Margin < todo
  /\ dropped' = TRUE
  /\ pc' = "idle" /\ todo' = 0
  /\ UNCHANGED <<block, window, source, got>>

-----------------------------------------------------------------------------
(* OverflowSkip: window after window is passed over, each one up to        *)
(* FOverflow, also when fewer bytes are left to skip.                      *)
PassOver(n) ==
  LET passed == Least(Margin, n)
  IN  /\ got' = got \o Unseen(passed)
      /\ current' = overflow
      /\ todo' = n - passed
      /\ pc' = IF passed = n THEN "idle" ELSE "skipFlush"
      /\ UNCHANGED <<block, start, overflow, base, limit, finishing, eof, source, dropped>>

OverflowSkip(n) ==
  /\ Reading
  /\ current + n > overflow
  /\ WithinLimit(n)
  /\ PassOver(n)

SkipOn ==
  /\ pc = "skip" /\ ~eof
  /\ PassOver(todo)

SkipFails ==
  /\ pc = "skip" /\ eof
  /\ dropped' = TRUE
  /\ pc' = "idle" /\ todo' = 0
  /\ UNCHANGED <<block, window, source, got>>

(* A client that skips to the end of a window.                             *)
WholeWindows(n) == (n - Margin) % size = 0

-----------------------------------------------------------------------------
(* DirectRead.  What is cached is copied and nothing changes; what lies    *)
(* behind the window enlarges the block and refills it: the client may ask *)
(* for more than the source has, then the call raises and the reader goes  *)
(* on with the larger block.                                               *)
CachedLow  == base + start
CachedHigh == base + overflow

(* What the old block leaves to the new one.                               *)
KeptWindow == [i \in start .. overflow - 1 |-> mem[i]]

(* How much of the room behind the window the limit lets the callback fill.*)
DirectCut(room)  == limit # NoLimit /\ limit - CachedHigh <= room
DirectSize(room) == IF DirectCut(room) THEN limit - CachedHigh ELSE room

DirectRead(p, n) ==
  /\ Reading
  /\ WithinLimit(p + n - Position)
  /\ CachedLow <= p /\ CachedHigh < p + n
  /\ start <= 0
  /\ size' = RoundUp(p + n - base)
  /\ prev' = RoundUp(Most(-start, 1))
  /\ LET room == size' - overflow
         ask   == DirectSize(room)
         r    == Answer(ask)
     IN  /\ mem' = Filled(KeptWindow, -prev', size' + Extra - 1, overflow, r)
         /\ overflow' = overflow + r
         /\ fetched' = fetched + r
         /\ wild' = (wild \/ ask \notin 0 .. room)
         /\ finishing' = (finishing \/ DirectCut(room) \/ r < ask)
  /\ UNCHANGED <<start, current, base, limit, eof, pc, todo, total, result>>

-----------------------------------------------------------------------------
Calls ==
  \/ AfterConstruction \/ CallFlush \/ Overrun \/ SetEOF
  \/ \E n \in who.counts : Read(n) \/ OverflowRead(n)
  \/ \E n \in who.skips  : Skip(n) \/ (WholeWindows(n) /\ OverflowSkip(n))
  \/ \E p \in who.places, n \in who.counts : DirectRead(p, n)
  \/ \E v \in who.limits : SetLimit(v)

Steps ==
  \/ FlushRaises \/ FlushAtEOF \/ IdleFlush \/ Flush \/ FlushFails
  \/ Direct \/ DirectFails \/ Remainder \/ ReadTail \/ ReadTailFails
  \/ SkipOn \/ SkipFails

Next == (Calls \/ Steps) /\ UNCHANGED who

Spec     == Init /\ [][Next]_vars
FairSpec == Spec /\ WF_vars(Steps /\ UNCHANGED who)

(* A client that skips any number of bytes.                                *)
SkipsAnywhere == (\E n \in who.skips : OverflowSkip(n)) /\ UNCHANGED who
SkippingSpec  == Init /\ [][Next \/ SkipsAnywhere]_vars

-----------------------------------------------------------------------------
(* The type invariant.                                                     *)
TypeOK ==
  /\ size \in Nat \ {0} /\ prev \in Nat
  /\ mem \in [-prev .. size + Extra - 1 -> Nat]
  /\ start \in Int /\ current \in Int /\ overflow \in Int /\ base \in Int
  /\ limit \in Int \cup {NoLimit}
  /\ total \in Nat /\ fetched \in 0 .. total /\ todo \in Nat
  /\ got \in Seq(Nat)
  /\ pc \in Flushing \cup {"created", "idle", "direct", "tail", "skip"}
  /\ finishing \in BOOLEAN /\ eof \in BOOLEAN /\ wild \in BOOLEAN /\ dropped \in BOOLEAN
  /\ who \in Clients

(* The client receives the bytes of the source in their order, none twice  *)
(* and none left out but those it skipped, whether they come through the   *)
(* Data area, the Previous area, an enlarged block or around the block.    *)
ReadInOrder == \A i \in DOMAIN got : got[i] \in {0, i}

(* What the client finds at Current is what comes next.                    *)
UnreadIsNext ==
  ~dropped => \A k \in 0 .. Margin - 1 : mem[current + k] = Len(got) + 1 + k

(* Position is the number of bytes the client received or skipped, unless  *)
(* a Flush found bytes that were not consumed yet.                         *)
PositionIsHonest ==
  pc = "idle" /\ ~dropped /\ ~who.rest => Position = Len(got)

(* The bytes DirectRead finds cached are the ones of the positions asked,  *)
(* as long as no Read went around the block and no Flush found a rest.     *)
CachedIsTrue ==
  /\ pc = "idle" /\ ~dropped
  /\ ~who.rest /\ \A n \in who.counts : n < Size
  =>
    \A p \in CachedLow .. CachedHigh - 1 : mem[p - base] = p + 1

(* The window holds what the client takes it to hold, in front of Current  *)
(* and behind it.                                                          *)
WindowIsTrue == UnreadIsNext /\ CachedIsTrue

(* The callback is never asked to fill more than the block has room for.   *)
FillsInside == ~wild

(* No call of the callback takes bytes behind Limit from the source, for   *)
(* a client that keeps no rest in the window when it calls Flush.  Flush   *)
(* asks for FLimit - Position bytes (Tiny.Cache.Buffers.pas:972) and does  *)
(* not count the rest, which was fetched already: other clients get bytes  *)
(* behind their limit, and nothing is said of them here.                   *)
LimitKept ==
  [][~who.rest /\ limit # NoLimit => fetched' <= Most(fetched, limit)]_vars

(* Every call returns: OverflowRead and OverflowSkip end their loops.      *)
CallsReturn == (pc \notin {"created", "idle"}) ~> (pc = "idle")

(* The reader implements the abstract stream.                              *)
Stream == INSTANCE ReadStream WITH
  received  <- got,
  bound     <- IF eof \/ dropped THEN NoLimit ELSE limit,
  Unlimited <- NoLimit,
  status    <- IF dropped THEN "broken" ELSE IF eof THEN "ended" ELSE "open"

ImplementsStream == Stream!Spec
=============================================================================

------------------------- MODULE CachedWriterProofs -------------------------
(***************************************************************************)
(* TCachedWriter for any block size and any client of Next: the output is  *)
(* what the client wrote, in order, Position counts it, a destructor       *)
(* leaves nothing behind, and the pointers stay inside the block.  And for *)
(* one that goes back by DirectWrite: its patches arrive, nothing else of  *)
(* the output changes.                                                     *)
(***************************************************************************)
EXTENDS DirectWriter, TLAPS

USE SizeAssumption, ClientAssumption

-----------------------------------------------------------------------------
(* The inductive invariant.                                                *)

(* The rest of the running Write still fits into the limit.                *)
Fits == limit # NoLimit => Position + todo <= limit

(* FOverflow stands at the end of the Data area, or before it where the    *)
(* limit is; only then a full window and a reached limit are one thing.    *)
Window ==
  /\ size = Size
  /\ high <= current
  /\ current <= Size \/ current < Size + Extra
  /\ eof  => start = overflow /\ overflow <= current
  /\ ~eof => start = 0 /\ overflow <= Size
  /\ ~eof /\ overflow # Size => limit # NoLimit /\ base + overflow = limit

(* What holds of the window at each place of a call.                       *)
Place ==
  /\ pc = "created" => current = 0
  /\ pc \in {"created", "idle", "closing"} /\ ~eof => current <= overflow
  /\ pc = "flush" /\ ~eof => current <= overflow + Size
  /\ pc = "innerFlush" => ~eof /\ ~dropped /\ current = Size /\ overflow = Size /\ Fits
  /\ pc = "direct" => current = 0 /\ (~eof => Fits)

(* Where a broken-off call leaves the object.                              *)
Broken ==
  /\ dropped => pc \notin {"created", "flush", "innerFlush"}
  /\ dropped /\ ~eof => current = 0 /\ pc # "direct"
  /\ eof /\ ~dropped => current = 0 /\ pc # "direct"

(* How much went where; what the bytes are does not matter to it.          *)
Counted ==
  /\ ~dropped => base = Len(out) /\ Position = given
  /\ pc = "direct" => given = Len(out)
  /\ ClosedIsDelivered

(* Everything but the bytes.  DirectWrite keeps it, too.                   *)
Frame == Numbers /\ Window /\ Place /\ Broken /\ Counted

(* What is buffered continues what was handed over.                        *)
Data ==
  /\ OutputInOrder
  /\ ~dropped => \A i \in 0 .. current - 1 : mem[i] = base + 1 + i

IInv == Frame /\ Data
-----------------------------------------------------------------------------
(* Byte sequences.                                                         *)
LEMMA BytesType ==
  ASSUME NEW k \in Nat, NEW n \in Nat
  PROVE  Bytes(k, n) \in Seq(Nat) /\ Len(Bytes(k, n)) = n
BY DEF Bytes

-----------------------------------------------------------------------------
(* Storing the next n bytes of the client at Current.                      *)
LEMMA StoredType ==
  ASSUME Numbers, NEW n \in Nat
  PROVE  Stored(n) \in [0 .. size + Extra - 1 -> Nat]
<1>1. DOMAIN mem = 0 .. size + Extra - 1
  BY DEF Numbers
<1>2. ASSUME NEW i \in 0 .. size + Extra - 1
      PROVE  (IF i \in current .. current + n - 1
              THEN given + 1 + (i - current) ELSE mem[i]) \in Nat
  BY DEF Numbers
<1>3. QED
  BY <1>1, <1>2 DEF Stored

-----------------------------------------------------------------------------
LEMMA InitFrame == Init => Frame
<1> SUFFICES ASSUME Init PROVE Frame
  OBVIOUS
<1>1. Numbers
  BY DEF Init, Numbers
<1>2. Window /\ Place /\ Broken
  BY DEF Init, Window, Place, Broken
<1>3. Counted
  BY DEF Init, Counted, Position, ClosedIsDelivered
<1>4. QED
  BY <1>1, <1>2, <1>3 DEF Frame

LEMMA ConstructionKeeps == Frame /\ AfterConstruction => Frame'
<1> SUFFICES ASSUME Frame, AfterConstruction PROVE Frame'
  OBVIOUS
<1> USE DEF Frame, AfterConstruction, Ended, Kept, Position
<1>1. Numbers'
  <2>1. /\ UNCHANGED <<mem, size, high, current, base, todo, given, out>>
        /\ Numbers /\ Position \in Nat
    BY DEF Numbers
  <2>2. /\ start' \in Nat /\ overflow' \in Nat
        /\ limit' \in Nat \cup {NoLimit}
    <3>1. CASE Kept
      BY <2>1, <3>1 DEF Numbers
    <3>2. CASE Ended(current, Position)
      BY <2>1, <3>2 DEF Numbers
    <3>3. QED
      BY <3>1, <3>2
  <2>3. QED
    BY ONLY <2>1, <2>2 DEF Numbers
<1>2. Window'
  <2>1. CASE Kept
    BY <2>1 DEF Window
  <2>2. CASE Ended(current, Position)
    BY <2>2 DEF Numbers, Window
  <2>3. QED
    BY <2>1, <2>2
<1>3. Place'
  BY DEF Numbers, Window, Place
<1>4. Broken'
  BY DEF Numbers, Place, Broken
<1>5. Counted'
  BY DEF Counted, ClosedIsDelivered, Position
<1>6. QED
  BY <1>1, <1>2, <1>3, <1>4, <1>5

LEMMA WriteKeeps ==
  ASSUME Frame, NEW n \in Counts, Write(n)
  PROVE  Frame'
<1> USE DEF Write, Writing
<1>1. /\ n \in Nat /\ current \in Nat /\ base \in Nat
      /\ current' = current + n /\ given' = given + n /\ current + n <= Size
  BY DEF Frame, Numbers, Window
<1>2. mem' \in [0 .. size' + Extra - 1 -> Nat]
  BY <1>1, StoredType DEF Frame
<1>3. Numbers'
  BY <1>1, <1>2 DEF Frame, Numbers
<1>4. Window' /\ Place' /\ Broken'
  BY <1>1 DEF Frame, Numbers, Window, Place, Broken
<1>5. Counted'
  BY <1>1 DEF Frame, Numbers, Counted, ClosedIsDelivered, Position
<1>6. QED
  BY <1>3, <1>4, <1>5 DEF Frame
LEMMA OverflowWriteKeeps ==
  ASSUME Frame, NEW n \in Counts, OverflowWrite(n)
  PROVE  Frame'
<1> DEFINE used == IF current = 0 THEN 0 ELSE Most(Margin, 0)
<1> USE DEF OverflowWrite, Writing, Most, Margin
<1>1. /\ n \in Nat /\ current \in Nat /\ base \in Nat /\ overflow \in Nat
      /\ ~eof /\ ~dropped /\ current <= overflow /\ overflow <= Size
  BY DEF Frame, Numbers, Window, Place
<1>2. /\ used \in Nat /\ used <= n /\ current + used <= Size
      /\ current' = current + used /\ given' = given + used /\ todo' = n - used
      /\ mem' = Stored(used)
  BY <1>1
<1>3. current # 0 => current' = overflow
  BY <1>1
<1>4. current # 0 => overflow = Size
  BY <1>1 DEF Frame, Numbers, Window, WithinLimit, Position
<1> HIDE DEF used
<1>5. mem' \in [0 .. size' + Extra - 1 -> Nat]
  BY <1>2, StoredType DEF Frame
<1>6. Numbers'
  BY <1>1, <1>2, <1>5 DEF Frame, Numbers
<1>7. Window'
  BY <1>1, <1>2 DEF Frame, Numbers, Window
<1>8. Fits'
  BY <1>1, <1>2 DEF Frame, Numbers, Fits, Position, WithinLimit
<1>9. Place'
  BY <1>1, <1>2, <1>3, <1>4, <1>8 DEF Frame, Numbers, Window, Place
<1>10. Broken'
  BY <1>1 DEF Broken
<1>11. current = 0 => used = 0
  BY DEF used
<1>12. Counted'
  BY <1>1, <1>2, <1>11
     DEF Frame, Numbers, Counted, ClosedIsDelivered, Position
<1>13. QED
  BY <1>6, <1>7, <1>9, <1>10, <1>12 DEF Frame

LEMMA WriteDataKeeps ==
  ASSUME Frame, NEW w \in Widths, WriteData(w)
  PROVE  Frame'
<1> USE DEF WriteData, Writing
<1>1. /\ w \in Nat /\ current \in Nat /\ base \in Nat /\ overflow \in Nat
      /\ ~eof /\ ~dropped /\ current <= overflow /\ overflow <= Size
      /\ current' = current + w /\ given' = given + w
      /\ w <= Size /\ current + w < Size + Extra
  BY DEF Frame, Numbers, Window, Place
<1>2. mem' \in [0 .. size' + Extra - 1 -> Nat]
  BY <1>1, StoredType DEF Frame
<1>3. Numbers'
  BY <1>1, <1>2 DEF Frame, Numbers
<1>4. Window' /\ Place'
  BY <1>1 DEF Frame, Numbers, Window, Place
<1>5. Broken'
  BY <1>1 DEF Broken
<1>6. Counted'
  BY <1>1 DEF Frame, Numbers, Counted, ClosedIsDelivered, Position
<1>7. QED
  BY <1>3, <1>4, <1>5, <1>6 DEF Frame

LEMMA CallFlushKeeps == Frame /\ CallFlush => Frame'
<1> SUFFICES ASSUME Frame, CallFlush PROVE Frame'
  OBVIOUS
<1> USE DEF Frame, CallFlush, block, window, ghosts
<1>1. Numbers'
  BY DEF Numbers
<1>2. Window'
  BY DEF Window
<1>3. Place'
  BY DEF Numbers, Place
<1>4. Broken'
  BY DEF Broken
<1>5. Counted'
  BY DEF Counted, ClosedIsDelivered, Position
<1>6. QED
  BY <1>1, <1>2, <1>3, <1>4, <1>5

LEMMA DestroyKeeps == Frame /\ Destroy => Frame'
<1> SUFFICES ASSUME Frame, Destroy PROVE Frame'
  OBVIOUS
<1> USE DEF Frame, Destroy, block, window, ghosts
<1>1. Numbers'
  BY DEF Numbers
<1>2. Window'
  BY DEF Window
<1>3. Place'
  BY DEF Numbers, Place
<1>4. Broken'
  BY DEF Broken
<1>5. pc' = "closed" /\ ~dropped => Len(out) = given
  BY DEF Numbers, Broken, Counted, Position
<1>6. Counted'
  BY <1>5 DEF Counted, ClosedIsDelivered, Position
<1>7. QED
  BY <1>1, <1>2, <1>3, <1>4, <1>6

LEMMA NarrowKeeps ==
  ASSUME Frame, NEW v \in Limits, Narrow(v)
  PROVE  Frame'
<1> USE DEF Narrow, SetLimit, Least, Position, block, ghosts
<1>1. /\ v \in Nat /\ current \in Nat /\ base \in Nat /\ overflow \in Nat
      /\ overflow' = (IF overflow < v - base THEN overflow ELSE v - base)
      /\ base + current <= v
  BY DEF Frame, Numbers
<1>2. Numbers'
  BY <1>1 DEF Frame, Numbers
<1>3. Window'
  BY <1>1 DEF Frame, Numbers, Window
<1>4. Place'
  BY <1>1 DEF Frame, Numbers, Place
<1>5. Broken'
  BY DEF Frame, Broken
<1>6. Counted'
  BY DEF Frame, Counted, ClosedIsDelivered, Position
<1>7. QED
  BY <1>2, <1>3, <1>4, <1>5, <1>6 DEF Frame

LEMMA SetEOFKeeps == Frame /\ SetEOF => Frame'
<1> SUFFICES ASSUME Frame, SetEOF PROVE Frame'
  OBVIOUS
<1> USE DEF Frame, SetEOF, Ended, block, Position
<1>1. Numbers'
  BY DEF Numbers
<1>2. Window'
  BY DEF Numbers, Window
<1>3. Place'
  BY DEF Numbers, Place
<1>4. Broken'
  BY DEF Broken
<1>5. Counted'
  BY DEF Counted, ClosedIsDelivered, Position
<1>6. QED
  BY <1>1, <1>2, <1>3, <1>4, <1>5
-----------------------------------------------------------------------------
(* Where a Flush leads.                                                    *)
LEMMA Destinations ==
  /\ After["flush"] = "idle" /\ After["innerFlush"] = "direct" /\ After["closing"] = "closed"
  /\ \A p \in Flushing : Raised[p] \in {"idle", "closed"}
BY DEF After, Raised, Flushing

LEMMA FlushRaisesKeeps == Frame /\ FlushRaises => Frame'
<1> SUFFICES ASSUME Frame, FlushRaises PROVE Frame'
  OBVIOUS
<1> USE DEF Frame, FlushRaises, block, Position
<1>1. pc' \in {"idle", "closed"} /\ dropped'
  BY Destinations
<1>2. eof'
  BY DEF Kept, Ended
<1>3. Numbers'
  <2>1. CASE eof
    BY <2>1 DEF Numbers, Kept
  <2>2. CASE ~eof
    BY <2>2 DEF Numbers, Ended
  <2>3. QED
    BY <2>1, <2>2
<1>4. Window'
  <2>1. CASE eof
    BY <2>1 DEF Window, Kept
  <2>2. CASE ~eof
    BY <2>2 DEF Numbers, Window, Ended
  <2>3. QED
    BY <2>1, <2>2
<1>5. Place' /\ Broken'
  BY <1>1, <1>2 DEF Place, Broken
<1>6. Counted'
  BY <1>1 DEF Counted, ClosedIsDelivered, Position
<1>7. QED
  BY <1>3, <1>4, <1>5, <1>6

LEMMA FlushAtEOFKeeps == Frame /\ FlushAtEOF => Frame'
<1> SUFFICES ASSUME Frame, FlushAtEOF PROVE Frame'
  OBVIOUS
<1> USE DEF Frame, FlushAtEOF, block, window, ghosts
<1>1. pc' \in {"idle", "closed"}
  BY Destinations DEF Place, Flushing
<1>2. Numbers'
  BY DEF Numbers
<1>3. Window'
  BY DEF Window
<1>4. Place' /\ Broken'
  BY <1>1 DEF Place, Broken
<1>5. ~dropped => Len(out) = given
  BY DEF Numbers, Broken, Counted, Position
<1>6. Counted'
  BY <1>1, <1>5 DEF Counted, ClosedIsDelivered, Position
<1>7. QED
  BY <1>2, <1>3, <1>4, <1>6

(* A flush that goes through: what it writes, and what is left behind.     *)
LEMMA FlushFacts ==
  ASSUME Frame, MayFlush
  PROVE  LET over == Filled - FlushSize
         IN  /\ Filled = current /\ over \in Nat /\ FlushSize \in Nat
             /\ over <= Size /\ (over = 0 \/ over < Extra)
             /\ FlushSize <= Size
             /\ LastRound <=> current < Size
             /\ over > 0 => overflow = Size /\ FlushSize = Size
             /\ NewBase = base + FlushSize
             /\ pc # "flush" => over = 0
             /\ current >= Size => overflow = Size
<1> USE DEF Frame, MayFlush, Flushing, OverLimit, Position
<1>1. /\ current \in Nat /\ base \in Nat /\ overflow \in Nat /\ high \in Nat
      /\ size = Size /\ high <= current
      /\ ~eof /\ overflow <= Size
      /\ current <= Size \/ current < Size + Extra
      /\ overflow # Size => current <= overflow
  BY DEF Numbers, Window
<1>2. Filled = current
  BY <1>1 DEF Filled, Most
<1>3. FlushSize = IF current < Size THEN current ELSE Size
  BY <1>1, <1>2 DEF FlushSize, Least
<1>4. current <= overflow + Size /\ (pc # "flush" => current <= overflow)
  BY <1>1 DEF Place
<1>5. NewBase = IF current > overflow THEN base + overflow ELSE base + current
  BY <1>1 DEF NewBase, Most
<1>6. QED
  BY <1>1, <1>2, <1>3, <1>4, <1>5 DEF LastRound
LEMMA Joined ==
  ASSUME NEW a \in Seq(Nat), NEW b \in Seq(Nat)
  PROVE  a \o b \in Seq(Nat) /\ Len(a \o b) = Len(a) + Len(b)
OBVIOUS

(* What the callback receives, by either way, is added to the output.      *)
LEMMA ChunkGrows ==
  ASSUME Numbers, NEW n \in Nat, n <= size + Extra
  PROVE  out \o Chunk(n) \in Seq(Nat) /\ Len(out \o Chunk(n)) = Len(out) + n
<1>1. \A i \in 1 .. n : mem[i - 1] \in Nat
  BY DEF Numbers
<1>2. Chunk(n) \in Seq(Nat) /\ Len(Chunk(n)) = n
  BY <1>1 DEF Chunk
<1>3. QED
  BY <1>2, Joined DEF Numbers

LEMMA PagesGrow ==
  ASSUME Numbers, NEW n \in Nat
  PROVE  out \o Bytes(given, n) \in Seq(Nat) /\ Len(out \o Bytes(given, n)) = Len(out) + n
<1>1. Bytes(given, n) \in Seq(Nat) /\ Len(Bytes(given, n)) = n
  BY BytesType DEF Numbers
<1>2. QED
  BY <1>1, Joined DEF Numbers

LEMMA FlushKeeps == Frame /\ Flush => Frame'
<1> SUFFICES ASSUME Frame, Flush PROVE Frame'
  OBVIOUS
<1> DEFINE over == Filled - FlushSize
<1>1. PICK cancel \in Cancels :
        /\ out' = out \o Chunk(FlushSize)
        /\ mem' = Moved(over)
        /\ current' = over /\ high' = over
        /\ base' = NewBase
        /\ IF LastRound \/ cancel
           THEN Ended(over, NewBase + over)
           ELSE overflow' = NextOverflow(over) /\ UNCHANGED <<start, limit, eof>>
        /\ dropped' = (dropped \/ cancel)
  BY DEF Flush
<1>2. /\ MayFlush /\ pc' = After[pc]
      /\ size' = size /\ todo' = todo /\ given' = given
  BY DEF Flush
<1>3. /\ Filled = current /\ over \in Nat /\ FlushSize \in Nat
      /\ over <= Size /\ (over = 0 \/ over < Extra) /\ FlushSize <= Size
      /\ LastRound <=> current < Size
      /\ over > 0 => overflow = Size /\ FlushSize = Size
      /\ NewBase = base + FlushSize
      /\ pc # "flush" => over = 0
      /\ current >= Size => overflow = Size
      /\ over = current - FlushSize
  BY <1>2, FlushFacts
<1>4. /\ current \in Nat /\ base \in Nat /\ overflow \in Nat /\ todo \in Nat
      /\ given \in Nat /\ limit \in Nat \cup {NoLimit} /\ out \in Seq(Nat) /\ Len(out) \in Nat
      /\ size = Size /\ ~eof /\ start = 0 /\ overflow <= Size
      /\ limit # NoLimit => base + current <= limit
      /\ pc \in Flushing
  BY <1>2 DEF Frame, Numbers, Window, MayFlush, OverLimit, Position
<1> HIDE DEF over
<1>5. /\ dropped' => dropped \/ cancel
      /\ ~dropped' => ~dropped /\ ~cancel
  BY <1>1
<1>6. dropped => current = 0
  BY <1>4 DEF Frame, Broken
<1>7. out' \in Seq(Nat) /\ Len(out') = Len(out) + FlushSize
  BY <1>1, <1>3, <1>4, ChunkGrows DEF Frame
<1>8. mem' \in [0 .. size' + Extra - 1 -> Nat]
  <2>1. DOMAIN mem = 0 .. Size + Extra - 1 /\ mem \in [0 .. Size + Extra - 1 -> Nat]
    BY <1>4 DEF Frame, Numbers
  <2>2. ASSUME NEW i \in 0 .. Size + Extra - 1
        PROVE  (IF i < over THEN mem[overflow + i] ELSE mem[i]) \in Nat
    BY <1>3, <2>1
  <2>3. QED
    BY <1>1, <1>2, <1>4, <2>1, <2>2 DEF Moved
<1>9. Counted'
  <2> ~dropped => base = Len(out) /\ base + current = given
    BY DEF Frame, Counted, Position
  <2>1. ~dropped' => base' = Len(out') /\ Position' = given'
    BY <1>1, <1>2, <1>3, <1>4, <1>5, <1>7 DEF Position
  <2>2. pc' = "direct" => given' = Len(out')
    <3>1. SUFFICES ASSUME pc' = "direct" PROVE given' = Len(out')
      OBVIOUS
    <3>2. pc = "innerFlush"
      BY <1>2, <1>4, <3>1, Destinations DEF Flushing
    <3>3. ~dropped /\ current = Size
      BY <3>2 DEF Frame, Place
    <3>4. QED
      BY <1>2, <1>3, <1>4, <1>7, <3>2, <3>3
  <2>3. pc' = "closed" => over = 0
    BY <1>2, <1>3, <1>4, Destinations DEF Flushing
  <2>4. pc' = "closed" /\ ~dropped' => Len(out') = given'
    BY <1>1, <1>3, <1>4, <1>7, <2>1, <2>3 DEF Position
  <2>5. QED
    BY <1>1, <1>7, <2>1, <2>2, <2>4 DEF Counted, ClosedIsDelivered
<1>10. /\ pc' \in {"idle", "direct", "closed"}
       /\ pc' = "idle" => pc = "flush"
       /\ pc' = "direct" => pc = "innerFlush"
  BY <1>2, <1>4, Destinations DEF Flushing
<1>11. CASE LastRound \/ cancel
  <2>1. eof' /\ start' = over /\ overflow' = over /\ limit' = NewBase + over
    BY <1>1, <1>11 DEF Ended
  <2>2. Numbers'
    BY <1>1, <1>2, <1>3, <1>4, <1>7, <1>8, <2>1 DEF Numbers
  <2>3. Window'
    BY <1>1, <1>2, <1>3, <1>4, <2>1 DEF Window
  <2>4. Place'
    BY <1>1, <1>2, <1>3, <1>10, <2>1 DEF Place
  <2>5. ~dropped' => current' = 0 /\ pc' # "direct"
    <3>1. SUFFICES ASSUME ~dropped' PROVE over = 0 /\ pc # "innerFlush"
      BY <1>1, <1>10
    <3>2. current < Size
      BY <1>3, <1>5, <1>11, <3>1
    <3>3. QED
      BY <1>3, <1>4, <3>2 DEF Frame, Place
  <2>6. Broken'
    BY <1>10, <2>1, <2>5 DEF Broken
  <2>7. QED
    BY <1>9, <2>2, <2>3, <2>4, <2>6 DEF Frame
<1>12. CASE ~(LastRound \/ cancel)
  <2>1. overflow' = NextOverflow(over) /\ start' = start /\ limit' = limit /\ eof' = eof
    BY <1>1, <1>12
  <2>2. current >= Size /\ overflow = Size /\ FlushSize = Size /\ current = Size + over
    BY <1>3, <1>4, <1>12 DEF FlushSize, Least
  <2>3. overflow' = IF limit = NoLimit THEN Size
                    ELSE IF Size < over + (limit - (base + current)) THEN Size
                    ELSE over + (limit - (base + current))
    BY <1>3, <2>1, <2>2 DEF NextOverflow, Least
  <2>4. overflow' \in Nat /\ over <= overflow' /\ overflow' <= Size
    BY <1>3, <1>4, <2>2, <2>3
  <2>5. Numbers'
    BY <1>1, <1>2, <1>3, <1>4, <1>7, <1>8, <2>1, <2>4 DEF Numbers
  <2>6. Window'
    BY <1>1, <1>2, <1>3, <1>4, <2>1, <2>2, <2>3, <2>4 DEF Window
  <2>7. pc' = "direct" => over = 0 /\ Fits'
    BY <1>1, <1>2, <1>3, <1>4, <1>10, <2>1, <2>2 DEF Frame, Place, Fits, Position
  <2>8. Place'
    BY <1>1, <1>10, <2>4, <2>7 DEF Place
  <2>9. ~dropped' /\ ~eof'
    BY <1>4, <1>5, <1>6, <1>12, <2>1, <2>2
  <2>10. Broken'
    BY <2>9 DEF Broken
  <2>11. QED
    BY <1>9, <2>5, <2>6, <2>8, <2>10 DEF Frame
<1>13. QED
  BY <1>11, <1>12
LEMMA FlushFailsKeeps == Frame /\ FlushFails => Frame'
<1> SUFFICES ASSUME Frame, FlushFails PROVE Frame'
  OBVIOUS
<1>1. PICK r \in 0 .. FlushSize - 1 : out' = out \o Chunk(r)
  BY DEF FlushFails
<1>2. /\ MayFlush /\ Filled = current /\ FlushSize \in Nat /\ current \in Nat /\ base \in Nat
      /\ out \in Seq(Nat) /\ Len(out) \in Nat
  BY FlushFacts DEF FlushFails, Frame, Numbers
<1>3. out' \in Seq(Nat)
  <2>1. r \in Nat /\ r <= size + Extra
    BY <1>2 DEF Frame, Numbers, FlushSize, Least
  <2>2. QED
    BY <1>1, <2>1, ChunkGrows DEF Frame
<1>4. /\ eof' /\ start' = current /\ overflow' = current /\ limit' = base + current
      /\ current' = current /\ dropped' /\ todo' = 0
      /\ UNCHANGED <<mem, size, high, base, given>>
  BY <1>2 DEF FlushFails, Ended, block
<1>5. pc' \in {"idle", "closed"}
  BY Destinations DEF FlushFails, MayFlush
<1>6. Numbers'
  BY <1>2, <1>3, <1>4 DEF Frame, Numbers
<1>7. Window'
  BY <1>2, <1>4 DEF Frame, Window
<1>8. Place' /\ Broken'
  BY <1>4, <1>5 DEF Place, Broken
<1>9. Counted'
  BY <1>3, <1>4, <1>5 DEF Counted, ClosedIsDelivered
<1>10. QED
  BY <1>6, <1>7, <1>8, <1>9 DEF Frame

-----------------------------------------------------------------------------
(* The rest of OverflowWrite.                                              *)
LEMMA PageFits ==
  ASSUME Numbers, size = Size, todo >= size
  PROVE  Page \in Nat /\ Page <= todo
<1>1. todo % size \in 0 .. size - 1
  BY DEF Numbers
<1>2. QED
  BY <1>1 DEF Page, Numbers

LEMMA DirectFacts ==
  ASSUME Frame, pc = "direct"
  PROVE  /\ size = Size /\ current = 0 /\ base \in Nat /\ given \in Nat /\ todo \in Nat
         /\ out \in Seq(Nat) /\ Len(out) \in Nat /\ given = Len(out)
         /\ ~dropped => base = Len(out)
         /\ limit \in Nat \cup {NoLimit}
         /\ ~eof /\ limit # NoLimit => base + todo <= limit
BY DEF Frame, Numbers, Window, Place, Counted, Fits, Position

LEMMA DirectKeeps == Frame /\ Direct => Frame'
<1> SUFFICES ASSUME Frame, Direct PROVE Frame'
  OBVIOUS
<1>1. PICK cancel \in Cancels :
        /\ IF cancel /\ ~eof THEN Ended(current, base + Page + current) ELSE Kept
        /\ dropped' = (dropped \/ cancel)
  BY DEF Direct
<1>2. /\ pc = "direct" /\ todo >= size /\ Page \in Nat /\ Page <= todo
      /\ out' = out \o Bytes(given, Page)
      /\ given' = given + Page /\ base' = base + Page
      /\ UNCHANGED <<mem, size, high, current>>
  BY PageFits DEF Direct, block, Frame, Window
<1>3. /\ pc' \in {"idle", "direct"}
      /\ pc' = "idle" => eof' /\ todo' = 0
      /\ pc' = "direct" => todo' = todo - Page
  BY DEF Direct
<1>4. out' \in Seq(Nat) /\ Len(out') = Len(out) + Page
  BY <1>2, PagesGrow DEF Frame
<1>5. ~dropped' => ~dropped
  BY <1>1
<1>6. Counted'
  <2>1. /\ base \in Nat /\ given \in Nat /\ Len(out) \in Nat /\ given = Len(out)
        /\ current' = 0 /\ (~dropped => base = Len(out))
    BY <1>2, DirectFacts
  <2>2. pc' # "closed"
    BY <1>3
  <2>3. given' = given + Page /\ base' = base + Page /\ Page \in Nat
    BY <1>2
  <2>4. Len(out') = Len(out) + Page
    BY <1>4
  <2>5. given' = Len(out') /\ (~dropped' => base' = Len(out') /\ base' + current' = given')
    BY ONLY <1>5, <2>1, <2>3, <2>4
  <2>6. QED
    BY <2>2, <2>5 DEF Counted, ClosedIsDelivered, Position
<1>7. CASE eof'
  <2>1. start' = overflow' /\ overflow' \in Nat /\ overflow' <= 0 /\ limit' \in Nat \cup {NoLimit}
    <3>1. CASE cancel /\ ~eof
      BY <1>1, <1>2, <3>1, DirectFacts DEF Ended
    <3>2. CASE ~(cancel /\ ~eof)
      BY <1>1, <1>2, <1>7, <3>2, DirectFacts DEF Kept, Frame, Numbers, Window
    <3>3. QED
      BY <3>1, <3>2
  <2>2. Numbers'
    BY <1>2, <1>3, <1>4, <2>1, DirectFacts DEF Frame, Numbers
  <2>3. Window'
    BY <1>2, <1>7, <2>1, DirectFacts DEF Frame, Window
  <2>4. Place'
    BY <1>2, <1>3, <1>7, DirectFacts DEF Place
  <2>5. dropped'
    <3>1. CASE cancel
      BY <1>1, <3>1
    <3>2. CASE ~cancel
      BY <1>1, <1>2, <1>7, <3>2 DEF Kept, Frame, Broken
    <3>3. QED
      BY <3>1, <3>2
  <2>6. Broken'
    BY <1>3, <1>7, <2>5 DEF Broken
  <2>7. QED
    BY <1>6, <2>2, <2>3, <2>4, <2>6 DEF Frame
<1>8. CASE ~eof'
  <2>1. ~cancel /\ ~eof /\ Kept
    BY <1>1, <1>8 DEF Ended, Kept
  <2>2. ~dropped'
    BY <1>1, <1>2, <2>1 DEF Frame, Broken
  <2>3. overflow = Size /\ start = 0
    BY <1>2, <2>1, DirectFacts DEF Frame, Numbers, Window
  <2>4. pc' = "direct" /\ todo' = todo - Page
    BY <1>3, <1>8
  <2>5. Numbers'
    BY <1>2, <1>4, <2>1, <2>4, DirectFacts DEF Frame, Numbers, Kept
  <2>6. Window'
    BY <1>2, <2>1, <2>3, <1>8 DEF Frame, Window, Kept
  <2>7. Place'
    BY <1>2, <2>1, <2>4, DirectFacts DEF Place, Fits, Position, Kept
  <2>8. Broken'
    BY <1>8, <2>2 DEF Broken
  <2>9. QED
    BY <1>6, <2>5, <2>6, <2>7, <2>8 DEF Frame
<1>9. QED
  BY <1>7, <1>8

LEMMA DirectFailsKeeps == Frame /\ DirectFails => Frame'
<1> SUFFICES ASSUME Frame, DirectFails PROVE Frame'
  OBVIOUS
<1>1. PICK r \in 0 .. Page - 1 : out' = out \o Bytes(given, r)
  BY DEF DirectFails
<1>2. /\ pc = "direct" /\ Page \in Nat
      /\ pc' = "idle" /\ dropped' /\ todo' = 0
      /\ UNCHANGED <<mem, size, high, start, current, overflow, base, limit, eof, given>>
  BY PageFits DEF DirectFails, block, window, Frame, Window
<1>3. out' \in Seq(Nat)
  <2>1. r \in Nat
    BY <1>2
  <2>2. QED
    BY <1>1, <2>1, PagesGrow DEF Frame
<1>4. Numbers'
  BY <1>2, <1>3 DEF Frame, Numbers
<1>5. Window'
  BY <1>2 DEF Frame, Window
<1>6. Place' /\ Broken'
  BY <1>2, DirectFacts DEF Frame, Numbers, Place, Broken
<1>7. Counted'
  BY <1>2, <1>3 DEF Counted, ClosedIsDelivered
<1>8. QED
  BY <1>4, <1>5, <1>6, <1>7 DEF Frame

LEMMA RemainderKeeps == Frame /\ Remainder => Frame'
<1> SUFFICES ASSUME Frame, Remainder PROVE Frame'
  OBVIOUS
<1>1. /\ pc = "direct" /\ todo < Size /\ mem' = Stored(todo)
      /\ current' = todo /\ given' = given + todo
      /\ pc' = "idle" /\ todo' = 0
      /\ UNCHANGED <<size, high, start, overflow, base, limit, eof, out, dropped>>
  BY DirectFacts DEF Remainder
<1>2. mem' \in [0 .. size' + Extra - 1 -> Nat]
  BY <1>1, DirectFacts, StoredType DEF Frame
<1>3. Numbers'
  BY <1>1, <1>2, DirectFacts DEF Frame, Numbers
<1>4. Window'
  BY <1>1, DirectFacts DEF Frame, Numbers, Window
<1>5. Place'
  BY <1>1, DirectFacts DEF Frame, Numbers, Window, Place
<1>6. dropped <=> eof
  BY <1>1 DEF Frame, Broken
<1>7. Broken'
  BY <1>1, <1>6 DEF Broken
<1>8. Counted'
  BY <1>1, DirectFacts DEF Counted, ClosedIsDelivered, Position
<1>9. QED
  BY <1>3, <1>4, <1>5, <1>7, <1>8 DEF Frame
-----------------------------------------------------------------------------
LEMMA FrameKeeps == Frame /\ [Next]_vars => Frame'
<1> SUFFICES ASSUME Frame, [Next]_vars PROVE Frame'
  OBVIOUS
<1>1. CASE AfterConstruction
  BY <1>1, ConstructionKeeps
<1>2. CASE CallFlush \/ Destroy \/ SetEOF
  BY <1>2, CallFlushKeeps, DestroyKeeps, SetEOFKeeps
<1>3. ASSUME NEW n \in Counts, Write(n) \/ OverflowWrite(n)
      PROVE  Frame'
  BY <1>3, WriteKeeps, OverflowWriteKeeps
<1>4. ASSUME NEW w \in Widths, WriteData(w)
      PROVE  Frame'
  BY <1>4, WriteDataKeeps
<1>5. ASSUME NEW v \in Limits, Narrow(v)
      PROVE  Frame'
  BY <1>5, NarrowKeeps
<1>6. CASE FlushRaises \/ FlushAtEOF \/ Flush \/ FlushFails
  BY <1>6, FlushRaisesKeeps, FlushAtEOFKeeps, FlushKeeps, FlushFailsKeeps
<1>7. CASE Direct \/ DirectFails \/ Remainder
  BY <1>7, DirectKeeps, DirectFailsKeeps, RemainderKeeps
<1>8. CASE UNCHANGED vars
  <2> USE <1>8 DEF vars
  <2>1. Numbers'
    BY DEF Frame, Numbers
  <2>2. Window' /\ Place' /\ Broken'
    BY DEF Frame, Window, Place, Broken, Fits, Position
  <2>3. Counted'
    BY DEF Frame, Counted, ClosedIsDelivered, Position
  <2>4. QED
    BY <2>1, <2>2, <2>3 DEF Frame
<1>9. QED
  BY <1>1, <1>2, <1>3, <1>4, <1>5, <1>6, <1>7, <1>8 DEF Next, Calls, Steps
-----------------------------------------------------------------------------
(* The bytes, where the positions in P were patched by DirectWrite.  For a *)
(* client that does not use it P is empty, so that the steps of Next are   *)
(* looked at once for both.                                                *)
Expected(P, p) == IF p \in P THEN Mark(p) ELSE p + 1

Order(P) ==
  /\ \A i \in 1 .. Len(out) : i - 1 \notin P => out[i] = i
  /\ ~dropped =>
       /\ \A i \in 1 .. Len(out) : i - 1 \in P => out[i] = Mark(i - 1)
       /\ \A i \in 0 .. current - 1 : mem[i] = Expected(P, base + i)
       /\ \A p \in P : p \in Nat /\ p < given

(* The positions a step of Write gives new bytes to.                       *)
Overwritten == Len(out) + current .. Len(out) + current + given' - given - 1

LEMMA NothingOverwritten ==
  ASSUME Frame, given' = given
  PROVE  Overwritten = {}
BY DEF Frame, Numbers, Overwritten

(* A step that touches no byte.                                            *)
LEMMA BytesStay ==
  ASSUME NEW P, Order(P), UNCHANGED <<mem, out, current, base, given>>, dropped => dropped'
  PROVE  Order(P)'
BY DEF Order

(* Bytes stored at Current take the place of patches.                      *)
LEMMA StoredOrder ==
  ASSUME Frame, NEW P, Order(P), NEW n \in Nat,
         n = 0 \/ current + n <= Size \/ current + n < Size + Extra,
         mem' = Stored(n), current' = current + n, given' = given + n,
         base' = base, out' = out, dropped' = dropped,
         NEW Q, Q = P \ Overwritten
  PROVE  Order(Q)'
<1>1. /\ current \in Nat /\ base \in Nat /\ given \in Nat /\ Len(out) \in Nat /\ size = Size
      /\ ~dropped => base = Len(out) /\ given = base + current
  BY DEF Frame, Numbers, Window, Counted, Position
<1>2. \A p \in Int : p \in Q <=> p \in P /\ p \notin Len(out) + current .. Len(out) + current + n - 1
  BY <1>1 DEF Overwritten
<1>3. \A i \in 1 .. Len(out) : i - 1 \in Q <=> i - 1 \in P
  BY <1>1, <1>2
<1>4. ASSUME ~dropped, NEW i \in 0 .. current + n - 1
      PROVE  mem'[i] = Expected(Q, base + i)
  <2>1. DOMAIN mem = 0 .. Size + Extra - 1 /\ i \in DOMAIN mem
    BY <1>1 DEF Frame, Numbers, Window
  <2>2. mem'[i] = IF i \in current .. current + n - 1
                  THEN given + 1 + (i - current) ELSE mem[i]
    BY <2>1 DEF Stored
  <2>3. CASE i \in current .. current + n - 1
    <3>1. base + i \notin Q
      BY <1>1, <1>2, <1>4, <2>3
    <3>2. given + 1 + (i - current) = base + i + 1
      BY <1>1, <1>4, <2>3
    <3>3. QED
      BY <2>2, <2>3, <3>1, <3>2 DEF Expected
  <2>4. CASE i \notin current .. current + n - 1
    <3>1. i \in 0 .. current - 1
      BY <1>1, <2>4
    <3>2. base + i \in Q <=> base + i \in P
      BY <1>1, <1>2, <1>4, <3>1
    <3>3. mem[i] = Expected(P, base + i)
      BY <1>4, <3>1 DEF Order
    <3>4. QED
      BY <2>2, <2>4, <3>2, <3>3 DEF Expected
  <2>5. QED
    BY <2>3, <2>4
<1>5. ~dropped => \A p \in Q : p \in Nat /\ p < given + n
  BY <1>1 DEF Order
<1>6. \A i \in 1 .. Len(out) : i - 1 \notin Q => out[i] = i
  BY <1>3 DEF Order
<1>7. ~dropped => \A i \in 1 .. Len(out) : i - 1 \in Q => out[i] = Mark(i - 1)
  BY <1>3 DEF Order
<1>8. ~dropped' => \A i \in 0 .. current' - 1 : mem'[i] = Expected(Q, base' + i)
  <2>1. ~dropped => \A i \in 0 .. current + n - 1 : mem'[i] = Expected(Q, base + i)
    BY <1>4
  <2> HIDE DEF Expected
  <2>2. current' = current + n /\ base' = base
    OBVIOUS
  <2>3. dropped <=> dropped'
    OBVIOUS
  <2>4. \A i \in 0 .. current' - 1 : i \in 0 .. current + n - 1
    BY ONLY <1>1, <2>2, n \in Nat
  <2>5. QED
    BY ONLY <2>1, <2>2, <2>3, <2>4
<1>9. QED
  BY <1>5, <1>6, <1>7, <1>8 DEF Order

(* The buffer handed to the callback continues the output.                 *)
LEMMA ChunkContinues ==
  ASSUME Frame, NEW P, Order(P), MayFlush, NEW r \in 0 .. FlushSize, out' = out \o Chunk(r)
  PROVE  /\ \A i \in 1 .. Len(out') : i - 1 \notin P => out'[i] = i
         /\ ~dropped => \A i \in 1 .. Len(out') : i - 1 \in P => out'[i] = Mark(i - 1)
<1>1. /\ FlushSize \in Nat /\ FlushSize <= current /\ base \in Nat /\ current \in Nat
      /\ out \in Seq(Nat) /\ Len(out) \in Nat /\ ~eof /\ size = Size /\ FlushSize <= Size
  BY FlushFacts DEF Frame, Numbers, Window, MayFlush, FlushSize, Least
<1>2. r \in Nat /\ r <= size + Extra
  BY <1>1
<1>3. Len(out') = Len(out) + r
  BY <1>2, ChunkGrows DEF Frame
<1>4. ASSUME NEW i \in 1 .. Len(out')
      PROVE  /\ i - 1 \notin P => out'[i] = i
             /\ ~dropped => (i - 1 \in P => out'[i] = Mark(i - 1))
  <2>1. CASE i <= Len(out)
    <3>1. out'[i] = out[i]
      BY <1>1, <1>2, <2>1 DEF Chunk
    <3>2. QED
      BY <1>1, <2>1, <3>1 DEF Order
  <2>2. CASE i > Len(out)
    <3>1. i - Len(out) \in 1 .. r /\ i \in Int
      BY <1>1, <1>2, <1>3, <2>2
    <3>2. ~dropped /\ base = Len(out)
      BY <1>1, <1>2, <3>1 DEF Frame, Broken, Counted
    <3>3. out'[i] = mem[i - Len(out) - 1]
      BY <1>1, <1>2, <1>3, <2>2, <3>1 DEF Chunk
    <3>4. i - Len(out) - 1 \in 0 .. current - 1 /\ base + (i - Len(out) - 1) = i - 1
      BY <1>1, <1>2, <3>1, <3>2
    <3>5. mem[i - Len(out) - 1] = Expected(P, i - 1)
      BY <3>2, <3>4 DEF Order
    <3>6. QED
      BY <3>1, <3>3, <3>5 DEF Expected
  <2>3. QED
    BY <1>1, <1>3, <2>1, <2>2
<1>5. QED
  BY <1>4

(* And so does what goes around it.                                        *)
LEMMA PagesContinue ==
  ASSUME Frame, NEW P, Order(P), pc = "direct", NEW n \in Nat, out' = out \o Bytes(given, n)
  PROVE  /\ \A i \in 1 .. Len(out) : out'[i] = out[i]
         /\ \A i \in Len(out) + 1 .. Len(out') : out'[i] = i
         /\ Len(out') = Len(out) + n
<1>1. out \in Seq(Nat) /\ Len(out) \in Nat /\ given = Len(out)
  BY DirectFacts
<1>2. Len(out') = Len(out) + n
  BY PagesGrow DEF Frame
<1>3. Bytes(given, n) \in Seq(Nat) /\ Len(Bytes(given, n)) = n
  BY <1>1, BytesType
<1>4. ASSUME NEW i \in Len(out) + 1 .. Len(out')
      PROVE  out'[i] = i
  <2>1. i - Len(out) \in 1 .. n /\ i \in Int
    BY <1>1, <1>2
  <2>2. out'[i] = Bytes(given, n)[i - Len(out)]
    BY <1>1, <1>2, <1>3, <2>1
  <2>3. Bytes(given, n)[i - Len(out)] = given + (i - Len(out))
    BY <2>1 DEF Bytes
  <2>4. QED
    BY <1>1, <2>1, <2>2, <2>3
<1>5. \A i \in 1 .. Len(out) : out'[i] = out[i]
  BY <1>1, <1>3
<1>6. QED
  BY <1>2, <1>4, <1>5

LEMMA FlushOrder ==
  ASSUME Frame, NEW P, Order(P), Flush
  PROVE  Order(P)'
<1> DEFINE over == Filled - FlushSize
<1>1. /\ MayFlush /\ out' = out \o Chunk(FlushSize) /\ mem' = Moved(over)
      /\ current' = over /\ base' = NewBase /\ given' = given
      /\ dropped => dropped'
  BY DEF Flush
<1>2. /\ over \in Nat /\ FlushSize \in Nat /\ (over = 0 \/ over < Extra)
      /\ over > 0 => overflow = Size /\ FlushSize = Size
      /\ NewBase = base + FlushSize
      /\ over = current - FlushSize
  BY <1>1, FlushFacts
<1>3. current \in Nat /\ base \in Nat /\ size = Size
  BY DEF Frame, Numbers, Window
<1> HIDE DEF over
<1>4. FlushSize \in 0 .. FlushSize
  BY <1>2
<1>5. /\ \A i \in 1 .. Len(out') : i - 1 \notin P => out'[i] = i
      /\ ~dropped => \A i \in 1 .. Len(out') : i - 1 \in P => out'[i] = Mark(i - 1)
  BY <1>1, <1>4, ChunkContinues
<1>6. ASSUME ~dropped, NEW i \in 0 .. over - 1
      PROVE  mem'[i] = Expected(P, base' + i)
  <2>1. /\ overflow = Size /\ FlushSize = Size /\ current = Size + over
        /\ i \in Nat /\ i < over /\ over < Extra
    BY <1>2, <1>3
  <2>2. mem'[i] = mem[Size + i]
    <3>1. i \in DOMAIN mem
      BY <1>2, <1>3, <2>1 DEF Frame, Numbers
    <3>2. QED
      BY <1>1, <2>1, <3>1 DEF Moved
  <2>3. Size + i \in 0 .. current - 1
    BY <1>2, <2>1
  <2>4. mem[Size + i] = Expected(P, base + (Size + i))
    BY <1>6, <2>3 DEF Order
  <2>5. base + (Size + i) = base' + i
    BY <1>1, <1>2, <1>3, <2>1
  <2>6. QED
    BY <2>2, <2>4, <2>5
<1>7. QED
  BY <1>1, <1>5, <1>6 DEF Order

LEMMA DirectOrder ==
  ASSUME Frame, NEW P, Order(P), Direct, NEW Q, Q = P \ Overwritten
  PROVE  Order(Q)'
<1>1. /\ pc = "direct" /\ out' = out \o Bytes(given, Page) /\ given' = given + Page
      /\ current' = current /\ mem' = mem /\ (dropped => dropped')
  BY DEF Direct, block
<1>2. /\ Page \in Nat /\ current = 0 /\ given \in Nat /\ Len(out) \in Nat
      /\ given = Len(out)
  BY <1>1, DirectFacts, PageFits DEF Frame, Direct
<1>3. /\ \A i \in 1 .. Len(out) : out'[i] = out[i]
      /\ \A i \in Len(out) + 1 .. Len(out') : out'[i] = i
      /\ Len(out') = Len(out) + Page
  BY <1>1, <1>2, PagesContinue
<1>4. Overwritten = Len(out) .. Len(out) + Page - 1
  BY <1>1, <1>2 DEF Overwritten
<1>5. /\ \A i \in 1 .. Len(out) : i - 1 \in Q <=> i - 1 \in P
      /\ \A i \in Len(out) + 1 .. Len(out) + Page : i - 1 \notin Q
  BY <1>2, <1>4
<1>6. ASSUME NEW i \in 1 .. Len(out')
      PROVE  /\ i - 1 \notin Q => out'[i] = i
             /\ ~dropped => (i - 1 \in Q => out'[i] = Mark(i - 1))
  <2>1. CASE i <= Len(out)
    BY <1>2, <1>3, <1>5, <2>1 DEF Order
  <2>2. CASE i > Len(out)
    BY <1>2, <1>3, <1>5, <2>2
  <2>3. QED
    BY <1>2, <1>3, <2>1, <2>2
<1>7. ~dropped => \A p \in Q : p \in Nat /\ p < given'
  BY <1>1, <1>2 DEF Order
<1>8. \A i \in 0 .. current' - 1 : FALSE
  BY <1>1, <1>2
<1>9. QED
  BY <1>1, <1>6, <1>7, <1>8 DEF Order

(* A broken-off call delivered a part of its bytes.                        *)
LEMMA FailsOrder ==
  ASSUME Frame, NEW P, Order(P), FlushFails \/ DirectFails
  PROVE  Order(P)'
<1>1. CASE FlushFails
  <2>1. PICK r \in 0 .. FlushSize - 1 : out' = out \o Chunk(r)
    BY <1>1 DEF FlushFails
  <2>2. MayFlush /\ dropped' /\ FlushSize \in Nat
    BY <1>1, FlushFacts DEF FlushFails
  <2>3. r \in 0 .. FlushSize
    BY <2>2
  <2>4. QED
    BY <2>1, <2>2, <2>3, ChunkContinues DEF Order
<1>2. CASE DirectFails
  <2>1. PICK r \in 0 .. Page - 1 : out' = out \o Bytes(given, r)
    BY <1>2 DEF DirectFails
  <2>2. pc = "direct" /\ dropped' /\ Page \in Nat /\ Len(out) \in Nat
    BY <1>2, DirectFacts, PageFits DEF DirectFails, Frame
  <2>3. r \in Nat
    BY <2>2
  <2>4. /\ \A i \in 1 .. Len(out) : out'[i] = out[i]
        /\ \A i \in Len(out) + 1 .. Len(out') : out'[i] = i
        /\ Len(out') = Len(out) + r
    BY <2>1, <2>2, <2>3, PagesContinue
  <2>5. \A i \in 1 .. Len(out') : i - 1 \notin P => out'[i] = i
    BY <2>2, <2>3, <2>4 DEF Order
  <2>6. QED
    BY <2>2, <2>5 DEF Order
<1>3. QED
  BY <1>1, <1>2

LEMMA OrderKeeps ==
  ASSUME Frame, [Next]_vars, NEW P, Order(P), NEW Q, Q = P \ Overwritten
  PROVE  Order(Q)'
<1>1. /\ current \in Nat /\ overflow \in Nat /\ size = Size /\ todo \in Nat
      /\ overflow <= Size \/ eof
  BY DEF Frame, Numbers, Window
<1>2. ASSUME UNCHANGED <<mem, out, current, base, given>>, dropped => dropped'
      PROVE  Order(Q)'
  BY <1>2, NothingOverwritten, BytesStay
<1>3. CASE AfterConstruction \/ SetEOF
  BY <1>2, <1>3 DEF AfterConstruction, SetEOF, block
<1>4. CASE CallFlush \/ Destroy \/ FlushRaises \/ FlushAtEOF
  BY <1>2, <1>4 DEF CallFlush, Destroy, FlushRaises, FlushAtEOF, block, window, ghosts
<1>5. ASSUME NEW v \in Limits, Narrow(v)
       PROVE  Order(Q)'
  BY <1>2, <1>5 DEF Narrow, SetLimit, block, ghosts
<1>6. CASE UNCHANGED vars
  BY <1>2, <1>6 DEF vars
<1>7. ASSUME NEW n \in Counts, Write(n)
      PROVE  Order(Q)'
  BY <1>1, <1>7, StoredOrder DEF Write, Writing
<1>8. ASSUME NEW n \in Counts, OverflowWrite(n)
      PROVE  Order(Q)'
  <2> DEFINE used == IF current = 0 THEN 0 ELSE Most(Margin, 0)
  <2>1. /\ mem' = Stored(used) /\ current' = current + used /\ given' = given + used
        /\ base' = base /\ out' = out /\ dropped' = dropped
    BY <1>8 DEF OverflowWrite
  <2>2. /\ used \in Nat /\ (used = 0 \/ current + used <= Size)
    BY <1>1, <1>8 DEF OverflowWrite, Writing, Most, Margin
  <2> HIDE DEF used
  <2>3. QED
    BY <2>1, <2>2, StoredOrder
<1>9. ASSUME NEW w \in Widths, WriteData(w)
      PROVE  Order(Q)'
  <2>1. current <= overflow /\ overflow <= Size /\ w \in Nat /\ w < Extra
    BY <1>1, <1>9 DEF WriteData, Writing, Frame, Place
  <2>2. current + w < Size + Extra
    BY <1>1, <2>1
  <2>3. /\ mem' = Stored(w) /\ current' = current + w /\ given' = given + w
        /\ base' = base /\ out' = out /\ dropped' = dropped
    BY <1>9 DEF WriteData
  <2>4. QED
    BY <2>1, <2>2, <2>3, StoredOrder
<1>10. CASE Remainder
  <2>1. /\ mem' = Stored(todo) /\ current' = current + todo /\ given' = given + todo
        /\ base' = base /\ out' = out /\ dropped' = dropped
        /\ pc = "direct" /\ todo < size
    BY <1>10 DEF Remainder
  <2>2. current + todo <= Size
    BY <1>1, <2>1, DirectFacts
  <2>3. QED
    BY <1>1, <2>1, <2>2, StoredOrder
<1>11. CASE Flush
  BY <1>11, FlushOrder, NothingOverwritten DEF Flush
<1>12. CASE FlushFails \/ DirectFails
  BY <1>12, FailsOrder, NothingOverwritten DEF FlushFails, DirectFails
<1>13. CASE Direct
  BY <1>13, DirectOrder
<1>14. QED
  BY <1>7, <1>8, <1>9, <1>10, <1>11, <1>12, <1>13, <1>3, <1>4, <1>5, <1>6 DEF Next, Calls, Steps

(* Without patches that is the order of the client.                        *)
LEMMA OrderIsData ==
  ASSUME Frame
  PROVE  Data <=> Order({})
<1>1. out \in Seq(Nat) /\ Len(out) \in Nat /\ current \in Nat /\ base \in Nat
  BY DEF Frame, Numbers
<1>2. out = Bytes(0, Len(out)) <=> \A i \in 1 .. Len(out) : out[i] = i
  <2>1. out = [i \in 1 .. Len(out) |-> out[i]]
    BY <1>1
  <2>2. \A i \in 1 .. Len(out) : Bytes(0, Len(out))[i] = i
    BY <1>1 DEF Bytes
  <2>3. Bytes(0, Len(out)) = [i \in 1 .. Len(out) |-> Bytes(0, Len(out))[i]]
    BY DEF Bytes
  <2>4. QED
    BY <2>1, <2>2, <2>3
<1>3. \A i \in 0 .. current - 1 : base + 1 + i = Expected({}, base + i)
  BY <1>1 DEF Expected
<1>4. QED
  BY <1>2, <1>3 DEF Data, OutputInOrder, Order

LEMMA InitIInv == Init => IInv
<1> SUFFICES ASSUME Init PROVE IInv
  OBVIOUS
<1>1. Frame
  BY InitFrame
<1>2. Order({})
  BY DEF Init, Order
<1>3. QED
  BY <1>1, <1>2, OrderIsData DEF IInv

LEMMA NextIInv == IInv /\ [Next]_vars => IInv'
<1> SUFFICES ASSUME IInv, [Next]_vars PROVE IInv'
  OBVIOUS
<1>1. Frame /\ Frame' /\ Order({})
  BY FrameKeeps, OrderIsData DEF IInv
<1>2. {} = {} \ Overwritten
  OBVIOUS
<1>3. Order({})'
  BY <1>1, <1>2, OrderKeeps
<1>4. Data'
  <2>1. ASSUME Frame' PROVE Data' <=> Order({})'
    BY <2>1, OrderIsData, PTL
  <2>2. QED
    BY <1>1, <1>3, <2>1
<1>5. QED
  BY <1>1, <1>4 DEF IInv

(* The invariant holds in every reachable state.                           *)
LEMMA Invariant == Spec => []IInv
BY InitIInv, NextIInv, PTL DEF Spec

-----------------------------------------------------------------------------
(* The callback receives the bytes in the order of the calls, for every    *)
(* size of the block and of the values, through every path of the writer.  *)
THEOREM WriterKeepsOrder == Spec => []OutputInOrder
<1>1. IInv => OutputInOrder
  BY DEF IInv, Data
<1>2. QED
  BY <1>1, Invariant, PTL

(* Position counts what was delivered and what is buffered.                *)
THEOREM WriterCountsItsBytes == Spec => []PositionIsHonest
<1>1. IInv => PositionIsHonest
  BY DEF IInv, Frame, Counted, PositionIsHonest
<1>2. QED
  BY <1>1, Invariant, PTL

(* A closed writer has delivered everything it accepted.                   *)
THEOREM WriterDeliversOnClose == Spec => []ClosedIsDelivered
<1>1. IInv => ClosedIsDelivered
  BY DEF IInv, Frame, Counted
<1>2. QED
  BY <1>1, Invariant, PTL

(* With any Additional area at all the pointer test of DoFlush never       *)
(* raises.  Without one (a fixed memory writer) it does: see the README.   *)
THEOREM WriterPointersStayInside ==
  ASSUME Extra > 0
  PROVE  Spec => []PointersStayInside
<1>1. IInv => PointersStayInside
  <2> SUFFICES ASSUME IInv PROVE PointersAreValid
    BY DEF PointersStayInside
  <2>1. /\ current \in Nat /\ overflow \in Nat /\ size = Size
        /\ current <= Size \/ current < Size + Extra
        /\ eof => start = overflow /\ overflow <= current
        /\ ~eof => start = 0 /\ overflow <= Size
    BY DEF IInv, Frame, Numbers, Window
  <2>2. QED
    BY <2>1 DEF PointersAreValid
<1>2. QED
  BY <1>1, Invariant, PTL
-----------------------------------------------------------------------------
(* The flags and the place of the call.                                    *)
Places == Flushing \cup {"created", "idle", "direct", "closed"}

LEMMA FlagsStay ==
  ASSUME eof \in BOOLEAN, dropped \in BOOLEAN, [Next]_vars
  PROVE  eof' \in BOOLEAN /\ dropped' \in BOOLEAN
<1>1. \A c \in Cancels : c \in BOOLEAN
  BY DEF Cancels
<1>2. QED
  BY <1>1 DEF Next, Calls, Steps, AfterConstruction, CallFlush, Destroy, SetEOF, Write,
     OverflowWrite, WriteData, Narrow, SetLimit, FlushRaises, FlushAtEOF, Flush,
     FlushFails, Direct, DirectFails, Remainder, Ended, Kept, window, ghosts, vars

LEMMA PlaceStays ==
  ASSUME pc \in Places, [Next]_vars
  PROVE  pc' \in Places
<1>1. \A p \in Flushing : After[p] \in Places /\ Raised[p] \in Places
  BY DEF After, Raised, Flushing, Places
<1>2. QED
  BY <1>1 DEF Next, Calls, Steps, AfterConstruction, CallFlush, Destroy, SetEOF, Write,
     OverflowWrite, WriteData, Narrow, SetLimit, FlushRaises, FlushAtEOF, Flush,
     FlushFails, Direct, DirectFails, Remainder, MayFlush, vars, Places, Flushing

(* The types are kept.                                                     *)
THEOREM WriterTypeCorrect == Spec => []TypeOK
<1> DEFINE Flags == /\ eof \in BOOLEAN /\ dropped \in BOOLEAN
                   /\ onProgress \in {"none", "watch", "cancel"}
<1>1. Init => Flags /\ pc \in Places
  BY DEF Init, Places
<1>2. Flags /\ pc \in Places /\ [Next]_vars => Flags' /\ (pc \in Places)'
  <2> SUFFICES ASSUME Flags, pc \in Places, [Next]_vars
               PROVE  Flags' /\ (pc \in Places)'
    OBVIOUS
  <2>1. onProgress' = onProgress
    BY DEF Next, vars
  <2>2. QED
    BY <2>1, FlagsStay, PlaceStays
<1>3. Spec => [](Flags /\ pc \in Places)
  BY <1>1, <1>2, PTL DEF Spec
<1>4. IInv /\ Flags /\ pc \in Places => TypeOK
  BY DEF IInv, Frame, TypeOK, Places
<1>5. QED
  BY <1>3, <1>4, Invariant, PTL

-----------------------------------------------------------------------------
(* What every step leaves in place: output is never taken back, a writer   *)
(* that was broken off or ended stays so and accepts nothing more.         *)
Onward ==
  /\ Len(out) <= Len(out') /\ given <= given'
  /\ dropped => dropped'
  /\ eof => eof'
  /\ pc = "closed" => pc' = "closed"
  /\ ~dropped' /\ (eof \/ pc = "closed") => given' = given

LEMMA StepsGoOn == Frame /\ [Next]_vars => Onward
<1> SUFFICES ASSUME Frame, [Next]_vars PROVE Onward
  OBVIOUS
<1>1. /\ current \in Nat /\ overflow \in Nat /\ given \in Nat /\ out \in Seq(Nat)
      /\ todo \in Nat /\ Len(out) \in Nat
      /\ eof /\ ~dropped => pc # "direct"
  BY DEF Frame, Numbers, Broken
<1>2. CASE AfterConstruction \/ CallFlush \/ Destroy \/ SetEOF
  <2>1. CASE AfterConstruction
    <3>1. eof => eof'
      BY <2>1 DEF AfterConstruction, Ended, Kept
    <3>2. UNCHANGED <<out, given, dropped>> /\ pc # "closed"
      BY <2>1 DEF AfterConstruction
    <3>3. QED
      BY <1>1, <3>1, <3>2 DEF Onward
  <2>2. CASE CallFlush \/ Destroy
    BY <1>1, <2>2 DEF CallFlush, Destroy, window, ghosts, Onward
  <2>3. CASE SetEOF
    BY <1>1, <2>3 DEF SetEOF, Ended, Onward
  <2>4. QED
    BY <1>2, <2>1, <2>2, <2>3
<1>3. ASSUME NEW n \in Counts, Write(n) \/ OverflowWrite(n)
      PROVE  Onward
  BY <1>1, <1>3 DEF Write, OverflowWrite, Writing, Margin, Most, Onward
<1>4. ASSUME NEW w \in Widths, WriteData(w)
      PROVE  Onward
  BY <1>1, <1>4 DEF WriteData, Writing, Onward
<1>5. ASSUME NEW v \in Limits, Narrow(v)
      PROVE  Onward
  BY <1>1, <1>5 DEF Narrow, SetLimit, ghosts, Onward
<1>6. CASE FlushRaises \/ FlushAtEOF
  BY <1>1, <1>6 DEF FlushRaises, FlushAtEOF, Ended, Kept, window, ghosts, Onward, Flushing
<1>7. CASE Flush
  <2>1. MayFlush /\ out' = out \o Chunk(FlushSize) /\ given' = given
    BY <1>7 DEF Flush
  <2>2. FlushSize \in Nat /\ ~eof /\ pc # "closed" /\ FlushSize <= size + Extra
    BY <2>1, FlushFacts DEF MayFlush, Flushing, Frame, Window
  <2>3. Len(out) <= Len(out')
    BY <1>1, <2>1, <2>2, ChunkGrows DEF Frame
  <2>4. dropped => dropped'
    BY <1>7 DEF Flush
  <2>5. QED
    BY <1>1, <2>1, <2>2, <2>3, <2>4 DEF Onward
<1>8. CASE FlushFails
  <2>1. PICK r \in 0 .. FlushSize - 1 : out' = out \o Chunk(r)
    BY <1>8 DEF FlushFails
  <2>2. /\ MayFlush /\ FlushSize \in Nat /\ r \in Nat /\ r <= size + Extra
        /\ ~eof /\ pc # "closed" /\ given' = given /\ dropped'
    BY <1>8, <2>1, FlushFacts DEF FlushFails, MayFlush, Flushing, Frame, Window
  <2>3. Len(out) <= Len(out')
    BY <1>1, <2>1, <2>2, ChunkGrows DEF Frame
  <2>4. QED
    BY <1>1, <2>2, <2>3 DEF Onward
<1>9. CASE Direct
  <2>1. /\ Page \in Nat /\ out' = out \o Bytes(given, Page) /\ given' = given + Page
        /\ pc = "direct" /\ (dropped => dropped')
    BY <1>9, PageFits DEF Direct, Frame, Window
  <2>2. Len(out) <= Len(out')
    BY <1>1, <2>1, PagesGrow DEF Frame
  <2>3. eof => eof'
    BY <1>9 DEF Direct, Kept, Ended
  <2>4. QED
    BY <1>1, <2>1, <2>2, <2>3 DEF Onward
<1>10. CASE DirectFails
  <2>1. PICK r \in 0 .. Page - 1 : out' = out \o Bytes(given, r)
    BY <1>10 DEF DirectFails
  <2>2. /\ Page \in Nat /\ r \in Nat /\ pc = "direct" /\ dropped' /\ given' = given
        /\ eof' = eof
    BY <1>10, <2>1, PageFits DEF DirectFails, Frame, Window, window
  <2>3. Len(out) <= Len(out')
    BY <1>1, <2>1, <2>2, PagesGrow DEF Frame
  <2>4. QED
    BY <1>1, <2>2, <2>3 DEF Onward
<1>11. CASE Remainder
  BY <1>1, <1>11 DEF Remainder, Onward
<1>12. CASE UNCHANGED vars
  BY <1>1, <1>12 DEF vars, Onward
<1>13. QED
  BY <1>2, <1>3, <1>4, <1>5, <1>6, <1>7, <1>8, <1>9, <1>10, <1>11, <1>12 DEF Next, Calls, Steps
-----------------------------------------------------------------------------
LEMMA StepKeepsLimit ==
  ASSUME Frame, [Next]_vars, limit # NoLimit, ~eof
  PROVE  Len(out') <= Most(limit, Len(out))
<1>1. limit \in Nat /\ Len(out) \in Nat
  BY DEF Frame, Numbers
<1>2. CASE UNCHANGED out
  BY <1>1, <1>2 DEF Most
<1>3. ASSUME NEW n \in Nat, Len(out') = Len(out) + n, n = 0 \/ Len(out) + n <= limit
      PROVE  Len(out') <= Most(limit, Len(out))
  BY <1>1, <1>3 DEF Most
<1>4. ASSUME MayFlush, NEW r \in 0 .. FlushSize, out' = out \o Chunk(r)
      PROVE  Len(out') <= Most(limit, Len(out))
  <2>1. /\ FlushSize \in Nat /\ FlushSize <= current /\ current \in Nat /\ base \in Nat
        /\ base + current <= limit /\ ~eof /\ FlushSize <= size + Extra
    BY SMTT(40), <1>1, <1>4, FlushFacts DEF Frame, Window, Numbers, FlushSize, Least, MayFlush, OverLimit, Position
  <2>2. current = 0 \/ base = Len(out)
    BY <2>1 DEF Frame, Counted, Broken
  <2>3. r \in Nat /\ Len(out') = Len(out) + r
    <3>1. r \in Nat /\ r <= size + Extra
      BY <2>1 DEF Frame, Numbers
    <3>2. QED
      BY <1>4, <3>1, ChunkGrows DEF Frame
  <2>4. r \in Nat /\ (r = 0 \/ Len(out) + r <= limit)
    BY <1>1, <2>1, <2>2
  <2>5. QED
    BY <1>3, <2>3, <2>4
<1>5. ASSUME pc = "direct", todo >= size, NEW r \in 0 .. Page, out' = out \o Bytes(given, r)
      PROVE  Len(out') <= Most(limit, Len(out))
  <2>1. Page \in Nat /\ Page <= todo /\ todo \in Nat
    BY <1>5, PageFits DEF Frame, Window, Numbers
  <2>2. given = Len(out) /\ base = Len(out) /\ ~eof /\ base + todo <= limit
    BY <1>5, DirectFacts DEF Frame, Broken
  <2>3. r \in Nat /\ Len(out) + r <= limit
    BY <1>1, <2>1, <2>2
  <2>4. Len(out') = Len(out) + r
    BY <1>5, <2>3, PagesGrow DEF Frame
  <2>5. QED
    BY <1>3, <2>3, <2>4
<1>6. CASE Flush
  <2>1. MayFlush /\ out' = out \o Chunk(FlushSize)
    BY <1>6 DEF Flush
  <2>2. FlushSize \in 0 .. FlushSize
    BY <2>1, FlushFacts
  <2>3. QED
    BY <1>4, <2>1, <2>2
<1>7. CASE FlushFails
  <2>1. MayFlush
    BY <1>7 DEF FlushFails
  <2>2. FlushSize \in Nat
    BY <2>1, FlushFacts
  <2>3. \E r \in 0 .. FlushSize : out' = out \o Chunk(r)
    BY SMTT(40), <1>7, <2>2 DEF FlushFails
  <2>4. QED
    BY <1>4, <2>1, <2>3
<1>8. CASE Direct \/ DirectFails
  <2>1. pc = "direct" /\ todo >= size
    BY <1>8 DEF Direct, DirectFails
  <2>2. Page \in Nat
    BY <2>1, PageFits DEF Frame, Window
  <2>3. \E r \in 0 .. Page : out' = out \o Bytes(given, r)
    BY <1>8, <2>2 DEF Direct, DirectFails
  <2>4. QED
    BY <1>5, <2>1, <2>3
<1>9. CASE Calls \/ FlushRaises \/ FlushAtEOF \/ Remainder \/ UNCHANGED vars
  <2>1. UNCHANGED out
    BY <1>9 DEF Calls, AfterConstruction, CallFlush, Destroy, SetEOF, Write, OverflowWrite,
       WriteData, Narrow, SetLimit, FlushRaises, FlushAtEOF, Remainder, ghosts, vars
  <2>2. QED
    BY <1>2, <2>1
<1>10. QED
  BY <1>6, <1>7, <1>8, <1>9 DEF Next, Steps

(* The output never passes Limit, whichever way it takes.                  *)
THEOREM WriterKeepsLimit == Spec => LimitKept
<1>1. Frame /\ [Next]_vars =>
        [limit # NoLimit /\ ~eof => Len(out') <= Most(limit, Len(out))]_vars
  BY StepKeepsLimit
<1>2. IInv => Frame
  BY DEF IInv
<1>3. QED
  BY <1>1, <1>2, Invariant, PTL DEF Spec, LimitKept
-----------------------------------------------------------------------------
(* The writer implements WriteStream: its content is the numbered bytes    *)
(* that were accepted, or those that were delivered if it was broken off.  *)
Content == IF dropped THEN out ELSE out \o Chunk(current)
Status  == IF dropped THEN "failed"
           ELSE IF eof \/ pc = "closed" THEN "ended" ELSE "open"
Total   == IF dropped THEN Len(out) ELSE given

Numbered ==
  /\ Content = Bytes(0, Total) /\ Total \in Nat
  /\ Len(out) \in Nat /\ Len(out) <= Total

(* Numbered bytes that follow a numbered sequence continue it.             *)
LEMMA Continue ==
  ASSUME NEW s \in Seq(Nat), s = Bytes(0, Len(s)), NEW n \in Nat
  PROVE  LET t == s \o Bytes(Len(s), n)
         IN  t \in Seq(Nat) /\ Len(t) = Len(s) + n /\ t = Bytes(0, Len(t))
<1> DEFINE t == s \o Bytes(Len(s), n)
<1>1. Bytes(Len(s), n) \in Seq(Nat) /\ Len(Bytes(Len(s), n)) = n /\ Len(s) \in Nat
  BY BytesType
<1>2. t \in Seq(Nat) /\ Len(t) = Len(s) + n
  BY <1>1
<1>3. ASSUME NEW i \in 1 .. Len(s) + n
      PROVE  t[i] = 0 + i
  <2>1. CASE i <= Len(s)
    <3>1. t[i] = s[i]
      BY <1>1, <2>1
    <3>2. s[i] = Bytes(0, Len(s))[i]
      OBVIOUS
    <3>3. Bytes(0, Len(s))[i] = 0 + i
      BY <1>1, <2>1 DEF Bytes
    <3>4. QED
      BY <3>1, <3>2, <3>3
  <2>2. CASE i > Len(s)
    <3>1. t[i] = Bytes(Len(s), n)[i - Len(s)]
      BY <1>1, <2>2
    <3>2. Bytes(Len(s), n)[i - Len(s)] = Len(s) + (i - Len(s))
      BY <1>1, <2>2 DEF Bytes
    <3>3. QED
      BY <1>1, <3>1, <3>2
  <2>3. QED
    BY <1>1, <2>1, <2>2
<1> HIDE DEF t
<1>4. t = [i \in 1 .. Len(t) |-> t[i]]
  BY <1>2
<1>5. t = Bytes(0, Len(t))
  BY <1>1, <1>2, <1>3, <1>4 DEF Bytes
<1>6. QED
  BY <1>2, <1>5 DEF t

(* A block that holds numbered bytes is cut into numbered bytes.           *)
LEMMA ChunkIsBytes ==
  ASSUME NEW k \in Nat, NEW n \in Nat,
         \A i \in 0 .. n - 1 : mem[i] = k + 1 + i
  PROVE  Chunk(n) = Bytes(k, n)
<1>1. ASSUME NEW i \in 1 .. n
      PROVE  mem[i - 1] = k + i
  BY i - 1 \in 0 .. n - 1, mem[i - 1] = k + 1 + (i - 1)
<1>2. QED
  BY <1>1 DEF Chunk, Bytes
LEMMA ContentIsNumbered == IInv => Numbered
<1> SUFFICES ASSUME IInv PROVE Numbered
  OBVIOUS
<1> USE DEF Numbered
<1>1. /\ out \in Seq(Nat) /\ Len(out) \in Nat /\ out = Bytes(0, Len(out))
      /\ current \in Nat /\ given \in Nat
  BY DEF IInv, Frame, Numbers, Data, OutputInOrder
<1>2. CASE dropped
  BY <1>1, <1>2 DEF Content, Total
<1>3. CASE ~dropped
  <2>1. given = Len(out) + current
    BY <1>1, <1>3 DEF IInv, Frame, Counted, Position
  <2>2. \A i \in 0 .. current - 1 : mem[i] = Len(out) + 1 + i
    BY <1>3 DEF IInv, Frame, Counted, Data
  <2>3. Chunk(current) = Bytes(Len(out), current)
    BY <1>1, <2>2, ChunkIsBytes
  <2>4. DEFINE t == out \o Bytes(Len(out), current)
  <2>5. Len(t) = Len(out) + current /\ t = Bytes(0, Len(t))
    BY <1>1, Continue
  <2>6. QED
    BY <1>1, <1>3, <2>1, <2>3, <2>5 DEF Content, Total
<1>4. QED
  BY <1>2, <1>3

LEMMA PrefixOfBytes ==
  ASSUME NEW a \in Nat, NEW b \in Nat, a <= b
  PROVE  /\ SubSeq(Bytes(0, b), 1, a) = Bytes(0, a)
         /\ Stream!IsPrefix(Bytes(0, a), Bytes(0, b))
<1>1. ASSUME NEW c \in Nat, a <= c
      PROVE  SubSeq(Bytes(0, c), 1, a) = Bytes(0, a)
  <2>1. SubSeq(Bytes(0, c), 1, a) = [i \in 1 .. a |-> Bytes(0, c)[1 + i - 1]]
    BY <1>1, BytesType
  <2>2. \A i \in 1 .. a : Bytes(0, c)[1 + i - 1] = 0 + i
    BY <1>1 DEF Bytes
  <2>3. QED
    BY <2>1, <2>2 DEF Bytes
<1>2. Len(Bytes(0, a)) = a /\ Len(Bytes(0, b)) = b
  BY BytesType
<1>3. QED
  BY <1>1, <1>2 DEF Stream!IsPrefix
LEMMA StreamStep ==
  ASSUME IInv, IInv', Numbered, Numbered', [Next]_vars
  PROVE  [Stream!Next]_(Stream!vars)
<1>1. Onward
  BY StepsGoOn DEF IInv
<1>2. /\ Content = Bytes(0, Total) /\ Total \in Nat /\ Len(out) \in Nat /\ Len(out) <= Total
      /\ Content' = Bytes(0, Total') /\ Total' \in Nat /\ Len(out') \in Nat /\ Len(out') <= Total'
  BY DEF Numbered, Bytes
<1>3. Len(Content) = Total /\ Len(Content') = Total'
  BY <1>2, BytesType
<1>4. CASE dropped'
  <2>1. Total' = Len(out') /\ Len(out) <= Len(out') /\ Status' = "failed"
    BY <1>1, <1>4 DEF Total, Status, Onward
  <2>2. SubSeq(Content, 1, Len(out)) = Bytes(0, Len(out))
    BY <1>2, PrefixOfBytes
  <2>3. Stream!IsPrefix(SubSeq(Content, 1, Len(out)), Content')
    BY <1>2, <2>1, <2>2, PrefixOfBytes
  <2>4. Stream!Fail
    BY <1>3, <2>1, <2>3 DEF Stream!Fail, Content, Status
  <2>5. QED
    BY <2>4 DEF Stream!Next
<1>5. CASE ~dropped'
  <2>1. /\ ~dropped /\ Total = given /\ Total' = given' /\ given <= given'
        /\ Len(out) <= Len(out')
    BY <1>1, <1>5 DEF Total, Onward
  <2>2. Stream!IsPrefix(Content, Content')
    BY <1>2, <2>1, PrefixOfBytes
  <2>3. Stream!Grow
    BY <1>2, <1>3, <2>1, <2>2 DEF Stream!Grow, Content
  <2>4. eof' \/ pc' = "closed" => Len(out') = Total'
    <3>1. /\ base' = Len(out') /\ base' + current' = given'
          /\ eof' => current' = 0
          /\ pc' = "closed" => Len(out') = given'
      BY <1>5 DEF IInv, Frame, Broken, Counted, ClosedIsDelivered, Position
    <3>2. QED
      BY <1>2, <2>1, <3>1
  <2>5. CASE ~(eof' \/ pc' = "closed")
    <3>1. Status = "open" /\ Status' = "open"
      BY <1>1, <1>5, <2>1, <2>5 DEF Status, Onward
    <3>2. QED
      BY <2>3, <3>1 DEF Stream!Next, Stream!Proceed, Status
  <2>6. CASE (eof' \/ pc' = "closed") /\ ~(eof \/ pc = "closed")
    <3>1. Status = "open" /\ Status' = "ended"
      BY <1>5, <2>1, <2>6 DEF Status
    <3>2. QED
      BY <1>3, <2>3, <2>4, <2>6, <3>1 DEF Stream!Next, Stream!End, Status, Content
  <2>7. CASE (eof' \/ pc' = "closed") /\ (eof \/ pc = "closed")
    <3>1. Status = "ended" /\ Status' = "ended"
      BY <1>5, <2>1, <2>7 DEF Status
    <3>2. Len(out) = Total /\ Total' = Total
      BY <1>1, <1>2, <1>5, <2>1, <2>7 DEF IInv, Frame, Broken, Counted, ClosedIsDelivered, Numbers, Position, Onward
    <3>3. Content' = Content /\ Len(out') = Len(out)
      BY <1>2, <2>4, <2>7, <3>2
    <3>4. QED
      BY <3>1, <3>3 DEF Stream!vars, Content, Status
  <2>8. QED
    BY <2>5, <2>6, <2>7
<1>6. QED
  BY <1>4, <1>5

(* The buffer is invisible: a writer of any size behaves like a stream     *)
(* that takes bytes, delivers them in order and ends complete.             *)
THEOREM WriterImplementsStream == Spec => ImplementsStream
<1>1. Init => Stream!Init
  <2>1. ASSUME Init PROVE out \o Chunk(current) = <<>>
    BY <2>1 DEF Init, Chunk
  <2>2. QED
    BY <2>1 DEF Init, Stream!Init
<1>2. IInv /\ IInv' /\ Numbered /\ Numbered' /\ [Next]_vars => [Stream!Next]_(Stream!vars)
  BY StreamStep
<1>3. QED
  BY <1>1, <1>2, Invariant, ContentIsNumbered, PTL DEF Spec, ImplementsStream, Stream!Spec

-----------------------------------------------------------------------------
(* DirectWrite: the frame of the writer holds as before, and its bytes are *)
(* in order but for the patches.                                           *)
PatchInv == Frame /\ Order(patched)

(* The highest position of a range.                                        *)
LEMMA HighestOfRange ==
  ASSUME NEW lo \in Nat, NEW hi \in Nat, lo < hi
  PROVE  Highest(lo .. hi - 1) = hi - 1
<1>1. hi - 1 \in lo .. hi - 1 /\ \A q \in lo .. hi - 1 : q <= hi - 1
  OBVIOUS
<1>2. ASSUME NEW p \in lo .. hi - 1, \A q \in lo .. hi - 1 : q <= p
      PROVE  p = hi - 1
  <2>1. hi - 1 <= p /\ p <= hi - 1
    BY <1>1, <1>2
  <2>2. QED
    BY <2>1
<1>3. QED
  BY <1>1, <1>2 DEF Highest

(* A range of the buffered bytes is patched.                               *)
LEMMA PatchKeeps ==
  ASSUME Frame, ~dropped, ~eof, pc = "idle", NEW P, Order(P),
         NEW lo \in Nat, NEW hi \in Nat, base <= lo, lo < hi, hi <= Position,
         mem' = Patched(lo .. hi - 1), high' = NewHigh(lo .. hi - 1),
         UNCHANGED <<size, window, pc, todo, ghosts>>,
         NEW Q, Q = P \cup (lo .. hi - 1)
  PROVE  Frame' /\ Order(Q)'
<1>1. /\ current \in Nat /\ base \in Nat /\ given \in Nat /\ Len(out) \in Nat /\ size = Size
      /\ base = Len(out) /\ given = base + current /\ hi <= base + current
      /\ high \in Nat /\ high <= current /\ current <= Size + Extra
      /\ mem \in [0 .. Size + Extra - 1 -> Nat]
  BY DEF Frame, Numbers, Window, Counted, Position
<1>2. high' \in Nat /\ high' <= current
  <2>1. lo .. hi - 1 # {} /\ Highest(lo .. hi - 1) = hi - 1
    BY HighestOfRange
  <2>2. high' = Most(high, hi - 1 + 1 - base)
    BY <2>1 DEF NewHigh
  <2>3. QED
    BY <1>1, <2>2 DEF Most
<1>3. ASSUME NEW i \in 0 .. Size + Extra - 1
      PROVE  /\ mem'[i] = IF base + i \in lo .. hi - 1 THEN Mark(base + i) ELSE mem[i]
             /\ mem'[i] \in Nat
  <2>1. mem'[i] = IF base + i \in lo .. hi - 1 THEN Mark(base + i) ELSE mem[i]
    BY <1>1 DEF Patched
  <2>2. Mark(base + i) \in Nat /\ mem[i] \in Nat
    BY <1>1 DEF Mark
  <2>3. QED
    BY <2>1, <2>2
<1>4. mem' \in [0 .. Size + Extra - 1 -> Nat]
  <2>1. mem' = [i \in 0 .. Size + Extra - 1 |-> mem'[i]]
    BY <1>1 DEF Patched
  <2>2. QED
    BY <1>3, <2>1
<1>5. Frame'
  <2>1. UNCHANGED <<size, start, current, overflow, base, limit, eof, pc, todo, given, out, dropped>>
    BY DEF window, ghosts
  <2>2. Numbers'
    BY <1>1, <1>2, <1>4, <2>1 DEF Frame, Numbers
  <2>3. Window'
    BY <1>2, <2>1 DEF Frame, Window
  <2>4. Place' /\ Broken'
    BY <2>1 DEF Frame, Place, Broken, Fits, Position
  <2>5. Counted'
    BY <2>1 DEF Frame, Counted, ClosedIsDelivered, Position
  <2>6. QED
    BY <2>2, <2>3, <2>4, <2>5 DEF Frame
<1>6. UNCHANGED <<current, base, given, out, dropped>>
  BY DEF window, ghosts
<1>7. \A i \in 1 .. Len(out) : i - 1 \in Q <=> i - 1 \in P
  BY <1>1
<1>8. ASSUME NEW i \in 0 .. current - 1
      PROVE  mem'[i] = Expected(Q, base + i)
  <2>1. i \in 0 .. Size + Extra - 1 /\ mem[i] = Expected(P, base + i)
    BY <1>1 DEF Order
  <2>2. QED
    BY <1>3, <2>1 DEF Expected
<1>9. \A p \in Q : p \in Nat /\ p < given
  BY <1>1 DEF Order
<1>10. QED
  BY <1>5, <1>6, <1>7, <1>8, <1>9 DEF Order

LEMMA SequentialKeeps == PatchInv /\ Sequential => PatchInv'
<1> SUFFICES ASSUME PatchInv, Sequential PROVE PatchInv'
  OBVIOUS
<1>1. Frame'
  BY FrameKeeps DEF PatchInv, Sequential
<1>2. PICK P, Q : P = patched /\ Q = patched'
  OBVIOUS
<1>3. Q = P \ Overwritten /\ [Next]_vars
  BY <1>2 DEF Sequential, Overwritten
<1>4. Order(P)
  BY <1>2 DEF PatchInv
<1>5. Order(Q)'
  BY <1>3, <1>4, OrderKeeps DEF PatchInv
<1>6. Order(patched)'
  BY <1>2, <1>5 DEF Order
<1>7. QED
  BY <1>1, <1>6 DEF PatchInv

(* A patch inside of the window, and one that begins in front of it.       *)
LEMMA DirectWriteKeeps ==
  ASSUME PatchInv, NEW p \in Positions, NEW n \in PatchSizes, GoesBack(p, n),
         DirectWrite(p, n) \/ DirectWriteFails(p, n)
  PROVE  PatchInv'
<1>1. /\ p \in Nat /\ n \in Nat /\ n > 0 /\ p + n <= Position
      /\ base \in Nat /\ current \in Nat /\ overflow \in Nat
  BY PatchAssumption DEF GoesBack, PatchInv, Frame, Numbers
<1>2. /\ pc = "idle" /\ ~eof /\ ~dropped
      /\ UNCHANGED <<size, window, pc, todo, ghosts>>
  BY DEF DirectWrite, DirectWriteFails, MayDirectWrite
<1>3. start = 0 /\ CachedLow = base /\ CachedHigh = base + overflow /\ current <= overflow
  BY <1>1, <1>2 DEF CachedLow, CachedHigh, PatchInv, Frame, Window, Place
<1>4. PICK P, Q : P = patched /\ Q = patched'
  OBVIOUS
<1>5. Frame /\ Order(P)
  BY <1>4 DEF PatchInv
<1>6. ASSUME Frame', Order(Q)'
      PROVE  PatchInv'
  <2>1. Order(patched)'
    BY <1>4, <1>6 DEF Order
  <2>2. QED
    BY <1>6, <2>1 DEF PatchInv
<1>7. CASE DirectWrite(p, n)
  <2>1. base <= p /\ p + n <= base + overflow
    BY <1>3, <1>7 DEF DirectWrite
  <2>2. Covered(p, n) = p .. p + n - 1
    BY <1>1, <1>3, <2>1 DEF Covered, Least
  <2>3. /\ mem' = Patched(p .. p + n - 1) /\ high' = NewHigh(p .. p + n - 1)
        /\ Q = P \cup (p .. p + n - 1)
    BY <1>4, <1>7, <2>2 DEF DirectWrite
  <2>4. p + n \in Nat /\ p < p + n
    BY <1>1
  <2>5. Frame' /\ Order(Q)'
    BY <1>1, <1>2, <1>5, <2>1, <2>3, <2>4, PatchKeeps
  <2>6. QED
    BY <1>6, <2>5
<1>8. CASE DirectWriteFails(p, n) /\ base < p + n
  <2>1. p < base
    BY <1>3, <1>8 DEF DirectWriteFails
  <2>2. Covered(p, n) = base .. p + n - 1
    BY <1>1, <1>3, <1>8, <2>1 DEF Covered
  <2>3. {q \in p .. p + n - 1 : q >= CachedLow} = base .. p + n - 1
    BY <1>1, <1>3, <2>1
  <2>4. /\ mem' = Patched(base .. p + n - 1) /\ high' = NewHigh(base .. p + n - 1)
        /\ Q = P \cup (base .. p + n - 1)
    BY <1>4, <1>8, <2>2, <2>3 DEF DirectWriteFails
  <2>5. p + n \in Nat /\ base <= base
    BY <1>1
  <2>6. Frame' /\ Order(Q)'
    BY <1>1, <1>2, <1>5, <1>8, <2>4, <2>5, PatchKeeps
  <2>7. QED
    BY <1>6, <2>6
<1>9. CASE DirectWriteFails(p, n) /\ ~(base < p + n)
  <2>1. p < base
    BY <1>3, <1>9 DEF DirectWriteFails
  <2>2. Covered(p, n) = {}
    BY <1>1, <1>3, <1>9, <2>1 DEF Covered
  <2>3. {q \in p .. p + n - 1 : q >= CachedLow} = {}
    BY <1>1, <1>3, <1>9
  <2>4. mem' = Patched({}) /\ high' = high /\ Q = P
    BY <1>4, <1>9, <2>2, <2>3 DEF DirectWriteFails, NewHigh
  <2>5. mem' = mem
    BY <1>5, <2>4 DEF Patched, Frame, Numbers
  <2>6. UNCHANGED <<mem, size, high, start, current, overflow, base, limit, eof,
                    pc, todo, given, out, dropped>>
    BY <1>2, <2>4, <2>5 DEF window, ghosts
  <2>7. Frame'
    <3>1. Numbers'
      BY <1>5, <2>6 DEF Frame, Numbers
    <3>2. Window' /\ Place' /\ Broken'
      BY <1>5, <2>6 DEF Frame, Window, Place, Broken, Fits, Position
    <3>3. Counted'
      BY <1>5, <2>6 DEF Frame, Counted, ClosedIsDelivered, Position
    <3>4. QED
      BY <3>1, <3>2, <3>3 DEF Frame
  <2>8. Order(Q)'
    BY <1>5, <2>4, <2>6, BytesStay
  <2>9. QED
    BY <1>6, <2>7, <2>8
<1>10. QED
  BY <1>7, <1>8, <1>9

LEMMA PatchInvariant == PatchSpec => []PatchInv
<1>1. DirectInit => PatchInv
  BY InitFrame DEF DirectInit, PatchInv, Init, Order
<1>2. PatchInv /\ [PatchNext]_allVars => PatchInv'
  <2> SUFFICES ASSUME PatchInv, [PatchNext]_allVars PROVE PatchInv'
    OBVIOUS
  <2>1. CASE UNCHANGED allVars
    <3>1. Frame'
      BY <2>1, FrameKeeps DEF PatchInv, allVars
    <3>2. Order(patched)'
      BY <2>1 DEF PatchInv, Order, allVars, vars
    <3>3. QED
      BY <3>1, <3>2 DEF PatchInv
  <2>2. QED
    BY <2>1, SequentialKeeps, DirectWriteKeeps DEF PatchNext
<1>3. QED
  BY <1>1, <1>2, PTL DEF PatchSpec

(* A client that goes back and patches what it wrote finds its patches in  *)
(* the output, whatever the size of the block, and nothing else changed.   *)
THEOREM WriterKeepsPatches == PatchSpec => []OnlyPatchesChange
<1>1. PatchInv => OnlyPatchesChange
  <2> SUFFICES ASSUME PatchInv PROVE OnlyPatchesChange
    OBVIOUS
  <2>1. Order(patched)
    BY DEF PatchInv
  <2>2. /\ current \in Nat /\ base \in Nat /\ given \in Nat /\ Len(out) \in Nat /\ high \in Nat
        /\ ~dropped => base = Len(out) /\ given = base + current
    BY DEF PatchInv, Frame, Numbers, Counted, Position
  <2>3. RestIsInOrder
    BY <2>1 DEF Order, RestIsInOrder
  <2>4. ASSUME ~dropped, NEW p \in patched
        PROVE  IF p < Len(out) THEN out[p + 1] = Mark(p)
               ELSE /\ p - Len(out) < Most(current, high)
                    /\ mem[p - Len(out)] = Mark(p)
    <3>1. p \in Nat /\ p < given
      BY <2>1, <2>4 DEF Order
    <3>2. CASE p < Len(out)
      <4>1. p + 1 \in 1 .. Len(out) /\ p + 1 - 1 = p
        BY <2>2, <3>1, <3>2
      <4>2. out[p + 1] = Mark(p + 1 - 1)
        BY <2>1, <2>4, <4>1 DEF Order
      <4>3. QED
        BY <3>2, <4>1, <4>2
    <3>3. CASE ~(p < Len(out))
      <4>1. p - Len(out) \in 0 .. current - 1 /\ base + (p - Len(out)) = p
        BY <2>2, <2>4, <3>1, <3>3
      <4>2. mem[p - Len(out)] = Expected(patched, p)
        BY <2>1, <2>4, <4>1 DEF Order
      <4>3. p - Len(out) < Most(current, high)
        BY <2>2, <4>1 DEF Most
      <4>4. QED
        BY <2>4, <3>3, <4>2, <4>3 DEF Expected
    <3>4. QED
      BY <3>2, <3>3
  <2>5. QED
    BY <2>3, <2>4 DEF OnlyPatchesChange, PatchesSurvive
<1>2. QED
  BY <1>1, PatchInvariant, PTL

(* Position counts its bytes as before, and closing leaves none behind.    *)
THEOREM PatchedWriterDelivers == PatchSpec => [](PositionIsHonest /\ ClosedIsDelivered)
<1>1. PatchInv => PositionIsHonest /\ ClosedIsDelivered
  BY DEF PatchInv, Frame, Counted, PositionIsHonest
<1>2. QED
  BY <1>1, PatchInvariant, PTL
=============================================================================

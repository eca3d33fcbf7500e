------------------------- MODULE CachedReaderProofs -------------------------
(***************************************************************************)
(* TCachedReader for blocks of any size, any source and any client of      *)
(* Next: the client receives the bytes of the source in their order, the   *)
(* window shows what comes next, Position counts it, the callback is never *)
(* asked for more than there is room for nor for bytes behind Limit, and   *)
(* the reader implements the abstract stream.                              *)
(***************************************************************************)
EXTENDS CachedReader, TLAPS

LEMMA NoLimitApart == NoLimit \notin Int
BY ClientAssumption

USE SizeAssumption, NoLimitApart

-----------------------------------------------------------------------------
(* The inductive invariant.                                                *)

(* The window is cut where the limit is.                                   *)
AtLimit == limit # NoLimit /\ base + overflow = limit

(* The pointers.  A reader at EOF has an empty window, one that goes on    *)
(* has a full one; only the last window is shorter than the block.  A      *)
(* limit lies behind the window, and a client that flushes a rest sets     *)
(* none: its Position is not the place in the source.                      *)
Window ==
  /\ eof => start = overflow /\ current = overflow
  /\ ~dropped =>
       /\ -prev <= start /\ start <= current
       /\ current <= overflow /\ overflow <= size
       /\ ~who.rest => 0 <= start
  /\ ~dropped /\ ~eof =>
       /\ 0 <= overflow
       /\ ~finishing => overflow = size /\ Size <= size
       /\ limit # NoLimit => base + overflow <= limit /\ ~who.rest

(* What the callback returned is received or waits in the window; more is  *)
(* there only when SetLimit cut the window.  The last window ends at the   *)
(* limit or at the end of the source.                                      *)
Feed ==
  /\ Len(got) <= fetched
  /\ ~dropped /\ ~eof =>
       /\ Len(got) + Margin <= fetched
       /\ ~finishing => fetched = Len(got) + Margin
       /\ finishing  => AtLimit \/ (fetched = total /\ fetched = Len(got) + Margin)
  /\ ~dropped /\ ~who.rest => Position = Len(got)

SmallReads == \A n \in who.counts : n < Size

(* The bytes of the window, and what the client got of them.               *)
Right ==
  /\ ReadInOrder
  /\ UnreadIsNext
  /\ FillsInside
  /\ ~dropped /\ ~who.rest /\ SmallReads =>
       \A i \in start .. overflow - 1 : mem[i] = base + 1 + i

Held == TypeOK /\ Window /\ Feed /\ Right

Running == {"direct", "innerFlush", "tail", "skipFlush", "skip"}

(* What holds at each place of a call: which ones a broken-off or ended    *)
(* reader reaches, that a loop enters Flush with an empty window, that     *)
(* whole windows are skipped, and that the call stays within the limit.    *)
Place ==
  /\ dropped => pc \in {"idle", "tail", "skip", "direct", "flush"}
  /\ dropped /\ ~eof => pc \in {"idle", "flush"}
  /\ pc = "flush" => IF dropped THEN ~eof /\ current = overflow + 1
                     ELSE who.rest \/ Margin = 0
  /\ pc \in {"innerFlush", "skipFlush"} => ~eof /\ Margin = 0
  /\ pc \in Running \ {"direct"} => todo > 0
  /\ pc = "direct" => Margin = 0 /\ (todo = 0 \/ ~eof)
  /\ pc = "direct" /\ ~dropped /\ SmallReads => todo < Size
  /\ pc = "skipFlush" /\ ~finishing => todo % size = 0
  /\ pc = "skip" /\ ~eof => current = 0 /\ todo % size = 0
  /\ pc \in Running /\ ~eof /\ limit # NoLimit => Position + todo <= limit

IInv == Held /\ Place

Places == Flushing \cup {"created", "idle", "direct", "tail", "skip"}

(* The client received n bytes more, in their order or unseen.             *)
Goes(n) ==
  /\ got' \in Seq(Nat) /\ Len(got') = Len(got) + n
  /\ \A i \in 1 .. Len(got') :
       got'[i] \in IF i <= Len(got) THEN {got[i]} ELSE {0, i}
-----------------------------------------------------------------------------
(* Arithmetic.                                                             *)
LEMMA Division ==
  ASSUME NEW d \in Nat \ {0}, NEW m \in Nat
  PROVE  \E q \in Nat : \E r \in 0 .. d - 1 :
           m = q * d + r /\ m % d = r /\ m \div d = q
OBVIOUS

LEMMA RoundUpCovers ==
  ASSUME NEW n \in Nat
  PROVE  RoundUp(n) \in Nat /\ n <= RoundUp(n)
<1> DEFINE m == n + PageSize - 1
<1>1. m \in Nat
  OBVIOUS
<1>2. PICK q \in Nat : \E r \in 0 .. PageSize - 1 :
        m = q * PageSize + r /\ m \div PageSize = q
  BY <1>1, Division
<1>3. q * PageSize \in Nat
  OBVIOUS
<1>4. n <= q * PageSize
  BY <1>2, <1>3
<1>5. RoundUp(n) = q * PageSize
  BY <1>2 DEF RoundUp
<1>6. QED
  BY <1>3, <1>4, <1>5

(* A multiple that is not zero holds the number once more.                 *)
LEMMA WholeLess ==
  ASSUME NEW n \in Nat \ {0}, NEW m \in Nat \ {0}, n % m = 0
  PROVE  m <= n /\ (n - m) % m = 0
<1>1. PICK q \in Nat : \E r \in 0 .. m - 1 :
        n = q * m + r /\ n % m = r /\ n \div m = q
  BY Division
<1>2. n = q * m /\ q >= 1
  BY <1>1
<1>3. m <= n
  BY <1>2
<1>4. n - m = (q - 1) * m /\ q - 1 \in Nat /\ n - m \in Nat
  BY <1>2, <1>3
<1>5. (n - m) % m = 0
  <2>1. ASSUME NEW a \in Nat, NEW k \in Nat, a = k * m
        PROVE  a % m = 0
    BY <2>1
  <2>2. QED
    BY <2>1, <1>4
<1>6. QED
  BY <1>3, <1>5

(* OverflowRead hands whole windows to the callback.                       *)
LEMMA PageFits ==
  ASSUME todo \in Nat, size \in Nat \ {0}, size <= todo
  PROVE  Page \in size .. todo
<1>1. PICK q \in Nat : \E r \in 0 .. size - 1 :
        todo = q * size + r /\ todo % size = r
  BY Division
<1>2. q >= 1
  BY <1>1
<1>3. q * size >= size /\ q * size \in Nat
  BY <1>2
<1>4. todo - (todo % size) = q * size
  BY <1>1, <1>3
<1>5. QED
  BY <1>1, <1>3, <1>4 DEF Page

LEMMA ShorterRange ==
  ASSUME NEW a \in Int, NEW b \in Int, b <= a
  PROVE  \A k \in 0 .. b - 1 : k \in 0 .. a - 1
OBVIOUS

LEMMA AnswerFits ==
  ASSUME NEW n \in Nat, total \in Nat, fetched \in 0 .. total
  PROVE  /\ Answer(n) \in 0 .. n
         /\ fetched + Answer(n) \in fetched .. total
         /\ Answer(n) < n => fetched + Answer(n) = total
BY DEF Answer, Most, Least
-----------------------------------------------------------------------------
(* What the client receives.                                               *)

LEMMA Joined ==
  ASSUME NEW a \in Seq(Nat), NEW b \in Seq(Nat)
  PROVE  /\ a \o b \in Seq(Nat) /\ Len(a \o b) = Len(a) + Len(b)
         /\ Len(a) \in Nat /\ Len(b) \in Nat
         /\ \A i \in 1 .. Len(a) : (a \o b)[i] = a[i]
         /\ \A i \in 1 .. Len(b) : (a \o b)[Len(a) + i] = b[i]
OBVIOUS

(* A sequence that is continued by bytes of their places, or unseen ones.  *)
LEMMA Extends ==
  ASSUME got \in Seq(Nat), NEW n \in Nat, NEW more \in Seq(Nat),
         Len(more) = n, got' = got \o more,
         \A i \in 1 .. n : more[i] \in {0, Len(got) + i}
  PROVE  Goes(n)
<1>1. got' \in Seq(Nat) /\ Len(got') = Len(got) + n /\ Len(got) \in Nat
  BY Joined
<1>2. ASSUME NEW i \in 1 .. Len(got')
      PROVE  got'[i] \in IF i <= Len(got) THEN {got[i]} ELSE {0, i}
  <2>1. CASE i <= Len(got)
    <3>1. got'[i] = got[i]
      BY <1>1, <2>1, Joined
    <3>2. QED
      BY <2>1, <3>1
  <2>2. CASE i > Len(got)
    <3>1. i - Len(got) \in 1 .. n /\ i = Len(got) + (i - Len(got))
      BY <1>1, <2>2
    <3> PICK j \in 1 .. n : i = Len(got) + j
      BY <3>1
    <3>2. got'[i] = more[j]
      BY Joined
    <3>3. more[j] \in {0, i}
      OBVIOUS
    <3>4. QED
      BY <1>1, <2>2, <3>2, <3>3
  <2>3. QED
    BY <1>1, <2>1, <2>2
<1>3. QED
  BY <1>1, <1>2 DEF Goes

LEMMA CachedGoes ==
  ASSUME Held, ~dropped, NEW n \in 0 .. Margin, got' = got \o Cached(n)
  PROVE  Goes(n)
<1>1. current \in Int /\ overflow \in Int /\ size \in Nat /\ prev \in Nat
      /\ mem \in [-prev .. size + Extra - 1 -> Nat] /\ got \in Seq(Nat)
  BY DEF Held, TypeOK
<1>2. -prev <= current /\ overflow <= size
  BY <1>1 DEF Held, Window, TypeOK
<1>3. \A k \in 0 .. Margin - 1 : mem[current + k] = Len(got) + 1 + k
  BY DEF Held, Right, UnreadIsNext
<1>4. n \in Nat /\ n <= overflow - current
  BY <1>1 DEF Margin
<1>5. ASSUME NEW i \in 1 .. n
      PROVE  mem[current + i - 1] = Len(got) + i
  <2>1. i - 1 \in 0 .. Margin - 1
    BY <1>1, <1>4 DEF Margin
  <2>2. mem[current + (i - 1)] = Len(got) + 1 + (i - 1)
    BY <1>3, <2>1
  <2>3. current + (i - 1) = current + i - 1
    BY <1>1, <1>4
  <2>4. QED
    BY <1>1, <1>4, <2>2, <2>3
<1>6. Len(got) \in Nat
  BY <1>1
<1>7. Cached(n) = [i \in 1 .. n |-> Len(got) + i]
  BY <1>5 DEF Cached
<1>8. Cached(n) \in Seq(Nat) /\ Len(Cached(n)) = n
  BY <1>4, <1>6, <1>7
<1>9. \A i \in 1 .. n : Cached(n)[i] = Len(got) + i
  BY <1>7
<1>10. QED
  BY <1>1, <1>4, <1>8, <1>9, Extends

LEMMA UnseenGoes ==
  ASSUME got \in Seq(Nat), NEW n \in Nat, got' = got \o Unseen(n)
  PROVE  Goes(n)
<1>1. Unseen(n) \in Seq(Nat) /\ Len(Unseen(n)) = n
      /\ \A i \in 1 .. n : Unseen(n)[i] = 0
  BY DEF Unseen
<1>2. QED
  BY <1>1, Extends

LEMMA BytesGo ==
  ASSUME got \in Seq(Nat), fetched = Len(got), NEW n \in Nat, got' = got \o Bytes(n)
  PROVE  Goes(n)
<1>1. Bytes(n) \in Seq(Nat) /\ Len(Bytes(n)) = n
      /\ \A i \in 1 .. n : Bytes(n)[i] = Len(got) + i
  BY DEF Bytes
<1>2. QED
  BY <1>1, Extends

LEMMA GoesNowhere ==
  ASSUME got \in Seq(Nat), got' = got
  PROVE  Goes(0)
<1>1. Len(got) \in Nat
  OBVIOUS
<1>2. QED
  BY <1>1 DEF Goes

(* The order of what was received stays right.                             *)
LEMMA GoesInOrder ==
  ASSUME got \in Seq(Nat), ReadInOrder, NEW n \in Nat, Goes(n)
  PROVE  ReadInOrder'
<1>1. Len(got) \in Nat /\ DOMAIN got = 1 .. Len(got) /\ DOMAIN got' = 1 .. Len(got')
  BY DEF Goes
<1>2. ASSUME NEW i \in 1 .. Len(got')
      PROVE  got'[i] \in {0, i}
  BY SMTT(40), <1>1 DEF Goes, ReadInOrder
<1>3. QED
  BY <1>1, <1>2 DEF ReadInOrder

-----------------------------------------------------------------------------
(* What a step does to the window, whatever the call it belongs to.        *)

(* Who the client is.                                                      *)
LEMMA Client ==
  ASSUME TypeOK
  PROVE  /\ who \in Clients /\ who.counts \subseteq Nat \ {0} /\ who.skips \subseteq Nat \ {0}
         /\ who.places \subseteq Nat /\ who.limits \subseteq Nat
         /\ who.rest \in BOOLEAN /\ (who.rest => who.limits = {})
         /\ who.progress \in {"none", "watch", "cancel"}
BY ClientAssumption DEF TypeOK

(* Nothing but the place in the call changes.                              *)
LEMMA Untouched ==
  ASSUME Held, UNCHANGED <<block, window, source, result, who>>,
         todo' \in Nat, pc' \in Places
  PROVE  Held'
<1> USE DEF Held, block, window, source, result
<1>1. TypeOK'
  BY DEF TypeOK, Places, Flushing
<1>2. Window'
  BY DEF Window
<1>3. Feed'
  BY DEF Feed, AtLimit, Margin, Position
<1>4. Right'
  BY DEF Right, ReadInOrder, UnreadIsNext, FillsInside, Margin, SmallReads
<1>5. QED
  BY <1>1, <1>2, <1>3, <1>4

(* The client consumes m bytes of the window.                              *)
LEMMA Advances ==
  ASSUME Held, ~dropped, ~eof, NEW m \in 0 .. Margin,
         current' = current + m, Goes(m), dropped' = dropped,
         UNCHANGED <<block, start, overflow, base, limit, finishing, eof, source, who>>,
         todo' \in Nat, pc' \in Places
  PROVE  Held'
<1> USE DEF Held, block, source
<1>1. m \in Nat /\ Margin \in Int /\ m <= Margin
  BY DEF TypeOK, Margin
<1>2. TypeOK'
  BY <1>1 DEF TypeOK, Places, Flushing, Goes
<1>3. Len(got) \in Nat /\ Len(got') = Len(got) + m
  BY DEF Goes, TypeOK
<1>4. Margin' = Margin - m /\ Position' = Position + m
  BY <1>1 DEF Margin, Position, TypeOK
<1>5. Window'
  BY <1>1 DEF Window, Margin, TypeOK
<1>6. Feed'
  <2>1. fetched \in Nat /\ Position \in Int
    BY DEF TypeOK, Position
  <2>2. Len(got') <= fetched' /\ Len(got') + Margin' <= fetched'
    BY <1>1, <1>3, <1>4, <2>1 DEF Feed
  <2>3. fetched = Len(got) + Margin => fetched' = Len(got') + Margin'
    BY <1>1, <1>3, <1>4, <2>1
  <2>4. AtLimit' = AtLimit
    BY DEF AtLimit
  <2>5. ~who.rest => Position' = Len(got')
    BY <1>1, <1>3, <1>4, <2>1 DEF Feed
  <2>6. QED
    BY <2>2, <2>3, <2>4, <2>5 DEF Feed
<1>7. Right'
  <2>1. ReadInOrder'
    BY <1>1, GoesInOrder DEF Right, TypeOK
  <2>2. UnreadIsNext'
    <3>1. ASSUME NEW k \in 0 .. Margin' - 1
          PROVE  mem[current' + k] = Len(got') + 1 + k
      <4>1. m + k \in 0 .. Margin - 1
        BY <1>1, <1>4
      <4>2. mem[current + (m + k)] = Len(got) + 1 + (m + k)
        BY <4>1 DEF Right, UnreadIsNext
      <4>3. current' + k = current + (m + k)
        BY <1>1, <1>4 DEF TypeOK
      <4>4. Len(got') + 1 + k = Len(got) + 1 + (m + k)
        BY <1>1, <1>3, <1>4
      <4>5. QED
        BY <4>2, <4>3, <4>4
    <3>2. QED
      BY <3>1 DEF UnreadIsNext
  <2>3. QED
    BY <2>1, <2>2 DEF Right, FillsInside, SmallReads
<1>8. QED
  BY <1>2, <1>5, <1>6, <1>7

(* The reader ends where Current is.                                       *)
LEMMA EndsHere ==
  ASSUME Held, Ended(current, Position), UNCHANGED <<block, current, base, source, got, who>>,
         dropped' \in BOOLEAN, dropped => dropped',
         todo' \in Nat, pc' \in Places
  PROVE  Held'
<1> USE DEF Held, block, source, Ended
<1>1. TypeOK'
  <2>1. Position \in Int /\ current \in Int
    BY DEF TypeOK, Position
  <2>2. start' \in Int /\ overflow' \in Int /\ limit' \in Int
    BY <2>1
  <2>3. QED
    BY <2>2 DEF TypeOK, Places, Flushing
<1>2. Window'
  BY DEF Window, TypeOK
<1>3. Feed'
  BY DEF Feed, Position
<1>4. Right'
  <2>1. ReadInOrder' /\ FillsInside'
    BY DEF Right, ReadInOrder, FillsInside
  <2>2. Margin' = 0
    BY DEF Margin, TypeOK
  <2>3. UnreadIsNext'
    BY <2>2 DEF UnreadIsNext
  <2>4. start' \in Int /\ overflow' = start'
    BY DEF TypeOK
  <2>5. QED
    BY <2>1, <2>3, <2>4 DEF Right
<1>5. QED
  BY <1>1, <1>2, <1>3, <1>4

(* The reader is broken off.                                               *)
LEMMA BreaksOff ==
  ASSUME TypeOK', dropped', ReadInOrder', Len(got') <= fetched', ~wild',
         eof' => start' = overflow' /\ current' = overflow'
  PROVE  Held'
<1>1. Window'
  BY DEF Window
<1>2. Feed'
  BY DEF Feed
<1>3. Right'
  BY DEF Right, UnreadIsNext, FillsInside
<1>4. QED
  BY <1>1, <1>2, <1>3 DEF Held
-----------------------------------------------------------------------------
(* The actions of the client.                                              *)
LEMMA InitIInv ==
  ASSUME Init
  PROVE  IInv
<1> USE DEF Init
<1>1. TypeOK
  <2>1. mem \in [-prev .. size + Extra - 1 -> Nat]
    OBVIOUS
  <2>2. got \in Seq(Nat) /\ base \in Int /\ total \in Nat /\ fetched \in 0 .. total
    BY ClientAssumption
  <2>3. /\ size \in Nat \ {0} /\ prev \in Nat /\ todo \in Nat
        /\ start \in Int /\ current \in Int /\ overflow \in Int
    OBVIOUS
  <2>4. limit = NoLimit /\ pc = "created" /\ who \in Clients
    OBVIOUS
  <2>5. ~finishing /\ ~eof /\ ~wild /\ ~dropped
    OBVIOUS
  <2>6. /\ finishing \in BOOLEAN /\ eof \in BOOLEAN
        /\ wild \in BOOLEAN /\ dropped \in BOOLEAN
    OBVIOUS
  <2> HIDE DEF Init
  <2>7. QED
    BY <2>1, <2>2, <2>3, <2>4, <2>6 DEF TypeOK
<1>2. Margin = 0 /\ Position = 0 /\ Len(got) = 0 /\ DOMAIN got = {}
  BY DEF Margin, Position
<1>3. Window
  BY DEF Window
<1>4. Feed
  BY <1>2 DEF Feed
<1>5. Right
  BY <1>2 DEF Right, ReadInOrder, UnreadIsNext, FillsInside
<1>6. Place
  BY DEF Place, Running
<1>7. QED
  BY <1>1, <1>3, <1>4, <1>5, <1>6 DEF IInv, Held

LEMMA AfterConstructionKeeps ==
  ASSUME IInv, AfterConstruction, UNCHANGED who
  PROVE  IInv'
<1> USE DEF IInv, AfterConstruction
<1>1. ~dropped /\ todo \in Nat /\ "idle" \in Places
  BY DEF Place, Held, TypeOK, Places
<1>2. CASE Ended(current, Position) /\ dropped'
  <2>1. Held'
    BY <1>1, <1>2, EndsHere DEF result
  <2>2. Place'
    BY <1>2 DEF Place, Running, Ended
  <2>3. QED
    BY <2>1, <2>2
<1>3. CASE Kept /\ UNCHANGED dropped
  <2>1. Held'
    BY <1>1, <1>3, Untouched DEF result, window, Kept
  <2>2. Place'
    BY <1>1, <1>3 DEF Place, Running
  <2>3. QED
    BY <2>1, <2>2
<1>4. QED
  BY <1>2, <1>3

LEMMA ReadKeeps ==
  ASSUME IInv, NEW n \in who.counts, Read(n), UNCHANGED who
  PROVE  IInv' /\ Goes(n)
<1> USE DEF IInv, Read, Reading
<1>1. n \in 0 .. Margin /\ TypeOK
  BY SMTT(40), Client DEF Held, TypeOK, Margin
<1>2. Goes(n)
  BY <1>1, CachedGoes
<1>3. todo' \in Nat /\ pc' \in Places /\ dropped' = dropped
  BY <1>1 DEF TypeOK, Places
<1>4. Held'
  BY <1>1, <1>2, <1>3, Advances
<1>5. Place'
  BY DEF Place, Running
<1>6. QED
  BY <1>2, <1>4, <1>5

LEMMA SkipKeeps ==
  ASSUME IInv, NEW n \in who.skips, Skip(n), UNCHANGED who
  PROVE  IInv' /\ Goes(n)
<1> USE DEF IInv, Skip, Reading
<1>1. n \in 0 .. Margin /\ n \in Nat /\ TypeOK
  BY SMTT(40), Client DEF Held, TypeOK, Margin
<1>2. Goes(n)
  BY <1>1, UnseenGoes DEF TypeOK
<1>3. todo' \in Nat /\ pc' \in Places /\ dropped' = dropped
  BY <1>1 DEF TypeOK, Places
<1>4. Held'
  BY <1>1, <1>2, <1>3, Advances
<1>5. Place'
  BY DEF Place, Running
<1>6. QED
  BY <1>2, <1>4, <1>5

(* OverflowRead: the window is delivered, the rest of the call is within   *)
(* the limit.                                                              *)
LEMMA OverflowReadKeeps ==
  ASSUME IInv, NEW n \in who.counts, OverflowRead(n), UNCHANGED who
  PROVE  IInv' /\ Goes(Margin)
<1> USE DEF IInv, OverflowRead, Reading
<1>1. TypeOK /\ n \in Nat /\ Margin \in Nat /\ Margin < n
  BY SMTT(40), Client DEF Held, TypeOK, Margin, Window
<1>2. Goes(Margin)
  BY SMTT(40), <1>1, CachedGoes
<1>3. todo' \in Nat /\ pc' \in Places /\ dropped' = dropped
  BY <1>1 DEF Places
<1>4. current' = current + Margin
  BY <1>1 DEF TypeOK, Margin
<1>5. Held'
  BY <1>1, <1>2, <1>3, <1>4, Advances
<1>6. Place'
  <2>1. Margin' = 0
    BY <1>1 DEF TypeOK, Margin
  <2>2. SmallReads' => todo' < Size
    BY <1>1 DEF SmallReads, TypeOK
  <2>3. limit' # NoLimit => Position' + todo' <= limit'
    <3>1. Position' + todo' = Position + n
      BY <1>1, <1>4 DEF Position, TypeOK
    <3>2. QED
      BY <3>1 DEF WithinLimit
  <2>4. QED
    BY <2>1, <2>2, <2>3 DEF Place, Running
<1>7. QED
  BY <1>2, <1>5, <1>6

LEMMA CallFlushKeeps ==
  ASSUME IInv, CallFlush, UNCHANGED who
  PROVE  IInv'
<1> USE DEF IInv, CallFlush
<1>1. Held'
  BY Untouched DEF Held, TypeOK, Places, Flushing
<1>2. Place'
  BY DEF Place, Running, result, window, Margin
<1>3. QED
  BY <1>1, <1>2

LEMMA OverrunKeeps ==
  ASSUME IInv, Overrun, UNCHANGED who
  PROVE  IInv' /\ Goes(Margin)
<1> USE DEF IInv, Overrun, Reading
<1>1. TypeOK /\ Margin \in 0 .. Margin /\ Len(got) \in Nat
  BY DEF Held, TypeOK, Margin, Window
<1>2. Held /\ ~dropped /\ got' = got \o Cached(Margin)
  OBVIOUS
<1>3. Goes(Margin)
  BY ONLY <1>1, <1>2, CachedGoes
<1>4. TypeOK'
  BY <1>3 DEF Held, TypeOK, Flushing, block, source, Goes
<1>5. ReadInOrder'
  BY <1>1, <1>3, GoesInOrder DEF Held, Right, TypeOK
<1>6. Len(got') <= fetched' /\ ~wild'
  BY <1>1, <1>3 DEF Held, Feed, Right, FillsInside, Goes, source
<1>7. Held'
  BY <1>4, <1>5, <1>6, BreaksOff
<1>8. Place'
  BY DEF Place, Running
<1>9. QED
  BY <1>3, <1>7, <1>8

(* SetLimit at the very place, or behind it: a limit inside the window     *)
(* cuts it, one behind leaves it full.                                     *)
LEMMA SetLimitKeeps ==
  ASSUME IInv, NEW v \in who.limits, SetLimit(v), UNCHANGED who
  PROVE  IInv'
<1> USE DEF IInv, SetLimit, Reading
<1>1. TypeOK /\ v \in Nat /\ ~who.rest /\ Position \in Int /\ Margin \in Nat
  BY Client DEF Held, TypeOK, Position, Margin, Window
<1>2. CASE v = Position
  <2>1. Held'
    BY <1>1, <1>2, EndsHere DEF TypeOK, Places
  <2>2. Place'
    BY <1>2 DEF Place, Running
  <2>3. QED
    BY <2>1, <2>2
<1>3. CASE v # Position
  <2> DEFINE cut == current + (v - Position)
  <2>1. /\ limit' = v /\ overflow' = Least(overflow, cut) /\ ~eof' /\ ~dropped'
        /\ finishing' = (finishing \/ v - Position <= Margin) /\ start' = start
    BY <1>3
  <2>2. cut \in Int /\ current < cut /\ base + cut = v
    BY <1>1, <1>3 DEF TypeOK, Position
  <2>3. v - Position <= Margin <=> cut <= overflow
    BY SMTT(40), <1>1 DEF TypeOK, Margin
  <2>4. NoLimit # v
    BY <1>1
  <2> HIDE DEF cut
  <2>5. /\ cut <= overflow => overflow' = cut
        /\ ~(cut <= overflow) => overflow' = overflow
    BY <1>1, <2>1, <2>2 DEF Least, TypeOK
  <2>6. /\ cut <= overflow => finishing'
        /\ ~(cut <= overflow) => finishing' = finishing
        /\ finishing' \in BOOLEAN
    BY <1>1, <2>1, <2>3 DEF TypeOK
  <2>7. TypeOK'
    BY <1>1, <2>1, <2>2, <2>5, <2>6 DEF TypeOK, block, source
  <2>8. overflow' \in Int /\ current <= overflow' /\ overflow' <= overflow
    BY <1>1, <2>2, <2>5 DEF TypeOK, Margin
  <2>9. Margin' \in Int /\ Margin' <= Margin
    <3>1. current' = current /\ current \in Int /\ overflow \in Int
      BY <1>1 DEF TypeOK
    <3>2. PICK o \in Int : overflow' = o
      BY <2>8
    <3>3. Margin' = o - current /\ Margin = overflow - current /\ o <= overflow
      BY <2>8, <3>1, <3>2 DEF Margin
    <3>4. QED
      BY <3>1, <3>3
  <2>10. Window'
    BY SMTT(40), <1>1, <2>1, <2>2, <2>4, <2>5, <2>6, <2>8 DEF Held, Window, TypeOK, block
  <2>11. Feed'
    <3>1. Len(got) \in Nat /\ fetched \in Nat /\ Position' = Position /\ Position = Len(got)
      BY <1>1 DEF Held, TypeOK, Feed, Position, source
    <3>2. finishing' => AtLimit' \/ (fetched' = total' /\ fetched' = Len(got') + Margin')
      <4>1. CASE cut <= overflow
        BY <2>1, <2>2, <2>4, <2>5, <4>1 DEF AtLimit
      <4>2. CASE ~(cut <= overflow)
        <5>1. ~finishing
          BY <1>1, <2>3, <4>2 DEF Held, TypeOK, Margin, Position
        <5>2. QED
          BY <2>6, <4>2, <5>1
      <4>3. QED
        BY <4>1, <4>2
    <3>3. ~finishing' => fetched' = Len(got') + Margin'
      <4>1. overflow' = overflow => Margin' = Margin
        BY DEF Margin
      <4>2. QED
        BY <2>1, <2>5, <2>6, <4>1 DEF Held, Feed, source
    <3>4. Len(got') + Margin' <= fetched'
      <4>1. Len(got) + Margin <= fetched
        BY DEF Held, Feed
      <4>2. fetched' = fetched /\ got' = got
        BY DEF source
      <4>3. QED
        BY <1>1, <2>9, <3>1, <4>1, <4>2
    <3>5. QED
      BY <2>1, <3>1, <3>2, <3>3, <3>4 DEF Held, Feed, source
  <2>12. Right'
    <3>1. ReadInOrder' /\ FillsInside'
      BY DEF Held, Right, ReadInOrder, FillsInside, source
    <3>2. \A k \in 0 .. Margin' - 1 : k \in 0 .. Margin - 1
      <4>1. PICK k \in Int : Margin' = k
        BY <2>9
      <4>2. QED
        BY <1>1, <2>9, <4>1, ShorterRange
    <3>3. UnreadIsNext'
      BY <3>2 DEF Held, Right, UnreadIsNext, block
    <3>4. \A i \in start' .. overflow' - 1 : i \in start .. overflow - 1
      BY <1>1, <2>1, <2>8 DEF TypeOK
    <3>5. QED
      BY <2>1, <3>1, <3>3, <3>4 DEF Held, Right, SmallReads, block
  <2>13. Place'
    BY <2>1 DEF Place, Running
  <2>14. QED
    BY <2>7, <2>10, <2>11, <2>12, <2>13 DEF Held
<1>4. QED
  BY <1>2, <1>3

LEMMA SetEOFKeeps ==
  ASSUME IInv, SetEOF, UNCHANGED who
  PROVE  IInv'
<1> USE DEF IInv, SetEOF, Reading
<1>1. Held'
  BY EndsHere DEF Held, TypeOK, Places
<1>2. Place'
  BY DEF Place, Running
<1>3. QED
  BY <1>1, <1>2

-----------------------------------------------------------------------------
(* Flush.                                                                  *)
LEMMA AfterFlushing ==
  /\ After["flush"] = "idle" /\ After["innerFlush"] = "tail" /\ After["skipFlush"] = "skip"
  /\ pc \in Flushing => After[pc] \in Places
BY DEF After, Flushing, Places

(* A flush that is not stopped by PointersAreValid finds the reader whole. *)
LEMMA FlushingWhole ==
  ASSUME IInv, pc \in Flushing, ~dropped
  PROVE  /\ PointersAreValid /\ current <= overflow
         /\ eof => current = overflow
BY DEF IInv, Held, TypeOK, Window, PointersAreValid

LEMMA MayFlushWhole ==
  ASSUME IInv, MayFlush
  PROVE  /\ ~dropped /\ ~eof /\ TypeOK /\ Margin \in Nat /\ Len(got) \in Nat
         /\ who.rest \/ Margin = 0
         /\ limit # NoLimit => ~who.rest /\ Margin = 0
<1>1. current \in Int /\ overflow \in Int /\ TypeOK /\ Len(got) \in Nat
  BY DEF IInv, Held, TypeOK
<1>2. ~dropped
  BY <1>1 DEF IInv, Place, MayFlush, Flushing
<1>3. QED
  BY <1>1, <1>2 DEF IInv, Held, Window, Place, MayFlush, Flushing, Margin

LEMMA FlushRaisesKeeps ==
  ASSUME IInv, FlushRaises, UNCHANGED who
  PROVE  IInv' /\ dropped
<1> USE DEF IInv, FlushRaises
<1>1. dropped
  <2>1. CASE dropped
    BY <2>1
  <2>2. CASE ~dropped
    <3>1. current \in Int /\ overflow \in Int
      BY DEF Held, TypeOK
    <3>2. QED
      BY <2>2, <3>1, FlushingWhole
  <2>3. QED
    BY <2>1, <2>2
<1>2. dropped'
  OBVIOUS
<1>3. Held'
  <2>1. Position \in Int /\ current \in Int
    BY DEF Held, TypeOK, Position
  <2>2. /\ start' \in Int /\ overflow' \in Int /\ limit' \in Int \cup {NoLimit}
        /\ eof' \in BOOLEAN /\ finishing' \in BOOLEAN
    BY <2>1 DEF Held, TypeOK, Kept, Ended
  <2>3. TypeOK'
    BY <1>2, <2>2 DEF Held, TypeOK, block, source
  <2>4. ReadInOrder' /\ Len(got') <= fetched' /\ ~wild'
    BY DEF Held, Right, Feed, FillsInside, ReadInOrder, source
  <2>5. eof' => start' = overflow' /\ current' = overflow'
    BY DEF Held, Window, Kept, Ended
  <2>6. QED
    BY <1>2, <2>3, <2>4, <2>5, BreaksOff
<1>4. Place'
  BY DEF Place, Running
<1>5. QED
  BY <1>1, <1>3, <1>4

LEMMA FlushAtEOFKeeps ==
  ASSUME IInv, FlushAtEOF, UNCHANGED who
  PROVE  IInv'
<1> USE DEF IInv, FlushAtEOF
<1>1. pc = "flush" /\ pc' = "idle"
  BY AfterFlushing DEF Place, Flushing
<1>2. Held'
  BY <1>1, Untouched DEF Held, TypeOK, Places
<1>3. Place'
  BY <1>1 DEF Place, Running, result, window
<1>4. QED
  BY <1>2, <1>3

LEMMA IdleFlushKeeps ==
  ASSUME IInv, IdleFlush, UNCHANGED who
  PROVE  IInv'
<1> USE DEF IInv, IdleFlush
<1>1. ~dropped /\ ~eof /\ TypeOK /\ pc \in Flushing /\ pc' \in Places /\ todo' \in Nat
  BY MayFlushWhole, AfterFlushing DEF MayFlush, TypeOK
<1>2. CASE Margin = 0
  <2>1. Held'
    BY <1>1, <1>2, EndsHere DEF result, TypeOK
  <2>2. eof' /\ ~dropped'
    BY <1>1, <1>2 DEF Ended, result
  <2>3. Place'
    BY <1>1, <2>2, AfterFlushing DEF Place, Running, Flushing, result
  <2>4. QED
    BY <2>1, <2>3
<1>3. CASE Margin # 0
  <2>1. pc = "flush" /\ pc' = "idle"
    BY <1>1, <1>3, AfterFlushing DEF Place, Flushing
  <2>2. Held'
    BY <1>1, <1>3, Untouched DEF window, Kept
  <2>3. Place'
    BY <1>1, <1>3, <2>1 DEF Place, Running, Kept, result
  <2>4. QED
    BY <2>2, <2>3
<1>4. QED
  BY <1>2, <1>3

(* The Previous area has room for the rest, which is moved there whole.    *)
LEMMA RestMoves ==
  ASSUME Held, ~dropped
  PROVE  /\ Margin \in Nat /\ NewPrev \in Nat /\ Margin <= NewPrev
         /\ Rested \in [-NewPrev .. size + Extra - 1 -> Nat]
         /\ \A k \in 0 .. Margin - 1 : Rested[k - Margin] = mem[current + k]
<1>1. /\ size \in Nat \ {0} /\ prev \in Nat /\ current \in Int /\ overflow \in Int
      /\ mem \in [-prev .. size + Extra - 1 -> Nat]
  BY DEF Held, TypeOK
<1>2. -prev <= current /\ current <= overflow /\ overflow <= size
  BY <1>1 DEF Held, Window, TypeOK
<1>3. Margin \in Nat /\ overflow - Margin = current
  BY <1>1, <1>2 DEF Margin
<1>4. NewPrev \in Nat /\ Margin <= NewPrev
  BY SMTT(40), <1>1, <1>3, RoundUpCovers DEF NewPrev, Moves
<1>5. ASSUME NEW i \in -Margin .. -1
      PROVE  overflow + i \in -prev .. size + Extra - 1
  BY <1>1, <1>2, <1>3
<1>6. \A i \in -Margin .. -1 : mem[overflow + i] \in Nat
  BY <1>1, <1>5
<1>7. Rested \in [-NewPrev .. size + Extra - 1 -> Nat]
  BY <1>1, <1>6 DEF Rested
<1>8. ASSUME NEW k \in 0 .. Margin - 1
      PROVE  Rested[k - Margin] = mem[current + k]
  <2>1. k - Margin \in -Margin .. -1 /\ k - Margin \in -NewPrev .. size + Extra - 1
    BY <1>1, <1>3, <1>4
  <2>2. Rested[k - Margin] = mem[overflow + (k - Margin)]
    BY <2>1 DEF Rested
  <2>3. overflow + (k - Margin) = current + k
    BY <1>1, <1>3
  <2>4. QED
    BY <2>2, <2>3
<1>9. QED
  BY <1>3, <1>4, <1>7, <1>8

LEMMA FilledIs ==
  ASSUME NEW old, NEW lo \in Int, NEW hi \in Int, NEW at \in Int, NEW r \in Nat,
         \A i \in DOMAIN old : old[i] \in Nat, fetched \in Nat
  PROVE  /\ Filled(old, lo, hi, at, r) \in [lo .. hi -> Nat]
         /\ \A i \in lo .. hi :
              IF i \in at .. at + r - 1
              THEN Filled(old, lo, hi, at, r)[i] = fetched + 1 + (i - at)
              ELSE i \in DOMAIN old => Filled(old, lo, hi, at, r)[i] = old[i]
<1>1. ASSUME NEW i \in lo .. hi, i \in at .. at + r - 1
      PROVE  fetched + 1 + (i - at) \in Nat
  BY <1>1
<1>2. QED
  BY <1>1 DEF Filled

(* What the limit leaves is what the callback may fill.                    *)
LEMMA SeenIs ==
  ASSUME IInv, MayFlush, NEW pos \in Seen
  PROVE  /\ pos \in Int
         /\ limit # NoLimit => pos = Position /\ Position <= limit
<1>1. /\ ~dropped /\ ~eof /\ TypeOK /\ Margin \in Nat
      /\ limit # NoLimit => ~who.rest /\ Margin = 0
  BY MayFlushWhole
<1>2. Position \in Int
  BY <1>1 DEF TypeOK, Position
<1>3. pos \in Int
  BY <1>2, ClientAssumption DEF Seen
<1>4. ASSUME limit # NoLimit
      PROVE  pos = Position /\ Position <= limit
  <2>1. ~Moves
    BY <1>1, <1>4 DEF Moves, TypeOK
  <2>2. base + overflow <= limit /\ overflow = current
    BY <1>1, <1>4 DEF IInv, Held, Window, TypeOK, Margin
  <2>3. QED
    BY <2>1, <2>2 DEF Seen, Position
<1>5. QED
  BY <1>3, <1>4

LEMMA FlushSizeFits ==
  ASSUME IInv, MayFlush, NEW pos \in Seen
  PROVE  /\ FlushSize(pos) \in 0 .. size
         /\ LimitCuts(pos) => /\ limit \in Int /\ limit # NoLimit /\ ~who.rest
                              /\ pos = Position /\ FlushSize(pos) = limit - Position
         /\ ~LimitCuts(pos) => FlushSize(pos) = size
         /\ limit # NoLimit => Position + FlushSize(pos) <= limit
<1>1. /\ TypeOK /\ pos \in Int
      /\ limit # NoLimit => ~who.rest /\ pos = Position /\ Position <= limit
  BY SeenIs, MayFlushWhole
<1>2. size \in Nat \ {0} /\ (limit # NoLimit => limit \in Int) /\ Position \in Int
  BY <1>1 DEF TypeOK, Position
<1>3. QED
  BY <1>1, <1>2 DEF FlushSize, LimitCuts

(* The next bytes of the source follow the rest.                           *)
LEMMA FlushKeeps ==
  ASSUME IInv, Flush, UNCHANGED who
  PROVE  /\ IInv'
         /\ limit # NoLimit => fetched' <= limit
         /\ ~dropped' /\ eof' => Len(got) = total \/ (limit # NoLimit /\ Len(got) = limit)
         /\ ~dropped' /\ ~eof' => limit' = limit
<1>1. /\ ~dropped /\ ~eof /\ TypeOK /\ Margin \in Nat /\ Len(got) \in Nat
      /\ who.rest \/ Margin = 0
      /\ limit # NoLimit => ~who.rest /\ Margin = 0
      /\ MayFlush /\ ~finishing /\ pc \in Flushing
  BY MayFlushWhole DEF Flush, MayFlush
<1>2. /\ size \in Nat \ {0} /\ prev \in Nat /\ total \in Nat /\ fetched \in 0 .. total
      /\ current \in Int /\ overflow \in Int /\ base \in Int /\ todo \in Nat
      /\ limit \in Int \cup {NoLimit} /\ got \in Seq(Nat) /\ who \in Clients
  BY <1>1 DEF TypeOK
<1>3. /\ fetched = Len(got) + Margin /\ Size <= size /\ ~wild
      /\ ~who.rest => Position = Len(got)
      /\ Position \in Int
  BY <1>1, <1>2 DEF IInv, Held, Feed, Window, Right, FillsInside, Position
<1>0. PICK pos \in Seen, cancel \in Cancels :
       LET n    == FlushSize(pos)
           r    == Answer(n)
           last == LimitCuts(pos) \/ r < n
       IN  /\ mem' = Filled(Rested, -NewPrev, size + Extra - 1, 0, r)
           /\ prev' = NewPrev
           /\ fetched' = fetched + r
           /\ wild' = (wild \/ n \notin 0 .. size)
           /\ current' = -Margin
           /\ base' = NewBase
           /\ IF cancel \/ EndsNow(last, r) THEN Ended(-Margin, NewBase - Margin)
              ELSE /\ start' = NewStart /\ overflow' = r
                   /\ finishing' = last
                   /\ UNCHANGED <<limit, eof>>
           /\ dropped' = (dropped \/ cancel)
  BY DEF Flush
<1> DEFINE n    == FlushSize(pos)
           r    == Answer(n)
           last == LimitCuts(pos) \/ r < n
           ends == cancel \/ EndsNow(last, r)
<1>4. /\ mem' = Filled(Rested, -NewPrev, size + Extra - 1, 0, r) /\ prev' = NewPrev
      /\ fetched' = fetched + r /\ wild' = (wild \/ n \notin 0 .. size)
      /\ current' = -Margin /\ base' = Position /\ dropped' = (dropped \/ cancel)
      /\ pc' = After[pc] /\ UNCHANGED <<size, todo, total, got>>
  BY <1>0 DEF Flush, NewBase
<1>5. ends => /\ start' = -Margin /\ overflow' = -Margin /\ eof' /\ eof' \in BOOLEAN
              /\ finishing' = FALSE /\ limit' = Position - Margin
  BY <1>0 DEF Ended, NewBase
<1>6. ~ends => /\ start' = -Margin /\ overflow' = r /\ finishing' = last
               /\ limit' = limit /\ eof' = eof
  BY <1>0 DEF NewStart
<1>7. /\ n \in 0 .. size
      /\ LimitCuts(pos) => /\ limit \in Int /\ limit # NoLimit /\ ~who.rest
                           /\ n = limit - Position
      /\ ~LimitCuts(pos) => n = size
      /\ limit # NoLimit => Position + n <= limit
  BY <1>1, FlushSizeFits
<1> HIDE DEF n
<1>8. /\ r \in 0 .. n /\ fetched + r \in fetched .. total
      /\ r < n => fetched + r = total
  <2>1. n \in Nat
    BY <1>2, <1>7
  <2>2. QED
    BY <1>2, <2>1, AnswerFits
<1>9. cancel \in BOOLEAN
  BY DEF Cancels
<1>10. last \in BOOLEAN /\ ends \in BOOLEAN
  BY <1>9 DEF EndsNow
<1>11. EndsNow(last, r) <=> last /\ Margin = 0 /\ r = 0
  BY <1>1, <1>7, <1>8 DEF EndsNow
<1>12. last <=> LimitCuts(pos) \/ r < n
  OBVIOUS
<1>13. ends <=> cancel \/ EndsNow(last, r)
  OBVIOUS
<1> HIDE DEF r, last, ends
<1>14. /\ NewPrev \in Nat /\ Margin <= NewPrev
       /\ Rested \in [-NewPrev .. size + Extra - 1 -> Nat]
       /\ \A k \in 0 .. Margin - 1 : Rested[k - Margin] = mem[current + k]
  BY <1>1, RestMoves DEF IInv
<1>15. /\ mem' \in [-NewPrev .. size + Extra - 1 -> Nat]
       /\ \A i \in -NewPrev .. size + Extra - 1 :
            IF i \in 0 .. r - 1 THEN mem'[i] = fetched + 1 + i
            ELSE mem'[i] = Rested[i]
  <2>1. \A i \in DOMAIN Rested : Rested[i] \in Nat
    BY <1>14
  <2>2. /\ -NewPrev \in Int /\ size + Extra - 1 \in Int /\ r \in Nat /\ fetched \in Nat
        /\ 0 + r - 1 = r - 1
    BY <1>2, <1>7, <1>8, <1>14
  <2>3. /\ mem' \in [-NewPrev .. size + Extra - 1 -> Nat]
        /\ \A i \in -NewPrev .. size + Extra - 1 :
             IF i \in 0 .. 0 + r - 1 THEN mem'[i] = fetched + 1 + (i - 0)
             ELSE i \in DOMAIN Rested => mem'[i] = Rested[i]
    BY <1>4, <2>1, <2>2, FilledIs
  <2>4. DOMAIN Rested = -NewPrev .. size + Extra - 1
    BY <1>14
  <2>5. QED
    BY <2>2, <2>3, <2>4
<1>16. wild' = FALSE /\ dropped' \in BOOLEAN /\ (dropped' <=> cancel)
  BY <1>1, <1>3, <1>4, <1>7
<1>17. TypeOK'
  <2>1. start' \in Int /\ overflow' \in Int /\ current' \in Int /\ base' \in Int
    BY <1>1, <1>3, <1>4, <1>5, <1>6, <1>7, <1>8, <1>10
  <2>2. limit' \in Int \cup {NoLimit} /\ eof' \in BOOLEAN /\ finishing' \in BOOLEAN
    <3>1. Position - Margin \in Int /\ eof \in BOOLEAN /\ last \in BOOLEAN
      BY <1>1, <1>3, <1>10 DEF TypeOK
    <3>2. QED
      BY <1>2, <1>5, <1>6, <3>1
  <2>3. pc' \in Places
    BY <1>1, <1>4, AfterFlushing
  <2>4. fetched' \in 0 .. total' /\ size' = size /\ prev' = NewPrev /\ todo' = todo
        /\ total' = total /\ got' = got /\ who' = who
    BY <1>2, <1>4, <1>8
  <2>5. QED
    BY <1>2, <1>14, <1>15, <1>16, <2>1, <2>2, <2>3, <2>4 DEF TypeOK, Places
<1>18. /\ got' = got /\ Len(got') = Len(got) /\ ReadInOrder' /\ FillsInside'
       /\ Len(got') <= fetched'
  <2>1. got' = got /\ fetched' = fetched + r
    BY <1>4
  <2>2. ReadInOrder'
    BY <2>1 DEF IInv, Held, Right, ReadInOrder
  <2>3. Len(got) <= fetched + r
    BY <1>1, <1>2, <1>3, <1>8
  <2>4. QED
    BY <1>16, <2>1, <2>2, <2>3 DEF FillsInside
<1>19. /\ pc' = "tail" => pc = "innerFlush"
       /\ pc' = "skip" => pc = "skipFlush"
       /\ pc' \in {"idle", "tail", "skip"}
  BY <1>1, <1>4, AfterFlushing DEF Flushing
<1>20. limit # NoLimit => fetched' <= limit
  <2>1. ASSUME limit # NoLimit
        PROVE  fetched + r <= limit
    BY <1>1, <1>2, <1>3, <1>7, <1>8, <2>1
  <2>2. QED
    BY <1>4, <2>1
<1>21. CASE dropped'
  <2>1. ends /\ eof'
    BY <1>5, <1>13, <1>16, <1>21
  <2>2. Held'
    BY <1>4, <1>5, <1>16, <1>17, <1>18, <1>21, <2>1, BreaksOff
  <2>3. Place'
    BY <1>4, <1>19, <1>21, <2>1 DEF IInv, Place, Running
  <2>4. QED
    BY <1>20, <1>21, <2>2, <2>3 DEF IInv
<1>22. CASE ~dropped' /\ ends
  <2>1. /\ Margin = 0 /\ r = 0 /\ last /\ eof'
        /\ start' = 0 /\ overflow' = 0 /\ current' = 0 /\ base' = Position
    BY <1>4, <1>5, <1>11, <1>13, <1>16, <1>22
  <2>2. Margin' = 0 /\ Position' = Position
    BY <1>3, <2>1 DEF Margin, Position
  <2>3. Window'
    <3>1. size' = size /\ 0 <= size
      BY <1>2, <1>4
    <3>2. PICK p \in Nat : prev' = p
      BY <1>4, <1>14
    <3>3. -p <= 0
      OBVIOUS
    <3>4. QED
      BY <2>1, <3>1, <3>2, <3>3 DEF Window
  <2>4. Feed'
    BY <1>3, <1>4, <1>18, <2>1, <2>2 DEF Feed
  <2>5. Right'
    BY <1>18, <2>1, <2>2 DEF Right, UnreadIsNext
  <2>6. Place'
    BY <1>4, <1>19, <1>22, <2>1 DEF IInv, Place, Running
  <2>7. Len(got) = total \/ (limit # NoLimit /\ Len(got) = limit)
    <3>1. CASE r < n
      BY <1>1, <1>2, <1>3, <1>8, <2>1, <3>1
    <3>2. CASE ~(r < n)
      BY <1>1, <1>2, <1>3, <1>7, <1>8, <1>12, <2>1, <3>2
    <3>3. QED
      BY <3>1, <3>2
  <2>8. QED
    BY <1>17, <1>20, <2>1, <2>3, <2>4, <2>5, <2>6, <2>7 DEF IInv, Held
<1>23. CASE ~ends
  <2>1. /\ start' = -Margin /\ overflow' = r /\ current' = -Margin /\ base' = Position
        /\ finishing' = last /\ limit' = limit /\ ~eof' /\ ~dropped' /\ size' = size
        /\ prev' = NewPrev /\ fetched' = fetched + r /\ total' = total /\ who' = who
    BY <1>1, <1>4, <1>6, <1>13, <1>16, <1>23
  <2>2. Margin' = r + Margin /\ Position' = Position - Margin
    <3>1. r \in Nat
      BY <1>2, <1>7, <1>8
    <3>2. Margin' = r - (-Margin) /\ Position' = Position + (-Margin)
      BY <2>1 DEF Margin, Position
    <3>3. QED
      BY <1>1, <1>3, <3>1, <3>2
  <2>3. r \in Nat /\ r <= size /\ n \in Nat
    BY <1>2, <1>7, <1>8
  <2>4. ~last => r = size
    BY <1>7, <1>8, <1>12, <2>3
  <2>5. Window'
    <3>1. -NewPrev <= -Margin /\ -Margin <= r /\ r <= size /\ 0 <= r
      BY <1>1, <1>14, <2>3
    <3>2. ~who.rest => 0 <= -Margin
      BY <1>1
    <3>3. limit # NoLimit => Position + r <= limit
      BY <1>1, <1>2, <1>3, <1>7, <1>8, <2>3
    <3>4. QED
      BY <1>1, <1>3, <2>1, <2>4, <3>1, <3>2, <3>3 DEF Window
  <2>6. Feed'
    <3>1. fetched + r = Len(got) + (r + Margin)
      BY <1>1, <1>3, <2>3
    <3>2. last => (limit # NoLimit /\ Position + r = limit) \/ fetched + r = total
      BY <1>3, <1>7, <1>8, <1>12, <2>3
    <3>3. ~who.rest => Position - Margin = Len(got)
      BY <1>1, <1>3
    <3>4. QED
      BY <1>18, <2>1, <2>2, <3>1, <3>2, <3>3 DEF Feed, AtLimit
  <2>7. Right'
    <3>1. ASSUME NEW k \in 0 .. r + Margin - 1
          PROVE  mem'[k - Margin] = Len(got) + 1 + k
      <4>1. k - Margin \in -NewPrev .. size + Extra - 1
        BY <1>1, <1>2, <1>14, <2>3
      <4>2. CASE k < Margin
        <5>1. mem'[k - Margin] = Rested[k - Margin]
          BY <1>1, <1>15, <4>1, <4>2
        <5>2. k \in 0 .. Margin - 1
          BY <1>1, <2>3, <4>2
        <5>3. mem[current + k] = Len(got) + 1 + k
          BY <1>1, <5>2 DEF IInv, Held, Right, UnreadIsNext
        <5>4. QED
          BY <1>14, <5>1, <5>2, <5>3
      <4>3. CASE k >= Margin
        <5>1. k - Margin \in 0 .. r - 1
          BY <1>1, <2>3, <4>3
        <5>2. mem'[k - Margin] = fetched + 1 + (k - Margin)
          BY <1>15, <4>1, <5>1
        <5>3. QED
          BY <1>1, <1>3, <2>3, <5>2
      <4>4. QED
        BY <1>1, <2>3, <4>2, <4>3
    <3>2. UnreadIsNext'
      <4>1. PICK m \in Nat : m = r + Margin
        BY <1>1, <2>3
      <4>2. ASSUME NEW k \in 0 .. m - 1
            PROVE  mem'[current' + k] = Len(got') + 1 + k
        <5>1. k \in 0 .. r + Margin - 1 /\ -Margin + k = k - Margin
          BY <1>1, <2>3, <4>1
        <5>2. QED
          BY <1>18, <2>1, <3>1, <5>1
      <4>3. Margin' = m
        BY <2>2, <4>1
      <4>4. QED
        BY <4>2, <4>3 DEF UnreadIsNext
    <3>3. ASSUME ~who.rest, NEW i \in -Margin .. r - 1
          PROVE  mem'[i] = Position + 1 + i
      <4>1. Margin = 0 /\ Position = Len(got)
        BY <1>1, <1>3, <3>3
      <4>2. i \in 0 .. r + Margin - 1 /\ i - Margin = i
        BY <2>3, <4>1
      <4>3. mem'[i - Margin] = Len(got) + 1 + i
        BY <3>1, <4>2
      <4>4. QED
        BY <4>1, <4>2, <4>3
    <3>4. QED
      BY <1>18, <2>1, <3>2, <3>3 DEF Right
  <2>8. Place'
    <3>1. ASSUME pc' = "skip"
          PROVE  -Margin = 0 /\ todo % size = 0 /\ todo > 0
      <4>1. Margin <= 0 /\ todo % size = 0 /\ todo > 0
        BY <1>1, <1>19, <3>1 DEF IInv, Place, Running
      <4>2. -Margin = 0
        BY <1>1, <4>1
      <4>3. QED
        BY <4>1, <4>2
    <3>2. pc' = "tail" => todo > 0
      BY <1>19 DEF IInv, Place, Running
    <3>3. ASSUME pc' \in {"tail", "skip"}, limit # NoLimit
          PROVE  Position - Margin + todo <= limit
      <4>1. Position + todo <= limit /\ Margin = 0
        BY <1>1, <1>19, <3>3 DEF IInv, Place, Running
      <4>2. QED
        BY <1>2, <1>3, <4>1
    <3>4. todo' = todo
      BY <1>4
    <3>5. QED
      BY <1>19, <2>1, <2>2, <3>1, <3>2, <3>3, <3>4 DEF Place, Running
  <2>9. QED
    BY <1>17, <1>20, <2>1, <2>5, <2>6, <2>7, <2>8 DEF IInv, Held
<1>24. QED
  BY <1>21, <1>22, <1>23

LEMMA FlushFailsKeeps ==
  ASSUME IInv, FlushFails, UNCHANGED who
  PROVE  IInv' /\ dropped'
<1>1. ~dropped /\ TypeOK /\ MayFlush
  BY MayFlushWhole DEF FlushFails
<1>2. PICK pos \in Seen :
        /\ wild' = (wild \/ FlushSize(pos) \notin 0 .. size)
        /\ current' = pos - base
        /\ Ended(pos - base, pos)
  BY DEF FlushFails
<1>3. /\ mem' = Rested /\ prev' = NewPrev /\ dropped' = TRUE
      /\ pc' = "idle" /\ todo' = 0
      /\ UNCHANGED <<size, base, total, fetched, got>>
  BY DEF FlushFails
<1>4. pos \in Int /\ base \in Int /\ pos - base \in Int
  BY <1>1, SeenIs DEF TypeOK
<1>5. /\ eof' = TRUE /\ finishing' = FALSE
      /\ start' = pos - base /\ overflow' = pos - base /\ limit' = pos
  BY <1>2 DEF Ended
<1>6. wild' = FALSE
  BY <1>1, <1>2, FlushSizeFits DEF IInv, Held, Right, FillsInside
<1>7. TypeOK'
  <2>1. mem' \in [-prev' .. size' + Extra - 1 -> Nat] /\ prev' \in Nat
    BY <1>1, <1>3, RestMoves DEF IInv
  <2>2. start' \in Int /\ overflow' \in Int /\ limit' \in Int /\ current' \in Int
    BY <1>2, <1>4, <1>5
  <2>3. QED
    BY <1>1, <1>3, <1>5, <1>6, <2>1, <2>2 DEF TypeOK
<1>8. ReadInOrder' /\ Len(got') <= fetched'
  BY <1>3 DEF IInv, Held, Right, Feed, ReadInOrder
<1>9. Held'
  BY <1>2, <1>3, <1>5, <1>6, <1>7, <1>8, BreaksOff
<1>10. Place'
  BY <1>3 DEF Place, Running
<1>11. QED
  BY <1>3, <1>9, <1>10 DEF IInv
-----------------------------------------------------------------------------
(* The rest of OverflowRead.                                               *)

(* While bytes are missing, the source is read on from where the client    *)
(* is: nothing waits in the window, and the limit is not reached.          *)
LEMMA DirectWhole ==
  ASSUME IInv, pc = "direct", todo >= size
  PROVE  /\ TypeOK /\ ~dropped /\ ~eof /\ Margin = 0 /\ fetched = Len(got)
         /\ Len(got) \in Nat /\ Position \in Int /\ Page \in size .. todo /\ Page \in Nat \ {0}
         /\ limit # NoLimit => /\ limit \in Int /\ Position = fetched
                               /\ fetched + todo <= limit
         /\ fetched < total => ~finishing /\ ~SmallReads
<1>1. /\ TypeOK /\ todo \in Nat /\ size \in Nat \ {0} /\ Len(got) \in Nat
      /\ Position \in Int /\ base \in Int /\ overflow \in Int /\ current \in Int
      /\ limit \in Int \cup {NoLimit} /\ fetched \in Nat /\ total \in Nat
  BY DEF IInv, Held, TypeOK, Position
<1>2. Margin = 0 /\ ~eof
  BY <1>1 DEF IInv, Place
<1>3. ~dropped
  BY <1>2 DEF IInv, Place
<1>4. limit # NoLimit => limit \in Int /\ Position + todo <= limit /\ Position = Len(got)
  BY <1>1, <1>2, <1>3 DEF IInv, Held, Window, Feed, Place, Running
<1>5. Position = base + overflow
  BY <1>1, <1>2 DEF Position, Margin
<1>6. ~AtLimit
  BY <1>1, <1>4, <1>5 DEF AtLimit
<1>7. fetched = Len(got) /\ (finishing => fetched = total)
  BY <1>1, <1>2, <1>3, <1>6 DEF IInv, Held, Feed
<1>8. Page \in size .. todo
  BY <1>1, PageFits
<1>9. SmallReads => todo < Size
  BY <1>3 DEF IInv, Place
<1>10. ~finishing => Size <= size
  BY <1>2, <1>3 DEF IInv, Held, Window
<1>11. fetched < total => ~finishing
  BY <1>1, <1>7
<1>12. fetched < total => ~SmallReads
  BY <1>1, <1>9, <1>10, <1>11
<1>13. Page \in Nat \ {0}
  BY <1>1, <1>8
<1>14. limit # NoLimit => Position = fetched /\ fetched + todo <= limit
  BY <1>4, <1>7
<1>15. QED
  BY <1>1, <1>2, <1>3, <1>4, <1>7, <1>8, <1>11, <1>12, <1>13, <1>14

LEMMA DirectKeeps ==
  ASSUME IInv, Direct, UNCHANGED who
  PROVE  /\ IInv' /\ Goes(Page)
         /\ limit # NoLimit => fetched' <= limit
         /\ ~dropped' => limit' = limit /\ ~eof'
<1>1. /\ TypeOK /\ ~dropped /\ ~eof /\ Margin = 0 /\ fetched = Len(got)
      /\ Len(got) \in Nat /\ Position \in Int /\ Page \in size .. todo /\ Page \in Nat \ {0}
      /\ limit # NoLimit => /\ limit \in Int /\ Position = fetched
                            /\ fetched + todo <= limit
      /\ fetched < total => ~finishing /\ ~SmallReads
  BY DirectWhole DEF Direct
<1>2. /\ size \in Nat \ {0} /\ todo \in Nat /\ total \in Nat /\ fetched \in 0 .. total
      /\ current \in Int /\ overflow \in Int /\ base \in Int /\ got \in Seq(Nat)
      /\ limit \in Int \cup {NoLimit}
  BY <1>1 DEF TypeOK
<1>3. fetched + Page \in 0 .. total /\ fetched < total
  <2>1. Answer(Page) = Page
    BY DEF Direct
  <2>2. fetched + Page \in fetched .. total
    BY <1>1, <1>2, <2>1, AnswerFits
  <2>3. QED
    BY <1>1, <1>2, <2>2
<1>4. ~finishing /\ ~SmallReads
  BY <1>1, <1>3
<1>5. Goes(Page)
  BY <1>1, <1>2, BytesGo DEF Direct
<1>6. PICK cancel \in Cancels :
        /\ IF cancel /\ ~eof
           THEN Ended(current, base + Page + current) ELSE Kept
        /\ dropped' = (dropped \/ cancel)
  BY DEF Direct
<1>7. cancel \in BOOLEAN /\ (cancel => who.progress # "none")
  BY DEF Cancels
<1>8. dropped' = cancel
  BY <1>1, <1>6, <1>7
<1>9. /\ mem' = mem /\ size' = size /\ prev' = prev /\ current' = current
      /\ total' = total /\ wild' = wild /\ fetched' = fetched + Page /\ base' = base + Page
  BY DEF Direct, block
<1>10. CASE cancel
  <2>1. /\ eof' = TRUE /\ finishing' = FALSE /\ start' = current /\ overflow' = current
        /\ limit' = base + Page + current
    BY <1>1, <1>6, <1>10 DEF Ended
  <2>2. /\ todo' = 0 /\ pc' \in {"idle", "direct"}
    <3>1. CASE todo = Page
      BY <1>2, <2>1, <3>1 DEF Direct
    <3>2. CASE todo # Page
      BY <1>7, <1>10, <2>1, <3>2 DEF Direct
    <3>3. QED
      BY <3>1, <3>2
  <2>3. TypeOK'
    <3>1. base + Page \in Int /\ base + Page + current \in Int
      BY <1>1, <1>2
    <3>2. got' \in Seq(Nat)
      BY <1>5 DEF Goes
    <3>3. dropped' \in BOOLEAN
      BY <1>7, <1>8
    <3>4. pc' \in Places /\ todo' \in Nat /\ fetched' \in 0 .. total'
      BY <1>3, <1>9, <2>2 DEF Places
    <3>5. QED
      BY <1>1, <1>9, <2>1, <3>1, <3>2, <3>3, <3>4 DEF TypeOK, Places
  <2>4. ReadInOrder'
    BY <1>1, <1>2, <1>5, GoesInOrder DEF IInv, Held, Right
  <2>5. Len(got') <= fetched'
    BY <1>1, <1>2, <1>5, <1>9 DEF Goes
  <2>6. ~wild'
    BY <1>9 DEF IInv, Held, Right, FillsInside
  <2>7. Held'
    BY <1>8, <1>9, <1>10, <2>1, <2>3, <2>4, <2>5, <2>6, BreaksOff
  <2>8. Margin' = 0
    BY <1>2, <1>9, <2>1 DEF Margin
  <2>9. Place'
    BY <1>8, <1>10, <2>1, <2>2, <2>8 DEF Place, Running
  <2>10. fetched + Page <= limit \/ limit = NoLimit
    BY <1>1, <1>2
  <2>11. QED
    BY <1>5, <1>8, <1>9, <1>10, <2>7, <2>9, <2>10 DEF IInv
<1>11. CASE ~cancel
  <2>1. UNCHANGED <<start, overflow, limit, finishing, eof>> /\ ~dropped'
    BY <1>1, <1>6, <1>8, <1>11 DEF Kept
  <2>2. todo' = todo - Page /\ pc' = "direct"
    BY <1>1, <2>1 DEF Direct
  <2>3. todo - Page \in Nat
    BY <1>1, <1>2
  <2>4. Margin' = 0 /\ Position' = Position + Page
    BY <1>1, <1>2, <1>9, <2>1 DEF Margin, Position
  <2>5. Len(got') = Len(got) + Page /\ got' \in Seq(Nat)
    BY <1>5 DEF Goes
  <2>6. limit # NoLimit => fetched + Page <= limit /\ Position + Page <= limit
    BY <1>1, <1>2
  <2>7. base + overflow = Position
    BY <1>1, <1>2 DEF Position, Margin
  <2>8. TypeOK'
    <3>1. base + Page \in Int
      BY <1>1, <1>2
    <3>2. pc' \in Places /\ todo' \in Nat /\ fetched' \in 0 .. total'
      BY <1>3, <1>9, <2>2, <2>3 DEF Places
    <3>3. dropped' = FALSE
      BY <1>7, <1>8, <1>11
    <3>4. QED
      BY <1>1, <1>9, <2>1, <2>5, <3>1, <3>2, <3>3 DEF TypeOK, Places
  <2>9. Window'
    <3>1. base + Page + overflow = Position + Page
      BY <1>1, <1>2, <2>7
    <3>2. QED
      BY <1>1, <1>9, <2>1, <2>6, <3>1 DEF IInv, Held, Window
  <2>10. Feed'
    <3>1. fetched + Page = Len(got') + 0
      BY <1>1, <1>2, <2>5
    <3>2. ~who.rest => Position + Page = Len(got) + Page
      BY <1>1 DEF IInv, Held, Feed
    <3>3. Len(got') <= fetched + Page
      BY <1>1, <1>2, <2>5
    <3>4. QED
      BY <1>4, <1>9, <2>1, <2>4, <2>5, <3>1, <3>2, <3>3 DEF Feed
  <2>11. Right'
    <3>1. ReadInOrder'
      BY <1>1, <1>2, <1>5, GoesInOrder DEF IInv, Held, Right
    <3>2. ~SmallReads'
      BY <1>4 DEF SmallReads
    <3>3. QED
      BY <1>9, <2>4, <3>1, <3>2 DEF IInv, Held, Right, UnreadIsNext, FillsInside
  <2>12. Place'
    <3>1. limit # NoLimit => Position + Page + (todo - Page) <= limit
      BY <1>1, <1>2
    <3>2. ~SmallReads'
      BY <1>4 DEF SmallReads
    <3>3. QED
      BY <1>1, <2>1, <2>2, <2>4, <3>1, <3>2 DEF Place, Running
  <2>13. QED
    BY <1>1, <1>5, <1>9, <2>1, <2>6, <2>8, <2>9, <2>10, <2>11, <2>12 DEF IInv, Held
<1>12. QED
  BY <1>7, <1>10, <1>11

LEMMA DirectFailsKeeps ==
  ASSUME IInv, DirectFails, UNCHANGED who
  PROVE  /\ IInv' /\ ~dropped /\ dropped'
         /\ limit # NoLimit => fetched' <= limit
<1>1. /\ TypeOK /\ ~dropped /\ ~eof /\ fetched = Len(got)
      /\ Len(got) \in Nat /\ Page \in size .. todo /\ Page \in Nat \ {0}
      /\ limit # NoLimit => limit \in Int /\ fetched + todo <= limit
  BY DirectWhole DEF DirectFails
<1>2. /\ fetched' = fetched + Answer(Page) /\ dropped' = TRUE /\ pc' = "idle" /\ todo' = 0
      /\ UNCHANGED <<block, window, total, wild, got>>
  BY DEF DirectFails
<1>3. total \in Nat /\ fetched \in 0 .. total /\ todo \in Nat /\ size \in Nat
  BY <1>1 DEF TypeOK
<1>4. Answer(Page) \in 0 .. Page /\ fetched + Answer(Page) \in fetched .. total
  BY <1>1, <1>3, AnswerFits
<1>5. TypeOK'
  BY SMTT(40), <1>1, <1>2, <1>3, <1>4 DEF TypeOK, block, window
<1>6. Len(got) <= fetched + Answer(Page)
  BY <1>1, <1>3, <1>4
<1>7. Held'
  BY <1>1, <1>2, <1>5, <1>6, BreaksOff DEF IInv, Held, Right, ReadInOrder, FillsInside, window
<1>8. Place'
  BY <1>2 DEF Place, Running
<1>9. limit # NoLimit => fetched + Answer(Page) <= limit
  BY <1>1, <1>3, <1>4
<1>10. QED
  BY <1>1, <1>2, <1>7, <1>8, <1>9 DEF IInv

LEMMA RemainderKeeps ==
  ASSUME IInv, Remainder, UNCHANGED who
  PROVE  IInv'
<1> USE DEF IInv, Remainder
<1>1. todo \in Nat /\ pc' \in Places
  BY DEF Held, TypeOK, Places, Flushing
<1>2. Held'
  BY <1>1, Untouched
<1>3. Place'
  BY <1>1 DEF Place, Running, window, result, block, Position, Margin
<1>4. QED
  BY <1>2, <1>3

LEMMA ReadTailKeeps ==
  ASSUME IInv, ReadTail, UNCHANGED who
  PROVE  /\ IInv' /\ Goes(todo) /\ ~eof /\ ~dropped
<1> USE DEF IInv, ReadTail
<1>1. todo \in Nat /\ todo > 0 /\ current \in Int /\ overflow \in Int
  BY DEF Held, TypeOK, Place, Running
<1>2. ~eof
  BY <1>1 DEF Held, Window, Margin
<1>3. ~dropped
  BY <1>2 DEF Place
<1>4. todo \in 0 .. Margin
  BY <1>1 DEF Margin
<1>5. Held /\ got' = got \o Cached(todo)
  OBVIOUS
<1>6. Goes(todo)
  BY ONLY <1>3, <1>4, <1>5, CachedGoes
<1>7. todo' \in Nat /\ pc' \in Places /\ dropped' = dropped
  BY DEF Places
<1>8. Held'
  BY <1>2, <1>3, <1>4, <1>6, <1>7, Advances
<1>9. Place'
  BY <1>2, <1>3, <1>7 DEF Place, Running
<1>10. QED
  BY <1>2, <1>3, <1>6, <1>8, <1>9

LEMMA ReadTailFailsKeeps ==
  ASSUME IInv, ReadTailFails, UNCHANGED who
  PROVE  IInv'
<1> USE DEF IInv, ReadTailFails
<1>1. TypeOK'
  BY DEF Held, TypeOK, block, window, source
<1>2. Held'
  BY <1>1, BreaksOff DEF Held, Window, Feed, Right, ReadInOrder, FillsInside, window, source
<1>3. Place'
  BY DEF Place, Running
<1>4. QED
  BY <1>2, <1>3

-----------------------------------------------------------------------------
(* OverflowSkip passes over whole windows, or over the last one.           *)
LEMMA PassOverKeeps ==
  ASSUME IInv, ~dropped, ~eof, NEW n \in Nat, PassOver(n), Margin <= n, UNCHANGED who,
         ~finishing /\ Margin < n => (n - Margin) % size = 0,
         limit # NoLimit => Position + n <= limit
  PROVE  IInv' /\ Goes(Margin) /\ ~eof'
<1> USE DEF IInv
<1>1. TypeOK /\ Margin \in 0 .. Margin /\ Margin \in Nat
  BY DEF Held, TypeOK, Window, Margin
<1>2. Least(Margin, n) = Margin
  BY <1>1 DEF Least
<1>3. /\ got' = got \o Unseen(Margin) /\ current' = overflow /\ todo' = n - Margin
      /\ pc' = (IF Margin = n THEN "idle" ELSE "skipFlush")
      /\ UNCHANGED <<block, start, overflow, base, limit, finishing, eof, source, dropped>>
  BY <1>2 DEF PassOver
<1>4. Goes(Margin)
  BY <1>1, <1>3, UnseenGoes DEF TypeOK
<1>5. n - Margin \in Nat /\ (Margin # n => n - Margin > 0 /\ Margin < n)
  BY <1>1
<1>6. todo' \in Nat /\ pc' \in Places /\ current' = current + Margin
  BY <1>1, <1>3, <1>5 DEF Places, Flushing, Margin, TypeOK
<1>7. Held'
  BY <1>1, <1>3, <1>4, <1>6, Advances
<1>8. Place'
  <2>1. Margin' = 0
    BY <1>1, <1>3 DEF Margin, TypeOK
  <2>2. limit # NoLimit => Position' + todo' <= limit
    <3>1. Position' + todo' = Position + n
      BY <1>1, <1>3, <1>6 DEF Position, TypeOK
    <3>2. QED
      BY <3>1
  <2>3. size' = size
    BY <1>3 DEF block
  <2>4. CASE Margin = n
    BY <1>3, <2>4 DEF Place, Running
  <2>5. CASE Margin # n
    BY <1>3, <1>5, <2>1, <2>2, <2>3, <2>5 DEF Place, Running
  <2>6. QED
    BY <2>4, <2>5
<1>9. QED
  BY <1>3, <1>4, <1>7, <1>8

LEMMA OverflowSkipKeeps ==
  ASSUME IInv, NEW n \in who.skips, WholeWindows(n), OverflowSkip(n), UNCHANGED who
  PROVE  IInv' /\ Goes(Margin) /\ ~eof'
<1>1. n \in Nat /\ ~eof /\ ~dropped /\ PassOver(n)
  BY Client DEF IInv, Held, OverflowSkip, Reading
<1>2. Margin <= n
  BY <1>1 DEF OverflowSkip, Margin, IInv, Held, TypeOK
<1>3. (n - Margin) % size = 0 /\ (limit # NoLimit => Position + n <= limit)
  BY DEF WholeWindows, OverflowSkip, WithinLimit
<1>4. QED
  BY <1>1, <1>2, <1>3, PassOverKeeps

LEMMA SkipOnKeeps ==
  ASSUME IInv, SkipOn, UNCHANGED who
  PROVE  IInv' /\ Goes(Margin) /\ ~dropped /\ ~eof'
<1> USE DEF IInv
<1>1. /\ ~eof /\ PassOver(todo) /\ pc = "skip" /\ ~dropped
      /\ todo \in Nat \ {0} /\ todo % size = 0 /\ current = 0
      /\ limit # NoLimit => Position + todo <= limit
  BY DEF SkipOn, Place, Running, Held, TypeOK
<1>2. size \in Nat \ {0} /\ overflow \in Int
  BY DEF Held, TypeOK
<1>3. size <= todo /\ (todo - size) % size = 0
  BY <1>1, <1>2, WholeLess
<1>4. Margin = overflow /\ overflow <= size /\ (~finishing => overflow = size)
  BY <1>1, <1>2 DEF Held, Window, Margin
<1>5. Margin <= todo
  BY <1>1, <1>2, <1>3, <1>4
<1>6. ~finishing => (todo - Margin) % size = 0
  BY <1>3, <1>4
<1>7. todo \in Nat
  BY <1>1
<1>8. QED
  BY <1>1, <1>5, <1>6, <1>7, PassOverKeeps

LEMMA SkipFailsKeeps ==
  ASSUME IInv, SkipFails, UNCHANGED who
  PROVE  IInv'
<1> USE DEF IInv, SkipFails
<1>1. TypeOK'
  BY DEF Held, TypeOK, block, window, source
<1>2. Held'
  BY <1>1, BreaksOff DEF Held, Window, Feed, Right, ReadInOrder, FillsInside, window, source
<1>3. Place'
  BY DEF Place, Running
<1>4. QED
  BY <1>2, <1>3
-----------------------------------------------------------------------------
(* DirectRead: the block grows, the window with it.                        *)
LEMMA DirectReadKeeps ==
  ASSUME IInv, NEW p \in who.places, NEW n \in who.counts, DirectRead(p, n), UNCHANGED who
  PROVE  IInv' /\ (limit # NoLimit => fetched' <= limit)
<1>1. /\ TypeOK /\ ~dropped /\ ~eof /\ pc = "idle" /\ p \in Nat /\ n \in Nat \ {0}
  BY Client DEF IInv, Held, DirectRead, Reading
<1>2. /\ size \in Nat \ {0} /\ prev \in Nat /\ total \in Nat /\ fetched \in 0 .. total
      /\ current \in Int /\ overflow \in Int /\ base \in Int /\ start \in Int
      /\ limit \in Int \cup {NoLimit} /\ Len(got) \in Nat /\ fetched \in Nat
      /\ mem \in [-prev .. size + Extra - 1 -> Nat]
      /\ Position \in Int /\ Margin \in Int /\ finishing \in BOOLEAN
  BY <1>1 DEF TypeOK, Position, Margin
<1>3. /\ -prev <= start /\ start <= current /\ current <= overflow /\ overflow <= size
      /\ 0 <= overflow /\ start <= 0
      /\ ~finishing => overflow = size /\ Size <= size
      /\ limit # NoLimit => base + overflow <= limit /\ ~who.rest
  BY <1>1 DEF IInv, Held, Window, DirectRead
<1>4. limit # NoLimit => p + n <= limit
  BY SMTT(40), <1>1, <1>2 DEF DirectRead, WithinLimit
<1>5. base + overflow < p + n
  BY DEF DirectRead, CachedHigh
<1>6. ~AtLimit
  BY <1>1, <1>2, <1>4, <1>5 DEF AtLimit
<1>7. fetched = Len(got) + Margin /\ (finishing => fetched = total)
  BY <1>1, <1>6 DEF IInv, Held, Feed
<1> DEFINE end  == p + n - base
           low  == Most(-start, 1)
           room == size' - overflow
           ask  == DirectSize(room)
           r    == Answer(ask)
<1>8. end \in Nat /\ overflow < end /\ low \in Nat /\ -start <= low
  BY <1>1, <1>2, <1>3, <1>5 DEF Most
<1>9. /\ size' = RoundUp(end) /\ prev' = RoundUp(low)
      /\ mem' = Filled(KeptWindow, -prev', size' + Extra - 1, overflow, r)
      /\ overflow' = overflow + r /\ fetched' = fetched + r
      /\ wild' = (wild \/ ask \notin 0 .. room)
      /\ finishing' = (finishing \/ DirectCut(room) \/ r < ask)
      /\ UNCHANGED <<start, current, base, limit, eof, pc, todo, total, result>>
  BY DEF DirectRead
<1> HIDE DEF end, low
<1>10. PICK s \in Nat : size' = s /\ end <= s
  BY <1>8, <1>9, RoundUpCovers
<1>11. PICK q \in Nat : prev' = q /\ low <= q
  BY <1>8, <1>9, RoundUpCovers
<1>12. s > overflow /\ s > 0 /\ -q <= start
  BY <1>2, <1>3, <1>8, <1>10, <1>11
<1>13. room \in Nat /\ room = s - overflow
  BY <1>2, <1>10, <1>12
<1>14. /\ ask \in 0 .. room
       /\ DirectCut(room) => limit # NoLimit /\ limit \in Int /\ ask = limit - (base + overflow)
       /\ ~DirectCut(room) => ask = room
       /\ limit # NoLimit => base + overflow + ask <= limit
  <2>1. limit # NoLimit => limit \in Int
    BY <1>2
  <2> HIDE DEF room
  <2>2. QED
    BY <1>2, <1>3, <1>13, <2>1 DEF DirectSize, DirectCut, CachedHigh
<1>15. /\ r \in 0 .. ask /\ fetched + r \in fetched .. total
       /\ r < ask => fetched + r = total
  <2>1. ask \in Nat
    BY <1>13, <1>14
  <2> HIDE DEF ask
  <2>2. QED
    BY <1>2, <2>1, AnswerFits
<1> HIDE DEF room, ask, r
<1>16. r \in Nat /\ r <= room /\ (finishing => r = 0)
  BY <1>2, <1>7, <1>13, <1>14, <1>15
<1>17. /\ mem' \in [-q .. s + Extra - 1 -> Nat]
       /\ \A i \in -q .. s + Extra - 1 :
            /\ i \in overflow .. overflow + r - 1 => mem'[i] = fetched + 1 + (i - overflow)
            /\ i \in start .. overflow - 1 => mem'[i] = mem[i]
  <2>1. \A i \in start .. overflow - 1 : mem[i] \in Nat
    BY <1>2, <1>3
  <2>2. /\ DOMAIN KeptWindow = start .. overflow - 1
        /\ \A i \in start .. overflow - 1 : KeptWindow[i] = mem[i]
    BY DEF KeptWindow
  <2>3. -q \in Int /\ s + Extra - 1 \in Int
    OBVIOUS
  <2>4. \A i \in DOMAIN KeptWindow : KeptWindow[i] \in Nat
    BY <2>1, <2>2
  <2> DEFINE grown == Filled(KeptWindow, -q, s + Extra - 1, overflow, r)
  <2>5. mem' = grown
    BY <1>9, <1>10, <1>11
  <2>6. /\ grown \in [-q .. s + Extra - 1 -> Nat]
        /\ \A i \in -q .. s + Extra - 1 :
             IF i \in overflow .. overflow + r - 1
             THEN grown[i] = fetched + 1 + (i - overflow)
             ELSE i \in DOMAIN KeptWindow => grown[i] = KeptWindow[i]
    BY <1>2, <1>16, <2>3, <2>4, FilledIs
  <2> HIDE DEF grown
  <2>7. \A i \in start .. overflow - 1 : i \notin overflow .. overflow + r - 1
    BY <1>2, <1>16
  <2>8. QED
    BY <2>2, <2>5, <2>6, <2>7
<1>18. PICK o \in Int : overflow' = o /\ o = overflow + r
  BY <1>2, <1>9, <1>16
<1>19. wild' = FALSE /\ finishing' \in BOOLEAN
  BY <1>2, <1>9, <1>14 DEF IInv, Held, Right, FillsInside
<1>20. /\ UNCHANGED <<start, current, base, limit, eof, pc, todo, total>>
       /\ got' = got /\ dropped' = dropped
  BY <1>9 DEF result
<1>21. TypeOK'
  <2>1. fetched' \in 0 .. total'
    BY <1>2, <1>9, <1>15, <1>20
  <2>2. size' \in Nat \ {0} /\ prev' \in Nat /\ overflow' \in Int
    BY <1>10, <1>11, <1>12, <1>18
  <2>3. mem' \in [-prev' .. size' + Extra - 1 -> Nat]
    BY <1>10, <1>11, <1>17
  <2>4. QED
    BY <1>1, <1>19, <1>20, <2>1, <2>2, <2>3 DEF TypeOK
<1>22. finishing' <=> finishing \/ DirectCut(room) \/ r < ask
  BY <1>9
<1>23. ~finishing' => ~finishing /\ o = s /\ Size <= s
  <2>1. ~finishing' => r = room
    BY <1>2, <1>13, <1>14, <1>15, <1>22
  <2>2. QED
    BY <1>2, <1>3, <1>12, <1>13, <1>16, <1>18, <1>22, <2>1
<1>24. /\ current <= o /\ o <= s /\ 0 <= o
       /\ limit # NoLimit => base + o <= limit
  BY <1>2, <1>3, <1>13, <1>14, <1>15, <1>16, <1>18
<1>25. Window'
  BY <1>1, <1>3, <1>10, <1>11, <1>12, <1>18, <1>20, <1>23, <1>24 DEF IInv, Held, Window
<1>26. Margin' = Margin + r /\ Position' = Position /\ fetched' = fetched + r
  BY <1>2, <1>9, <1>16, <1>18, <1>20 DEF Margin, Position
<1>27. Feed'
  <2>1. fetched + r = Len(got) + (Margin + r) /\ Len(got) <= fetched + r
    <3>1. fetched = Len(got) + Margin
      BY <1>7
    <3>2. Len(got) \in Int /\ Margin \in Int /\ r \in Int
      BY <1>2, <1>16
    <3>3. 0 <= Margin /\ 0 <= r
      BY <1>2, <1>3, <1>16 DEF Margin
    <3>4. QED
      BY ONLY <3>1, <3>2, <3>3
  <2>2. finishing' => (limit # NoLimit /\ base + o = limit) \/ fetched + r = total
    BY <1>2, <1>7, <1>14, <1>15, <1>16, <1>18, <1>22
  <2>3. ~who.rest => Position = Len(got)
    BY <1>1 DEF IInv, Held, Feed
  <2>4. Len(got') <= fetched' /\ fetched' = Len(got') + Margin'
    BY <1>20, <1>26, <2>1
  <2>5. finishing' => AtLimit' \/ fetched' = total'
    BY <1>18, <1>20, <1>26, <2>2 DEF AtLimit
  <2>6. Len(got') + Margin' <= fetched'
    BY <1>2, <1>16, <1>20, <1>26, <2>1
  <2>7. QED
    BY <1>20, <1>26, <2>3, <2>4, <2>5, <2>6 DEF Feed
<1>28. Right'
  <2>1. ReadInOrder' /\ FillsInside'
    BY <1>19, <1>20 DEF IInv, Held, Right, ReadInOrder, FillsInside
  <2>2. ASSUME NEW i \in start .. o - 1
        PROVE  /\ i \in overflow .. o - 1 => mem'[i] = fetched + 1 + (i - overflow)
               /\ i \in start .. overflow - 1 => mem'[i] = mem[i]
               /\ i \in overflow .. o - 1 \/ i \in start .. overflow - 1
    <3>1. i \in -q .. s + Extra - 1
      BY <1>2, <1>12, <1>24
    <3>2. o - 1 = overflow + r - 1
      BY <1>2, <1>16, <1>18
    <3>3. i \in overflow .. o - 1 \/ i \in start .. overflow - 1
      BY <1>2
    <3>4. QED
      BY <1>17, <3>1, <3>2, <3>3
  <2>3. ASSUME NEW k \in 0 .. Margin + r - 1
        PROVE  mem'[current + k] = Len(got) + 1 + k
    <3>1. PICK i \in start .. o - 1 : i = current + k
      BY <1>2, <1>3, <1>16, <1>18 DEF Margin
    <3>2. CASE k < Margin
      <4>1. k \in 0 .. Margin - 1 /\ i \in start .. overflow - 1
        BY <1>2, <1>3, <1>16, <3>1, <3>2 DEF Margin
      <4>2. mem[current + k] = Len(got) + 1 + k
        BY <1>1, <4>1 DEF IInv, Held, Right, UnreadIsNext
      <4>3. QED
        BY <2>2, <3>1, <4>1, <4>2
    <3>3. CASE k >= Margin
      <4>1. i \in overflow .. o - 1
        BY <1>2, <1>3, <1>16, <1>18, <3>1, <3>3 DEF Margin
      <4>2. mem'[i] = fetched + 1 + (i - overflow)
        BY <2>2, <4>1
      <4>3. fetched + 1 + (i - overflow) = Len(got) + 1 + k
        BY <1>2, <1>7, <1>16, <3>1 DEF Margin
      <4>4. QED
        BY <3>1, <4>2, <4>3
    <3>4. QED
      BY <1>2, <1>16, <3>2, <3>3
  <2>4. UnreadIsNext'
    <3>1. PICK m \in Int : m = Margin + r
      BY <1>2, <1>16
    <3>2. Margin' = m
      BY <1>26, <3>1
    <3>3. ASSUME NEW k \in 0 .. m - 1
          PROVE  mem'[current' + k] = Len(got') + 1 + k
      <4>1. k \in 0 .. Margin + r - 1
        BY <1>2, <1>16, <3>1
      <4>2. QED
        BY <1>20, <2>3, <4>1
    <3>4. QED
      BY <3>2, <3>3 DEF UnreadIsNext
  <2>5. ASSUME ~who.rest, SmallReads, NEW i \in start .. o - 1
        PROVE  mem'[i] = base + 1 + i
    <3>1. fetched = base + overflow
      <4>1. Position = Len(got)
        BY <1>1, <2>5 DEF IInv, Held, Feed
      <4>2. QED
        BY <1>2, <1>7, <4>1 DEF Position, Margin
    <3>2. CASE i \in overflow .. o - 1
      BY <1>2, <2>2, <3>1, <3>2
    <3>3. CASE i \in start .. overflow - 1
      BY <1>1, <2>2, <2>5, <3>3 DEF IInv, Held, Right
    <3>4. QED
      BY <2>2, <3>2, <3>3
  <2>6. SmallReads' = SmallReads
    BY DEF SmallReads
  <2>7. QED
    BY <1>18, <1>20, <2>1, <2>4, <2>5, <2>6 DEF Right
<1>29. Place'
  BY <1>1, <1>20 DEF Place, Running
<1>30. ASSUME limit # NoLimit
       PROVE  fetched' <= limit
  <2>1. ~who.rest /\ Position = Len(got)
    BY <1>1, <1>3, <1>30 DEF IInv, Held, Feed
  <2>2. fetched = base + overflow
    BY SMTT(40), <1>2, <1>7, <2>1 DEF Position, Margin
  <2>3. fetched + r <= limit
    BY <1>2, <1>14, <1>15, <1>13, <1>30, <2>2
  <2>4. QED
    BY <1>26, <2>3
<1>31. QED
  BY <1>21, <1>25, <1>27, <1>28, <1>29, <1>30 DEF IInv, Held

-----------------------------------------------------------------------------
LEMMA StutterKeeps ==
  ASSUME IInv, UNCHANGED vars
  PROVE  IInv'
<1> USE DEF vars, IInv
<1>1. Held'
  BY Untouched DEF Held, TypeOK, Places, block, window, source, result
<1>2. Place'
  BY DEF Place, Running, Margin, Position, SmallReads
<1>3. QED
  BY <1>1, <1>2

LEMMA NextKeeps ==
  ASSUME IInv, [Next]_vars
  PROVE  IInv'
<1>1. CASE Next
  <2>1. UNCHANGED who
    BY <1>1 DEF Next
  <2>2. CASE Calls
    BY <2>1, <2>2, AfterConstructionKeeps, CallFlushKeeps, OverrunKeeps, SetEOFKeeps,
       ReadKeeps, OverflowReadKeeps, SkipKeeps, OverflowSkipKeeps, DirectReadKeeps,
       SetLimitKeeps DEF Calls
  <2>3. CASE Steps
    BY <2>1, <2>3, FlushRaisesKeeps, FlushAtEOFKeeps, IdleFlushKeeps, FlushKeeps,
       FlushFailsKeeps, DirectKeeps, DirectFailsKeeps, RemainderKeeps, ReadTailKeeps,
       ReadTailFailsKeeps, SkipOnKeeps, SkipFailsKeeps DEF Steps
  <2>4. QED
    BY <1>1, <2>2, <2>3 DEF Next
<1>2. CASE UNCHANGED vars
  BY <1>2, StutterKeeps
<1>3. QED
  BY <1>1, <1>2

(* The strengthened invariant is one of the specification.                 *)
LEMMA Inductive == Spec => []IInv
<1>1. Init => IInv
  BY InitIInv
<1>2. IInv /\ [Next]_vars => IInv'
  BY NextKeeps
<1>3. QED
  BY <1>1, <1>2, PTL DEF Spec

(* Every pointer, counter and byte has its type, and the pc is a place of  *)
(* a call.                                                                 *)
THEOREM TypeIsInvariant == Spec => []TypeOK
<1>1. IInv => TypeOK
  BY DEF IInv, Held
<1>2. QED
  BY <1>1, Inductive, PTL

(* The client receives the bytes of the source in their order, none twice  *)
(* and none left out, whichever way Read, Flush and DirectRead take them.  *)
THEOREM ReadsInOrder == Spec => []ReadInOrder
<1>1. IInv => ReadInOrder
  BY DEF IInv, Held, Right
<1>2. QED
  BY <1>1, Inductive, PTL

(* What stands between FStart and FOverflow is what the client takes it    *)
(* for: the next bytes behind Current, and those a DirectRead asks for.    *)
THEOREM WindowStaysTrue == Spec => []WindowIsTrue
<1>1. IInv => UnreadIsNext
  BY DEF IInv, Held, Right
<1>2. ASSUME IInv
      PROVE  CachedIsTrue
  <2>1. SUFFICES ASSUME ~dropped, ~who.rest, \A n \in who.counts : n < Size,
                        NEW p \in CachedLow .. CachedHigh - 1
                 PROVE  mem[p - base] = p + 1
    BY DEF CachedIsTrue
  <2>2. start \in Int /\ overflow \in Int /\ base \in Int
    BY <1>2 DEF IInv, Held, TypeOK
  <2>3. PICK i \in start .. overflow - 1 : i = p - base
    BY <2>2 DEF CachedLow, CachedHigh
  <2>4. mem[i] = base + 1 + i
    BY <1>2, <2>1 DEF IInv, Held, Right, SmallReads
  <2>5. QED
    BY <2>2, <2>3, <2>4
<1>3. IInv => WindowIsTrue
  BY <1>1, <1>2 DEF WindowIsTrue
<1>4. QED
  BY <1>3, Inductive, PTL

(* Position counts what the client received or skipped.                    *)
THEOREM PositionStaysHonest == Spec => []PositionIsHonest
<1>1. IInv => PositionIsHonest
  BY DEF IInv, Held, Feed, PositionIsHonest
<1>2. QED
  BY <1>1, Inductive, PTL

(* The callback is asked for what the block has room for, never more.      *)
THEOREM FillsStayInside == Spec => []FillsInside
<1>1. IInv => FillsInside
  BY DEF IInv, Held, Right
<1>2. QED
  BY <1>1, Inductive, PTL

(* No call takes bytes behind the limit from the source.                   *)
LEMMA FetchWithinLimit ==
  ASSUME IInv, [Next]_vars, limit # NoLimit
  PROVE  fetched' = fetched \/ fetched' <= limit
<1>1. CASE Next
  <2>1. UNCHANGED who
    BY <1>1 DEF Next
  <2>2. CASE Flush \/ Direct \/ DirectFails
    BY <2>1, <2>2, FlushKeeps, DirectKeeps, DirectFailsKeeps
  <2>3. CASE \E p \in who.places, n \in who.counts : DirectRead(p, n)
    BY <2>1, <2>3, DirectReadKeeps
  <2>4. CASE AfterConstruction \/ CallFlush \/ Overrun \/ SetEOF \/ FlushRaises
             \/ FlushAtEOF \/ IdleFlush \/ FlushFails
    BY <2>4 DEF AfterConstruction, CallFlush, Overrun, SetEOF, FlushRaises, FlushAtEOF,
                IdleFlush, FlushFails, source
  <2>5. CASE Remainder \/ ReadTail \/ ReadTailFails \/ SkipOn \/ SkipFails
    BY <2>5 DEF Remainder, ReadTail, ReadTailFails, SkipOn, SkipFails, PassOver, source
  <2>6. CASE \E n \in who.counts : Read(n) \/ OverflowRead(n)
    BY <2>6 DEF Read, OverflowRead, source
  <2>7. CASE \E n \in who.skips : Skip(n) \/ (WholeWindows(n) /\ OverflowSkip(n))
    BY <2>7 DEF Skip, OverflowSkip, PassOver, source
  <2>8. CASE \E v \in who.limits : SetLimit(v)
    BY <2>8 DEF SetLimit, source
  <2>9. QED
    BY <1>1, <2>2, <2>3, <2>4, <2>5, <2>6, <2>7, <2>8 DEF Next, Calls, Steps
<1>2. CASE UNCHANGED vars
  BY <1>2 DEF vars
<1>3. QED
  BY <1>1, <1>2

(* No call of the callback takes bytes behind Limit from the source, also  *)
(* when a limit was set in the middle of a window, for a client that keeps *)
(* no rest in the window when it calls Flush.                              *)
THEOREM LimitStaysKept == Spec => LimitKept
<1>1. ASSUME IInv, IInv', [Next]_vars
      PROVE  [~who.rest /\ limit # NoLimit
                => fetched' <= Most(fetched, limit)]_vars
  <2>1. SUFFICES ASSUME ~who.rest, limit # NoLimit
                 PROVE  fetched' <= Most(fetched, limit)
    OBVIOUS
  <2>2. fetched \in Nat /\ limit \in Int /\ fetched' \in Nat
    BY <1>1, <2>1 DEF IInv, Held, TypeOK
  <2>3. PICK f \in Nat : fetched' = f
    BY <2>2
  <2>4. f = fetched \/ f <= limit
    BY <1>1, <2>1, <2>3, FetchWithinLimit
  <2>5. QED
    BY <2>2, <2>3, <2>4 DEF Most
<1>2. QED
  BY <1>1, Inductive, PTL DEF Spec, LimitKept
-----------------------------------------------------------------------------
(* The refinement: each step of the reader is a step of the abstract       *)
(* stream, or changes nothing the stream knows of.                         *)
LEMMA StreamStarts ==
  ASSUME Init
  PROVE  Stream!Init
BY ClientAssumption DEF Init, Stream!Init

LEMMA StreamStays ==
  ASSUME UNCHANGED <<got, total, dropped>>,
         dropped \/ (eof' = eof /\ limit' = limit)
  PROVE  UNCHANGED Stream!vars
BY DEF Stream!vars

LEMMA StreamContinues ==
  ASSUME got \in Seq(Nat), NEW n \in Nat, Goes(n)
  PROVE  /\ Stream!Continue(Len(got')) /\ Len(got') \in Nat /\ Len(got) \in Nat
         /\ Len(got) <= Len(got')
<1>1. Len(got) \in Nat /\ Len(got') = Len(got) + n
  BY DEF Goes
<1>2. Len(got') \in Nat /\ Len(got') >= Len(got)
  BY <1>1
<1>3. \A i \in 1 .. Len(got') :
        got'[i] \in IF i <= Len(got) THEN {got[i]} ELSE {0, i}
  BY DEF Goes
<1>4. QED
  BY <1>1, <1>2, <1>3 DEF Stream!Continue

LEMMA StreamDelivers ==
  ASSUME TypeOK, IInv', ~dropped, ~eof, ~dropped', ~eof', limit' = limit, total' = total,
         NEW n \in Nat, Goes(n)
  PROVE  Stream!Next
<1>0. /\ Stream!Continue(Len(got')) /\ Len(got') \in Nat /\ Len(got) \in Nat
      /\ Len(got) <= Len(got')
  BY StreamContinues DEF TypeOK
<1>1. PICK k \in Nat : /\ k = Len(got') /\ Len(got) \in Nat /\ Len(got) <= k
                       /\ Stream!Continue(k)
  BY <1>0
<1>2. k <= total
  <2>1. total \in Nat /\ fetched' \in 0 .. total /\ k <= fetched'
    BY <1>1 DEF IInv, Held, TypeOK, Feed
  <2>2. QED
    BY <1>1, <2>1
<1>3. limit # NoLimit => k <= limit
  <2>1. SUFFICES ASSUME limit # NoLimit
                 PROVE  k <= limit
    OBVIOUS
  <2>2. /\ base' + overflow' <= limit /\ current' <= overflow' /\ base' + current' = k
        /\ base' \in Int /\ overflow' \in Int /\ current' \in Int /\ limit \in Int
    BY <1>1, <2>1 DEF IInv, Held, TypeOK, Window, Feed, Position
  <2>3. PICK b \in Int, o \in Int, c \in Int :
          b + o <= limit /\ c <= o /\ b + c = k
    BY <2>2
  <2>4. QED
    BY <1>1, <2>2, <2>3
<1>4. k \in Len(got) .. total
  BY <1>1, <1>2 DEF TypeOK
<1>5. Stream!Deliver
  BY <1>1, <1>3, <1>4 DEF Stream!Deliver
<1>6. QED
  BY <1>5 DEF Stream!Next

LEMMA StreamBreaks ==
  ASSUME TypeOK, IInv', ~dropped, dropped', total' = total, NEW n \in Nat, Goes(n)
  PROVE  Stream!Next
<1>0. /\ Stream!Continue(Len(got')) /\ Len(got') \in Nat /\ Len(got) \in Nat
      /\ Len(got) <= Len(got')
  BY StreamContinues DEF TypeOK
<1>1. PICK k \in Nat : /\ k = Len(got') /\ Len(got) \in Nat /\ Len(got) <= k
                       /\ Stream!Continue(k)
  BY <1>0
<1>2. k <= total
  <2>1. total \in Nat /\ fetched' \in 0 .. total /\ k <= fetched'
    BY <1>1 DEF IInv, Held, TypeOK, Feed
  <2>2. QED
    BY <1>1, <2>1
<1>3. k \in Len(got) .. total
  BY <1>1, <1>2 DEF TypeOK
<1>4. Stream!Break
  BY <1>1, <1>3 DEF Stream!Break
<1>5. QED
  BY <1>4 DEF Stream!Next

LEMMA StreamBreaksHere ==
  ASSUME TypeOK, IInv', ~dropped, dropped', total' = total, got' = got
  PROVE  Stream!Next
BY GoesNowhere, StreamBreaks DEF TypeOK

LEMMA StreamEnds ==
  ASSUME ~dropped, ~eof, ~dropped', eof', got' = got, total' = total,
         Len(got) = total \/ (limit # NoLimit /\ Len(got) = limit)
  PROVE  Stream!Next
<1>1. Stream!End
  BY DEF Stream!End
<1>2. QED
  BY <1>1 DEF Stream!Next

LEMMA StreamLimits ==
  ASSUME IInv, NEW v \in who.limits, SetLimit(v), v # Position
  PROVE  Stream!Next
<1>1. /\ ~eof /\ ~dropped /\ limit' = v /\ eof' = eof /\ ~dropped'
      /\ got' = got /\ total' = total /\ Position <= v
  BY DEF SetLimit, Reading, source
<1>2. v \in Nat /\ ~who.rest
  BY Client DEF IInv, Held
<1>3. Position = Len(got) /\ Position \in Int
  BY <1>1, <1>2 DEF IInv, Held, Feed, TypeOK, Position
<1>4. v > Len(got) /\ v # NoLimit
  BY <1>1, <1>2, <1>3
<1>5. Stream!Limit
  BY <1>1, <1>2, <1>4 DEF Stream!Limit
<1>6. QED
  BY <1>5 DEF Stream!Next

(* The last window is empty: the end of the source, or of the limit.       *)
LEMMA StreamIdleFlush ==
  ASSUME IInv, IdleFlush
  PROVE  [Stream!Next]_(Stream!vars)
<1>1. /\ ~dropped /\ ~eof /\ TypeOK /\ dropped' = dropped /\ got' = got /\ total' = total
      /\ Len(got) \in Nat /\ finishing
  BY MayFlushWhole DEF IdleFlush, source, result
<1>2. CASE Margin = 0
  <2>1. AtLimit \/ (fetched = total /\ fetched = Len(got))
    <3>1. Len(got) + Margin = Len(got)
      BY <1>1, <1>2
    <3>2. QED
      BY <1>1, <3>1 DEF IInv, Held, Feed
  <2>2. AtLimit => Position = limit /\ limit # NoLimit /\ ~who.rest
    BY <1>1, <1>2 DEF IInv, Held, Window, AtLimit, Position, Margin, TypeOK
  <2>3. AtLimit => Len(got) = limit /\ limit # NoLimit
    BY <1>1, <2>2 DEF IInv, Held, Feed
  <2>4. eof'
    BY <1>2 DEF IdleFlush, Ended
  <2>5. QED
    BY <1>1, <2>1, <2>3, <2>4, StreamEnds
<1>3. CASE Margin # 0
  <2>1. eof' = eof /\ limit' = limit
    BY <1>3 DEF IdleFlush, Kept
  <2>2. QED
    BY <1>1, <2>1, StreamStays
<1>4. QED
  BY <1>2, <1>3

LEMMA StreamFlush ==
  ASSUME IInv, IInv', Flush, UNCHANGED who
  PROVE  [Stream!Next]_(Stream!vars)
<1>1. /\ ~dropped /\ ~eof /\ TypeOK /\ got' = got /\ total' = total
  BY MayFlushWhole DEF Flush
<1>2. CASE dropped'
  BY <1>1, <1>2, StreamBreaksHere
<1>3. CASE ~dropped' /\ eof'
  BY <1>1, <1>3, FlushKeeps, StreamEnds
<1>4. CASE ~dropped' /\ ~eof'
  <2>1. limit' = limit
    BY <1>4, FlushKeeps
  <2>2. eof' = eof /\ dropped' = dropped
    BY <1>1, <1>4 DEF IInv, Held, TypeOK
  <2>3. QED
    BY <1>1, <2>1, <2>2, StreamStays
<1>5. QED
  BY <1>2, <1>3, <1>4

LEMMA MarginIs ==
  ASSUME IInv
  PROVE  TypeOK /\ (~dropped => Margin \in Nat)
BY DEF IInv, Held, Window, TypeOK, Margin

LEMMA StreamCalls ==
  ASSUME IInv, IInv', Calls, UNCHANGED who
  PROVE  [Stream!Next]_(Stream!vars)
<1>1. TypeOK /\ (~dropped => Margin \in Nat)
  BY MarginIs
<1>2. CASE AfterConstruction
  <2>1. got' = got /\ total' = total /\ ~dropped
    BY <1>2 DEF AfterConstruction, source, IInv, Place
  <2>2. CASE dropped'
    BY <1>1, <2>1, <2>2, StreamBreaksHere
  <2>3. CASE ~dropped'
    <3>1. eof' = eof /\ limit' = limit /\ dropped' = dropped
      BY <1>2, <2>3 DEF AfterConstruction, Kept
    <3>2. QED
      BY <2>1, <3>1, StreamStays
  <2>4. QED
    BY <2>2, <2>3
<1>3. CASE CallFlush
  BY <1>3, StreamStays DEF CallFlush, window, source, result
<1>4. CASE Overrun
  <2>1. ~dropped /\ dropped' /\ total' = total /\ Goes(Margin)
    BY <1>4, OverrunKeeps DEF Overrun, Reading, source
  <2>2. Margin \in Nat
    BY <1>1, <2>1
  <2>3. QED
    BY <1>1, <2>1, <2>2, StreamBreaks
<1>5. CASE SetEOF
  BY <1>1, <1>5, StreamBreaksHere DEF SetEOF, Reading, source
<1>6. ASSUME NEW n \in who.counts, Read(n)
      PROVE  Stream!Next
  <2>1. Goes(n) /\ n \in Nat
    BY <1>1, <1>6, ReadKeeps, Client
  <2>2. ~dropped /\ ~eof /\ ~dropped' /\ ~eof' /\ limit' = limit /\ total' = total
    BY <1>6 DEF Read, Reading, source
  <2>3. QED
    BY <1>1, <2>1, <2>2, StreamDelivers
<1>7. ASSUME NEW n \in who.counts, OverflowRead(n)
      PROVE  Stream!Next
  <2>1. ~dropped /\ ~eof /\ ~dropped' /\ ~eof' /\ limit' = limit /\ total' = total
    BY <1>7 DEF OverflowRead, Reading, source
  <2>2. Goes(Margin) /\ Margin \in Nat
    BY <1>1, <1>7, <2>1, OverflowReadKeeps
  <2>3. QED
    BY <1>1, <2>1, <2>2, StreamDelivers
<1>8. ASSUME NEW n \in who.skips, Skip(n)
      PROVE  Stream!Next
  <2>1. Goes(n) /\ n \in Nat
    BY <1>1, <1>8, SkipKeeps, Client
  <2>2. ~dropped /\ ~eof /\ ~dropped' /\ ~eof' /\ limit' = limit /\ total' = total
    BY <1>8 DEF Skip, Reading, source
  <2>3. QED
    BY <1>1, <2>1, <2>2, StreamDelivers
<1>9. ASSUME NEW n \in who.skips, WholeWindows(n), OverflowSkip(n)
      PROVE  Stream!Next
  <2>1. ~dropped /\ ~eof /\ ~dropped' /\ ~eof' /\ limit' = limit /\ total' = total
    BY <1>9 DEF OverflowSkip, PassOver, Reading, source
  <2>2. Goes(Margin) /\ Margin \in Nat
    BY <1>1, <1>9, <2>1, OverflowSkipKeeps
  <2>3. QED
    BY <1>1, <2>1, <2>2, StreamDelivers
<1>10. ASSUME NEW p \in who.places, NEW n \in who.counts, DirectRead(p, n)
       PROVE  UNCHANGED Stream!vars
  BY <1>10, StreamStays DEF DirectRead, result
<1>11. ASSUME NEW v \in who.limits, SetLimit(v)
       PROVE  Stream!Next
  <2>1. CASE v = Position
    BY <1>1, <1>11, <2>1, StreamBreaksHere DEF SetLimit, Reading, source
  <2>2. CASE v # Position
    BY <1>11, <2>2, StreamLimits
  <2>3. QED
    BY <2>1, <2>2
<1>12. QED
  BY <1>2, <1>3, <1>4, <1>5, <1>6, <1>7, <1>8, <1>9, <1>10, <1>11 DEF Calls

LEMMA StreamSteps ==
  ASSUME IInv, IInv', Steps, UNCHANGED who
  PROVE  [Stream!Next]_(Stream!vars)
<1>1. TypeOK
  BY DEF IInv, Held
<1>2. CASE FlushRaises
  <2>1. dropped /\ dropped' = dropped
    BY <1>1, <1>2, FlushRaisesKeeps DEF FlushRaises, TypeOK
  <2>2. QED
    BY <1>2, <2>1, StreamStays DEF FlushRaises, source
<1>3. CASE FlushAtEOF
  BY <1>3, StreamStays DEF FlushAtEOF, window, source, result
<1>4. CASE IdleFlush
  BY <1>4, StreamIdleFlush
<1>5. CASE Flush
  BY <1>5, StreamFlush
<1>6. CASE FlushFails
  <2>1. ~dropped /\ dropped' /\ got' = got /\ total' = total
    BY <1>6, MayFlushWhole DEF FlushFails
  <2>2. QED
    BY <1>1, <2>1, StreamBreaksHere
<1>7. CASE Direct
  <2>1. /\ Goes(Page) /\ ~dropped /\ ~eof /\ Page \in Nat /\ total' = total
        /\ ~dropped' => limit' = limit /\ ~eof'
    BY <1>7, DirectKeeps, DirectWhole DEF Direct
  <2>2. QED
    BY <1>1, <2>1, StreamDelivers, StreamBreaks
<1>8. CASE DirectFails
  BY <1>1, <1>8, DirectFailsKeeps, StreamBreaksHere DEF DirectFails
<1>9. CASE Remainder
  BY <1>9, StreamStays DEF Remainder, window, source, result
<1>10. CASE ReadTail
  <2>1. Goes(todo) /\ ~dropped /\ ~eof /\ todo \in Nat
    BY <1>1, <1>10, ReadTailKeeps DEF TypeOK
  <2>2. ~dropped' /\ ~eof' /\ limit' = limit /\ total' = total
    BY <1>10, <2>1 DEF ReadTail, source
  <2>3. QED
    BY <1>1, <2>1, <2>2, StreamDelivers
<1>11. ASSUME ReadTailFails \/ SkipFails
       PROVE  [Stream!Next]_(Stream!vars)
  <2>1. dropped' /\ dropped' \in BOOLEAN /\ got' = got /\ total' = total /\ dropped \in BOOLEAN
    BY <1>1, <1>11 DEF ReadTailFails, SkipFails, source, TypeOK
  <2>2. CASE dropped
    BY <2>1, <2>2, StreamStays
  <2>3. CASE ~dropped
    BY <1>1, <2>1, <2>3, StreamBreaksHere
  <2>4. QED
    BY <2>1, <2>2, <2>3
<1>12. CASE SkipOn
  <2>1. Goes(Margin) /\ ~dropped /\ ~eof' /\ ~eof
    BY <1>12, SkipOnKeeps DEF SkipOn
  <2>2. ~dropped' /\ limit' = limit /\ total' = total
    BY <1>12, <2>1 DEF SkipOn, PassOver, source
  <2>3. Margin \in Nat
    BY <2>1, MarginIs
  <2>4. QED
    BY <1>1, <2>1, <2>2, <2>3, StreamDelivers
<1>13. QED
  BY <1>2, <1>3, <1>4, <1>5, <1>6, <1>7, <1>8, <1>9, <1>10, <1>11, <1>12 DEF Steps

LEMMA StreamStep ==
  ASSUME IInv, IInv', [Next]_vars
  PROVE  [Stream!Next]_(Stream!vars)
<1>1. CASE Next
  BY <1>1, StreamCalls, StreamSteps DEF Next
<1>2. CASE UNCHANGED vars
  BY <1>2, StreamStays DEF vars
<1>3. QED
  BY <1>1, <1>2

(* TCachedReader is a stream: what it received grows by bytes in their     *)
(* order up to the limit or the end of the source, it ends there and not   *)
(* before, and delivers nothing after it was broken off.                   *)
THEOREM ReaderImplementsStream == Spec => ImplementsStream
<1>1. Init => Stream!Init
  BY StreamStarts
<1>2. IInv /\ IInv' /\ [Next]_vars => [Stream!Next]_(Stream!vars)
  BY StreamStep
<1>3. QED
  BY <1>1, <1>2, Inductive, PTL DEF Spec, ImplementsStream, Stream!Spec
=============================================================================

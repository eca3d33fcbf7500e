-------------------------- MODULE TaggedStackProofs --------------------------
(***************************************************************************)
(* The TaggedPtr routines of the Intel build, for any threads, any items   *)
(* and a counter without bound: no item has two owners, no item is lost, a *)
(* Pop that succeeds installs the link of the item on top, every routine   *)
(* is one operation of the atomic stack, and a list is returned in the     *)
(* order in which it was pushed.                                           *)
(***************************************************************************)
EXTENDS TaggedStackHistory, FiniteSetTheorems, TLAPS

USE PointerAssumption, ItemsAssumption

-----------------------------------------------------------------------------
(* The inductive invariant.  The stack is a list (StackInv); the list a    *)
(* thread is about to give away is its own and linked (ListInv); what it   *)
(* is about to install is what the routine says (SwapInv); the list it is  *)
(* reversing is its own and closed (DetachedInv).  What a thread saw is    *)
(* not newer than the head, and if it is the head, the link it read is     *)
(* still the link (HeadInv): links of items in the stack do not change.    *)
Pushes == {"PushList", "PushCalcList"}

StackInv == \E n \in Nat : \E s \in [1 .. n -> Items] : Lists(n, s)

PlaceInv(t) ==
  /\ pc[t] = "idle" <=> op[t] = "none"
  /\ pc[t] = "idle" => arg[t] = NoList
  /\ pc[t] = "walk" => op[t] = "PushCalcList"
  /\ pc[t] \in {"first", "reverse"} => op[t] = "PopReversed"

ListInv(t) ==
  op[t] \in Giving =>
    /\ Given(t) \subseteq owned[t]
    /\ arg[t].first = NIL <=> arg[t].last = NIL
    /\ op[t] \in Pushes => arg[t].first # NIL
    /\ op[t] \notin Pushes /\ arg[t].last # NIL => next[arg[t].last] = NIL
    /\ arg[t].first # arg[t].last => next[arg[t].first] = arg[t].last
    /\ pc[t] = "walk" =>
         \/ next[arg[t].last] = NIL
         \/ /\ arg[t].first = arg[t].last
            /\ next[arg[t].last] \in owned[t] \ {arg[t].last}
            /\ next[next[arg[t].last]] = NIL

SwapInv(t) ==
  pc[t] = "swap" =>
    /\ ~ Refuses(t)
    /\ op[t] \in Pushes => next[arg[t].last] = seen[t].value
    /\ op[t] = "Invalidate" => fresh[t] = INVALID
    /\ op[t] \in Giving => fresh[t] = arg[t].first
    /\ op[t] \in {"PopList", "PopReversed"} => fresh[t] = NIL

Detached(t, D) ==
  /\ \A i \in D : next[i] \in D \cup {NIL}
  /\ pc[t] = "first"   => seen[t].value \in D
  /\ pc[t] = "reverse" => rev[t].current \in D /\ rev[t].ret \in D

DetachedInv(t) ==
  pc[t] \in {"first", "reverse"} => \E D \in SUBSET owned[t] : Detached(t, D)

HeadInv(t) ==
  /\ seen[t].counter <= head.counter
  /\ pc[t] = "swap" /\ op[t] = "Pop" /\ head = seen[t] => fresh[t] = next[head.value]

ThreadInv(t) == PlaceInv(t) /\ ListInv(t) /\ SwapInv(t) /\ DetachedInv(t)

IInv ==
  /\ TypeOK
  /\ OneOwner
  /\ StackInv
  /\ \A t \in Threads : ThreadInv(t)
  /\ \A t \in Threads : HeadInv(t)

Same(t) == UNCHANGED <<pc[t], op[t], arg[t], seen[t], fresh[t], rev[t], owned[t]>>

-----------------------------------------------------------------------------
LEMMA InitIInv == Init => IInv
<1> SUFFICES ASSUME Init PROVE IInv
  OBVIOUS
<1> USE DEF Init, NoList, NoHead, NoRev
<1>1. TypeOK
  BY DEF TypeOK, Pointers, Links, Places
<1>2. OneOwner
  BY DEF OneOwner
<1>3. StackInv
  <2>1. InStack = {}
    BY DEF InStack
  <2> DEFINE none == [k \in 1 .. 0 |-> NIL]
  <2>2. none \in [1 .. 0 -> Items] /\ Lists(0, none)
    BY <2>1 DEF Lists
  <2>3. QED
    BY <2>2 DEF StackInv
<1>4. ASSUME NEW t \in Threads
      PROVE  ThreadInv(t) /\ HeadInv(t)
  BY DEF ThreadInv, PlaceInv, ListInv, SwapInv, DetachedInv, HeadInv, Giving
<1>5. QED
  BY <1>1, <1>2, <1>3, <1>4 DEF IInv

-----------------------------------------------------------------------------
(* What a step needs and leaves.                                           *)
LEMMA Disjoint ==
  ASSUME IInv, NEW t \in Threads
  PROVE  /\ owned[t] \subseteq Items
         /\ owned[t] \cap InStack = {}
         /\ \A u \in Threads : u # t => owned[t] \cap owned[u] = {}
BY DEF IInv, TypeOK, OneOwner, InStack, Owned

LEMMA HeadInStack ==
  ASSUME IInv, head.value \in Items
  PROVE  head.value \in InStack
<1>1. PICK n \in Nat : \E s \in [1 .. n -> Items] : Lists(n, s)
  BY DEF IInv, StackInv
<1>2. PICK s \in [1 .. n -> Items] : Lists(n, s)
  BY <1>1
<1>3. n # 0 /\ head.value = s[1] /\ 1 \in 1 .. n
  BY <1>2 DEF Lists
<1>4. QED
  BY <1>2, <1>3 DEF Lists

(* What another thread does with its own items and its own variables does  *)
(* not disturb a thread.                                                   *)
LEMMA OthersUndisturbed ==
  ASSUME IInv, NEW t \in Threads, NEW u \in Threads, u # t, Same(u),
         \A i \in Items \ owned[t] : next'[i] = next[i]
  PROVE  ThreadInv(u)'
<1>1. /\ owned[u] \subseteq Items
      /\ \A i \in owned[u] : next'[i] = next[i]
  BY Disjoint
<1>2. ThreadInv(u) /\ TypeOK
  BY DEF IInv
<1> USE DEF Same
<1>3. PlaceInv(u)'
  BY <1>2 DEF ThreadInv, PlaceInv
<1>4. ListInv(u)'
  <2>1. ASSUME op[u] \in Giving, arg[u].last # NIL
        PROVE  arg[u].last \in owned[u] /\ arg[u].first \in owned[u]
    <3>1. arg[u].last \in Given(u) /\ arg[u].first \in Given(u)
      BY <1>2, <2>1 DEF ThreadInv, ListInv, Given
    <3>2. QED
      BY <1>2, <2>1, <3>1 DEF ThreadInv, ListInv
  <2>2. UNCHANGED Given(u)
    BY DEF Given
  <2>3. ListInv(u)
    BY <1>2 DEF ThreadInv
  <2>4. CASE op[u] \in Giving /\ arg[u].last # NIL
    <3>1. next'[arg[u].last] = next[arg[u].last] /\ next'[arg[u].first] = next[arg[u].first]
      BY <1>1, <2>1, <2>3, <2>4 DEF ListInv
    <3>2. next[arg[u].last] \in owned[u] =>
            next'[next[arg[u].last]] = next[next[arg[u].last]]
      BY <1>1
    <3>3. QED
      BY <2>2, <2>3, <2>4, <3>1, <3>2 DEF ListInv
  <2>5. CASE op[u] \in Giving /\ arg[u].last = NIL
    BY <1>2, <2>2, <2>3, <2>5 DEF ThreadInv, PlaceInv, ListInv, Pushes
  <2>6. QED
    BY <2>4, <2>5 DEF ListInv
<1>5. SwapInv(u)'
  <2>1. op[u] \in Pushes => op[u] \in Giving
    BY DEF Pushes, Giving
  <2>2. op[u] \in Pushes => arg[u].last \in owned[u]
    BY <1>2, <2>1 DEF ThreadInv, ListInv, Given
  <2>3. Refuses(u)' = Refuses(u)
    BY DEF Refuses
  <2>4. QED
    BY <1>1, <1>2, <2>2, <2>3 DEF ThreadInv, SwapInv
<1>6. DetachedInv(u)'
  BY <1>1, <1>2 DEF ThreadInv, DetachedInv, Detached
<1>7. QED
  BY <1>3, <1>4, <1>5, <1>6 DEF ThreadInv

(* A step that leaves the head and the owners alone, and writes links of   *)
(* the stepping thread's items only.                                       *)
LEMMA LocalStep ==
  ASSUME IInv, TypeOK', NEW t \in Threads, UNCHANGED <<head, owned>>,
         \A u \in Threads \ {t} : Same(u),
         \A i \in Items \ owned[t] : next'[i] = next[i],
         ThreadInv(t)', HeadInv(t)'
  PROVE  IInv'
<1>1. OneOwner' /\ UNCHANGED InStack
  BY DEF IInv, OneOwner, InStack, Owned
<1>2. \A i \in InStack : next'[i] = next[i]
  BY Disjoint DEF InStack
<1>3. StackInv'
  <2>1. PICK n \in Nat : \E s \in [1 .. n -> Items] : Lists(n, s)
    BY DEF IInv, StackInv
  <2>2. PICK s \in [1 .. n -> Items] : Lists(n, s)
    BY <2>1
  <2>3. \A k \in 1 .. n : s[k] \in InStack
    BY <2>2 DEF Lists
  <2>4. Lists(n, s)'
    BY <1>1, <1>2, <2>2, <2>3 DEF Lists
  <2>5. QED
    BY <2>2, <2>4 DEF StackInv
<1>4. ASSUME NEW u \in Threads, u # t
      PROVE  ThreadInv(u)'
  BY <1>4, OthersUndisturbed
<1>5. ASSUME NEW u \in Threads, u # t
      PROVE  HeadInv(u)'
  <2>1. HeadInv(u) /\ Same(u)
    BY <1>5 DEF IInv
  <2>2. ASSUME pc[u] = "swap", op[u] = "Pop", head = seen[u]
        PROVE  head.value \in InStack
    <3>1. ~ Refuses(u)
      BY <2>2 DEF IInv, ThreadInv, SwapInv
    <3>2. head.value \in Items
      BY <2>2, <3>1 DEF Refuses, IInv, TypeOK, Pointers
    <3>3. QED
      BY <3>2, HeadInStack
  <2>3. QED
    BY <1>2, <2>1, <2>2 DEF HeadInv, Same
<1>6. QED
  BY <1>1, <1>3, <1>4, <1>5 DEF IInv

-----------------------------------------------------------------------------
(* The variables of the routines, after a routine returned.                *)
LocalTypes ==
  /\ pc \in [Threads -> Places]
  /\ op \in [Threads -> Routines \cup {"none"}]
  /\ arg \in [Threads -> [first : Links, last : Links]]
  /\ seen \in [Threads -> [value : Pointers, counter : Nat]]
  /\ fresh \in [Threads -> Pointers]
  /\ rev \in [Threads -> [ret : Links, current : Links]]

LEMMA Update ==
  ASSUME NEW D, NEW S, NEW f \in [D -> S], NEW d \in D, NEW v \in S
  PROVE  [f EXCEPT ![d] = v] \in [D -> S]
OBVIOUS

LEMMA ReturnTypes ==
  ASSUME LocalTypes, NEW t \in Threads, Return(t)
  PROVE  LocalTypes'
<1> USE DEF LocalTypes, Return, Goto
<1>1. pc' \in [Threads -> Places] /\ op' \in [Threads -> Routines \cup {"none"}]
  BY DEF Places
<1>2. arg' \in [Threads -> [first : Links, last : Links]]
  BY DEF NoList, Links
<1>3. seen' \in [Threads -> [value : Pointers, counter : Nat]]
  BY DEF NoHead, Pointers
<1>4. fresh' \in [Threads -> Pointers]
  BY DEF Pointers
<1>5. rev' \in [Threads -> [ret : Links, current : Links]]
  BY DEF NoRev, Links
<1>6. QED
  BY <1>1, <1>2, <1>3, <1>4, <1>5

LEMMA TypeStep ==
  ASSUME IInv, [Next]_vars, Counted
  PROVE  TypeOK'
<1> USE DEF IInv, TypeOK, Pointers, Links, Places, Routines, Goto
<1>1. CASE UNCHANGED vars
  BY <1>1 DEF vars
<1>2. ASSUME NEW t \in Threads, CallGiving(t)
      PROVE  TypeOK'
  <2>1. owned[t] \subseteq Items
    OBVIOUS
  <2>2. PICK o \in Calls \cap Giving, first \in owned[t], last \in owned[t] :
          /\ op' = [op EXCEPT ![t] = o]
          /\ next' = [next EXCEPT ![first] = last, ![last] = NIL]
          /\ \/ pc' = [pc EXCEPT ![t] = "walk"]
             \/ pc' = [pc EXCEPT ![t] = "value"]
          /\ \/ arg' = [arg EXCEPT ![t] = [first |-> first, last |-> first]]
             \/ arg' = [arg EXCEPT ![t] = [first |-> first, last |-> last]]
    BY <1>2 DEF CallGiving
  <2>3. next' \in [Items -> Links]
    BY <2>1, <2>2
  <2>4. arg' \in [Threads -> [first : Links, last : Links]]
    BY SMTT(40), <2>1, <2>2
  <2>6. op' \in [Threads -> Routines \cup {"none"}]
    BY <2>2, CallsAssumption
  <2>7. pc' \in [Threads -> Places]
    BY <2>2
  <2>5. QED
    BY <1>2, <2>3, <2>4, <2>6, <2>7 DEF CallGiving
<1>3. ASSUME NEW t \in Threads, CallPlain(t)
      PROVE  TypeOK'
  BY <1>3, CallsAssumption DEF CallPlain
<1>r. ASSUME NEW t \in Threads, Return(t), TypeOK,
             head' \in [value : Pointers, counter : Nat],
             next' \in [Items -> Links],
             owned' \in [Threads -> SUBSET Items]
      PROVE  TypeOK'
  <2>1. LocalTypes'
    BY <1>r, ReturnTypes DEF TypeOK, LocalTypes
  <2>2. QED
    BY <1>r, <2>1 DEF TypeOK, LocalTypes
<1>4. ASSUME NEW t \in Threads, Walk(t)
      PROVE  TypeOK'
  <2>1. op[t] \in Giving /\ op[t] \in Pushes
    BY <1>4 DEF Walk, ThreadInv, PlaceInv, Giving, Pushes
  <2>2. arg[t].last \in Items
    BY <2>1 DEF ThreadInv, ListInv
  <2>3. next[arg[t].last] \in Links /\ arg[t].first \in Links
    BY <2>2
  <2>4. arg' \in [Threads -> [first : Links, last : Links]]
    BY SMTT(40), <1>4, <2>3 DEF Walk
  <2>5. QED
    BY <1>4, <2>4 DEF Walk
<1>5. ASSUME NEW t \in Threads, ReadValue(t) \/ ReadCounter(t)
      PROVE  TypeOK'
  <2>1. seen[t].value \in Pointers /\ seen[t].counter \in Nat
    OBVIOUS
  <2>2. head.value \in Pointers /\ head.counter \in Nat
    OBVIOUS
  <2>5. PICK v \in [value : Pointers, counter : Nat] : seen' = [seen EXCEPT ![t] = v]
    <3>1. CASE ReadValue(t)
      <4>1. seen' = [seen EXCEPT ![t] = [value |-> head.value, counter |-> seen[t].counter]]
        BY <3>1 DEF ReadValue
      <4>2. QED
        BY <2>1, <2>2, <4>1
    <3>2. CASE ReadCounter(t)
      <4>1. seen' = [seen EXCEPT ![t] = [value |-> seen[t].value, counter |-> head.counter]]
        BY <3>2 DEF ReadCounter
      <4>2. QED
        BY <2>1, <2>2, <4>1
    <3>3. QED
      BY <1>5, <3>1, <3>2
  <2>3. seen' \in [Threads -> [value : Pointers, counter : Nat]]
    BY <2>5, Update
  <2>4. QED
    BY <1>5, <2>3 DEF ReadValue, ReadCounter
<1>11. ASSUME NEW t \in Threads, Refuse(t)
      PROVE  TypeOK'
  BY <1>11, <1>r DEF Refuse
<1>6. ASSUME NEW t \in Threads, Prepare(t)
      PROVE  TypeOK'
  <2>1. op[t] = "Pop" => seen[t].value \in Items
    BY <1>6 DEF Prepare, Refuses
  <2>2. op[t] \in Pushes => seen[t].value \in Links
    BY <1>6 DEF Prepare, Refuses, Pushes
  <2>3. fresh' \in [Threads -> Pointers]
    BY <1>6, <2>1 DEF Prepare, NewHead, Giving
  <2>4. next' \in [Items -> Links]
    BY <1>6, <2>2 DEF Prepare, Pushes
  <2>5. QED
    BY <1>6, <2>3, <2>4 DEF Prepare
<1>7. ASSUME NEW t \in Threads, Swap(t)
      PROVE  TypeOK'
  <2>1. Taken(t) \subseteq Items
    <3>1. op[t] = "Pop" => seen[t].value \in Items
      BY <1>7 DEF Swap, ThreadInv, SwapInv, Refuses
    <3>2. QED
      BY <3>1 DEF Taken, InStack
  <2>2. owned' \in [Threads -> SUBSET Items]
    BY <1>7, <2>1 DEF Swap
  <2>3. head' \in [value : Pointers, counter : Nat]
    BY <1>7 DEF Swap
  <2>4. next' \in [Items -> Links]
    BY <1>7 DEF Swap
  <2>5. CASE Return(t)
    BY <2>2, <2>3, <2>4, <2>5, <1>r
  <2>6. CASE ~ Return(t)
    BY <1>7, <2>2, <2>3, <2>4, <2>6 DEF Swap, locals
  <2>7. QED
    BY <2>5, <2>6
<1>8. ASSUME NEW t \in Threads, SwapFails(t)
      PROVE  TypeOK'
  <2>1. seen' \in [Threads -> [value : Pointers, counter : Nat]]
    <3>1. seen' = [seen EXCEPT ![t] = head] \/ seen' = seen
      BY <1>8 DEF SwapFails
    <3>2. head \in [value : Pointers, counter : Nat]
      OBVIOUS
    <3>3. CASE seen' = [seen EXCEPT ![t] = head]
      <4> HIDE DEF TypeOK, Pointers
      <4>1. seen \in [Threads -> [value : Pointers, counter : Nat]]
        BY DEF TypeOK
      <4>2. QED
        BY <3>2, <3>3, <4>1, Update
    <3>4. QED
      BY <3>1, <3>3
  <2>2. pc' \in [Threads -> Places]
    <3>1. \/ pc' = [pc EXCEPT ![t] = "prepare"]
          \/ pc' = [pc EXCEPT ![t] = "value"]
      BY <1>8 DEF SwapFails
    <3>2. QED
      BY <3>1
  <2>3. QED
    BY <1>8, <2>1, <2>2 DEF SwapFails
<1>9. ASSUME NEW t \in Threads, ReverseFirst(t) \/ ReverseNext(t)
      PROVE  TypeOK'
  <2>1. PICK D \in SUBSET owned[t] : Detached(t, D)
    BY <1>9 DEF ReverseFirst, ReverseNext, ThreadInv, DetachedInv
  <2>2. D \subseteq Items
    OBVIOUS
  <2>3. CASE ReverseFirst(t)
    <3>1. seen[t].value \in Items /\ next[seen[t].value] \in Links
      BY <2>1, <2>2, <2>3 DEF ReverseFirst, Detached
    <3>2. next' \in [Items -> Links]
      BY <2>3, <3>1 DEF ReverseFirst, Return
    <3>3. CASE Return(t)
      BY <2>3, <3>2, <3>3, <1>r DEF ReverseFirst
    <3>4. CASE ~ Return(t)
      <4>1. rev' \in [Threads -> [ret : Links, current : Links]]
        <5>1. rev' = [rev EXCEPT ![t] = [ret |-> seen[t].value, current |-> next[seen[t].value]]]
          BY <2>3, <3>4 DEF ReverseFirst
        <5>2. [ret |-> seen[t].value, current |-> next[seen[t].value]] \in [ret : Links, current : Links]
          BY <3>1
        <5>3. QED
          BY <5>1, <5>2, Update
      <4>2. QED
        BY <2>3, <3>2, <3>4, <4>1 DEF ReverseFirst
    <3>5. QED
      BY <3>3, <3>4
  <2>4. CASE ReverseNext(t)
    <3>1. /\ rev[t].current \in Items /\ next[rev[t].current] \in Links
          /\ rev[t].ret \in Links
      BY <2>1, <2>2, <2>4 DEF ReverseNext, Detached
    <3>2. next' \in [Items -> Links]
      BY <2>4, <3>1 DEF ReverseNext
    <3>3. CASE Return(t)
      BY <2>4, <3>2, <3>3, <1>r DEF ReverseNext
    <3>4. CASE ~ Return(t)
      <4>1. rev' \in [Threads -> [ret : Links, current : Links]]
        <5>1. rev' = [rev EXCEPT ![t] = [ret |-> rev[t].current, current |-> next[rev[t].current]]]
          BY <2>4, <3>4 DEF ReverseNext
        <5>2. [ret |-> rev[t].current, current |-> next[rev[t].current]] \in [ret : Links, current : Links]
          BY <3>1
        <5>3. QED
          BY <5>1, <5>2, Update
      <4>2. QED
        BY <2>4, <3>2, <3>4, <4>1 DEF ReverseNext
    <3>5. QED
      BY <3>3, <3>4
  <2>5. QED
    BY <1>9, <2>3, <2>4
<1>10. QED
  BY <1>1, <1>2, <1>3, <1>4, <1>5, <1>6, <1>7, <1>8, <1>9, <1>11 DEF Next, RoutineStep

-----------------------------------------------------------------------------
(* The steps that leave the head alone.                                    *)
LEMMA ReturnInv ==
  ASSUME TypeOK, TypeOK', NEW t \in Threads, Return(t)
  PROVE  ThreadInv(t)' /\ HeadInv(t)'
<1>1. pc'[t] = "idle" /\ op'[t] = "none" /\ seen'[t] = NoHead /\ arg'[t] = NoList
  BY DEF TypeOK, Return, Goto
<1>2. HeadInv(t)'
  BY <1>1 DEF HeadInv, NoHead, TypeOK
<1>3. QED
  BY <1>1, <1>2 DEF ThreadInv, PlaceInv, ListInv, SwapInv, DetachedInv, Giving

LEMMA CallGivingStep ==
  ASSUME IInv, TypeOK', NEW t \in Threads, CallGiving(t)
  PROVE  IInv'
<1>1. PICK o \in Calls \cap Giving, first \in owned[t], last \in owned[t] :
        /\ op' = [op EXCEPT ![t] = o]
        /\ next' = [next EXCEPT ![first] = last, ![last] = NIL]
        /\ IF o = "PushCalcList"
           THEN Goto(t, "walk")  /\ arg' = [arg EXCEPT ![t] = [first |-> first, last |-> first]]
           ELSE Goto(t, "value") /\ arg' = [arg EXCEPT ![t] = [first |-> first, last |-> last]]
  BY DEF CallGiving
<1>2. UNCHANGED <<head, owned, seen, fresh, rev>>
  BY DEF CallGiving
<1>3. owned[t] \subseteq Items
  BY Disjoint
<1>4. \A u \in Threads \ {t} : Same(u)
  BY <1>1, <1>2 DEF Same, Goto, IInv, TypeOK
<1>5. \A i \in Items \ owned[t] : next'[i] = next[i]
  BY <1>1, <1>3 DEF IInv, TypeOK
<1>6. /\ op'[t] = o /\ arg'[t].first = first
      /\ next'[last] = NIL /\ (first # last => next'[first] = last)
      /\ \/ pc'[t] = "walk" /\ o = "PushCalcList" /\ arg'[t].last = first
         \/ pc'[t] = "value" /\ arg'[t].last = last
      /\ Given(t)' \subseteq {first, last}
  BY <1>1, <1>3 DEF Goto, IInv, TypeOK, Given
<1>7. ListInv(t)'
  <2>1. first \in Items /\ last \in Items /\ Given(t)' \subseteq owned'[t]
    BY <1>2, <1>3, <1>6
  <2>2. CASE pc'[t] = "walk"
    BY <1>2, <1>6, <2>1, <2>2 DEF ListInv, Pushes
  <2>3. CASE pc'[t] = "value"
    BY <1>2, <1>6, <2>1, <2>3 DEF ListInv, Pushes
  <2>4. QED
    BY <1>6, <2>2, <2>3
<1>8. ThreadInv(t)' /\ HeadInv(t)'
  <2>1. seen'[t].counter <= head'.counter
    BY <1>2 DEF IInv, HeadInv
  <2>2. o # "none"
    BY DEF Giving
  <2>3. QED
    BY <1>6, <1>7, <2>1, <2>2 DEF ThreadInv, PlaceInv, SwapInv, DetachedInv, HeadInv
<1>9. QED
  BY <1>2, <1>4, <1>5, <1>8, LocalStep

(* A step that writes no link and leaves the list passed in alone.         *)
LEMMA NoWriteStep ==
  ASSUME IInv, TypeOK', NEW t \in Threads,
         UNCHANGED <<head, owned, next>>,
         \A u \in Threads \ {t} : Same(u),
         ThreadInv(t)', HeadInv(t)'
  PROVE  IInv'
BY LocalStep

LEMMA CallPlainStep ==
  ASSUME IInv, TypeOK', NEW t \in Threads, CallPlain(t)
  PROVE  IInv'
<1>1. PICK o \in Calls \ Pushes : op' = [op EXCEPT ![t] = o]
  BY DEF CallPlain, Pushes
<1>2. /\ op'[t] = o /\ pc'[t] = "value" /\ o # "none"
      /\ UNCHANGED <<head, next, owned, arg, seen, fresh, rev>>
  BY <1>1, CallsAssumption DEF CallPlain, Goto, IInv, TypeOK, Routines
<1>3. \A u \in Threads \ {t} : Same(u)
  BY <1>1, <1>2 DEF CallPlain, Goto, Same, IInv, TypeOK
<1>4. ListInv(t)'
  <2>1. arg'[t] = NoList
    BY <1>2 DEF CallPlain, IInv, ThreadInv, PlaceInv
  <2>2. QED
    BY <1>1, <1>2, <2>1 DEF ListInv, Given, NoList
<1>5. HeadInv(t)'
  BY <1>2 DEF IInv, HeadInv
<1>6. ThreadInv(t)'
  BY <1>2, <1>4 DEF ThreadInv, PlaceInv, SwapInv, DetachedInv
<1>7. QED
  BY <1>2, <1>3, <1>5, <1>6, NoWriteStep

LEMMA WalkStep ==
  ASSUME IInv, TypeOK', NEW t \in Threads, Walk(t)
  PROVE  IInv'
<1>1. /\ UNCHANGED <<head, next, owned, op, seen, fresh, rev>>
      /\ \A u \in Threads \ {t} : Same(u)
  BY DEF Walk, Goto, Same, IInv, TypeOK
<1>2. /\ op[t] = "PushCalcList" /\ op[t] \in Giving /\ op[t] \in Pushes
      /\ ListInv(t)
  BY DEF Walk, IInv, ThreadInv, PlaceInv, Giving, Pushes
<1>3. CASE next[arg[t].last] = NIL
  <2>1. arg' = arg /\ pc'[t] = "value"
    BY <1>3 DEF Walk, Goto, IInv, TypeOK
  <2>2. ListInv(t)'
    BY <1>1, <1>2, <1>3, <2>1 DEF ListInv, Given
  <2>3. ThreadInv(t)'
    BY <1>1, <1>2, <2>1, <2>2 DEF ThreadInv, PlaceInv, SwapInv, DetachedInv
  <2>4. HeadInv(t)'
    BY <1>1, <2>1 DEF IInv, HeadInv
  <2>5. QED
    BY <1>1, <2>3, <2>4, NoWriteStep
<1>4. CASE next[arg[t].last] # NIL
  <2> DEFINE first == arg[t].first
             link  == next[arg[t].last]
  <2>1. /\ arg[t].last = first /\ link \in owned[t] \ {first} /\ next[link] = NIL
        /\ first # NIL /\ first \in owned[t]
    <3>1. arg[t].last = first /\ link \in owned[t] \ {first} /\ next[link] = NIL /\ first # NIL
      BY <1>2, <1>4 DEF ListInv, Walk
    <3>2. first \in Given(t)
      BY <1>2, <3>1 DEF Given
    <3>3. QED
      BY <1>2, <3>1, <3>2 DEF ListInv
  <2>2. arg'[t].first = first /\ arg'[t].last = link /\ pc' = pc
    BY <1>4 DEF Walk, IInv, TypeOK
  <2>3. link # NIL /\ owned[t] \subseteq Items
    BY <1>4, Disjoint
  <2>4. Given(t)' \subseteq owned'[t]
    BY <1>1, <2>1, <2>2 DEF Given
  <2>5. ListInv(t)'
    BY <1>1, <1>2, <2>1, <2>2, <2>3, <2>4 DEF ListInv, Given
  <2>6. ThreadInv(t)'
    BY <1>1, <1>2, <2>2, <2>5 DEF ThreadInv, PlaceInv, SwapInv, DetachedInv, Walk
  <2>7. HeadInv(t)'
    BY <1>1, <2>2 DEF IInv, HeadInv, Walk
  <2>8. QED
    BY <1>1, <2>6, <2>7, NoWriteStep
<1>5. QED
  BY <1>3, <1>4

(* A read of the head, and the failure of the swap.                        *)
LEMMA ReadStep ==
  ASSUME IInv, TypeOK', NEW t \in Threads, Counted,
         ReadValue(t) \/ ReadCounter(t) \/ SwapFails(t)
  PROVE  IInv'
<1>1. /\ UNCHANGED <<head, owned, next, op, arg, rev, fresh>>
      /\ \A u \in Threads \ {t} : Same(u)
  <2>1. UNCHANGED <<head, owned, next, op, arg, rev, fresh>>
    BY DEF ReadValue, ReadCounter, SwapFails
  <2>2. ASSUME NEW u \in Threads \ {t}
        PROVE  pc'[u] = pc[u] /\ seen'[u] = seen[u]
    BY DEF ReadValue, ReadCounter, SwapFails, Goto, IInv, TypeOK
  <2>3. QED
    BY <2>1, <2>2 DEF Same
<1>2. /\ pc[t] \in {"value", "counter", "swap"}
      /\ pc'[t] \in {"value", "counter", "prepare"}
  <2>1. CASE ReadValue(t)
    BY <2>1 DEF ReadValue, Goto, IInv, TypeOK
  <2>2. CASE ReadCounter(t)
    BY <2>2 DEF ReadCounter, Goto, IInv, TypeOK
  <2>3. CASE SwapFails(t)
    <3>1. \/ pc' = [pc EXCEPT ![t] = "prepare"]
          \/ pc' = [pc EXCEPT ![t] = "value"]
      BY <2>3 DEF SwapFails, Goto
    <3>2. QED
      BY <2>3, <3>1 DEF SwapFails, IInv, TypeOK
  <2>4. QED
    BY <2>1, <2>2, <2>3
<1>3. ThreadInv(t)'
  BY <1>1, <1>2 DEF IInv, ThreadInv, PlaceInv, ListInv, SwapInv, DetachedInv, Given
<1>4. HeadInv(t)'
  <2>1. seen'[t].counter \in {seen[t].counter, head.counter}
    <3>1. CASE ReadValue(t)
      BY <3>1 DEF ReadValue, IInv, TypeOK
    <3>2. CASE ReadCounter(t)
      BY <3>2 DEF ReadCounter, IInv, TypeOK
    <3>3. CASE SwapFails(t)
      <4>1. seen' = [seen EXCEPT ![t] = head] \/ seen' = seen
        BY <3>3 DEF SwapFails
      <4>2. QED
        BY <4>1 DEF IInv, TypeOK
    <3>4. QED
      BY <3>1, <3>2, <3>3
  <2>2. seen'[t].counter <= head'.counter
    BY <1>1, <2>1 DEF IInv, TypeOK, HeadInv
  <2>3. QED
    BY <1>2, <2>2 DEF HeadInv
<1>5. QED
  BY <1>1, <1>3, <1>4, NoWriteStep

LEMMA RefuseStep ==
  ASSUME IInv, TypeOK', NEW t \in Threads, Refuse(t)
  PROVE  IInv'
<1>1. UNCHANGED <<head, owned, next>> /\ \A u \in Threads \ {t} : Same(u)
  BY DEF Refuse, Return, Goto, Same, IInv, TypeOK
<1>2. ThreadInv(t)' /\ HeadInv(t)'
  BY ReturnInv DEF Refuse, IInv
<1>3. QED
  BY <1>1, <1>2, NoWriteStep

LEMMA PrepareStep ==
  ASSUME IInv, TypeOK', NEW t \in Threads, Prepare(t)
  PROVE  IInv'
<1>1. /\ UNCHANGED <<head, owned, op, arg, seen, rev>>
      /\ \A u \in Threads \ {t} : Same(u)
      /\ pc[t] = "prepare" /\ pc'[t] = "swap" /\ ~ Refuses(t)
      /\ fresh'[t] = NewHead(t)
  BY DEF Prepare, Goto, Same, IInv, TypeOK
<1>2. CASE op[t] \in Pushes
  <2>1. /\ op[t] \in Giving /\ arg[t].first # NIL /\ arg[t].last # NIL
        /\ Given(t) = {arg[t].first, arg[t].last} /\ Given(t) \subseteq owned[t]
    BY <1>2 DEF Pushes, Giving, IInv, ThreadInv, ListInv, Given
  <2>2. owned[t] \subseteq Items
    BY Disjoint
  <2>3. next' = [next EXCEPT ![arg[t].last] = seen[t].value]
    BY <1>2 DEF Prepare, Pushes
  <2>4. /\ \A i \in Items \ owned[t] : next'[i] = next[i]
        /\ next'[arg[t].last] = seen[t].value
        /\ arg[t].first # arg[t].last => next'[arg[t].first] = next[arg[t].first]
    BY <2>1, <2>2, <2>3 DEF IInv, TypeOK
  <2>5. ListInv(t)'
    BY <1>1, <1>2, <2>1, <2>4 DEF ListInv, Given, IInv, ThreadInv
  <2>6. fresh'[t] = arg[t].first
    BY <1>1, <1>2, <2>1 DEF NewHead, Pushes
  <2>7. SwapInv(t)'
    BY <1>1, <1>2, <2>4, <2>6 DEF SwapInv, Refuses, Pushes
  <2>8. ThreadInv(t)'
    BY <1>1, <2>5, <2>7 DEF ThreadInv, PlaceInv, DetachedInv, IInv
  <2>9. HeadInv(t)'
    BY <1>1, <1>2 DEF HeadInv, Pushes, IInv
  <2>10. QED
    BY <1>1, <2>4, <2>8, <2>9, LocalStep
<1>3. CASE op[t] \notin Pushes
  <2>1. UNCHANGED next
    BY <1>3 DEF Prepare, Pushes
  <2>2. ListInv(t)'
    BY <1>1, <2>1 DEF ListInv, Given, IInv, ThreadInv
  <2>3. SwapInv(t)'
    <3>1. ~ Refuses(t)'
      BY <1>1 DEF Refuses
    <3>2. /\ op[t] = "Invalidate" => NewHead(t) = INVALID
          /\ op[t] \in Giving => NewHead(t) = arg[t].first
          /\ op[t] \in {"PopList", "PopReversed"} => NewHead(t) = NIL
      BY DEF NewHead, Giving
    <3>3. QED
      BY <1>1, <1>3, <3>1, <3>2 DEF SwapInv
  <2>4. ThreadInv(t)'
    BY <1>1, <2>2, <2>3 DEF ThreadInv, PlaceInv, DetachedInv, IInv
  <2>5. HeadInv(t)'
    <3>1. ASSUME op[t] = "Pop", head = seen[t]
          PROVE  fresh'[t] = next[head.value]
      BY <1>1, <3>1 DEF NewHead
    <3>2. QED
      BY <1>1, <2>1, <3>1 DEF HeadInv, IInv
  <2>6. QED
    BY <1>1, <2>1, <2>4, <2>5, NoWriteStep
<1>4. QED
  BY <1>2, <1>3

LEMMA ReverseStep ==
  ASSUME IInv, TypeOK', NEW t \in Threads, ReverseFirst(t) \/ ReverseNext(t)
  PROVE  IInv'
<1>1. PICK D \in SUBSET owned[t] : Detached(t, D)
  BY DEF ReverseFirst, ReverseNext, IInv, ThreadInv, DetachedInv
<1>2. D \subseteq Items /\ owned[t] \subseteq Items
  BY Disjoint
<1>3. UNCHANGED <<head, owned>> /\ \A u \in Threads \ {t} : Same(u)
  BY DEF ReverseFirst, ReverseNext, Return, Goto, Same, IInv, TypeOK
<1>4. PICK item \in D, link \in D \cup {NIL} :
        next' = next \/ next' = [next EXCEPT ![item] = link]
  BY <1>1 DEF ReverseFirst, ReverseNext, Detached
<1>5. /\ \A i \in Items \ owned[t] : next'[i] = next[i]
      /\ \A i \in D : next'[i] \in D \cup {NIL}
  BY <1>1, <1>2, <1>4 DEF Detached, IInv, TypeOK
<1>6. CASE Return(t)
  <2>1. ThreadInv(t)' /\ HeadInv(t)'
    BY <1>3, <1>6, ReturnInv DEF IInv
  <2>2. QED
    BY <1>3, <1>5, <2>1, LocalStep
<1>7. CASE ~ Return(t)
  <2>1. /\ pc'[t] = "reverse" /\ UNCHANGED <<op, arg, seen, fresh>>
        /\ rev'[t].current \in D /\ rev'[t].ret \in D
    <3>1. CASE ReverseFirst(t)
      BY <1>1, <1>2, <1>7, <3>1 DEF ReverseFirst, Detached, Goto, IInv, TypeOK
    <3>2. CASE ReverseNext(t)
      BY <1>1, <1>2, <1>7, <3>2 DEF ReverseNext, Detached, IInv, TypeOK
    <3>3. QED
      BY <3>1, <3>2
  <2>2. op[t] = "PopReversed"
    BY DEF ReverseFirst, ReverseNext, IInv, ThreadInv, PlaceInv
  <2>3. DetachedInv(t)'
    <3>1. Detached(t, D)' /\ D \in SUBSET owned'[t]
      BY <1>3, <1>5, <2>1 DEF Detached
    <3>2. QED
      BY <3>1 DEF DetachedInv
  <2>4. ThreadInv(t)'
    BY <2>1, <2>2, <2>3 DEF ThreadInv, PlaceInv, ListInv, SwapInv, Giving
  <2>5. HeadInv(t)'
    BY <1>3, <2>1 DEF HeadInv, IInv
  <2>6. QED
    BY <1>3, <1>5, <2>4, <2>5, LocalStep
<1>8. QED
  BY <1>6, <1>7

-----------------------------------------------------------------------------
(* The swap.  The list of the stack gives away its top or all of itself,   *)
(* or gets the one or two items of the list passed in.                     *)
LEMMA SwapOwners ==
  ASSUME IInv, NEW t \in Threads, Swap(t), Taken(t) \subseteq InStack
  PROVE  /\ InStack' = (InStack \ Taken(t)) \cup Given(t)
         /\ Given(t) \subseteq owned[t]
         /\ OneOwner'
<1>1. Given(t) \subseteq owned[t]
  BY DEF IInv, ThreadInv, ListInv, Given
<1>2. owned' = [owned EXCEPT ![t] = (@ \ Given(t)) \cup Taken(t)]
  BY DEF Swap
<1>3. /\ \A u \in Threads : owned[u] \cap InStack = {} /\ owned[u] \subseteq Items
      /\ \A u, v \in Threads : u # v => owned[u] \cap owned[v] = {}
      /\ owned \in [Threads -> SUBSET Items]
  BY Disjoint DEF IInv, TypeOK, OneOwner
<1>4. OneOwner'
  <2> SUFFICES ASSUME NEW u \in Threads, NEW v \in Threads, u # v
               PROVE  owned'[u] \cap owned'[v] = {}
    BY DEF OneOwner
  <2>1. /\ owned'[t] = (owned[t] \ Given(t)) \cup Taken(t)
        /\ \A w \in Threads \ {t} : owned'[w] = owned[w]
    BY <1>2, <1>3
  <2>2. QED
    BY <1>3, <2>1
<1>5. InStack' = (InStack \ Taken(t)) \cup Given(t)
  <2>1. ASSUME NEW i
        PROVE  i \in InStack <=> i \in Items /\ \A u \in Threads : i \notin owned[u]
    BY DEF InStack, Owned
  <2>2. ASSUME NEW i
        PROVE  i \in InStack' <=> i \in Items /\ \A u \in Threads : i \notin owned'[u]
    BY DEF InStack, Owned
  <2>3. /\ owned'[t] = (owned[t] \ Given(t)) \cup Taken(t)
        /\ \A w \in Threads \ {t} : owned'[w] = owned[w]
    BY <1>2, <1>3
  <2>4. ASSUME NEW i
        PROVE  i \in InStack' <=> i \in (InStack \ Taken(t)) \cup Given(t)
    BY <1>1, <1>3, <2>1, <2>2, <2>3
  <2>5. QED
    BY <2>4
<1>6. QED
  BY <1>1, <1>4, <1>5

(* The list a routine was passed, and what the swap of a routine makes of  *)
(* the list s in the stack.                                                *)
Pair(first, last) == IF first = last THEN <<first>> ELSE <<first, last>>

Passed(t) == IF arg[t].first = NIL THEN <<>> ELSE Pair(arg[t].first, arg[t].last)

Becomes(t, s, z) ==
  /\ op[t] = "Pop" => s # <<>> /\ Taken(t) = {Head(s)} /\ z = Tail(s)
  /\ op[t] \in {"PopList", "PopReversed", "Invalidate"} => z = <<>>
  /\ op[t] \in {"Change", "Validate"} => z = Passed(t)
  /\ op[t] \in Pushes => z = Passed(t) \o s

(* A list of no items, and the list passed in as the whole stack.          *)
LEMMA NoItems ==
  ASSUME InStack' = {}, head'.value \notin Items
  PROVE  <<>> \in [1 .. 0 -> Items] /\ Lists(0, <<>>)'
BY DEF Lists

LEMMA OwnList ==
  ASSUME NEW first \in Items, NEW last \in Items, InStack' = {first, last},
         head'.value = first, next'[last] = NIL,
         first # last => next'[first] = last
  PROVE  \E n \in Nat :
           /\ Pair(first, last) \in [1 .. n -> Items]
           /\ Lists(n, Pair(first, last))'
<1>1. CASE first = last
  <2>1. Pair(first, last) = <<first>> /\ <<first>> \in [1 .. 1 -> Items]
    BY <1>1 DEF Pair
  <2>2. Lists(1, <<first>>)'
    BY <1>1 DEF Lists
  <2>3. QED
    BY <2>1, <2>2
<1>2. CASE first # last
  <2>1. Pair(first, last) = <<first, last>> /\ <<first, last>> \in [1 .. 2 -> Items]
    BY <1>2 DEF Pair
  <2>2. Lists(2, <<first, last>>)'
    BY <1>2 DEF Lists
  <2>3. QED
    BY <2>1, <2>2
<1>3. QED
  BY <1>1, <1>2

(* One item on top, and the top item off.                                  *)
Enumerates(n, s, S, link) ==
  /\ s \in [1 .. n -> Items]
  /\ {s[k] : k \in 1 .. n} = S
  /\ \A j, k \in 1 .. n : s[j] = s[k] => j = k
  /\ \A k \in 1 .. n : link[s[k]] = IF k = n THEN NIL ELSE s[k + 1]

LinksTo(top, n, s, link) == link[top] = IF n = 0 THEN NIL ELSE s[1]

LEMMA AsSequence ==
  ASSUME NEW n \in Nat, NEW s \in [1 .. n -> Items]
  PROVE  s \in Seq(Items) /\ Len(s) = n
OBVIOUS

LEMMA TwoOn ==
  ASSUME NEW s \in Seq(Items), NEW a \in Items, NEW b \in Items
  PROVE  <<a>> \o (<<b>> \o s) = <<a, b>> \o s
<1> DEFINE x == <<a>> \o (<<b>> \o s)
           y == <<a, b>> \o s
<1>1. x \in Seq(Items) /\ y \in Seq(Items) /\ Len(x) = Len(s) + 2 /\ Len(y) = Len(s) + 2
  OBVIOUS
<1>2. ASSUME NEW k \in 1 .. Len(s) + 2
      PROVE  x[k] = y[k]
  <2>1. CASE k = 1
    BY <2>1
  <2>2. CASE k = 2
    BY <2>2
  <2>3. CASE k > 2
    BY <2>3
  <2>4. QED
    BY <2>1, <2>2, <2>3
<1> HIDE DEF x, y
<1>3. x = [k \in 1 .. Len(s) + 2 |-> x[k]] /\ y = [k \in 1 .. Len(s) + 2 |-> y[k]]
  BY <1>1
<1>4. x = y
  BY <1>2, <1>3
<1>5. QED
  BY <1>4 DEF x, y

LEMMA Prepended ==
  ASSUME NEW n \in Nat, NEW s \in [1 .. n -> Items], NEW top \in Items,
         NEW z \in [1 .. n + 1 -> Items],
         \A k \in 1 .. n + 1 : z[k] = IF k = 1 THEN top ELSE s[k - 1]
  PROVE  z = <<top>> \o s
<1> DEFINE y == <<top>> \o s
<1>1. y \in Seq(Items) /\ Len(y) = n + 1
  BY AsSequence
<1>2. y = [k \in 1 .. n + 1 |-> y[k]]
  BY <1>1
<1>3. ASSUME NEW k \in 1 .. n + 1
      PROVE  y[k] = z[k]
  BY AsSequence
<1>4. z = [k \in 1 .. n + 1 |-> z[k]]
  OBVIOUS
<1>5. QED
  BY <1>2, <1>3, <1>4

LEMMA Behead ==
  ASSUME NEW n \in Nat, n # 0, NEW s \in [1 .. n -> Items],
         NEW z \in [1 .. n - 1 -> Items], \A k \in 1 .. n - 1 : z[k] = s[k + 1]
  PROVE  z = Tail(s)
<1> DEFINE y == Tail(s)
<1>1. s \in Seq(Items) /\ Len(s) = n /\ s # <<>>
  BY AsSequence
<1>2. y \in Seq(Items) /\ Len(y) = n - 1
  BY <1>1
<1>3. y = [k \in 1 .. n - 1 |-> y[k]]
  <2> HIDE DEF y
  <2> QED
    BY <1>2
<1>4. ASSUME NEW k \in 1 .. n - 1
      PROVE  y[k] = z[k]
  BY <1>1
<1>5. z = [k \in 1 .. n - 1 |-> z[k]]
  OBVIOUS
<1>6. QED
  BY <1>3, <1>4, <1>5

LEMMA OneOn ==
  ASSUME NEW n \in Nat, NEW s, NEW S, NEW top \in Items, top \notin S,
         NEW link \in [Items -> Links], Enumerates(n, s, S, link),
         LinksTo(top, n, s, link)
  PROVE  \E z : z = <<top>> \o s /\ z[1] = top /\ Enumerates(n + 1, z, S \cup {top}, link)
<1> USE DEF Enumerates, LinksTo
<1> DEFINE z == [k \in 1 .. n + 1 |-> IF k = 1 THEN top ELSE s[k - 1]]
<1>1. z \in [1 .. n + 1 -> Items] /\ z[1] = top
  OBVIOUS
<1>2. \A k \in 1 .. n : z[k + 1] = s[k]
  OBVIOUS
<1>3. {z[k] : k \in 1 .. n + 1} = S \cup {top}
  <2>1. ASSUME NEW k \in 1 .. n + 1
        PROVE  z[k] \in S \cup {top}
    OBVIOUS
  <2>2. ASSUME NEW i \in S
        PROVE  \E k \in 1 .. n + 1 : z[k] = i
    <3>1. PICK k \in 1 .. n : s[k] = i
      OBVIOUS
    <3>2. z[k + 1] = i /\ k + 1 \in 1 .. n + 1
      BY <3>1, <1>2
    <3>3. QED
      BY <3>2
  <2>3. 1 \in 1 .. n + 1
    OBVIOUS
  <2> HIDE DEF z
  <2>4. QED
    BY <1>1, <2>1, <2>2, <2>3
<1>4. \A j, k \in 1 .. n + 1 : z[j] = z[k] => j = k
  <2>1. \A k \in 1 .. n : s[k] \in S
    OBVIOUS
  <2>2. QED
    BY <2>1
<1>5. \A k \in 1 .. n + 1 : link[z[k]] = IF k = n + 1 THEN NIL ELSE z[k + 1]
  <2> SUFFICES ASSUME NEW k \in 1 .. n + 1
               PROVE  link[z[k]] = IF k = n + 1 THEN NIL ELSE z[k + 1]
    OBVIOUS
  <2>1. CASE k = 1
    BY <2>1
  <2>2. CASE k # 1
    BY <2>2
  <2>3. QED
    BY <2>1, <2>2
<1>6. z = <<top>> \o s
  BY <1>1, Prepended
<1> HIDE DEF z
<1>7. QED
  BY <1>1, <1>3, <1>4, <1>5, <1>6

LEMMA TopOff ==
  ASSUME NEW n \in Nat, n # 0, NEW s, NEW S,
         NEW link \in [Items -> Links], Enumerates(n, s, S, link)
  PROVE  \E z :
           /\ z = Tail(s)
           /\ Enumerates(n - 1, z, S \ {s[1]}, link)
           /\ n # 1 => z[1] = link[s[1]]
           /\ n = 1 => link[s[1]] = NIL
<1> USE DEF Enumerates
<1> DEFINE z == [k \in 1 .. n - 1 |-> s[k + 1]]
<1>1. z \in [1 .. n - 1 -> Items]
  OBVIOUS
<1>2. {z[k] : k \in 1 .. n - 1} = S \ {s[1]}
  <2>1. ASSUME NEW k \in 1 .. n - 1
        PROVE  z[k] \in S \ {s[1]}
    OBVIOUS
  <2>2. ASSUME NEW i \in S \ {s[1]}
        PROVE  \E k \in 1 .. n - 1 : z[k] = i
    <3>1. PICK k \in 1 .. n : s[k] = i
      OBVIOUS
    <3>2. z[k - 1] = i /\ k - 1 \in 1 .. n - 1
      BY <3>1
    <3>3. QED
      BY <3>2
  <2> HIDE DEF z
  <2>3. QED
    BY <2>1, <2>2
<1>3. \A j, k \in 1 .. n - 1 : z[j] = z[k] => j = k
  OBVIOUS
<1>4. (n # 1 => z[1] = link[s[1]]) /\ (n = 1 => link[s[1]] = NIL)
  OBVIOUS
<1>5. \A k \in 1 .. n - 1 : link[z[k]] = IF k = n - 1 THEN NIL ELSE z[k + 1]
  OBVIOUS
<1>6. s \in [1 .. n -> Items] /\ \A k \in 1 .. n - 1 : z[k] = s[k + 1]
  OBVIOUS
<1> HIDE DEF z
<1>7. z = Tail(s)
  BY <1>1, <1>6, Behead
<1>8. Enumerates(n - 1, z, S \ {s[1]}, link)
  BY <1>1, <1>2, <1>3, <1>5
<1> HIDE DEF Enumerates
<1>9. QED
  BY <1>4, <1>7, <1>8

LEMMA SwapList ==
  ASSUME IInv, TypeOK', NEW t \in Threads, Swap(t), head = seen[t],
         head'.value = fresh[t], UNCHANGED next,
         InStack' = (InStack \ Taken(t)) \cup Given(t), Given(t) \subseteq owned[t],
         NEW n \in Nat, NEW s \in [1 .. n -> Items], Lists(n, s)
  PROVE  \E m \in Nat : \E z \in [1 .. m -> Items] : Lists(m, z)' /\ Becomes(t, s, z)
<1>1. n # 0 => s # <<>> /\ Head(s) = s[1]
  BY AsSequence
<1>2. Lists(n, s)
  OBVIOUS
<1>3. ~ Refuses(t) /\ SwapInv(t) /\ ListInv(t) /\ HeadInv(t) /\ pc[t] = "swap"
  BY DEF IInv, ThreadInv, SwapInv, Swap
<1>4. /\ next \in [Items -> Links] /\ op[t] \in Routines \cup {"none"}
      /\ owned[t] \subseteq Items /\ owned[t] \cap InStack = {}
      /\ head.value \in Pointers /\ arg[t].first \in Links /\ arg[t].last \in Links
  BY Disjoint DEF IInv, TypeOK
<1>5. CASE op[t] = "Pop"
  <2>1. Given(t) = {} /\ Taken(t) = {head.value}
    BY <1>5 DEF Given, Taken, Giving
  <2>2. n # 0 /\ head.value = s[1]
    BY <1>2, <1>3, <1>4, <1>5 DEF Lists, Refuses, Pointers
  <2>3. head'.value = next[s[1]]
    BY <1>3, <1>5, <2>2 DEF HeadInv
  <2>4. PICK z :
          /\ z = Tail(s)
          /\ Enumerates(n - 1, z, InStack \ {s[1]}, next)
          /\ n # 1 => z[1] = next[s[1]]
          /\ n = 1 => next[s[1]] = NIL
    <3>1. Enumerates(n, s, InStack, next)
      BY <1>2 DEF Lists, Enumerates
    <3>2. next \in [Items -> Links]
      BY <1>4
    <3>3. n # 0
      BY <2>2
    <3>4. QED
      BY ONLY <3>1, <3>2, <3>3, n \in Nat, TopOff
  <2>5. Lists(n - 1, z)'
    BY <2>1, <2>2, <2>3, <2>4 DEF Lists, Enumerates
  <2>6. Becomes(t, s, z)
    BY <1>1, <1>5, <2>1, <2>2, <2>4 DEF Becomes, Pushes
  <2>7. n - 1 \in Nat /\ z \in [1 .. n - 1 -> Items]
    BY <2>2, <2>4 DEF Enumerates
  <2>8. QED
    BY <2>5, <2>6, <2>7
<1>6. CASE op[t] \in {"PopList", "PopReversed", "Invalidate"}
  <2>1. InStack' = {}
    BY <1>6 DEF Given, Taken, Giving, Taking
  <2>2. head'.value \notin Items
    BY <1>3, <1>6 DEF SwapInv
  <2>3. Becomes(t, s, <<>>)
    BY <1>6 DEF Becomes, Pushes
  <2>4. QED
    BY <2>1, <2>2, <2>3, NoItems
<1>7. CASE op[t] \in {"Change", "Validate"}
  <2>1. op[t] \in Giving /\ op[t] \notin Pushes
    BY <1>7 DEF Giving, Pushes
  <2>2. InStack' = Given(t)
    <3>1. CASE op[t] = "Change"
      BY <3>1 DEF Taken, Taking
    <3>2. CASE op[t] = "Validate"
      <4>1. head.value = INVALID
        BY <1>3, <3>2 DEF Refuses
      <4>2. n = 0
        <5>1. ASSUME n # 0
              PROVE  FALSE
          <6>1. 1 \in 1 .. n /\ head.value = s[1]
            BY <1>2, <5>1 DEF Lists
          <6>2. QED
            BY <4>1, <6>1
        <5>2. QED
          BY <5>1
      <4>3. InStack = {}
        BY <1>2, <4>2 DEF Lists
      <4>4. QED
        BY <4>3
    <3>3. QED
      BY <1>7, <3>1, <3>2
  <2>3. head'.value = arg[t].first
    BY <1>3, <2>1 DEF SwapInv
  <2>4. CASE arg[t].first = NIL
    <3>1. InStack' = {}
      BY <1>3, <2>1, <2>2, <2>4 DEF ListInv, Given
    <3>2. Becomes(t, s, <<>>)
      BY <1>7, <2>1, <2>4 DEF Becomes, Passed
    <3>3. QED
      BY <2>3, <2>4, <3>1, <3>2, NoItems
  <2>5. CASE arg[t].first # NIL
    <3>1. /\ arg[t].first \in Items /\ arg[t].last \in Items
          /\ InStack' = {arg[t].first, arg[t].last}
          /\ next'[arg[t].last] = NIL
          /\ arg[t].first # arg[t].last => next'[arg[t].first] = arg[t].last
      BY <1>3, <1>4, <2>1, <2>2, <2>5 DEF ListInv, Given, Links
    <3>2. Becomes(t, s, Pair(arg[t].first, arg[t].last))
      BY <1>7, <2>1, <2>5 DEF Becomes, Passed
    <3>3. QED
      BY <2>3, <3>1, <3>2, OwnList
  <2>6. QED
    BY <2>4, <2>5
<1>8. CASE op[t] \in Pushes
  <2> DEFINE first == arg[t].first
             last  == arg[t].last
  <2>1. op[t] \in Giving /\ Taken(t) = {}
    BY <1>8 DEF Pushes, Giving, Taken, Taking
  <2>2. /\ first \in Items \ InStack /\ last \in Items \ InStack
        /\ InStack' = InStack \cup {first, last}
        /\ first # last => next[first] = last
    BY <1>3, <1>4, <1>8, <2>1 DEF ListInv, Given, Links
  <2>3. head'.value = first /\ next[last] = head.value
    BY <1>3, <1>8, <2>1 DEF SwapInv
  <2>4. head.value = IF n = 0 THEN NIL ELSE s[1]
    BY <1>2, <1>3, <1>4, <1>8 DEF Lists, Refuses, Pushes, Pointers
  <2>5. PICK y : /\ y = <<last>> \o s
                 /\ y[1] = last
                 /\ Enumerates(n + 1, y, InStack \cup {last}, next)
    <3>1. Enumerates(n, s, InStack, next)
      BY <1>2 DEF Lists, Enumerates
    <3>2. next \in [Items -> Links] /\ last \in Items /\ last \notin InStack
      BY <1>4, <2>2
    <3>3. LinksTo(last, n, s, next)
      BY <2>3, <2>4 DEF LinksTo
    <3>4. QED
      BY ONLY <3>1, <3>2, <3>3, n \in Nat, OneOn
  <2>6. CASE first = last
    <3>1. Lists(n + 1, y)'
      <4>1. n + 1 # 0 /\ InStack' = InStack \cup {last} /\ head'.value = last
        BY <2>2, <2>3, <2>6
      <4>2. QED
        BY <2>5, <4>1 DEF Lists, Enumerates
    <3>2. Passed(t) = <<last>>
      BY <2>2, <2>6 DEF Passed, Pair
    <3>3. Becomes(t, s, y)
      BY <1>8, <2>5, <3>2 DEF Becomes, Pushes
    <3>4. n + 1 \in Nat /\ y \in [1 .. n + 1 -> Items]
      BY <2>5 DEF Enumerates
    <3>5. QED
      BY <3>1, <3>3, <3>4
  <2>7. CASE first # last
    <3>1. PICK z :
            /\ z = <<first>> \o y
            /\ z[1] = first
            /\ Enumerates((n + 1) + 1, z, (InStack \cup {last}) \cup {first}, next)
      <4>1. n + 1 \in Nat /\ n + 1 # 0 /\ first \in Items /\ first \notin InStack \cup {last}
        BY <2>2, <2>7
      <4>2. LinksTo(first, n + 1, y, next)
        BY <2>2, <2>5, <2>7, <4>1 DEF LinksTo
      <4>3. next \in [Items -> Links]
        BY <1>4
      <4>4. QED
        BY ONLY ZenonT(60), <2>5, <4>1, <4>2, <4>3, OneOn
    <3>2. Lists((n + 1) + 1, z)'
      <4>1. Enumerates((n + 1) + 1, z, InStack', next) /\ z[1] = head'.value
        <5>1. (InStack \cup {last}) \cup {first} = InStack'
          BY <2>2
        <5>2. QED
          BY <2>3, <3>1, <5>1
      <4>2. (n + 1) + 1 # 0
        OBVIOUS
      <4>3. QED
        BY <4>1, <4>2 DEF Lists, Enumerates
    <3>3. Passed(t) = <<first, last>>
      BY <2>2, <2>7 DEF Passed, Pair
    <3>4. z = Passed(t) \o s
      BY <2>2, <2>5, <3>1, <3>3, AsSequence, TwoOn
    <3>5. Becomes(t, s, z)
      BY <1>8, <3>4 DEF Becomes, Pushes
    <3>6. (n + 1) + 1 \in Nat /\ z \in [1 .. (n + 1) + 1 -> Items]
      BY <3>1 DEF Enumerates
    <3>7. QED
      BY <3>2, <3>5, <3>6
  <2>8. QED
    BY <2>6, <2>7
<1>9. op[t] # "none"
  BY <1>3 DEF IInv, ThreadInv, PlaceInv
<1>10. QED
  BY <1>4, <1>5, <1>6, <1>7, <1>8, <1>9 DEF Routines, Pushes

(* What a swap does to the head, the links and the owners.                 *)
LEMMA SwapFacts ==
  ASSUME IInv, NEW t \in Threads, Counted, Swap(t)
  PROVE  /\ head = seen[t] /\ ~ Refuses(t)
         /\ head'.value = fresh[t] /\ head'.counter = head.counter + 1
         /\ UNCHANGED next
         /\ InStack' = (InStack \ Taken(t)) \cup Given(t)
         /\ Given(t) \subseteq owned[t]
         /\ OneOwner'
<1>1. /\ head \in [value : Pointers, counter : Nat]
      /\ seen[t] \in [value : Pointers, counter : Nat]
  BY DEF IInv, TypeOK
<1>2. head = seen[t]
  BY <1>1 DEF Swap, Unchanged
<1>3. /\ head'.value = fresh[t] /\ head'.counter = head.counter + 1
      /\ UNCHANGED next
  BY DEF Swap
<1>4. ~ Refuses(t)
  BY DEF Swap, IInv, ThreadInv, SwapInv
<1>5. Taken(t) \subseteq InStack
  <2>1. CASE op[t] = "Pop"
    <3>1. head.value \in Items
      BY <1>1, <1>2, <1>4, <2>1 DEF Refuses, Pointers
    <3>2. QED
      BY <1>2, <2>1, <3>1, HeadInStack DEF Taken
  <2>2. CASE op[t] # "Pop"
    BY <2>2 DEF Taken
  <2>3. QED
    BY <2>1, <2>2
<1>6. QED
  BY <1>2, <1>3, <1>4, <1>5, SwapOwners

LEMMA SwapStep ==
  ASSUME IInv, TypeOK', NEW t \in Threads, Counted, Swap(t)
  PROVE  IInv'
<1>1. /\ head \in [value : Pointers, counter : Nat]
      /\ seen[t] \in [value : Pointers, counter : Nat]
  BY DEF IInv, TypeOK
<1>2. head = seen[t]
  BY SwapFacts
<1>3. /\ head'.value = fresh[t] /\ head'.counter = head.counter + 1
      /\ UNCHANGED next /\ pc[t] = "swap"
  BY DEF Swap
<1>4. ~ Refuses(t)
  BY SwapFacts
<1>6. /\ InStack' = (InStack \ Taken(t)) \cup Given(t)
      /\ Given(t) \subseteq owned[t]
      /\ OneOwner'
  BY SwapFacts
<1>7. StackInv'
  <2>1. PICK n \in Nat : \E s \in [1 .. n -> Items] : Lists(n, s)
    BY DEF IInv, StackInv
  <2>2. PICK s \in [1 .. n -> Items] : Lists(n, s)
    BY <2>1
  <2>3. QED
    BY <1>2, <1>3, <1>6, <2>2, SwapList DEF StackInv
<1>8. \A u \in Threads \ {t} : Same(u)
  BY DEF Swap, Return, Goto, locals, Same, IInv, TypeOK
<1>9. ASSUME NEW u \in Threads, u # t
      PROVE  ThreadInv(u)' /\ HeadInv(u)'
  <2>1. Same(u)
    BY <1>8, <1>9
  <2>2. ThreadInv(u)'
    BY <1>3, <1>9, <2>1, OthersUndisturbed
  <2>3. seen[u].counter <= head.counter /\ seen[u].counter \in Nat /\ head.counter \in Nat
    BY DEF IInv, TypeOK, HeadInv
  <2>4. seen'[u].counter <= head'.counter /\ seen'[u].counter # head'.counter
    BY <1>3, <2>1, <2>3 DEF Same
  <2>5. QED
    BY <2>2, <2>4 DEF HeadInv
<1>10. ThreadInv(t)' /\ HeadInv(t)'
  <2>1. CASE Return(t)
    BY <2>1, ReturnInv DEF IInv
  <2>2. CASE ~ Return(t)
    <3>1. op[t] = "PopReversed" /\ pc'[t] = "first" /\ UNCHANGED locals
      BY <2>2 DEF Swap, Goto, IInv, TypeOK
    <3>2. head.value \in InStack /\ Taken(t) = InStack
      <4>1. head.value \in Items
        BY <1>1, <1>2, <1>4, <3>1 DEF Refuses, Pointers
      <4>2. QED
        BY <3>1, <4>1, HeadInStack DEF Taken, Taking
    <3>3. InStack \in SUBSET owned'[t]
      <4>1. owned'[t] = (owned[t] \ Given(t)) \cup InStack
        BY <3>2 DEF Swap, IInv, TypeOK
      <4>2. InStack \subseteq owned'[t]
        BY <4>1
      <4>3. QED
        BY <4>2
    <3>4. \A i \in InStack : next[i] \in InStack \cup {NIL}
      <4>1. PICK n \in Nat : \E s \in [1 .. n -> Items] : Lists(n, s)
        BY DEF IInv, StackInv
      <4>2. PICK s \in [1 .. n -> Items] : Lists(n, s)
        BY <4>1
      <4>3. \A k \in 1 .. n : k # n => k + 1 \in 1 .. n /\ s[k + 1] \in InStack
        BY <4>2 DEF Lists
      <4>4. QED
        <5>1. ASSUME NEW i \in InStack
              PROVE  next[i] \in InStack \cup {NIL}
          <6>1. PICK k \in 1 .. n : s[k] = i
            BY <4>2 DEF Lists
          <6>2. next[i] = IF k = n THEN NIL ELSE s[k + 1]
            BY <4>2, <6>1 DEF Lists
          <6>3. QED
            BY <4>3, <6>1, <6>2
        <5>2. QED
          BY <5>1
    <3>5. DetachedInv(t)'
      <4> DEFINE D == InStack
      <4>1. \A i \in D : next'[i] \in D \cup {NIL}
        BY <1>3, <3>4
      <4>2. seen'[t].value \in D
        BY <1>2, <3>1, <3>2 DEF locals
      <4>3. PICK S \in SUBSET owned'[t] :
              seen'[t].value \in S /\ \A i \in S : next'[i] \in S \cup {NIL}
        BY <3>3, <4>1, <4>2
      <4>4. Detached(t, S)'
        BY <3>1, <4>3 DEF Detached
      <4>5. QED
        BY <4>3, <4>4 DEF DetachedInv
    <3>6. ThreadInv(t)'
      BY <3>1, <3>5 DEF ThreadInv, PlaceInv, ListInv, SwapInv, Giving, locals
    <3>7. HeadInv(t)'
      BY <1>3, <3>1 DEF HeadInv, locals, IInv, TypeOK
    <3>8. QED
      BY <3>6, <3>7
  <2>3. QED
    BY <2>1, <2>2
<1>11. QED
  BY <1>6, <1>7, <1>9, <1>10 DEF IInv

-----------------------------------------------------------------------------
LEMMA StepIInv ==
  ASSUME IInv, [Next]_vars, Counted
  PROVE  IInv'
<1>t. TypeOK'
  BY TypeStep
<1>1. CASE UNCHANGED vars
  <2>1. OneOwner' /\ StackInv'
    BY SMTT(40), <1>1 DEF IInv, vars, OneOwner, StackInv, Lists, InStack, Owned
  <2>2. ASSUME NEW t \in Threads
        PROVE  ThreadInv(t)' /\ HeadInv(t)'
    BY <1>1 DEF IInv, vars, ThreadInv, HeadInv, PlaceInv, ListInv, SwapInv, Refuses,
                DetachedInv, Detached, Given
  <2>3. QED
    BY <1>t, <2>1, <2>2 DEF IInv
<1>2. ASSUME NEW t \in Threads, CallGiving(t) \/ CallPlain(t) \/ RoutineStep(t)
      PROVE  IInv'
  BY <1>t, <1>2, CallGivingStep, CallPlainStep, WalkStep, ReadStep, RefuseStep,
     PrepareStep, SwapStep, ReverseStep DEF RoutineStep
<1>3. QED
  BY <1>1, <1>2 DEF Next

(* A list of items, wherever it is: the links lead from top through s.     *)
Linked(top, n, s) ==
  /\ \A j, k \in 1 .. n : s[j] = s[k] => j = k
  /\ IF n = 0 THEN top \notin Items ELSE top = s[1]
  /\ \A k \in 1 .. n : next[s[k]] = IF k = n THEN NIL ELSE s[k + 1]

LEMMA StackIsLinked ==
  ASSUME NEW n \in Nat, NEW s \in [1 .. n -> Items], Lists(n, s)
  PROVE  Linked(head.value, n, s)
BY DEF Lists, Linked

(* The list of distinct items cannot be longer than there are items.       *)
LEMMA ListBound ==
  ASSUME NEW n \in Nat, NEW s \in [1 .. n -> Items],
         \A j, k \in 1 .. n : s[j] = s[k] => j = k
  PROVE  Cardinality(Items) \in Nat /\ n <= Cardinality(Items)
<1>1. Cardinality(Items) \in Nat
  BY FS_CardinalityType
<1>2. IsFiniteSet(1 .. n) /\ Cardinality(1 .. n) = n
  <2>1. 1 \in Int /\ n \in Int
    OBVIOUS
  <2>2. QED
    BY <2>1, FS_Interval
<1>3. s \in Injection(1 .. n, Items)
  BY DEF Injection, IsInjective
<1>4. QED
  BY <1>1, <1>2, <1>3, FS_Injection

LEMMA ListIsBounded ==
  ASSUME StackInv
  PROVE  NothingLost
<1>1. PICK n \in Nat : \E s \in [1 .. n -> Items] : Lists(n, s)
  BY DEF StackInv
<1>2. PICK s \in [1 .. n -> Items] : Lists(n, s)
  BY <1>1
<1>3. n \in 0 .. Cardinality(Items)
  BY <1>2, ListBound DEF Lists
<1>4. QED
  BY <1>2, <1>3 DEF NothingLost

LEMMA Inductive ==
  ASSUME Counted
  PROVE  Spec => []IInv
<1>1. IInv /\ [Next]_vars => IInv'
  BY StepIInv
<1>2. QED
  BY InitIInv, <1>1, PTL DEF Spec

-----------------------------------------------------------------------------
(* Chain finds the list.  It is a recursive function, so what it is must   *)
(* be found by induction over the steps of the walk: two functions that    *)
(* walk alike and differ would differ first at some smallest step.         *)
LEMMA Smallest ==
  ASSUME NEW T \in SUBSET Nat, T # {}
  PROVE  \E n \in T : \A m \in T : n <= m
<1> DEFINE Starts == {1 .. n : n \in T}
<1>1. \A n \in Nat : 1 .. n \in SUBSET Nat /\ IsFiniteSet(1 .. n)
  BY FS_Interval
<1>2. Starts \subseteq FiniteSubsetsOf(Nat) /\ Starts # {}
  BY <1>1 DEF FiniteSubsetsOf
<1>3. PICK x \in Starts : \A y \in Starts : <<y, x>> \notin StrictSubsetOrdering(Nat)
  BY <1>2, FS_StrictSubsetOrderingWellFounded, WFMin
<1>4. PICK n \in T : x = 1 .. n
  BY <1>3
<1>5. ASSUME NEW m \in T, m < n
      PROVE  FALSE
  <2>1. <<1 .. m, 1 .. n>> \notin StrictSubsetOrdering(Nat)
    BY <1>3, <1>4
  <2>2. 1 .. m \subseteq 1 .. n /\ n \in 1 .. n /\ n \notin 1 .. m
    BY <1>5
  <2>3. 1 .. m # 1 .. n
    BY <2>2
  <2> QED
    BY <1>1, <2>1, <2>2, <2>3 DEF StrictSubsetOrdering
<1> QED
  BY <1>5

(* One step of the walk along the links from i.                            *)
Longer(w, i, k) ==
  IF k = 0 THEN <<>>
  ELSE LET s == w[k - 1]
           j == IF s = <<>> THEN i ELSE next[s[Len(s)]]
       IN  IF Len(s) = k - 1 /\ j \in Items THEN Append(s, j) ELSE s

Walks(w, i) == w = [k \in 0 .. Cardinality(Items) + 1 |-> Longer(w, i, k)]

LEMMA ChainByWalk ==
  ASSUME NEW i
  PROVE  Chain(i) = (CHOOSE w : Walks(w, i))[Cardinality(Items) + 1]
BY DEF Chain, Walks, Longer

(* What the walk has found after k steps along a list of n items.          *)
UpTo(n, k) == IF k <= n THEN k ELSE n

Front(s, k) == [j \in 1 .. k |-> s[j]]

LEMMA EmptyByLength ==
  ASSUME NEW p \in Seq(Items)
  PROVE  Len(p) = 0 <=> p = <<>>
OBVIOUS

LEMMA OneMore ==
  ASSUME NEW k \in Nat, k # 0, NEW s, \A j \in 1 .. k : s[j] \in Items
  PROVE  Append(Front(s, k - 1), s[k]) = Front(s, k)
<1> USE DEF Front
<1> DEFINE p == Front(s, k - 1)
<1>1. p \in Seq(Items) /\ Len(p) = k - 1
  OBVIOUS
<1> DEFINE q == Append(p, s[k])
<1>2. q \in Seq(Items) /\ Len(q) = k
  BY <1>1
<1>3. q = [j \in 1 .. k |-> q[j]]
  BY <1>2
<1>4. \A j \in 1 .. k : q[j] = s[j]
  BY <1>1
<1>5. QED
  BY <1>3, <1>4

LEMMA WalkOne ==
  ASSUME NEW top, NEW n \in Nat, NEW s \in [1 .. n -> Items], Linked(top, n, s),
         NEW k \in Nat, k # 0,
         NEW w, w[k - 1] = Front(s, UpTo(n, k - 1))
  PROVE  Longer(w, top, k) = Front(s, UpTo(n, k))
<1> DEFINE p == w[k - 1]
<1>0. k - 1 \in Nat /\ UpTo(n, k - 1) \in 0 .. n
  BY DEF UpTo
<1>1. PICK m \in Nat : m = UpTo(n, k - 1) /\ m <= n
  BY <1>0
<1>2. p = Front(s, m) /\ p \in Seq(Items) /\ Len(p) = m
  BY <1>1 DEF Front
<1>3. PICK i : i = IF p = <<>> THEN top ELSE next[p[Len(p)]]
  OBVIOUS
<1>4. m = 0 <=> p = <<>>
  BY ONLY <1>1, <1>2, EmptyByLength
<1>5. Longer(w, top, k) = IF m = k - 1 /\ i \in Items THEN Append(p, i) ELSE p
  BY <1>2, <1>3 DEF Longer
<1>6. CASE m = n
  <2>1. i \notin Items
    <3>1. n = 0 => top \notin Items
      BY DEF Linked
    <3>2. n # 0 => n \in 1 .. n /\ next[s[n]] = NIL
      BY DEF Linked
    <3>3. n # 0 => p[Len(p)] = s[n]
      BY <1>2, <1>6 DEF Front
    <3>4. QED
      BY <1>3, <1>4, <1>6, <3>1, <3>2, <3>3
  <2>2. UpTo(n, k) = n
    BY <1>1, <1>6 DEF UpTo
  <2>3. QED
    BY <1>2, <1>5, <1>6, <2>1, <2>2
<1>7. CASE m < n
  <2>1. m = k - 1 /\ UpTo(n, k) = k /\ k \in 1 .. n
    BY <1>1, <1>7 DEF UpTo
  <2>2. i = s[k]
    <3>1. CASE m = 0
      BY <1>3, <1>4, <1>7, <2>1, <3>1 DEF Linked
    <3>2. CASE m # 0
      <4>1. p[Len(p)] = s[m] /\ m \in 1 .. n /\ m # n /\ m + 1 = k
        BY <1>1, <1>2, <1>7, <2>1, <3>2 DEF Front
      <4>2. next[s[m]] = s[m + 1]
        BY <4>1 DEF Linked
      <4>3. QED
        BY <1>3, <1>4, <3>2, <4>1, <4>2
    <3>3. QED
      BY <3>1, <3>2
  <2>3. s[k] \in Items /\ \A j \in 1 .. k : s[j] \in Items
    BY <2>1
  <2>4. Append(p, s[k]) = Front(s, k)
    BY <1>2, <2>1, <2>3, OneMore
  <2>5. QED
    BY <1>5, <2>1, <2>2, <2>3, <2>4
<1>8. QED
  BY <1>1, <1>6, <1>7

LEMMA ChainIsList ==
  ASSUME NEW top, NEW n \in Nat, NEW s \in [1 .. n -> Items], Linked(top, n, s)
  PROVE  Chain(top) = s
<1>1. PICK c \in Nat : c = Cardinality(Items) + 1
  BY FS_CardinalityType
<1>2. PICK i : i = top
  OBVIOUS
<1> DEFINE g == [k \in 0 .. c |-> Front(s, UpTo(n, k))]
<1>3. ASSUME NEW k \in 0 .. c, NEW w, k = 0 \/ (k # 0 /\ w[k - 1] = g[k - 1])
      PROVE  Longer(w, i, k) = g[k]
  <2>1. CASE k = 0
    BY <2>1 DEF Longer, UpTo, Front
  <2>2. CASE k # 0
    <3>1. k - 1 \in 0 .. c /\ k \in Nat
      BY <2>2
    <3>2. w[k - 1] = Front(s, UpTo(n, k - 1))
      BY <1>3, <2>2, <3>1
    <3>3. Longer(w, top, k) = Front(s, UpTo(n, k))
      BY <2>2, <3>1, <3>2, WalkOne
    <3>4. QED
      BY <1>2, <3>3
  <2>3. QED
    BY <2>1, <2>2
<1>4. Walks(g, i)
  <2>1. \A k \in 0 .. c : Longer(g, i, k) = g[k]
    BY <1>3
  <2>2. g = [k \in 0 .. c |-> Longer(g, i, k)]
    BY <2>1
  <2>3. QED
    BY <1>1, <2>2 DEF Walks
<1> HIDE DEF g
<1>5. ASSUME NEW w, Walks(w, i), w # g
      PROVE  FALSE
  <2>1. w = [k \in 0 .. c |-> Longer(w, i, k)] /\ g = [k \in 0 .. c |-> Longer(g, i, k)]
    BY <1>1, <1>4, <1>5 DEF Walks
  <2> DEFINE T == {k \in 0 .. c : w[k] # g[k]}
  <2>2. T \in SUBSET Nat /\ T # {}
    <3>1. w = [k \in 0 .. c |-> w[k]] /\ g = [k \in 0 .. c |-> g[k]]
      BY ONLY <2>1
    <3>2. \E k \in 0 .. c : w[k] # g[k]
      BY ONLY <1>5, <3>1
    <3>3. QED
      BY <3>2
  <2>3. PICK k \in T : \A m \in T : k <= m
    BY <2>2, Smallest
  <2>4. k = 0 \/ (k # 0 /\ w[k - 1] = g[k - 1])
    <3>1. k # 0 => k - 1 \in 0 .. c /\ ~ k <= k - 1
      OBVIOUS
    <3>2. QED
      BY <2>3, <3>1
  <2>5. w[k] = Longer(w, i, k) /\ k \in 0 .. c
    BY <2>1
  <2>6. QED
    BY <1>3, <2>3, <2>4, <2>5
<1>6. (CHOOSE w : Walks(w, i)) = g
  BY <1>4, <1>5
<1>7. Chain(i) = g[c]
  BY <1>1, <1>6, ChainByWalk
<1>8. c \in 0 .. c /\ UpTo(n, c) = n
  BY <1>1, ListBound DEF UpTo, Linked
<1>9. g[c] = s
  BY <1>8 DEF g, Front
<1>10. QED
  BY <1>2, <1>7, <1>9

(* The list in the stack, now and after a step.                            *)
LEMMA ChainLaw ==
  \A n \in Nat : \A s \in [1 .. n -> Items] : Lists(n, s) => Chain(head.value) = s
BY ChainIsList, StackIsLinked

LEMMA ChainAfter ==
  (\A n \in Nat : \A s \in [1 .. n -> Items] : Lists(n, s) => Chain(head.value) = s)'
BY ChainLaw, PTL

-----------------------------------------------------------------------------
(* The routines implement the atomic stack: it changes at the swap.        *)
LEMMA InitAtomic == Init => A!StackInit
<1> SUFFICES ASSUME Init PROVE A!StackInit
  OBVIOUS
<1>1. InStack = {} /\ head.value = NIL
  BY DEF Init, InStack, NoHead
<1>2. <<>> \in [1 .. 0 -> Items] /\ Lists(0, <<>>)
  BY <1>1 DEF Lists
<1>3. Chain(head.value) = <<>>
  BY <1>2, ChainLaw
<1>4. QED
  BY <1>1, <1>3 DEF A!StackInit, Init, Owned

LEMMA ListStays ==
  ASSUME IInv, UNCHANGED <<head, owned>>, \A i \in InStack : next'[i] = next[i]
  PROVE  UNCHANGED Chain(head.value)
<1>1. PICK n \in Nat : \E s \in [1 .. n -> Items] : Lists(n, s)
  BY DEF IInv, StackInv
<1>2. PICK s \in [1 .. n -> Items] : Lists(n, s)
  BY <1>1
<1>3. UNCHANGED InStack
  BY DEF InStack, Owned
<1>4. \A k \in 1 .. n : next'[s[k]] = next[s[k]]
  BY <1>2 DEF Lists
<1>5. Lists(n, s)'
  BY <1>2, <1>3, <1>4 DEF Lists
<1>6. QED
  BY <1>2, <1>5, ChainLaw, ChainAfter

(* A step that is no swap writes only links of items the thread owns.      *)
LEMMA OwnLinks ==
  ASSUME IInv, NEW t \in Threads,
         \/ CallGiving(t) \/ CallPlain(t) \/ Walk(t) \/ ReadValue(t) \/ ReadCounter(t)
         \/ Refuse(t) \/ Prepare(t) \/ SwapFails(t) \/ ReverseFirst(t) \/ ReverseNext(t)
  PROVE  /\ UNCHANGED <<head, owned>>
         /\ \A i \in Items \ owned[t] : next'[i] = next[i]
<1>1. UNCHANGED <<head, owned>>
  BY DEF CallGiving, CallPlain, Walk, ReadValue, ReadCounter, Refuse, Prepare, SwapFails,
         ReverseFirst, ReverseNext
<1>2. owned[t] \subseteq Items /\ next \in [Items -> Links]
  BY Disjoint DEF IInv, TypeOK
<1>3. CASE CallGiving(t)
  <2>1. PICK first \in owned[t], last \in owned[t] :
          next' = [next EXCEPT ![first] = last, ![last] = NIL]
    BY <1>3 DEF CallGiving
  <2>2. QED
    BY <1>1, <1>2, <2>1
<1>4. CASE CallPlain(t) \/ Walk(t) \/ ReadValue(t) \/ ReadCounter(t) \/ Refuse(t) \/ SwapFails(t)
  BY <1>1, <1>4 DEF CallPlain, Walk, ReadValue, ReadCounter, Refuse, SwapFails
<1>5. CASE Prepare(t)
  <2>1. CASE op[t] \in Pushes
    <3>1. arg[t].last \in owned[t]
      BY <2>1 DEF IInv, ThreadInv, ListInv, Given, Giving, Pushes
    <3>2. QED
      BY <1>1, <1>2, <1>5, <2>1, <3>1 DEF Prepare, Pushes
  <2>2. CASE op[t] \notin Pushes
    BY <1>1, <1>5, <2>2 DEF Prepare, Pushes
  <2>3. QED
    BY <2>1, <2>2
<1>6. CASE ReverseFirst(t) \/ ReverseNext(t)
  <2>1. PICK D \in SUBSET owned[t] : Detached(t, D)
    BY <1>6 DEF ReverseFirst, ReverseNext, IInv, ThreadInv, DetachedInv
  <2>2. PICK item \in owned[t] : \A i \in Items : i # item => next'[i] = next[i]
    BY <1>2, <1>6, <2>1 DEF ReverseFirst, ReverseNext, Detached
  <2>3. QED
    BY <1>1, <1>2, <2>2
<1>7. QED
  BY <1>3, <1>4, <1>5, <1>6

(* The list passed in is one the atomic stack lets the thread give.        *)
LEMMA PassedList ==
  ASSUME IInv, NEW t \in Threads, op[t] \in Giving
  PROVE  /\ A!ItemsOf(Passed(t)) = Given(t)
         /\ Passed(t) \in A!Lists(t) \cup {<<>>}
         /\ op[t] \in Pushes => Passed(t) \in A!Lists(t)
<1> DEFINE first == arg[t].first
           last  == arg[t].last
<1>1. /\ Given(t) = {first, last} \ {NIL} /\ Given(t) \subseteq owned[t]
      /\ first = NIL <=> last = NIL
      /\ op[t] \in Pushes => first # NIL
  BY DEF IInv, ThreadInv, ListInv, Given
<1>2. CASE first = NIL
  <2>1. Passed(t) = <<>> /\ Given(t) = {}
    BY <1>1, <1>2 DEF Passed
  <2>2. QED
    BY <1>1, <1>2, <2>1 DEF A!ItemsOf
<1>3. CASE first # NIL /\ first = last
  <2>1. Passed(t) = <<first>> /\ Given(t) = {first} /\ first \in owned[t]
    BY <1>1, <1>3 DEF Passed, Pair
  <2>2. QED
    BY <2>1 DEF A!ItemsOf, A!Lists
<1>4. CASE first # NIL /\ first # last
  <2>1. /\ Passed(t) = <<first, last>> /\ Given(t) = {first, last}
        /\ first \in owned[t] /\ last \in owned[t]
    BY <1>1, <1>4 DEF Passed, Pair
  <2>2. A!ItemsOf(<<first, last>>) = {first, last}
    BY DEF A!ItemsOf
  <2>3. <<first, last>> \in A!Lists(t)
    BY <1>4, <2>1 DEF A!Lists
  <2>4. QED
    BY <2>1, <2>2, <2>3
<1>5. QED
  BY <1>2, <1>3, <1>4

LEMMA SwapAtomic ==
  ASSUME IInv, TypeOK', NEW t \in Threads, Counted, Swap(t)
  PROVE  A!StackNext
<1> DEFINE list == Chain(head.value)
<1>1. /\ head = seen[t] /\ ~ Refuses(t)
      /\ head'.value = fresh[t]
      /\ UNCHANGED next
      /\ InStack' = (InStack \ Taken(t)) \cup Given(t)
      /\ Given(t) \subseteq owned[t]
  BY SwapFacts
<1>2. PICK n \in Nat : \E s \in [1 .. n -> Items] : Lists(n, s)
  BY DEF IInv, StackInv
<1>3. PICK s \in [1 .. n -> Items] : Lists(n, s)
  BY <1>2
<1>4. PICK m \in Nat : \E z \in [1 .. m -> Items] : Lists(m, z)' /\ Becomes(t, s, z)
  BY <1>1, <1>3, SwapList
<1>5. PICK z \in [1 .. m -> Items] : Lists(m, z)' /\ Becomes(t, s, z)
  BY <1>4
<1>6. list = s /\ list' = z
  BY <1>3, <1>5, ChainLaw, ChainAfter
<1> HIDE DEF list
<1>7. A!ItemsOf(s) = InStack
  BY <1>3, AsSequence DEF Lists, A!ItemsOf
<1>8. A!Take(t, Taken(t), Given(t))
  BY DEF Swap, A!Take
<1>9. /\ SwapInv(t) /\ ListInv(t) /\ HeadInv(t) /\ op[t] # "none" /\ pc[t] = "swap"
      /\ op[t] \in Routines \cup {"none"} /\ next \in [Items -> Links]
      /\ arg[t].first \in Links /\ head.value \in Pointers
  BY DEF Swap, IInv, TypeOK, ThreadInv, PlaceInv
<1>10. op[t] \in Giving =>
         /\ A!ItemsOf(Passed(t)) = Given(t)
         /\ Passed(t) \in A!Lists(t) \cup {<<>>}
         /\ op[t] \in Pushes => Passed(t) \in A!Lists(t)
         /\ head'.value # INVALID
  BY <1>1, <1>9, PassedList DEF SwapInv, Links
<1>11. CASE op[t] = "Pop"
  <2>1. Given(t) = {} /\ Taken(t) = {Head(s)} /\ s # <<>> /\ z = Tail(s)
    BY <1>5, <1>11 DEF Becomes, Given, Giving
  <2>2. head.value \in Items /\ head'.value = next[head.value]
    BY <1>1, <1>9, <1>11 DEF Refuses, Pointers, HeadInv
  <2>3. head.value # INVALID /\ head'.value # INVALID
    BY <1>9, <2>2 DEF Links
  <2>4. A!Pop(t)
    BY <1>6, <1>8, <2>1, <2>3 DEF A!Pop, list
  <2>5. QED
    BY <2>4 DEF A!StackNext
<1>12. CASE op[t] \in {"PopList", "PopReversed"}
  <2>1. Given(t) = {} /\ Taken(t) = A!ItemsOf(s) /\ z = <<>>
    BY <1>5, <1>7, <1>12 DEF Becomes, Given, Giving, Taken, Taking
  <2>2. head.value # INVALID /\ head'.value # INVALID
    BY <1>1, <1>9, <1>12 DEF Refuses, SwapInv
  <2>3. A!PopAll(t)
    BY <1>6, <1>8, <2>1, <2>2 DEF A!PopAll, list
  <2>4. QED
    BY <2>3 DEF A!StackNext
<1>13. CASE op[t] \in Pushes
  <2>1. Taken(t) = {} /\ op[t] \in Giving /\ z = Passed(t) \o s
    BY <1>5, <1>13 DEF Becomes, Giving, Pushes, Taken, Taking
  <2>2. head.value # INVALID
    BY <1>1, <1>13 DEF Refuses, Pushes
  <2>3. A!Push(t)
    BY <1>6, <1>8, <1>10, <1>13, <2>1, <2>2 DEF A!Push, list
  <2>4. QED
    BY <2>3 DEF A!StackNext
<1>14. CASE op[t] = "Change"
  <2>1. Taken(t) = A!ItemsOf(s) /\ op[t] \in Giving /\ z = Passed(t)
    BY <1>5, <1>7, <1>14 DEF Becomes, Giving, Taken, Taking
  <2>2. head.value # INVALID
    BY <1>1, <1>14 DEF Refuses
  <2>3. A!Change(t)
    BY <1>6, <1>8, <1>10, <2>1, <2>2 DEF A!Change, list
  <2>4. QED
    BY <2>3 DEF A!StackNext
<1>15. CASE op[t] = "Invalidate"
  <2>1. Given(t) = {} /\ Taken(t) = A!ItemsOf(s) /\ z = <<>>
    BY <1>5, <1>7, <1>15 DEF Becomes, Given, Giving, Taken, Taking
  <2>2. head.value # INVALID /\ head'.value = INVALID
    BY <1>1, <1>9, <1>15 DEF Refuses, SwapInv
  <2>3. A!Invalidate(t)
    BY <1>6, <1>8, <2>1, <2>2 DEF A!Invalidate, list
  <2>4. QED
    BY <2>3 DEF A!StackNext
<1>16. CASE op[t] = "Validate"
  <2>1. Taken(t) = {} /\ op[t] \in Giving /\ z = Passed(t)
    BY <1>5, <1>16 DEF Becomes, Giving, Taken, Taking
  <2>2. head.value = INVALID
    BY <1>1, <1>16 DEF Refuses
  <2>3. A!Validate(t)
    BY <1>6, <1>8, <1>10, <2>1, <2>2 DEF A!Validate, list
  <2>4. QED
    BY <2>3 DEF A!StackNext
<1>17. QED
  BY <1>9, <1>11, <1>12, <1>13, <1>14, <1>15, <1>16 DEF Routines, Pushes

LEMMA StepAtomic ==
  ASSUME IInv, [Next]_vars, Counted
  PROVE  [A!StackNext]_<<Chain(head.value), head.value # INVALID, owned>>
<1>1. CASE UNCHANGED vars
  <2>1. UNCHANGED <<head, owned>> /\ \A i \in InStack : next'[i] = next[i]
    BY <1>1 DEF vars
  <2>2. QED
    BY <2>1, ListStays
<1>2. ASSUME NEW t \in Threads, CallGiving(t) \/ CallPlain(t) \/ RoutineStep(t), ~ Swap(t)
      PROVE  UNCHANGED <<Chain(head.value), head.value # INVALID, owned>>
  <2>1. UNCHANGED <<head, owned>> /\ \A i \in Items \ owned[t] : next'[i] = next[i]
    BY <1>2, OwnLinks DEF RoutineStep
  <2>2. \A i \in InStack : next'[i] = next[i]
    BY <2>1, Disjoint DEF InStack
  <2>3. QED
    BY <2>1, <2>2, ListStays
<1>3. ASSUME NEW t \in Threads, Swap(t)
      PROVE  A!StackNext
  BY <1>3, TypeStep, SwapAtomic
<1>4. QED
  BY <1>1, <1>2, <1>3 DEF Next

-----------------------------------------------------------------------------
(* Every variable keeps its type: no routine follows a null or invalid     *)
(* pointer, whatever it saw of the head.                                   *)
THEOREM StackTypeCorrect ==
  ASSUME Counted
  PROVE  Spec => []TypeOK
<1>1. IInv => TypeOK
  BY DEF IInv
<1>2. QED
  BY Inductive, <1>1, PTL

(* No item is ever handed to two threads.                                  *)
THEOREM StackOneOwner ==
  ASSUME Counted
  PROVE  Spec => []OneOwner
<1>1. IInv => OneOwner
  BY DEF IInv
<1>2. QED
  BY Inductive, <1>1, PTL

(* The items nobody owns are the list from the head, each once: no item    *)
(* is lost and none is in the stack twice.                                 *)
THEOREM StackLosesNothing ==
  ASSUME Counted
  PROVE  Spec => []NothingLost
<1>1. IInv => NothingLost
  BY ListIsBounded DEF IInv
<1>2. QED
  BY Inductive, <1>1, PTL

(* No ABA: a Pop whose swap is about to succeed installs the link of the   *)
(* item on top, however long ago it read it.                               *)
THEOREM StackPopInstallsTheLink ==
  ASSUME Counted
  PROVE  Spec => []PopInstallsTheLink
<1>1. IInv => PopInstallsTheLink
  <2> SUFFICES ASSUME IInv, NEW t \in Threads,
                      pc[t] = "swap", op[t] = "Pop", Unchanged(t)
               PROVE  fresh[t] = next[head.value]
    BY DEF PopInstallsTheLink
  <2>1. /\ head \in [value : Pointers, counter : Nat]
        /\ seen[t] \in [value : Pointers, counter : Nat]
    BY DEF IInv, TypeOK
  <2>2. head = seen[t]
    BY <2>1 DEF Unchanged
  <2>3. QED
    BY <2>2 DEF IInv, HeadInv
<1>2. QED
  BY Inductive, <1>1, PTL

(* The routines implement the atomic stack (AtomicStack.tla): whatever the *)
(* threads interleave, every call takes effect at one instant, its swap,   *)
(* as a push, a pop, a pop of everything, a change, an invalidation or a   *)
(* validation of the list from the head.                                   *)
THEOREM StackIsAtomic ==
  ASSUME Counted
  PROVE  Spec => ImplementsAtomicStack
<1>1. IInv /\ [Next]_vars => [A!StackNext]_<<Chain(head.value), head.value # INVALID, owned>>
  BY StepAtomic
<1>2. QED
  BY Inductive, InitAtomic, <1>1, PTL DEF Spec, ImplementsAtomicStack, A!StackSpec

-----------------------------------------------------------------------------
(* The list a PopReversed turns around.  Its first j items are turned, the *)
(* others are still as they were when the list was detached.               *)
Turned(n, s, j) ==
  \A k \in 1 .. n :
    next[s[k]] = IF k <= j THEN (IF k = 1 THEN NIL ELSE s[k - 1])
                 ELSE (IF k = n THEN NIL ELSE s[k + 1])

Turning(t, n, s, j) ==
  /\ taken[t] = s
  /\ \A i, k \in 1 .. n : s[i] = s[k] => i = k
  /\ j < n
  /\ Turned(n, s, j)
  /\ pc[t] = "first"   => j = 0 /\ seen[t].value = s[1]
  /\ pc[t] = "reverse" => j # 0 /\ rev[t].ret = s[j] /\ rev[t].current = s[j + 1]

HistoryInv(t) ==
  pc[t] \in {"first", "reverse"} =>
    \E n, j \in Nat : \E s \in [1 .. n -> owned[t]] : Turning(t, n, s, j)

(* The thread detaches the list from the head.                             *)
LEMMA Detaches ==
  ASSUME IInv, TypeOK', HistoryNext, NEW t \in Threads, Counted, Swap(t),
         pc'[t] \in {"first", "reverse"}
  PROVE  HistoryInv(t)'
<1>1. /\ head = seen[t] /\ ~ Refuses(t) /\ UNCHANGED next /\ pc[t] = "swap"
      /\ owned' = [owned EXCEPT ![t] = (@ \ Given(t)) \cup Taken(t)]
  BY SwapFacts DEF Swap
<1>2. ~ Return(t)
  BY DEF Return, Goto, IInv, TypeOK
<1>3. op[t] = "PopReversed" /\ pc'[t] = "first" /\ seen' = seen
  BY <1>2 DEF Swap, Goto, locals, IInv, TypeOK
<1>4. Taken(t) = InStack /\ owned'[t] = (owned[t] \ Given(t)) \cup InStack
  BY <1>1, <1>3 DEF Taken, Taking, IInv, TypeOK
<1>5. PICK n \in Nat : \E s \in [1 .. n -> Items] : Lists(n, s)
  BY DEF IInv, StackInv
<1>6. PICK s \in [1 .. n -> Items] : Lists(n, s)
  BY <1>5
<1>7. taken'[t] = s
  <2>1. taken'[t] = Chain(head.value)
    BY <1>1, <1>3 DEF HistoryNext
  <2>2. QED
    BY <1>6, <2>1, ChainLaw
<1>8. n # 0 /\ s[1] = head.value
  BY <1>1, <1>3, <1>6 DEF Refuses, Lists, IInv, TypeOK, Pointers
<1>9. s \in [1 .. n -> owned'[t]]
  <2>1. \A k \in 1 .. n : s[k] \in InStack
    BY <1>6 DEF Lists
  <2>2. PICK O : O = owned'[t]
    OBVIOUS
  <2>3. \A k \in 1 .. n : s[k] \in O
    BY <1>4, <2>1, <2>2
  <2>4. QED
    BY <2>2, <2>3
<1>10. Turning(t, n, s, 0)'
  BY <1>1, <1>3, <1>6, <1>7, <1>8 DEF Turning, Turned, Lists
<1>11. QED
  BY <1>9, <1>10 DEF HistoryInv

(* What the thread turns is its own.                                       *)
LEMMA Own ==
  ASSUME IInv, NEW t \in Threads, NEW n \in Nat, NEW s \in [1 .. n -> owned[t]]
  PROVE  s \in [1 .. n -> Items] /\ \A k \in 1 .. n : s[k] \in Items /\ s[k] # NIL
<1>1. owned[t] \subseteq Items
  BY Disjoint
<1>2. QED
  BY <1>1

(* One more item is turned.                                                *)
LEMMA TurnOne ==
  ASSUME NEW n \in Nat, NEW s \in [1 .. n -> Items], NEW j \in Nat, j < n,
         next \in [Items -> Links], Turned(n, s, j),
         \A i, k \in 1 .. n : s[i] = s[k] => i = k,
         next' = [next EXCEPT ![s[j + 1]] = IF j = 0 THEN NIL ELSE s[j]]
  PROVE  Turned(n, s, j + 1)'
<1>1. j + 1 \in 1 .. n /\ s[j + 1] \in Items
  OBVIOUS
<1>2. ASSUME NEW k \in 1 .. n, k # j + 1
      PROVE  next'[s[k]] = next[s[k]]
  BY <1>1, <1>2
<1>3. next'[s[j + 1]] = IF j = 0 THEN NIL ELSE s[j]
  BY <1>1
<1>4. ASSUME NEW k \in 1 .. n
      PROVE  next'[s[k]] = IF k <= j + 1 THEN (IF k = 1 THEN NIL ELSE s[k - 1])
                           ELSE (IF k = n THEN NIL ELSE s[k + 1])
  <2>1. CASE k = j + 1
    BY <1>3, <2>1
  <2>2. CASE k # j + 1
    <3>1. next[s[k]] = IF k <= j THEN (IF k = 1 THEN NIL ELSE s[k - 1])
                       ELSE (IF k = n THEN NIL ELSE s[k + 1])
      BY DEF Turned
    <3>2. k <= j <=> k <= j + 1
      BY <2>2
    <3>3. QED
      BY <1>2, <2>2, <3>1, <3>2
  <2>3. QED
    BY <2>1, <2>2
<1>5. QED
  BY <1>4 DEF Turned

(* A list that is turned altogether is the list backwards.                 *)
LEMMA AllTurned ==
  ASSUME NEW n \in Nat, n # 0, NEW s \in [1 .. n -> Items], Turned(n, s, n),
         \A i, k \in 1 .. n : s[i] = s[k] => i = k
  PROVE  Chain(s[n]) = Seqs!Reverse(s)
<1> DEFINE b == [k \in 1 .. n |-> s[(n - k) + 1]]
<1>1. s \in Seq(Items) /\ Len(s) = n
  BY AsSequence
<1>2. Seqs!Reverse(s) = b
  BY <1>1 DEF Seqs!Reverse
<1>3. \A k \in 1 .. n : (n - k) + 1 \in 1 .. n /\ b[k] = s[(n - k) + 1]
  OBVIOUS
<1>4. b \in [1 .. n -> Items]
  BY <1>3
<1> HIDE DEF b
<1>5. \A i, k \in 1 .. n : b[i] = b[k] => i = k
  BY <1>3
<1>6. s[n] = b[1] /\ 1 \in 1 .. n
  BY <1>3
<1>7. ASSUME NEW k \in 1 .. n
      PROVE  next[b[k]] = IF k = n THEN NIL ELSE b[k + 1]
  <2>1. PICK m \in 1 .. n : m = (n - k) + 1 /\ b[k] = s[m]
    BY <1>3
  <2>2. next[s[m]] = IF m = 1 THEN NIL ELSE s[m - 1]
    BY DEF Turned
  <2>3. m = 1 <=> k = n
    BY <2>1
  <2>4. k # n => b[k + 1] = s[m - 1]
    BY <1>3, <2>1
  <2>5. QED
    BY <2>1, <2>2, <2>3, <2>4
<1>8. Linked(s[n], n, b)
  BY <1>5, <1>6, <1>7 DEF Linked
<1>9. QED
  BY <1>2, <1>4, <1>8, ChainIsList

LEMMA AllTurnedAfter ==
  (\A n \in Nat : n # 0 => \A s \in [1 .. n -> Items] :
     Turned(n, s, n) /\ (\A i, k \in 1 .. n : s[i] = s[k] => i = k) =>
       Chain(s[n]) = Seqs!Reverse(s))'
<1>1. \A n \in Nat : n # 0 => \A s \in [1 .. n -> Items] :
        Turned(n, s, n) /\ (\A i, k \in 1 .. n : s[i] = s[k] => i = k) =>
          Chain(s[n]) = Seqs!Reverse(s)
  BY AllTurned
<1>2. QED
  BY <1>1, PTL

(* Both steps of the reversal turn the next item; the routine returns when *)
(* that was the last one.                                                  *)
LEMMA Turns ==
  ASSUME IInv, NEW t \in Threads, HistoryInv(t), ReverseFirst(t) \/ ReverseNext(t)
  PROVE  \E n, j \in Nat : \E s \in [1 .. n -> owned[t]] :
           /\ Turning(t, n, s, j)
           /\ next' = [next EXCEPT ![s[j + 1]] = IF j = 0 THEN NIL ELSE s[j]]
           /\ Returned(t) = s[j + 1]
           /\ UNCHANGED owned
           /\ \/ j + 1 = n /\ pc'[t] = "idle"
              \/ /\ j + 1 < n /\ pc'[t] = "reverse"
                 /\ rev'[t] = [ret |-> s[j + 1], current |-> s[j + 2]]
<1>1. pc[t] \in {"first", "reverse"}
  BY DEF ReverseFirst, ReverseNext
<1>2. PICK n \in Nat, j \in Nat : \E s \in [1 .. n -> owned[t]] : Turning(t, n, s, j)
  BY <1>1 DEF HistoryInv
<1>3. PICK s \in [1 .. n -> owned[t]] : Turning(t, n, s, j)
  BY <1>2
<1>4. /\ j < n /\ j + 1 \in 1 .. n
      /\ next[s[j + 1]] = IF j + 1 = n THEN NIL ELSE s[j + 2]
  <2>1. j < n /\ j + 1 \in 1 .. n
    BY <1>3 DEF Turning
  <2>2. ~ j + 1 <= j /\ (j + 1) + 1 = j + 2
    OBVIOUS
  <2>3. QED
    BY <1>3, <2>1, <2>2 DEF Turning, Turned
<1>5. /\ s[j + 1] \in Items /\ next \in [Items -> Links]
      /\ j + 1 # n => s[j + 2] \in Items /\ s[j + 2] # NIL
      /\ pc \in [Threads -> Places] /\ rev \in [Threads -> [ret : Links, current : Links]]
  <2>1. j + 1 # n => j + 2 \in 1 .. n
    BY <1>4
  <2>2. QED
    BY <1>4, <2>1, Own DEF IInv, TypeOK
<1>6. CASE ReverseFirst(t)
  <2>1. j = 0 /\ seen[t].value = s[1] /\ Returned(t) = s[1] /\ j + 1 = 1 /\ j + 2 = 2
    BY <1>3, <1>6 DEF Turning, ReverseFirst, Returned
  <2>2. CASE n = 1
    <3>1. next[s[1]] = NIL
      BY <1>4, <2>1, <2>2
    <3>2. next' = next /\ Return(t) /\ UNCHANGED owned
      BY <1>6, <2>1, <3>1 DEF ReverseFirst
    <3>3. next' = [next EXCEPT ![s[1]] = NIL]
      BY <1>5, <2>1, <3>1, <3>2
    <3>4. pc'[t] = "idle"
      BY <1>5, <3>2 DEF Return, Goto
    <3>5. QED
      BY <1>3, <2>1, <2>2, <3>2, <3>3, <3>4
  <2>3. CASE n # 1
    <3>1. next[s[1]] = s[2] /\ s[2] # NIL
      BY <1>4, <1>5, <2>1, <2>3
    <3>2. /\ rev'  = [rev EXCEPT ![t] = [ret |-> s[1], current |-> s[2]]]
          /\ next' = [next EXCEPT ![s[1]] = NIL]
          /\ Goto(t, "reverse") /\ UNCHANGED owned
      BY <1>6, <2>1, <3>1 DEF ReverseFirst
    <3>3. pc'[t] = "reverse" /\ rev'[t] = [ret |-> s[1], current |-> s[2]]
      BY <1>5, <3>2 DEF Goto
    <3>4. j + 1 < n
      BY <1>4, <2>1, <2>3
    <3>5. QED
      BY <1>3, <2>1, <3>2, <3>3, <3>4
  <2>4. QED
    BY <2>2, <2>3
<1>7. CASE ReverseNext(t)
  <2>1. /\ j # 0 /\ rev[t].ret = s[j] /\ rev[t].current = s[j + 1]
        /\ Returned(t) = s[j + 1]
    BY <1>3, <1>7 DEF Turning, ReverseNext, Returned
  <2>2. next' = [next EXCEPT ![s[j + 1]] = s[j]] /\ UNCHANGED owned
    BY <1>7, <2>1 DEF ReverseNext
  <2>3. CASE j + 1 = n
    <3>1. Return(t)
      BY <1>4, <1>7, <2>1, <2>3 DEF ReverseNext
    <3>2. pc'[t] = "idle"
      BY <1>5, <3>1 DEF Return, Goto
    <3>3. QED
      BY <1>3, <2>1, <2>2, <2>3, <3>2
  <2>4. CASE j + 1 # n
    <3>1. /\ rev' = [rev EXCEPT ![t] = [ret |-> s[j + 1], current |-> s[j + 2]]]
          /\ pc' = pc
      BY <1>4, <1>5, <1>7, <2>1, <2>4 DEF ReverseNext
    <3>2. rev'[t] = [ret |-> s[j + 1], current |-> s[j + 2]] /\ pc'[t] = "reverse"
      BY <1>5, <1>7, <3>1 DEF ReverseNext
    <3>3. j + 1 < n
      BY <1>4, <2>4
    <3>4. QED
      BY <1>3, <2>1, <2>2, <3>2, <3>3
  <2>5. QED
    BY <2>3, <2>4
<1>8. QED
  BY <1>6, <1>7

LEMMA TurnsOn ==
  ASSUME IInv, HistoryNext, NEW t \in Threads, HistoryInv(t),
         ReverseFirst(t) \/ ReverseNext(t)
  PROVE  HistoryInv(t)'
<1>1. PICK n \in Nat, j \in Nat : \E s \in [1 .. n -> owned[t]] :
           /\ Turning(t, n, s, j)
           /\ next' = [next EXCEPT ![s[j + 1]] = IF j = 0 THEN NIL ELSE s[j]]
           /\ Returned(t) = s[j + 1]
           /\ UNCHANGED owned
           /\ \/ j + 1 = n /\ pc'[t] = "idle"
              \/ /\ j + 1 < n /\ pc'[t] = "reverse"
                 /\ rev'[t] = [ret |-> s[j + 1], current |-> s[j + 2]]
  BY Turns
<1>2. PICK s \in [1 .. n -> owned[t]] :
           /\ Turning(t, n, s, j)
           /\ next' = [next EXCEPT ![s[j + 1]] = IF j = 0 THEN NIL ELSE s[j]]
           /\ UNCHANGED owned
           /\ \/ j + 1 = n /\ pc'[t] = "idle"
              \/ /\ j + 1 < n /\ pc'[t] = "reverse"
                 /\ rev'[t] = [ret |-> s[j + 1], current |-> s[j + 2]]
  BY <1>1
<1>3. CASE pc'[t] = "idle"
  BY <1>3 DEF HistoryInv
<1>4. CASE pc'[t] # "idle"
  <2>1. /\ j + 1 < n /\ pc'[t] = "reverse"
        /\ rev'[t] = [ret |-> s[j + 1], current |-> s[j + 2]]
    BY <1>2, <1>4
  <2>2. taken'[t] = s
    <3>1. pc[t] # "swap"
      BY DEF ReverseFirst, ReverseNext
    <3>2. taken'[t] = taken[t]
      BY <1>4, <3>1 DEF HistoryNext
    <3>3. QED
      BY <1>2, <3>2 DEF Turning
  <2>3. Turned(n, s, j + 1)'
    <3>1. s \in [1 .. n -> Items] /\ next \in [Items -> Links]
      BY Own DEF IInv, TypeOK
    <3>2. j < n /\ Turned(n, s, j) /\ \A i, k \in 1 .. n : s[i] = s[k] => i = k
      BY <1>2 DEF Turning
    <3>3. QED
      BY <1>2, <3>1, <3>2, TurnOne
  <2>4. (j + 1) + 1 = j + 2 /\ j + 1 # 0 /\ j + 1 \in Nat
    OBVIOUS
  <2>5. Turning(t, n, s, j + 1)'
    BY <1>2, <2>1, <2>2, <2>3, <2>4 DEF Turning
  <2>6. s \in [1 .. n -> owned'[t]]
    BY <1>2
  <2>7. QED
    BY <2>4, <2>5, <2>6 DEF HistoryInv
<1>5. QED
  BY <1>3, <1>4

(* The reversals of other threads are not disturbed.                       *)
LEMMA Undisturbed ==
  ASSUME IInv, HistoryNext, NEW t \in Threads, NEW u \in Threads, u # t, HistoryInv(u),
         Same(u), \A i \in Items \ owned[t] : next'[i] = next[i]
  PROVE  HistoryInv(u)'
<1> SUFFICES ASSUME pc[u] \in {"first", "reverse"}
             PROVE  HistoryInv(u)'
  BY DEF HistoryInv, Same
<1>1. PICK n \in Nat, j \in Nat : \E s \in [1 .. n -> owned[u]] : Turning(u, n, s, j)
  BY DEF HistoryInv
<1>2. PICK s \in [1 .. n -> owned[u]] : Turning(u, n, s, j)
  BY <1>1
<1>3. \A k \in 1 .. n : next'[s[k]] = next[s[k]]
  <2>1. owned[u] \subseteq Items \ owned[t]
    BY Disjoint
  <2>2. \A k \in 1 .. n : s[k] \in owned[u]
    OBVIOUS
  <2>3. QED
    BY <2>1, <2>2
<1>4. taken'[u] = taken[u]
  BY DEF HistoryNext, Same
<1>5. Turning(u, n, s, j)'
  BY <1>2, <1>3, <1>4 DEF Turning, Turned, Same
<1>6. s \in [1 .. n -> owned'[u]]
  BY DEF Same
<1>7. QED
  BY <1>5, <1>6 DEF HistoryInv

LEMMA HistoryStep ==
  ASSUME IInv, \A t \in Threads : HistoryInv(t), [HistoryNext]_historyVars, Counted
  PROVE  \A t \in Threads : HistoryInv(t)'
<1>t. TypeOK'
  <2>1. [Next]_vars
    BY DEF HistoryNext, historyVars
  <2>2. QED
    BY <2>1, TypeStep
<1>1. ASSUME UNCHANGED historyVars, NEW u \in Threads
      PROVE  HistoryInv(u)'
  <2>1. UNCHANGED <<taken, next, pc, seen, rev, owned>>
    BY <1>1 DEF historyVars, vars
  <2>2. ASSUME NEW n \in Nat, NEW j \in Nat, NEW s
        PROVE  Turning(u, n, s, j)' <=> Turning(u, n, s, j)
    BY <2>1 DEF Turning, Turned
  <2>3. QED
    BY <2>1, <2>2 DEF HistoryInv
<1>2. ASSUME HistoryNext, NEW t \in Threads,
             CallGiving(t) \/ CallPlain(t) \/ RoutineStep(t), NEW u \in Threads
      PROVE  HistoryInv(u)'
  <2>1. CASE u # t
    <3>1. \A i \in Items \ owned[t] : next'[i] = next[i]
      <4>1. CASE Swap(t)
        BY <4>1 DEF Swap
      <4>2. CASE ~ Swap(t)
        BY <1>2, <4>2, OwnLinks DEF RoutineStep
      <4>3. QED
        BY <4>1, <4>2
    <3>2. Same(u)
      BY <1>2, <2>1 DEF Same, IInv, TypeOK, CallGiving, CallPlain, RoutineStep, Walk,
         ReadValue, ReadCounter, Refuse, Prepare, Swap, SwapFails, ReverseFirst, ReverseNext, Return,
         Goto, locals
    <3>3. QED
      BY <1>2, <2>1, <3>1, <3>2, Undisturbed
  <2>2. CASE u = t
    <3>1. CASE Swap(t)
      <4>1. CASE pc'[t] \in {"first", "reverse"}
        BY <1>t, <1>2, <2>2, <3>1, <4>1, Detaches
      <4>2. CASE pc'[t] \notin {"first", "reverse"}
        BY <2>2, <4>2 DEF HistoryInv
      <4>3. QED
        BY <4>1, <4>2
    <3>2. CASE ReverseFirst(t) \/ ReverseNext(t)
      BY <1>2, <2>2, <3>2, TurnsOn
    <3>3. CASE \/ CallGiving(t) \/ CallPlain(t) \/ Walk(t) \/ ReadValue(t)
               \/ ReadCounter(t) \/ Refuse(t) \/ Prepare(t) \/ SwapFails(t)
      <4>1. pc'[t] \notin {"first", "reverse"}
        BY <3>3 DEF IInv, TypeOK, CallGiving, CallPlain, Walk, ReadValue, ReadCounter, Refuse,
           Prepare, SwapFails, Return, Goto
      <4>2. QED
        BY <2>2, <4>1 DEF HistoryInv
    <3>4. QED
      BY <1>2, <3>1, <3>2, <3>3 DEF RoutineStep
  <2>3. QED
    BY <2>1, <2>2
<1>3. QED
  BY <1>1, <1>2 DEF HistoryNext, Next

(* A list a PopReversed returns is the list it detached, backwards,        *)
(* whatever the other threads do meanwhile.                                *)
LEMMA ReturnsReversed ==
  ASSUME IInv, NEW t \in Threads, HistoryInv(t), ReverseFirst(t) \/ ReverseNext(t),
         pc'[t] = "idle", NEW item, item = Returned(t)
  PROVE  Chain(item)' = Seqs!Reverse(taken[t])
<1>1. PICK n \in Nat, j \in Nat : \E s \in [1 .. n -> owned[t]] :
           /\ Turning(t, n, s, j)
           /\ next' = [next EXCEPT ![s[j + 1]] = IF j = 0 THEN NIL ELSE s[j]]
           /\ Returned(t) = s[j + 1]
           /\ UNCHANGED owned
           /\ \/ j + 1 = n /\ pc'[t] = "idle"
              \/ /\ j + 1 < n /\ pc'[t] = "reverse"
                 /\ rev'[t] = [ret |-> s[j + 1], current |-> s[j + 2]]
  BY Turns
<1>2. PICK s \in [1 .. n -> owned[t]] :
           /\ Turning(t, n, s, j)
           /\ next' = [next EXCEPT ![s[j + 1]] = IF j = 0 THEN NIL ELSE s[j]]
           /\ Returned(t) = s[n]
           /\ j + 1 = n
  BY <1>1
<1>3. /\ s \in [1 .. n -> Items] /\ next \in [Items -> Links]
      /\ j < n /\ Turned(n, s, j) /\ taken[t] = s
      /\ \A i, k \in 1 .. n : s[i] = s[k] => i = k
  BY <1>2, Own DEF Turning, IInv, TypeOK
<1>4. Turned(n, s, n)'
  BY <1>2, <1>3, TurnOne
<1>5. n # 0
  BY <1>2
<1>6. Chain(s[n])' = Seqs!Reverse(s)
  BY <1>3, <1>4, <1>5, AllTurnedAfter
<1>7. QED
  BY <1>2, <1>3, <1>6

(* TaggedPtrPopReversed returns the list it took in the order in which it  *)
(* was pushed, while any other threads push, pop and take in between.      *)
THEOREM StackReversesInOrder ==
  ASSUME Counted
  PROVE  HistorySpec => ReversedInOrder
<1> DEFINE Backwards == \A t \in Threads :
       pc[t] \in {"first", "reverse"} /\ pc'[t] = "idle" =>
         \A item \in {Returned(t)} : Chain(item)' = Seqs!Reverse(taken[t])
           AllInv == IInv /\ \A t \in Threads : HistoryInv(t)
<1>1. HistoryInit => AllInv
  BY InitIInv DEF HistoryInit, HistoryInv, Init
<1>2. AllInv /\ [HistoryNext]_historyVars => AllInv'
  BY StepIInv, HistoryStep DEF HistoryNext, historyVars
<1>3. AllInv /\ [HistoryNext]_historyVars => [Backwards]_historyVars
  <2> SUFFICES ASSUME AllInv, HistoryNext, NEW t \in Threads,
                      pc[t] \in {"first", "reverse"}, pc'[t] = "idle",
                      NEW item, item = Returned(t)
               PROVE  Chain(item)' = Seqs!Reverse(taken[t])
    OBVIOUS
  <2>1. PICK u \in Threads : CallGiving(u) \/ CallPlain(u) \/ RoutineStep(u)
    BY DEF HistoryNext, Next
  <2>2. ReverseFirst(t) \/ ReverseNext(t)
    BY <2>1 DEF IInv, TypeOK, CallGiving, CallPlain, RoutineStep, Walk, ReadValue, ReadCounter,
       Refuse, Prepare, Swap, SwapFails, ReverseFirst, ReverseNext, Return, Goto, locals
  <2>3. QED
    BY <2>2, ReturnsReversed
<1> HIDE DEF AllInv, Backwards
<1>4. QED
  BY <1>1, <1>2, <1>3, PTL DEF HistorySpec, ReversedInOrder, Backwards
=============================================================================

--------------------------- MODULE RtlStringProofs ---------------------------
(***************************************************************************)
(* Proofs about RtlString, for every set of threads, variables and blocks: *)
(* the reference counters are true and nothing in use is freed, provided   *)
(* that two threads do not copy from one variable at the same time; the    *)
(* text of a string changes only by a call for its own variable, or whole  *)
(* by an Init of its length into the block it shares; a call that returns  *)
(* has left there what it is for.                                          *)
(***************************************************************************)
EXTENDS RtlString, FiniteSetTheorems, TLAPS

(* Thread t has a reference to b in its hand that still counts.            *)
Holds(t, b) == hand[t] = b /\ pc[t] # "freelast"

Held(b) == Cardinality(VarsOf(b)) + Cardinality(HandsOf(b))

(* A call is for a variable of its own thread.                             *)
Works(t) ==
    ~Idle(t) => Owner[call[t].v] = t /\ {"v", "src"} \subseteq DOMAIN call[t]

(* While t copies from a variable, that variable keeps its block, nobody   *)
(* changes it or copies from it too; between the test that found a counter *)
(* of 1 and the store of 2 the counter is 1.                               *)
Lends(t) ==
    pc[t] \in Sharing =>
        /\ var[call[t].src] # Nil /\ var[call[t].src] \notin Literals
        /\ pc[t] = "store" => refs[var[call[t].src]] = 1
        /\ \A u \in Threads :
             /\ ~Idle(u) => call[u].v # call[t].src
             /\ u # t /\ pc[u] \in Sharing => call[u].src # call[t].src

(* A reference is given back on a tested counter: the thread that frees a  *)
(* block has the last reference to it, or took it away itself.             *)
Gives(t) ==
    /\ pc[t] \in {"dec", "free", "freelast"} => hand[t] \notin Literals
    /\ pc[t] = "free" => refs[hand[t]] = 1
    /\ pc[t] = "freelast" =>
         /\ refs[hand[t]] = 0
         /\ \A u \in Threads \ {t} : pc[u] = "freelast" => hand[u] # hand[t]

LiteralsStay ==
    /\ Literals \subseteq live
    /\ \A b \in Literals : refs[b] = -1
    /\ kind \notin LiteralKinds =>
         /\ \A v \in Vars : var[v] \notin Literals
         /\ \A t \in Threads : hand[t] \notin Literals

(* Wide strings have one variable each.                                    *)
WideAlone ==
    kind = "WStr" =>
        /\ \A t \in Threads : pc[t] \in {"idle", "fill", "cut"}
        /\ \A b \in live \ Literals : refs[b] = 1

Typed == TypeOK /\ call = [t \in Threads |-> call[t]]

IInv ==
    /\ Typed
    /\ \A t \in Threads : Works(t) /\ Lends(t) /\ Gives(t)
    /\ LiteralsStay
    /\ WideAlone
    /\ CountsReferences
    /\ NothingFreedInUse

-----------------------------------------------------------------------------
(* Counting references.                                                    *)

In(p) == IF p THEN 1 ELSE 0

LEMMA OneElement ==
    ASSUME NEW S, NEW T, NEW x, IsFiniteSet(S), IsFiniteSet(T), S \ {x} = T \ {x}
    PROVE  /\ Cardinality(S) \in Nat /\ Cardinality(T) \in Nat
           /\ Cardinality(T) = Cardinality(S) + In(x \in T) - In(x \in S)
           /\ x \in S => Cardinality(S) >= 1
<1>1. Cardinality(S) \in Nat /\ Cardinality(T) \in Nat BY FS_CardinalityType
<1>2. Cardinality(S \ {x}) = Cardinality(S) - In(x \in S) BY <1>1, FS_RemoveElement DEF In
<1>3. Cardinality(T \ {x}) = Cardinality(T) - In(x \in T) BY <1>1, FS_RemoveElement DEF In
<1>4. IsFiniteSet(S \ {x}) /\ Cardinality(S \ {x}) \in Nat
  BY FS_RemoveElement, FS_CardinalityType
<1>5. Cardinality(S) - In(x \in S) = Cardinality(T) - In(x \in T)
  BY <1>2, <1>3
<1>6. In(x \in S) \in {0, 1} /\ In(x \in T) \in {0, 1} /\ (x \in S => In(x \in S) = 1)
  BY DEF In
<1> QED BY <1>1, <1>2, <1>4, <1>5, <1>6

LEMMA HoldersFinite ==
    ASSUME NEW b
    PROVE  /\ IsFiniteSet(VarsOf(b)) /\ IsFiniteSet(HandsOf(b))
           /\ Cardinality(VarsOf(b)) \in Nat /\ Cardinality(HandsOf(b)) \in Nat
           /\ Held(b) \in Nat
<1>1. VarsOf(b) \subseteq Vars /\ HandsOf(b) \subseteq Threads BY DEF VarsOf, HandsOf
<1>2. IsFiniteSet(Vars) /\ IsFiniteSet(Threads) BY ConstantsAssumption
<1>3. IsFiniteSet(VarsOf(b)) /\ IsFiniteSet(HandsOf(b)) BY <1>1, <1>2, FS_Subset
<1> QED BY <1>3, FS_CardinalityType DEF Held

(* When one variable and the hand of one thread change, the references to  *)
(* b change by what these two have to do with b.                           *)
LEMMA Moves ==
    ASSUME NEW t \in Threads, NEW v \in Vars, NEW b,
           \A w \in Vars \ {v} : var'[w] = var[w],
           \A u \in Threads \ {t} : hand'[u] = hand[u] /\ pc'[u] = pc[u]
    PROVE  /\ Held(b)' = Held(b) + In((var[v] = b)') - In(var[v] = b)
                                 + In(Holds(t, b)') - In(Holds(t, b))
           /\ Held(b) \in Nat /\ Held(b)' \in Nat
<1>1. /\ IsFiniteSet(VarsOf(b)) /\ IsFiniteSet(HandsOf(b)) /\ Held(b) \in Nat
      /\ Cardinality(VarsOf(b)) \in Nat /\ Cardinality(HandsOf(b)) \in Nat
  BY HoldersFinite
<1>2. /\ IsFiniteSet(VarsOf(b)') /\ IsFiniteSet(HandsOf(b)') /\ Held(b)' \in Nat
      /\ Cardinality(VarsOf(b)') \in Nat /\ Cardinality(HandsOf(b)') \in Nat
  <2>1. VarsOf(b)' \subseteq Vars /\ HandsOf(b)' \subseteq Threads BY DEF VarsOf, HandsOf
  <2>2. IsFiniteSet(Vars) /\ IsFiniteSet(Threads) BY ConstantsAssumption
  <2>3. IsFiniteSet(VarsOf(b)') /\ IsFiniteSet(HandsOf(b)') BY <2>1, <2>2, FS_Subset
  <2>4. Cardinality(VarsOf(b)') \in Nat /\ Cardinality(HandsOf(b)') \in Nat
    BY <2>3, FS_CardinalityType
  <2> QED BY <2>3, <2>4 DEF Held
<1>3. Cardinality(VarsOf(b)') = Cardinality(VarsOf(b)) + In((var[v] = b)') - In(var[v] = b)
  <2>1. VarsOf(b)' \ {v} = VarsOf(b) \ {v} BY DEF VarsOf
  <2>2. Cardinality(VarsOf(b)') = Cardinality(VarsOf(b)) + In(v \in VarsOf(b)') - In(v \in VarsOf(b))
    BY <1>1, <1>2, <2>1, OneElement
  <2> QED BY <2>2 DEF VarsOf, In
<1>4. Cardinality(HandsOf(b)') = Cardinality(HandsOf(b)) + In(Holds(t, b)') - In(Holds(t, b))
  <2>1. HandsOf(b)' \ {t} = HandsOf(b) \ {t} BY DEF HandsOf
  <2>2. Cardinality(HandsOf(b)') = Cardinality(HandsOf(b)) + In(t \in HandsOf(b)') - In(t \in HandsOf(b))
    BY <1>1, <1>2, <2>1, OneElement
  <2> QED BY <2>2 DEF HandsOf, Holds, In
<1>5. Held(b)' = Cardinality(VarsOf(b)') + Cardinality(HandsOf(b)') BY DEF Held
<1> QED BY <1>1, <1>2, <1>3, <1>4, <1>5 DEF Held, In

(* Who has a reference: the counter is at least the references one can     *)
(* name.                                                                   *)
LEMMA Named ==
    ASSUME IInv, NEW b \in live \ Literals
    PROVE  /\ refs[b] = Held(b) /\ Held(b) \in Nat
           /\ \A v \in Vars : var[v] = b => refs[b] >= 1
           /\ \A t \in Threads : Holds(t, b) => refs[b] >= 1
           /\ \A v, w \in Vars : v # w /\ var[v] = b /\ var[w] = b => refs[b] >= 2
           /\ \A v \in Vars, t \in Threads : var[v] = b /\ Holds(t, b) => refs[b] >= 2
           /\ \A t, u \in Threads : t # u /\ Holds(t, b) /\ Holds(u, b) => refs[b] >= 2
<1>1. /\ IsFiniteSet(VarsOf(b)) /\ IsFiniteSet(HandsOf(b)) /\ Held(b) \in Nat
      /\ Cardinality(VarsOf(b)) \in Nat /\ Cardinality(HandsOf(b)) \in Nat
  BY HoldersFinite
<1>2. refs[b] = Held(b) BY DEF IInv, CountsReferences, Held
<1>3. ASSUME NEW S, IsFiniteSet(S), NEW x \in S PROVE Cardinality(S) >= 1
  BY <1>3, OneElement
<1>4. ASSUME NEW S, IsFiniteSet(S), NEW x \in S, NEW y \in S, x # y PROVE Cardinality(S) >= 2
  <2>1. IsFiniteSet(S \ {x}) /\ Cardinality(S \ {x}) = Cardinality(S) - 1
    BY <1>4, FS_RemoveElement
  <2>2. Cardinality(S \ {x}) >= 1 BY <1>3, <1>4, <2>1
  <2>3. Cardinality(S) \in Nat BY <1>4, FS_CardinalityType
  <2> QED BY <2>1, <2>2, <2>3
<1>5. /\ \A v \in Vars : v \in VarsOf(b) <=> var[v] = b
      /\ \A t \in Threads : t \in HandsOf(b) <=> Holds(t, b)
  BY DEF VarsOf, HandsOf, Holds
<1>6. \A v \in Vars : var[v] = b => Cardinality(VarsOf(b)) >= 1 BY <1>1, <1>3, <1>5
<1>7. \A t \in Threads : Holds(t, b) => Cardinality(HandsOf(b)) >= 1 BY <1>1, <1>3, <1>5
<1>8. \A v, w \in Vars : v # w /\ var[v] = b /\ var[w] = b => Cardinality(VarsOf(b)) >= 2
  BY <1>1, <1>4, <1>5
<1>9. \A t, u \in Threads : t # u /\ Holds(t, b) /\ Holds(u, b) => Cardinality(HandsOf(b)) >= 2
  BY <1>1, <1>4, <1>5
<1> QED BY <1>1, <1>2, <1>6, <1>7, <1>8, <1>9 DEF Held

-----------------------------------------------------------------------------
(* What one thread's step may do to the others.                            *)

(* The blocks whose counter a step of t may change.                        *)
Touches(t) ==
    {b \in Blocks : \/ pc[t] \in Releasing /\ hand[t] = b
                    \/ pc[t] \in Sharing /\ var[call[t].src] = b}

Others(t) ==
    \A u \in Threads \ {t} : pc'[u] = pc[u] /\ call'[u] = call[u] /\ hand'[u] = hand[u]

(* Nobody else touches a block whose counter a thread relies on.           *)
LEMMA Relied ==
    ASSUME IInv, NEW t \in Threads, NEW u \in Threads, t # u
    PROVE  /\ pc[u] = "store" => var[call[u].src] \in live \ Touches(t)
           /\ pc[u] \in {"free", "freelast"} => hand[u] \in live \ Touches(t)
<1> USE DEF IInv, Typed, TypeOK, Touches
<1>1. ASSUME pc[u] = "store" PROVE var[call[u].src] \in live \ Touches(t)
  <2> DEFINE b == var[call[u].src]
  <2>1. pc[u] \in Sharing /\ ~Idle(u) BY <1>1 DEF Sharing, Idle
  <2>2. call[u].src \in Vars /\ b \in live \ Literals /\ refs[b] = 1
    BY <1>1, <2>1 DEF Lends, NothingFreedInUse
  <2>3. ASSUME pc[t] \in Releasing, hand[t] = b PROVE FALSE
    <3>1. CASE pc[t] = "freelast" BY <2>2, <2>3, <3>1 DEF Gives
    <3>2. CASE pc[t] # "freelast" BY <2>2, <2>3, <3>2, Named DEF Holds
    <3> QED BY <3>1, <3>2
  <2>4. ASSUME pc[t] \in Sharing, var[call[t].src] = b PROVE FALSE
    <3>1. call[t].src \in Vars /\ call[t].src # call[u].src
      BY <2>1, <2>4 DEF Lends, Idle, Sharing
    <3> QED BY <2>2, <2>4, <3>1, Named
  <2> QED BY <2>2, <2>3, <2>4
<1>2. ASSUME pc[u] \in {"free", "freelast"} PROVE hand[u] \in live \ Touches(t)
  <2> DEFINE b == hand[u]
  <2>1. hand[u] # Nil BY <1>2 DEF Releasing
  <2>2. b \in live \ Literals BY <1>2, <2>1 DEF Gives, NothingFreedInUse
  <2>3. /\ pc[u] = "free" => refs[b] = 1 /\ Holds(u, b)
        /\ pc[u] = "freelast" => refs[b] = 0
    BY DEF Gives, Holds
  <2>4. ASSUME pc[t] \in Releasing, hand[t] = b PROVE FALSE
    <3>1. CASE pc[t] = "freelast" BY <1>2, <2>2, <2>3, <2>4, <3>1 DEF Gives
    <3>2. CASE pc[t] # "freelast" BY <1>2, <2>2, <2>3, <2>4, <3>2, Named DEF Holds
    <3> QED BY <3>1, <3>2
  <2>5. ASSUME pc[t] \in Sharing, var[call[t].src] = b PROVE FALSE
    <3>1. call[t].src \in Vars BY <2>5 DEF Idle, Sharing
    <3> QED BY <1>2, <2>2, <2>3, <2>5, <3>1, Named
  <2> QED BY <2>2, <2>4, <2>5
<1> QED BY <1>1, <1>2

(* A step of t keeps the invariant if it keeps t's part of it, the counts  *)
(* and the literals, and leaves the others what they rely on.              *)
LEMMA Keeps ==
    ASSUME IInv, NEW t \in Threads, Typed', kind' = kind, kind # "WStr", Others(t),
           Works(t)', Lends(t)', Gives(t)', LiteralsStay',
           CountsReferences', NothingFreedInUse',
           \A b \in live : b \in Touches(t) \/ refs'[b] = refs[b],
           \A u \in Threads \ {t} : pc[u] \in Sharing =>
             /\ var'[call[u].src] = var[call[u].src]
             /\ ~Idle(t)' => call'[t].v # call[u].src
    PROVE  IInv'
<1> USE DEF Others
<1>1. ASSUME NEW u \in Threads \ {t} PROVE Works(u)' /\ Lends(u)' /\ Gives(u)'
  <2>1. Works(u)' BY DEF IInv, Works, Idle
  <2>2. Lends(u)'
    <3> SUFFICES ASSUME pc[u] \in Sharing
                 PROVE  Lends(u)'
      BY DEF Lends
    <3>1. Lends(u) BY DEF IInv
    <3>2. var'[call'[u].src] = var[call[u].src] OBVIOUS
    <3>3. pc'[u] = "store" => refs'[var'[call'[u].src]] = 1
      BY <3>1, <3>2, Relied DEF Lends
    <3>4. ASSUME NEW w \in Threads
          PROVE  /\ ~Idle(w)' => call'[w].v # call'[u].src
                 /\ w # u /\ pc'[w] \in Sharing => call'[w].src # call'[u].src
      <4>1. CASE w = t
        <5>1. pc'[t] \in Sharing => call'[t].src # call'[u].src BY DEF Lends
        <5> QED BY <4>1, <5>1 DEF Idle
      <4>2. CASE w # t BY <3>1, <4>2 DEF Lends, Idle
      <4> QED BY <4>1, <4>2
    <3> QED BY <3>1, <3>2, <3>3, <3>4 DEF Lends
  <2>3. Gives(u)'
    <3>1. Gives(u) BY DEF IInv
    <3>2. pc[u] \in {"free", "freelast"} => refs'[hand'[u]] = refs[hand[u]]
      BY Relied
    <3>3. pc'[u] = "freelast" /\ pc'[t] = "freelast" => hand'[t] # hand'[u]
      BY DEF Gives
    <3> QED BY <3>1, <3>2, <3>3 DEF Gives
  <2> QED BY <2>1, <2>2, <2>3
<1>2. \A u \in Threads : Works(u)' /\ Lends(u)' /\ Gives(u)'
  BY <1>1
<1>3. WideAlone' BY DEF WideAlone
<1> QED BY <1>2, <1>3 DEF IInv

(* The counts stay true if those of the blocks a step touches do.          *)
LEMMA KeepsCounts ==
    ASSUME IInv, NEW t \in Threads, NEW v \in Vars, Others(t),
           \A w \in Vars \ {v} : var'[w] = var[w],
           \A b \in live' \ Literals : b \in live /\
             refs'[b] = refs[b] + In((var[v] = b)') - In(var[v] = b)
                                + In(Holds(t, b)') - In(Holds(t, b))
    PROVE  CountsReferences'
<1>1. ASSUME NEW b \in live' \ Literals PROVE refs'[b] = Held(b)'
  <2>1. /\ Held(b)' = Held(b) + In((var[v] = b)') - In(var[v] = b)
                              + In(Holds(t, b)') - In(Holds(t, b))
    BY Moves DEF Others
  <2>2. refs[b] = Held(b) BY Named
  <2> QED BY <2>1, <2>2
<1> QED BY <1>1 DEF CountsReferences, Held

-----------------------------------------------------------------------------
(* The steps, by what they do to references.                               *)

(* Steps that touch neither references nor what the others rely on.        *)
LEMMA Stays ==
    ASSUME IInv, NEW t \in Threads, Typed', Others(t),
           UNCHANGED <<kind, var, live, refs, hand>>,
           pc[t] \notin Releasing \cup Sharing,
           pc'[t] \in {"idle", "fill", "cut", "alloc"},
           pc'[t] = "alloc" => kind # "WStr",
           ~Idle(t)' => /\ Owner[call'[t].v] = t
                        /\ {"v", "src"} \subseteq DOMAIN call'[t]
                        /\ \A u \in Threads \ {t} : pc[u] \in Sharing => call[u].src # call'[t].v
    PROVE  IInv'
<1>1. Works(t)' /\ Lends(t)' /\ Gives(t)'
  BY DEF Works, Lends, Gives, Sharing, Releasing, Idle
<1>2. LiteralsStay' /\ NothingFreedInUse'
  BY DEF IInv, LiteralsStay, NothingFreedInUse
<1>3. CountsReferences'
  <2>1. \A b : HandsOf(b)' = HandsOf(b)
    BY DEF HandsOf, Others, Releasing, Sharing
  <2>2. \A b : VarsOf(b)' = VarsOf(b) BY DEF VarsOf
  <2> QED BY <2>1, <2>2 DEF IInv, CountsReferences
<1>4. CASE kind = "WStr"
  <2>1. ASSUME NEW u \in Threads PROVE pc'[u] \in {"idle", "fill", "cut"}
    BY <1>4 DEF IInv, WideAlone, Others
  <2>2. WideAlone' BY <2>1, <1>4 DEF IInv, WideAlone
  <2>3. ASSUME NEW u \in Threads \ {t} PROVE Works(u)' /\ Lends(u)' /\ Gives(u)'
    BY <2>1 DEF IInv, Works, Lends, Gives, Others, Idle, Sharing
  <2> QED BY <1>1, <1>2, <1>3, <2>2, <2>3 DEF IInv
<1>5. CASE kind # "WStr"
  BY <1>1, <1>2, <1>3, <1>5, Keeps
<1> QED BY <1>4, <1>5

(* What Goes, Fails and Return do.                                         *)
LEMMA GoesOn ==
    ASSUME Typed, NEW t \in Threads, NEW c, NEW p, Goes(t, c, p)
    PROVE  /\ pc' = [pc EXCEPT ![t] = p] /\ pc'[t] = p
           /\ \A u \in Threads \ {t} : pc'[u] = pc[u] /\ call'[u] = call[u]
           /\ p # "idle" => call'[t] = c
           /\ call' = [u \in Threads |-> call'[u]]
BY DEF Typed, TypeOK, Goes

LEMMA FailsOn ==
    ASSUME Typed, NEW t \in Threads, Fails(t)
    PROVE  /\ pc' = [pc EXCEPT ![t] = "idle"] /\ pc'[t] = "idle"
           /\ \A u \in Threads \ {t} : pc'[u] = pc[u] /\ call'[u] = call[u]
           /\ call' = [u \in Threads |-> call'[u]]
BY DEF Typed, TypeOK, Fails

(* Thread t, between two calls or between Reserve and the SetLength behind *)
(* it, may change its variable v.                                          *)
Ready(t, v) ==
    /\ pc[t] \in {"idle", "cut"}
    /\ Owner[v] = t
    /\ NotLent(v)

(* A call of t for v, its source v.                                        *)
ForItself(c, v) == c.v = v /\ c.src = v /\ {"v", "src"} \subseteq DOMAIN c

LEMMA GoesAndStays ==
    ASSUME IInv, NEW t \in Threads, NEW v \in Vars, NEW c, NEW p,
           Ready(t, v), ForItself(c, v), Goes(t, c, p),
           p \in {"idle", "fill", "cut", "alloc"}, p = "alloc" => kind # "WStr",
           UNCHANGED <<kind, var, live, refs, hand>>
    PROVE  IInv'
<1>1. Others(t) BY GoesOn DEF Others, IInv, Typed
<1>2. Typed'
  <2>1. pc' \in [Threads -> PCs] BY GoesOn DEF IInv, Typed, TypeOK, PCs
  <2>2. \A u \in Threads : (hand'[u] # Nil) <=> (pc'[u] \in Releasing)
    BY GoesOn DEF IInv, Typed, TypeOK, Ready, Releasing
  <2>3. \A u \in Threads : ~Idle(u)' => call'[u].v \in Vars /\ call'[u].src \in Vars
    BY GoesOn DEF IInv, Typed, TypeOK, Idle, ForItself
  <2>4. call' = [u \in Threads |-> call'[u]] BY GoesOn DEF IInv
  <2> QED BY <2>1, <2>2, <2>3, <2>4 DEF IInv, Typed, TypeOK
<1>3. pc[t] \notin Releasing \cup Sharing BY DEF Ready, Releasing, Sharing
<1>4. pc'[t] = p /\ (p # "idle" => call'[t] = c) BY GoesOn DEF IInv
<1>5. ~Idle(t)' => /\ Owner[call'[t].v] = t
                   /\ {"v", "src"} \subseteq DOMAIN call'[t]
                   /\ \A u \in Threads \ {t} : pc[u] \in Sharing => call[u].src # call'[t].v
  BY <1>4 DEF Ready, NotLent, ForItself, Idle
<1> QED BY <1>1, <1>2, <1>3, <1>4, <1>5, Stays

LEMMA FailsAndStays ==
    ASSUME IInv, NEW t \in Threads, Fails(t), pc[t] \notin Releasing \cup Sharing,
           UNCHANGED <<kind, var, live, refs, hand>>
    PROVE  IInv'
<1>1. Others(t) BY FailsOn DEF Others, IInv, Typed
<1>2. Typed'
  <2>1. pc' \in [Threads -> PCs] BY FailsOn DEF IInv, Typed, TypeOK, PCs
  <2>2. \A u \in Threads : (hand'[u] # Nil) <=> (pc'[u] \in Releasing)
    BY FailsOn DEF IInv, Typed, TypeOK, Releasing
  <2>3. \A u \in Threads : ~Idle(u)' => call'[u].v \in Vars /\ call'[u].src \in Vars
    BY FailsOn DEF IInv, Typed, TypeOK, Idle
  <2>4. call' = [u \in Threads |-> call'[u]] BY FailsOn DEF IInv
  <2> QED BY <2>1, <2>2, <2>3, <2>4 DEF IInv, Typed, TypeOK
<1>3. pc'[t] = "idle" /\ Idle(t)' BY FailsOn DEF IInv, Idle
<1> QED BY <1>1, <1>2, <1>3, Stays

(* Replace: the reference of a variable goes to the hand of its thread.    *)
LEMMA ReplaceKeeps ==
    ASSUME IInv, NEW t \in Threads, NEW v \in Vars, NEW c,
           Ready(t, v), ForItself(c, v), Replace(t, v, c), var[v] # Nil, kind # "WStr"
    PROVE  IInv'
<1> USE DEF IInv, Typed, TypeOK
<1>1. Goes(t, c, "drop") /\ UNCHANGED <<kind, live, refs>> BY DEF Replace
<1>2. /\ pc' = [pc EXCEPT ![t] = "drop"] /\ pc'[t] = "drop" /\ call'[t] = c
      /\ \A u \in Threads \ {t} : pc'[u] = pc[u] /\ call'[u] = call[u]
      /\ call' = [u \in Threads |-> call'[u]]
  BY <1>1, GoesOn
<1>3. /\ var' = [var EXCEPT ![v] = Nil] /\ var'[v] = Nil
      /\ hand' = [hand EXCEPT ![t] = var[v]] /\ hand'[t] = var[v]
      /\ hand[t] = Nil /\ var[v] \in live
  BY DEF Replace, Ready, Releasing, NothingFreedInUse
<1>4. Others(t) BY <1>2, <1>3 DEF Others
<1>5. Typed'
  <2>1. pc' \in [Threads -> PCs] BY <1>2 DEF PCs, Releasing
  <2>2. \A u \in Threads : (hand'[u] # Nil) <=> (pc'[u] \in Releasing)
    BY <1>2, <1>3 DEF Releasing
  <2>3. \A u \in Threads : ~Idle(u)' => call'[u].v \in Vars /\ call'[u].src \in Vars
    BY <1>2 DEF Idle, ForItself
  <2>4. var' \in [Vars -> Blocks \cup {Nil}] /\ hand' \in [Threads -> Blocks \cup {Nil}]
    BY <1>3
  <2> QED BY <1>1, <1>2, <2>1, <2>2, <2>3, <2>4
<1>6. Works(t)' /\ Lends(t)' /\ Gives(t)'
  BY <1>2 DEF Works, Lends, Gives, Ready, ForItself, Sharing
<1>7. LiteralsStay'
  <2>1. kind \notin LiteralKinds =>
          (\A w \in Vars : var'[w] \notin Literals) /\ (\A u \in Threads : hand'[u] \notin Literals)
    BY <1>3, ConstantsAssumption DEF LiteralsStay
  <2> QED BY <1>1, <2>1 DEF LiteralsStay
<1>8. CountsReferences'
  <2>1. \A w \in Vars \ {v} : var'[w] = var[w] BY <1>3
  <2>2. ASSUME NEW b \in live' \ Literals
        PROVE  b \in live /\ refs'[b] = refs[b] + In((var[v] = b)') - In(var[v] = b)
                                     + In(Holds(t, b)') - In(Holds(t, b))
    <3>1. b # Nil /\ b \in live /\ refs'[b] = refs[b] /\ refs[b] \in Int
      BY <1>1, ConstantsAssumption
    <3>2. (Holds(t, b)' <=> var[v] = b) /\ ~Holds(t, b) /\ ~(var[v] = b)'
      BY <1>2, <1>3, <3>1 DEF Holds
    <3>3. /\ In((var[v] = b)') = 0 /\ In(Holds(t, b)) = 0
          /\ In(Holds(t, b)') = In(var[v] = b) /\ In(var[v] = b) \in {0, 1}
      BY <3>2, Zenon DEF In
    <3> QED BY <3>1, <3>3
  <2> QED BY <1>4, <2>1, <2>2, KeepsCounts
<1>9. NothingFreedInUse' BY <1>1, <1>3 DEF NothingFreedInUse
<1>10. \A u \in Threads \ {t} : pc[u] \in Sharing =>
         /\ var'[call[u].src] = var[call[u].src]
         /\ ~Idle(t)' => call'[t].v # call[u].src
  BY <1>2, <1>3 DEF Ready, NotLent, ForItself, Idle, Sharing
<1> QED BY <1>1, <1>4, <1>5, <1>6, <1>7, <1>8, <1>9, <1>10, Keeps

-----------------------------------------------------------------------------
(* The operations of the shared strings.                                   *)

LEMMA CallIsForItself ==
    ASSUME NEW op, NEW v, NEW length, NEW chars, NEW width
    PROVE  ForItself(Call(op, v, v, length, chars, width), v)
BY DEF ForItself, Call

LEMMA CallerIsReady ==
    ASSUME NEW t \in Threads, NEW v \in Vars, CanCall(t, v)
    PROVE  Ready(t, v)
BY DEF CanCall, Ready, Idle

LEMMA ReadyIsFree ==
    ASSUME NEW t \in Threads, NEW v \in Vars, Ready(t, v)
    PROVE  pc[t] \notin Releasing \cup Sharing
BY DEF Ready, Releasing, Sharing

LEMMA ReallocKeeps ==
    ASSUME IInv, NEW t \in Threads, NEW v \in Vars, NEW c,
           Ready(t, v), ForItself(c, v), Realloc(t, v, c)
    PROVE  IInv'
<1>1. CASE Return(t, c) /\ UNCHANGED <<kind, var, live, refs, hand>>
  <2>1. PICK p \in {"idle", "fill"} : Goes(t, c, p) BY <1>1 DEF Return
  <2> QED BY <1>1, <2>1, GoesAndStays
<1>2. CASE Fails(t) /\ UNCHANGED <<kind, var, live, refs, hand>>
  BY <1>2, ReadyIsFree, FailsAndStays
<1> QED BY <1>1, <1>2 DEF Realloc

LEMMA EmptyOutKeeps ==
    ASSUME IInv, NEW t \in Threads, NEW v \in Vars, NEW c, kind # "WStr",
           Ready(t, v), EmptyOut(t, v, c)
    PROVE  IInv'
BY CallIsForItself, ReplaceKeeps DEF EmptyOut

LEMMA StartAllocKeeps ==
    ASSUME IInv, NEW t \in Threads, NEW v \in Vars, NEW c, kind # "WStr",
           Ready(t, v), ForItself(c, v), StartAlloc(t, v, c)
    PROVE  IInv'
BY GoesAndStays DEF StartAlloc

LEMMA ClearKeeps ==
    ASSUME IInv, NEW t \in Threads, NEW v \in Vars, kind # "WStr", StartClear(t, v)
    PROVE  IInv'
BY CallerIsReady, CallIsForItself, ReplaceKeeps DEF StartClear

LEMMA InitKeeps ==
    ASSUME IInv, NEW t \in Threads, NEW v \in Vars, kind # "WStr",
           NEW length, NEW chars, StartInit(t, v, length, chars)
    PROVE  IInv'
<1> DEFINE c == Call("Init", v, v, length, chars, InitWidth)
<1>1. Ready(t, v) /\ ForItself(c, v) BY CallerIsReady, CallIsForItself DEF StartInit
<1> HIDE DEF c
<1>2. CASE InitSame(t, v, c)
  <2>1. PICK p \in {"idle", "fill"} : Goes(t, c, p) BY <1>2 DEF InitSame, Return
  <2> QED BY <1>1, <1>2, <2>1, GoesAndStays DEF InitSame
<1>3. CASE InitOther(t, v, c)
  BY <1>1, <1>3, ReallocKeeps, ReplaceKeeps DEF InitOther
<1>4. CASE StartAlloc(t, v, c) BY <1>1, <1>4, StartAllocKeeps
<1>5. CASE EmptyOut(t, v, c) BY <1>1, <1>5, EmptyOutKeeps
<1> QED BY <1>2, <1>3, <1>4, <1>5 DEF StartInit, c

LEMMA ReserveKeeps ==
    ASSUME IInv, NEW t \in Threads, NEW v \in Vars, kind # "WStr",
           NEW length, StartReserve(t, v, length)
    PROVE  IInv'
<1> DEFINE c == Call("Reserve", v, v, length, NoOne, Width)
<1>1. Ready(t, v) /\ ForItself(c, v) BY CallerIsReady, CallIsForItself DEF StartReserve
<1> HIDE DEF c
<1>2. CASE ReserveInPlace(t, v, c)
  BY <1>1, <1>2, GoesAndStays, ReallocKeeps DEF ReserveInPlace
<1>3. CASE ReserveReplace(t, v, c)
  BY <1>1, <1>3, ReplaceKeeps DEF ReserveReplace
<1>4. CASE StartAlloc(t, v, c) BY <1>1, <1>4, StartAllocKeeps
<1>5. CASE EmptyOut(t, v, c) BY <1>1, <1>5, EmptyOutKeeps
<1> QED BY <1>2, <1>3, <1>4, <1>5 DEF StartReserve, c

LEMMA SetLengthKeeps ==
    ASSUME IInv, NEW t \in Threads, NEW v \in Vars, kind # "WStr", Ready(t, v),
           NEW length, SetLengthCall(t, v, length)
    PROVE  IInv'
<1> DEFINE c == Call("SetLength", v, v, length, NoOne, Width)
<1>1. ForItself(c, v) BY CallIsForItself
<1> HIDE DEF c
<1>2. CASE SetLengthKeep(t, v, c) BY <1>1, <1>2, GoesAndStays DEF SetLengthKeep
<1>3. CASE SetLengthAlloc(t, v, c) BY <1>1, <1>3, GoesAndStays DEF SetLengthAlloc
<1>4. CASE StartAlloc(t, v, c) BY <1>1, <1>4, StartAllocKeeps
<1>5. CASE EmptyOut(t, v, c) BY <1>1, <1>5, EmptyOutKeeps
<1> QED BY <1>2, <1>3, <1>4, <1>5 DEF SetLengthCall, c

(* A thread behind Reserve is ready for the SetLength that follows.        *)
LEMMA CutIsReady ==
    ASSUME IInv, NEW t \in Threads, pc[t] = "cut"
    PROVE  call[t].v \in Vars /\ Ready(t, call[t].v)
<1>1. ~Idle(t) BY DEF Idle
<1>2. call[t].v \in Vars /\ Owner[call[t].v] = t BY <1>1 DEF IInv, Typed, TypeOK, Works
<1>3. NotLent(call[t].v) BY <1>1 DEF IInv, Lends, NotLent
<1> QED BY <1>2, <1>3 DEF Ready

LEMMA FillKeeps ==
    ASSUME IInv, NEW t \in Threads, NEW n, Fill(t, n)
    PROVE  IInv'
<1>1. pc[t] = "fill" /\ ~Idle(t) /\ UNCHANGED <<kind, var, live, refs, hand>>
  BY DEF Fill, Idle
<1> DEFINE c == [call[t] EXCEPT !.length = n]
<1>2. PICK p \in {"cut", "idle"} : Goes(t, c, p) BY DEF Fill
<1>3. /\ {"v", "src"} \subseteq DOMAIN call[t] /\ Owner[call[t].v] = t
      /\ call[t].v \in Vars /\ call[t].src \in Vars
  BY <1>1 DEF IInv, Typed, TypeOK, Works
<1>4. c.v = call[t].v /\ c.src = call[t].src /\ {"v", "src"} \subseteq DOMAIN c
  BY <1>3
<1> HIDE DEF c
<1>5. /\ pc' = [pc EXCEPT ![t] = p] /\ pc'[t] = p
      /\ \A u \in Threads \ {t} : pc'[u] = pc[u] /\ call'[u] = call[u]
      /\ p # "idle" => call'[t] = c
      /\ call' = [u \in Threads |-> call'[u]]
  BY <1>2, GoesOn DEF IInv
<1>6. Typed'
  <2>1. pc' \in [Threads -> PCs] BY <1>5 DEF IInv, Typed, TypeOK, PCs
  <2>2. \A u \in Threads : (hand'[u] # Nil) <=> (pc'[u] \in Releasing)
    BY <1>1, <1>5 DEF IInv, Typed, TypeOK, Releasing
  <2>3. \A u \in Threads : ~Idle(u)' => call'[u].v \in Vars /\ call'[u].src \in Vars
    BY <1>3, <1>4, <1>5 DEF IInv, Typed, TypeOK, Idle
  <2> QED BY <1>1, <1>5, <2>1, <2>2, <2>3 DEF IInv, Typed, TypeOK
<1>7. Others(t) BY <1>1, <1>5 DEF Others
<1>8. pc[t] \notin Releasing \cup Sharing BY <1>1 DEF Releasing, Sharing
<1>9. ~Idle(t)' => /\ Owner[call'[t].v] = t
                   /\ {"v", "src"} \subseteq DOMAIN call'[t]
                   /\ \A u \in Threads \ {t} : pc[u] \in Sharing => call[u].src # call'[t].v
  BY <1>1, <1>3, <1>4, <1>5 DEF IInv, Lends, Idle
<1>10. pc'[t] \in {"idle", "fill", "cut", "alloc"} /\ pc'[t] # "alloc" BY <1>5
<1> QED BY <1>1, <1>6, <1>7, <1>8, <1>9, <1>10, Stays

-----------------------------------------------------------------------------
(* The steps of a call in progress.                                        *)

LEMMA TypedKeeps ==
    ASSUME IInv, NEW t \in Threads, Others(t), kind' = kind,
           var' \in [Vars -> Blocks \cup {Nil}], live' \subseteq Blocks,
           refs' \in [Blocks -> Int], pc' \in [Threads -> PCs],
           hand' \in [Threads -> Blocks \cup {Nil}],
           (hand'[t] # Nil) <=> (pc'[t] \in Releasing),
           ~Idle(t)' => call'[t].v \in Vars /\ call'[t].src \in Vars,
           call' = [u \in Threads |-> call'[u]]
    PROVE  Typed'
<1>1. ASSUME NEW u \in Threads
      PROVE  /\ (hand'[u] # Nil) <=> (pc'[u] \in Releasing)
             /\ ~Idle(u)' => call'[u].v \in Vars /\ call'[u].src \in Vars
  <2>1. CASE u = t BY <2>1
  <2>2. CASE u # t BY <2>2 DEF Others, IInv, Typed, TypeOK, Idle
  <2> QED BY <2>1, <2>2
<1> QED BY <1>1 DEF IInv, Typed, TypeOK

(* A step of a call in progress that goes on to p, and what it has.        *)
LEMMA CallGoesOn ==
    ASSUME IInv, NEW t \in Threads, ~Idle(t), NEW p \in PCs, Goes(t, call[t], p)
    PROVE  /\ pc' = [pc EXCEPT ![t] = p] /\ pc'[t] = p
           /\ pc' \in [Threads -> PCs]
           /\ \A u \in Threads \ {t} : pc'[u] = pc[u] /\ call'[u] = call[u]
           /\ p # "idle" => call'[t] = call[t]
           /\ call' = [u \in Threads |-> call'[u]]
           /\ Works(t)'
           /\ call[t].v \in Vars /\ call[t].src \in Vars
           /\ ~Idle(t)' => call'[t].v \in Vars /\ call'[t].src \in Vars
           /\ \A u \in Threads \ {t} : pc[u] \in Sharing =>
                (~Idle(t)' => call'[t].v # call[u].src)
           /\ kind # "WStr" \/ pc[t] \in {"fill", "cut"}
<1> USE DEF IInv, Typed, TypeOK
<1>1. /\ pc' = [pc EXCEPT ![t] = p] /\ pc'[t] = p
      /\ \A u \in Threads \ {t} : pc'[u] = pc[u] /\ call'[u] = call[u]
      /\ p # "idle" => call'[t] = call[t]
      /\ call' = [u \in Threads |-> call'[u]]
  BY GoesOn
<1>2. pc' \in [Threads -> PCs] BY <1>1
<1>3. Works(t)' BY <1>1 DEF Works, Idle
<1>4. call[t].v \in Vars /\ call[t].src \in Vars OBVIOUS
<1>5. ~Idle(t)' => call'[t].v \in Vars /\ call'[t].src \in Vars BY <1>1, <1>4 DEF Idle
<1>6. ASSUME NEW u \in Threads \ {t}, pc[u] \in Sharing
      PROVE  ~Idle(t)' => call'[t].v # call[u].src
  BY <1>1, <1>6 DEF Lends, Idle
<1>7. kind # "WStr" \/ pc[t] \in {"fill", "cut"} BY DEF WideAlone, Idle
<1> QED BY <1>1, <1>2, <1>3, <1>4, <1>5, <1>6, <1>7

(* A step that only decides where to go, among the places that have the    *)
(* reference in the hand, or among those that have none.                   *)
LEMMA TurnKeeps ==
    ASSUME IInv, NEW t \in Threads, NEW p \in PCs, Goes(t, call[t], p),
           UNCHANGED <<kind, var, live, refs, hand>>,
           \/ pc[t] \in Releasing /\ p \in Releasing
           \/ pc[t] \in Sharing /\ p \in Sharing,
           p # "freelast", pc[t] # "freelast",
           p \in {"dec", "free"} => hand[t] \notin Literals,
           p = "free" => refs[hand[t]] = 1,
           p = "store" => refs[var[call[t].src]] = 1
    PROVE  IInv'
<1>0. ~Idle(t) BY DEF Idle, Releasing, Sharing
<1>1. /\ pc' = [pc EXCEPT ![t] = p] /\ pc'[t] = p
      /\ pc' \in [Threads -> PCs]
      /\ \A u \in Threads \ {t} : pc'[u] = pc[u] /\ call'[u] = call[u]
      /\ call' = [u \in Threads |-> call'[u]]
      /\ Works(t)'
      /\ ~Idle(t)' => call'[t].v \in Vars /\ call'[t].src \in Vars
      /\ \A u \in Threads \ {t} : pc[u] \in Sharing =>
           (~Idle(t)' => call'[t].v # call[u].src)
      /\ kind # "WStr"
  BY <1>0, CallGoesOn DEF Releasing, Sharing
<1>2. call'[t] = call[t]
  BY <1>0, CallGoesOn DEF Releasing, Sharing
<1>3. Others(t) BY <1>1 DEF Others
<1>4. Typed'
  <2>1. (hand'[t] # Nil) <=> (pc'[t] \in Releasing)
    BY <1>1 DEF IInv, Typed, TypeOK, Releasing, Sharing
  <2>2. /\ var' \in [Vars -> Blocks \cup {Nil}] /\ live' \subseteq Blocks
        /\ refs' \in [Blocks -> Int] /\ hand' \in [Threads -> Blocks \cup {Nil}]
    BY DEF IInv, Typed, TypeOK
  <2> QED BY <1>1, <1>3, <2>1, <2>2, TypedKeeps
<1>5. Lends(t)'
  <2> SUFFICES ASSUME p \in Sharing PROVE Lends(t)' BY <1>1 DEF Lends
  <2>1. pc[t] \in Sharing /\ Lends(t) BY DEF IInv, Releasing, Sharing
  <2>2. \A u \in Threads : /\ ~Idle(u)' => call'[u].v # call'[t].src
                           /\ u # t /\ pc'[u] \in Sharing => call'[u].src # call'[t].src
    BY <1>0, <1>1, <1>2, <2>1 DEF Lends, Idle
  <2> QED BY <1>1, <1>2, <2>1, <2>2 DEF Lends
<1>6. Gives(t)' BY <1>1 DEF Gives
<1>7. LiteralsStay' /\ NothingFreedInUse'
  BY DEF IInv, LiteralsStay, NothingFreedInUse
<1>8. CountsReferences'
  <2>1. \A b : HandsOf(b)' = HandsOf(b) BY <1>1 DEF HandsOf
  <2>2. \A b : VarsOf(b)' = VarsOf(b) BY DEF VarsOf
  <2> QED BY <2>1, <2>2 DEF IInv, CountsReferences
<1> QED BY <1>1, <1>3, <1>4, <1>5, <1>6, <1>7, <1>8, Keeps

LEMMA DropKeeps == ASSUME IInv, NEW t \in Threads, Drop(t) PROVE IInv'
<1> DEFINE p == IF refs[hand[t]] = 1 THEN "free" ELSE IF Tested THEN "drop2" ELSE "dec"
<1>1. Goes(t, call[t], p) /\ pc[t] = "drop" /\ UNCHANGED <<kind, var, live, refs, hand>>
  BY DEF Drop
<1>2. p \in PCs /\ pc[t] \in Releasing /\ p \in Releasing
      /\ p # "freelast" /\ pc[t] # "freelast" /\ p # "store"
  BY <1>1 DEF PCs, Releasing
<1>3. p = "free" => refs[hand[t]] = 1 OBVIOUS
<1>4. p \in {"dec", "free"} => hand[t] \notin Literals
  <2>1. p = "free" => hand[t] \notin Literals BY DEF IInv, LiteralsStay
  <2>2. p = "dec" => ~Layout[kind].tested BY DEF Tested
  <2>3. p = "dec" => hand[t] \notin Literals
    BY <2>2, KindsAssumption DEF IInv, LiteralsStay
  <2> QED BY <2>1, <2>3
<1> HIDE DEF p
<1> QED BY <1>1, <1>2, <1>3, <1>4, TurnKeeps

LEMMA ShareKeeps == ASSUME IInv, NEW t \in Threads, Share(t) PROVE IInv'
<1> DEFINE p == IF refs[var[call[t].src]] = 1 THEN "store" ELSE "inc"
<1>1. Goes(t, call[t], p) /\ pc[t] = "share" /\ UNCHANGED <<kind, var, live, refs, hand>>
  BY DEF Share
<1>2. /\ p \in PCs /\ pc[t] \in Sharing /\ p \in Sharing
      /\ p # "freelast" /\ pc[t] # "freelast" /\ p \notin {"dec", "free"}
      /\ p = "store" => refs[var[call[t].src]] = 1
  BY <1>1 DEF PCs, Sharing
<1> HIDE DEF p
<1> QED BY <1>1, <1>2, TurnKeeps

LEMMA AllocFailsKeeps == ASSUME IInv, NEW t \in Threads, AllocFails(t) PROVE IInv'
<1>1. pc[t] \notin Releasing \cup Sharing BY DEF AllocFails, Releasing, Sharing
<1> QED BY <1>1, FailsAndStays DEF AllocFails

(* A thread that gave its reference back goes on.                          *)
LEMMA ReleasedOn ==
    ASSUME IInv, NEW t \in Threads, pc[t] \in Releasing, Released(t)
    PROVE  /\ Others(t) /\ hand'[t] = Nil
           /\ hand' = [hand EXCEPT ![t] = Nil]
           /\ pc' \in [Threads -> PCs]
           /\ pc'[t] \in {"alloc", "idle"}
           /\ call' = [u \in Threads |-> call'[u]]
           /\ Works(t)' /\ Lends(t)' /\ Gives(t)'
           /\ call[t].v \in Vars
           /\ ~Idle(t)' => call'[t].v \in Vars /\ call'[t].src \in Vars
           /\ \A u \in Threads \ {t} : pc[u] \in Sharing =>
                (~Idle(t)' => call'[t].v # call[u].src)
           /\ kind # "WStr"
<1>0. ~Idle(t) BY DEF Idle, Releasing
<1>1. hand' = [hand EXCEPT ![t] = Nil] /\ hand'[t] = Nil
  BY DEF Released, IInv, Typed, TypeOK
<1>2. PICK p \in {"alloc", "idle"} : Goes(t, call[t], p)
  BY DEF Released
<1>3. p \in PCs BY DEF PCs
<1>4. /\ pc' = [pc EXCEPT ![t] = p] /\ pc'[t] = p
      /\ pc' \in [Threads -> PCs]
      /\ \A u \in Threads \ {t} : pc'[u] = pc[u] /\ call'[u] = call[u]
      /\ call' = [u \in Threads |-> call'[u]]
      /\ Works(t)'
      /\ call[t].v \in Vars
      /\ ~Idle(t)' => call'[t].v \in Vars /\ call'[t].src \in Vars
      /\ \A u \in Threads \ {t} : pc[u] \in Sharing =>
           (~Idle(t)' => call'[t].v # call[u].src)
      /\ kind # "WStr"
  BY <1>0, <1>2, <1>3, CallGoesOn DEF Releasing
<1>5. Others(t) BY <1>1, <1>4 DEF Others, IInv, Typed, TypeOK
<1>6. Lends(t)' /\ Gives(t)' BY <1>4 DEF Lends, Gives, Sharing
<1> QED BY <1>1, <1>4, <1>5, <1>6

LEMMA DropTestKeeps == ASSUME IInv, NEW t \in Threads, DropTest(t) PROVE IInv'
<1>1. pc[t] = "drop2" /\ pc[t] \in Releasing /\ UNCHANGED <<kind, var, live, refs>>
  BY DEF DropTest, Releasing
<1>2. CASE refs[hand[t]] > 0 /\ Goes(t, call[t], "dec") /\ UNCHANGED hand
  <2>1. hand[t] \notin Literals BY <1>2 DEF IInv, LiteralsStay
  <2> QED BY <1>1, <1>2, <2>1, TurnKeeps DEF Releasing, PCs
<1>3. CASE refs[hand[t]] <= 0 /\ Released(t)
  <2>1. hand[t] \in live /\ hand[t] # Nil
    BY <1>1 DEF IInv, Typed, TypeOK, NothingFreedInUse
  <2>2. hand[t] \in Literals
    <3> SUFFICES ASSUME hand[t] \notin Literals PROVE FALSE OBVIOUS
    <3>1. Holds(t, hand[t]) BY <1>1 DEF Holds
    <3>2. refs[hand[t]] >= 1 BY <2>1, <3>1, Named
    <3> QED BY <1>3, <3>2, <2>1 DEF IInv, Typed, TypeOK
  <2>3. /\ Others(t) /\ hand'[t] = Nil
        /\ hand' = [hand EXCEPT ![t] = Nil]
        /\ pc' \in [Threads -> PCs]
        /\ pc'[t] \in {"alloc", "idle"}
        /\ call' = [u \in Threads |-> call'[u]]
        /\ Works(t)' /\ Lends(t)' /\ Gives(t)'
        /\ call[t].v \in Vars
        /\ ~Idle(t)' => call'[t].v \in Vars /\ call'[t].src \in Vars
        /\ \A u \in Threads \ {t} : pc[u] \in Sharing =>
             (~Idle(t)' => call'[t].v # call[u].src)
        /\ kind # "WStr"
    BY <1>1, <1>3, ReleasedOn
  <2>4. Typed'
    <3>1. hand' \in [Threads -> Blocks \cup {Nil}] BY <2>3 DEF IInv, Typed, TypeOK
    <3>2. (hand'[t] # Nil) <=> (pc'[t] \in Releasing) BY <2>3 DEF Releasing
    <3>3. /\ var' \in [Vars -> Blocks \cup {Nil}] /\ live' \subseteq Blocks
          /\ refs' \in [Blocks -> Int] /\ kind' = kind
      BY <1>1 DEF IInv, Typed, TypeOK
    <3> QED BY <2>3, <3>1, <3>2, <3>3, TypedKeeps
  <2>5. LiteralsStay'
    <3>1. \A u \in Threads : hand'[u] = hand[u] \/ hand'[u] = Nil
      BY <2>3 DEF Others
    <3> QED BY <1>1, <3>1, ConstantsAssumption DEF IInv, LiteralsStay
  <2>6. NothingFreedInUse' BY <1>1, <2>3 DEF IInv, NothingFreedInUse, Others
  <2>7. CountsReferences'
    <3>0. PICK v \in Vars : v = call[t].v BY <2>3
    <3>1. ASSUME NEW b \in live' \ Literals
          PROVE  b \in live /\ refs'[b] = refs[b] + In((var[v] = b)') - In(var[v] = b)
                                       + In(Holds(t, b)') - In(Holds(t, b))
      <4>1. b \in live /\ refs'[b] = refs[b] /\ refs[b] \in Int /\ b # Nil
        BY <1>1, ConstantsAssumption DEF IInv, Typed, TypeOK
      <4>2. ~Holds(t, b)' /\ ~Holds(t, b) /\ ((var[v] = b)' <=> var[v] = b)
        BY <1>1, <2>2, <2>3, <4>1 DEF Holds
      <4>3. /\ In(Holds(t, b)') = 0 /\ In(Holds(t, b)) = 0
            /\ In((var[v] = b)') = In(var[v] = b) /\ In(var[v] = b) \in {0, 1}
        BY <4>2, Zenon DEF In
      <4> QED BY <4>1, <4>3
    <3>2. \A w \in Vars \ {v} : var'[w] = var[w] BY <1>1
    <3> QED BY <2>3, <3>1, <3>2, KeepsCounts
  <2> QED BY <1>1, <2>3, <2>4, <2>5, <2>6, <2>7, Keeps
<1> QED BY <1>2, <1>3 DEF DropTest

LEMMA DecrementKeeps == ASSUME IInv, NEW t \in Threads, Decrement(t) PROVE IInv'
<1> DEFINE b == hand[t]
<1>1. /\ pc[t] = "dec" /\ pc[t] \in Releasing /\ ~Idle(t)
      /\ UNCHANGED <<kind, var, live>> /\ refs' = [refs EXCEPT ![b] = refs[b] - 1]
  BY DEF Decrement, Releasing, Idle
<1>2. /\ b \in live \ Literals /\ b \in Blocks /\ b # Nil /\ Holds(t, b)
      /\ refs \in [Blocks -> Int]
      /\ refs'[b] = refs[b] - 1 /\ \A d \in Blocks \ {b} : refs'[d] = refs[d]
  BY <1>1 DEF IInv, Typed, TypeOK, NothingFreedInUse, Gives, Holds
<1>3. b \in Touches(t) BY <1>1, <1>2 DEF Touches
<1>4. \A d \in live : d \in Touches(t) \/ refs'[d] = refs[d]
  BY <1>2, <1>3 DEF IInv, Typed, TypeOK
<1>5. PICK v \in Vars : v = call[t].v BY <1>1 DEF IInv, Typed, TypeOK
<1>6. refs' \in [Blocks -> Int] BY <1>1, <1>2
<1>7. CASE refs[b] = 1 /\ Goes(t, call[t], "freelast") /\ UNCHANGED hand
  <2>1. /\ pc'[t] = "freelast" /\ pc' \in [Threads -> PCs]
        /\ \A u \in Threads \ {t} : pc'[u] = pc[u] /\ call'[u] = call[u]
        /\ call' = [u \in Threads |-> call'[u]]
        /\ Works(t)'
        /\ ~Idle(t)' => call'[t].v \in Vars /\ call'[t].src \in Vars
        /\ \A u \in Threads \ {t} : pc[u] \in Sharing =>
             (~Idle(t)' => call'[t].v # call[u].src)
        /\ kind # "WStr"
    BY <1>1, <1>7, CallGoesOn DEF PCs, Releasing
  <2>2. Others(t) BY <1>7, <2>1 DEF Others
  <2>3. Typed'
    <3>1. (hand'[t] # Nil) <=> (pc'[t] \in Releasing) BY <1>2, <1>7, <2>1 DEF Releasing
    <3>2. /\ var' \in [Vars -> Blocks \cup {Nil}] /\ live' \subseteq Blocks
          /\ hand' \in [Threads -> Blocks \cup {Nil}] /\ kind' = kind
      BY <1>1, <1>7 DEF IInv, Typed, TypeOK
    <3> QED BY <1>6, <2>1, <2>2, <3>1, <3>2, TypedKeeps
  <2>4. Lends(t)' BY <2>1 DEF Lends, Sharing
  <2>5. Gives(t)'
    <3>1. ASSUME NEW u \in Threads \ {t}, pc[u] = "freelast" PROVE hand[u] # b
      BY <1>7, <3>1 DEF IInv, Gives
    <3> QED BY <1>2, <1>7, <2>1, <3>1 DEF Gives
  <2>6. LiteralsStay' BY <1>1, <1>2, <1>7, ConstantsAssumption DEF IInv, LiteralsStay
  <2>7. NothingFreedInUse' BY <1>1, <1>7 DEF IInv, NothingFreedInUse
  <2>8. CountsReferences'
    <3>1. ASSUME NEW d \in live' \ Literals
          PROVE  d \in live /\ refs'[d] = refs[d] + In((var[v] = d)') - In(var[v] = d)
                                       + In(Holds(t, d)') - In(Holds(t, d))
      <4>1. d \in live /\ d \in Blocks /\ refs[d] \in Int
        BY <1>1 DEF IInv, Typed, TypeOK
      <4>2. ~Holds(t, d)' /\ (Holds(t, d) <=> d = b) /\ ((var[v] = d)' <=> var[v] = d)
        BY <1>1, <1>2, <2>1 DEF Holds
      <4>3. /\ In(Holds(t, d)') = 0 /\ In(Holds(t, d)) = In(d = b)
            /\ In((var[v] = d)') = In(var[v] = d) /\ In(var[v] = d) \in {0, 1}
        BY <4>2, Zenon DEF In
      <4>4. refs'[d] = refs[d] - In(d = b) BY <1>2, <4>1 DEF In
      <4>5. In(d = b) \in {0, 1} BY DEF In
      <4> QED BY <4>1, <4>3, <4>4, <4>5
    <3>2. \A w \in Vars \ {v} : var'[w] = var[w] BY <1>1
    <3> QED BY <2>2, <3>1, <3>2, KeepsCounts
  <2> QED BY <1>1, <1>4, <2>1, <2>2, <2>3, <2>4, <2>5, <2>6, <2>7, <2>8, Keeps
<1>8. CASE refs[b] # 1 /\ Released(t)
  <2>1. /\ Others(t) /\ hand'[t] = Nil
        /\ hand' = [hand EXCEPT ![t] = Nil]
        /\ pc' \in [Threads -> PCs]
        /\ pc'[t] \in {"alloc", "idle"}
        /\ call' = [u \in Threads |-> call'[u]]
        /\ Works(t)' /\ Lends(t)' /\ Gives(t)'
        /\ ~Idle(t)' => call'[t].v \in Vars /\ call'[t].src \in Vars
        /\ \A u \in Threads \ {t} : pc[u] \in Sharing =>
             (~Idle(t)' => call'[t].v # call[u].src)
        /\ kind # "WStr"
    BY <1>1, <1>8, ReleasedOn
  <2>3. Typed'
    <3>1. hand' \in [Threads -> Blocks \cup {Nil}] BY <2>1 DEF IInv, Typed, TypeOK
    <3>2. (hand'[t] # Nil) <=> (pc'[t] \in Releasing) BY <2>1 DEF Releasing
    <3>3. var' \in [Vars -> Blocks \cup {Nil}] /\ live' \subseteq Blocks /\ kind' = kind
      BY <1>1 DEF IInv, Typed, TypeOK
    <3> QED BY <1>6, <2>1, <3>1, <3>2, <3>3, TypedKeeps
  <2>6. LiteralsStay'
    <3>1. \A u \in Threads : hand'[u] = hand[u] \/ hand'[u] = Nil BY <2>1 DEF Others
    <3>2. Nil \notin Literals BY ConstantsAssumption
    <3>3. \A d \in Literals : refs'[d] = refs[d] BY <1>2, ConstantsAssumption
    <3> QED BY <1>1, <3>1, <3>2, <3>3 DEF IInv, LiteralsStay
  <2>7. NothingFreedInUse' BY <1>1, <2>1 DEF IInv, NothingFreedInUse, Others
  <2>8. CountsReferences'
    <3>1. ASSUME NEW d \in live' \ Literals
          PROVE  d \in live /\ refs'[d] = refs[d] + In((var[v] = d)') - In(var[v] = d)
                                       + In(Holds(t, d)') - In(Holds(t, d))
      <4>1. d \in live /\ d \in Blocks /\ refs[d] \in Int /\ d # Nil
        BY <1>1, ConstantsAssumption DEF IInv, Typed, TypeOK
      <4>2. ~Holds(t, d)' /\ (Holds(t, d) <=> d = b) /\ ((var[v] = d)' <=> var[v] = d)
        BY <1>1, <1>2, <2>1, <4>1 DEF Holds
      <4>3. /\ In(Holds(t, d)') = 0 /\ In(Holds(t, d)) = In(d = b)
            /\ In((var[v] = d)') = In(var[v] = d) /\ In(var[v] = d) \in {0, 1}
        BY <4>2, Zenon DEF In
      <4>4. refs'[d] = refs[d] - In(d = b) BY <1>2, <4>1 DEF In
      <4>5. In(d = b) \in {0, 1} BY DEF In
      <4> QED BY <4>1, <4>3, <4>4, <4>5
    <3>2. \A w \in Vars \ {v} : var'[w] = var[w] BY <1>1
    <3> QED BY <2>1, <3>1, <3>2, KeepsCounts
  <2> QED BY <1>1, <1>4, <2>1, <2>3, <2>6, <2>7, <2>8, Keeps
<1> QED BY <1>7, <1>8 DEF Decrement

(* The block of a thread that frees is in nobody else's reach.             *)
LEMMA LastHolder ==
    ASSUME IInv, NEW t \in Threads, pc[t] \in {"free", "freelast"}
    PROVE  /\ hand[t] \in live \ Literals
           /\ \A v \in Vars : var[v] # hand[t]
           /\ \A u \in Threads \ {t} : hand[u] # hand[t]
<1>1. hand[t] \in live \ Literals
  BY DEF IInv, Typed, TypeOK, Releasing, NothingFreedInUse, Gives
<1>2. CASE pc[t] = "free"
  <2>1. refs[hand[t]] = 1 /\ Holds(t, hand[t]) BY <1>2 DEF IInv, Gives, Holds
  <2>2. \A v \in Vars : var[v] # hand[t] BY <1>1, <2>1, Named
  <2>3. ASSUME NEW u \in Threads \ {t}, hand[u] = hand[t] PROVE FALSE
    <3>1. pc[u] = "freelast" BY <1>1, <2>1, <2>3, Named DEF Holds
    <3> QED BY <2>1, <2>3, <3>1 DEF IInv, Gives
  <2> QED BY <1>1, <2>2, <2>3
<1>3. CASE pc[t] = "freelast"
  <2>1. refs[hand[t]] = 0 BY <1>3 DEF IInv, Gives
  <2>2. \A v \in Vars : var[v] # hand[t] BY <1>1, <2>1, Named
  <2>3. ASSUME NEW u \in Threads \ {t}, hand[u] = hand[t] PROVE FALSE
    <3>1. pc[u] = "freelast" BY <1>1, <2>1, <2>3, Named DEF Holds
    <3> QED BY <1>3, <2>3, <3>1 DEF IInv, Gives
  <2> QED BY <1>1, <2>2, <2>3
<1> QED BY <1>2, <1>3

LEMMA FreeMemKeeps == ASSUME IInv, NEW t \in Threads, FreeMem(t) PROVE IInv'
<1> DEFINE b == hand[t]
<1>1. /\ pc[t] \in {"free", "freelast"} /\ pc[t] \in Releasing /\ ~Idle(t)
      /\ UNCHANGED <<kind, var>> /\ live' = live \ {b} /\ refs' = [refs EXCEPT ![b] = 0]
      /\ Released(t)
  BY DEF FreeMem, Release, Releasing, Idle
<1>2. /\ b \in live \ Literals /\ b \in Blocks /\ b # Nil
      /\ \A v \in Vars : var[v] # b
      /\ \A u \in Threads \ {t} : hand[u] # b
      /\ refs \in [Blocks -> Int]
  BY <1>1, LastHolder DEF IInv, Typed, TypeOK
<1>3. /\ refs' \in [Blocks -> Int] /\ \A d \in Blocks \ {b} : refs'[d] = refs[d]
  BY <1>1, <1>2
<1>4. \A d \in live : d \in Touches(t) \/ refs'[d] = refs[d]
  BY <1>1, <1>2, <1>3 DEF IInv, Typed, TypeOK, Touches
<1>5. PICK v \in Vars : v = call[t].v BY <1>1 DEF IInv, Typed, TypeOK
<1>6. /\ Others(t) /\ hand'[t] = Nil
      /\ hand' = [hand EXCEPT ![t] = Nil]
      /\ pc' \in [Threads -> PCs]
      /\ pc'[t] \in {"alloc", "idle"}
      /\ call' = [u \in Threads |-> call'[u]]
      /\ Works(t)' /\ Lends(t)' /\ Gives(t)'
      /\ ~Idle(t)' => call'[t].v \in Vars /\ call'[t].src \in Vars
      /\ \A u \in Threads \ {t} : pc[u] \in Sharing =>
           (~Idle(t)' => call'[t].v # call[u].src)
      /\ kind # "WStr"
  BY <1>1, ReleasedOn
<1>7. Typed'
  <2>1. hand' \in [Threads -> Blocks \cup {Nil}] BY <1>6 DEF IInv, Typed, TypeOK
  <2>2. (hand'[t] # Nil) <=> (pc'[t] \in Releasing) BY <1>6 DEF Releasing
  <2>3. var' \in [Vars -> Blocks \cup {Nil}] /\ live' \subseteq Blocks /\ kind' = kind
    BY <1>1 DEF IInv, Typed, TypeOK
  <2> QED BY <1>3, <1>6, <2>1, <2>2, <2>3, TypedKeeps
<1>8. LiteralsStay'
  <2>1. \A u \in Threads : hand'[u] = hand[u] \/ hand'[u] = Nil BY <1>6 DEF Others
  <2>2. Nil \notin Literals BY ConstantsAssumption
  <2>3. \A d \in Literals : refs'[d] = refs[d] BY <1>2, <1>3, ConstantsAssumption
  <2> QED BY <1>1, <1>2, <2>1, <2>2, <2>3 DEF IInv, LiteralsStay
<1>9. NothingFreedInUse' BY <1>1, <1>2, <1>6 DEF IInv, NothingFreedInUse, Others
<1>10. CountsReferences'
  <2>1. ASSUME NEW d \in live' \ Literals
        PROVE  d \in live /\ refs'[d] = refs[d] + In((var[v] = d)') - In(var[v] = d)
                                     + In(Holds(t, d)') - In(Holds(t, d))
    <3>1. d \in live /\ d \in Blocks /\ d # b /\ refs[d] \in Int /\ d # Nil
      BY <1>1, ConstantsAssumption DEF IInv, Typed, TypeOK
    <3>2. ~Holds(t, d)' /\ ~Holds(t, d) /\ ((var[v] = d)' <=> var[v] = d)
      BY <1>1, <1>6, <3>1 DEF Holds
    <3>3. /\ In(Holds(t, d)') = 0 /\ In(Holds(t, d)) = 0
          /\ In((var[v] = d)') = In(var[v] = d) /\ In(var[v] = d) \in {0, 1}
      BY <3>2, Zenon DEF In
    <3> QED BY <1>3, <3>1, <3>3
  <2>2. \A w \in Vars \ {v} : var'[w] = var[w] BY <1>1
  <2> QED BY <1>6, <2>1, <2>2, KeepsCounts
<1> QED BY <1>1, <1>4, <1>6, <1>7, <1>8, <1>9, <1>10, Keeps

-----------------------------------------------------------------------------
(* Copying.                                                                *)

(* A variable takes the block of another one, counted or a literal.        *)
LEMMA TakeKeeps ==
    ASSUME IInv, NEW t \in Threads, NEW v \in Vars, NEW src \in Vars, NEW c,
           TakeSource(t, c), c.v = v, c.src = src, {"v", "src"} \subseteq DOMAIN c,
           UNCHANGED <<kind, live>>, kind # "WStr",
           Owner[v] = t, pc[t] \in {"idle", "store", "inc"},
           \A u \in Threads \ {t} : pc[u] \in Sharing => call[u].src # v,
           \/ /\ refs' = refs
              /\ var[src] = Nil \/ var[src] \in Literals
           \/ /\ pc[t] \in Sharing /\ call[t].src = src /\ var[src] \in live \ Literals
              /\ refs' = [refs EXCEPT ![var[src]] = refs[var[src]] + 1]
    PROVE  IInv'
<1> DEFINE b == var[src]
<1> DEFINE p == IF var[v] = Nil THEN "idle" ELSE "drop"
<1>1. /\ var' = [var EXCEPT ![v] = b] /\ hand' = [hand EXCEPT ![t] = var[v]]
      /\ Goes(t, c, p)
  BY DEF TakeSource
<1>2. /\ var \in [Vars -> Blocks \cup {Nil}] /\ hand \in [Threads -> Blocks \cup {Nil}]
      /\ live \subseteq Blocks /\ refs \in [Blocks -> Int]
      /\ hand[t] = Nil /\ Nil \notin Blocks /\ Literals \subseteq Blocks
      /\ Nil \notin Literals
  BY ConstantsAssumption DEF IInv, Typed, TypeOK, Releasing
<1>3. /\ var'[v] = b /\ \A w \in Vars \ {v} : var'[w] = var[w]
      /\ hand'[t] = var[v] /\ \A u \in Threads \ {t} : hand'[u] = hand[u]
  BY <1>1, <1>2
<1>4. /\ pc'[t] = p /\ pc' = [pc EXCEPT ![t] = p]
      /\ \A u \in Threads \ {t} : pc'[u] = pc[u] /\ call'[u] = call[u]
      /\ p # "idle" => call'[t] = c
      /\ call' = [u \in Threads |-> call'[u]]
  BY <1>1, GoesOn DEF IInv
<1>5. Others(t) BY <1>3, <1>4 DEF Others
<1>6. Typed'
  <2>1. pc' \in [Threads -> PCs] BY <1>4 DEF IInv, Typed, TypeOK, PCs, Releasing
  <2>2. (hand'[t] # Nil) <=> (pc'[t] \in Releasing) BY <1>3, <1>4 DEF Releasing
  <2>3. ~Idle(t)' => call'[t].v \in Vars /\ call'[t].src \in Vars BY <1>4 DEF Idle
  <2>4. var' \in [Vars -> Blocks \cup {Nil}] /\ hand' \in [Threads -> Blocks \cup {Nil}]
    BY <1>1, <1>2
  <2>5. refs' \in [Blocks -> Int] BY <1>2
  <2> QED BY <1>2, <1>4, <1>5, <2>1, <2>2, <2>3, <2>4, <2>5, TypedKeeps
<1>7. Works(t)' /\ Lends(t)' /\ Gives(t)'
  BY <1>4 DEF Works, Lends, Gives, Sharing, Idle
<1>8. \A d \in live : d \in Touches(t) \/ refs'[d] = refs[d]
  BY <1>2 DEF Touches
<1>9. LiteralsStay'
  <2>1. \A d \in Literals : refs'[d] = refs[d] BY <1>2
  <2>2. kind \notin LiteralKinds =>
          (\A w \in Vars : var'[w] \notin Literals) /\ (\A u \in Threads : hand'[u] \notin Literals)
    BY <1>3 DEF IInv, LiteralsStay
  <2> QED BY <2>1, <2>2 DEF IInv, LiteralsStay
<1>10. NothingFreedInUse' BY <1>3 DEF IInv, NothingFreedInUse
<1>11. CountsReferences'
  <2>1. ASSUME NEW d \in live' \ Literals
        PROVE  d \in live /\ refs'[d] = refs[d] + In((var[v] = d)') - In(var[v] = d)
                                     + In(Holds(t, d)') - In(Holds(t, d))
    <3>1. d \in live /\ d \in Blocks /\ refs[d] \in Int /\ d # Nil
      BY <1>2
    <3>2. (Holds(t, d)' <=> var[v] = d) /\ ~Holds(t, d) /\ ((var[v] = d)' <=> b = d)
      BY <1>2, <1>3, <1>4, <3>1 DEF Holds
    <3>3. /\ In(Holds(t, d)') = In(var[v] = d) /\ In(Holds(t, d)) = 0
          /\ In((var[v] = d)') = In(b = d) /\ In(var[v] = d) \in {0, 1}
      BY <3>2, Zenon DEF In
    <3>4. refs'[d] = refs[d] + In(b = d) /\ In(b = d) \in {0, 1}
      BY <1>2, <3>1 DEF In
    <3> QED BY <3>1, <3>3, <3>4
  <2> QED BY <1>3, <1>5, <2>1, KeepsCounts
<1>12. \A u \in Threads \ {t} : pc[u] \in Sharing =>
         /\ var'[call[u].src] = var[call[u].src]
         /\ ~Idle(t)' => call'[t].v # call[u].src
  <2>1. \A u \in Threads : pc[u] \in Sharing => call[u].src \in Vars
    BY DEF IInv, Typed, TypeOK, Idle, Sharing
  <2> QED BY <1>3, <1>4, <2>1 DEF Idle
<1> QED BY <1>5, <1>6, <1>7, <1>8, <1>9, <1>10, <1>11, <1>12, Keeps

(* The sharing thread's own variable and source.                           *)
LEMMA SharesInPeace ==
    ASSUME IInv, NEW t \in Threads, pc[t] \in Sharing
    PROVE  /\ call[t].v \in Vars /\ call[t].src \in Vars /\ Owner[call[t].v] = t
           /\ {"v", "src"} \subseteq DOMAIN call[t]
           /\ var[call[t].src] \in live \ Literals /\ kind # "WStr"
           /\ pc[t] = "store" => refs[var[call[t].src]] = 1
           /\ \A u \in Threads \ {t} : pc[u] \in Sharing => call[u].src # call[t].v
<1>1. ~Idle(t) BY DEF Idle, Sharing
<1>2. /\ call[t].v \in Vars /\ call[t].src \in Vars /\ Owner[call[t].v] = t
      /\ {"v", "src"} \subseteq DOMAIN call[t]
  BY <1>1 DEF IInv, Typed, TypeOK, Works
<1>3. kind # "WStr" BY DEF IInv, WideAlone, Sharing
<1> QED BY <1>1, <1>2, <1>3 DEF IInv, Lends, NothingFreedInUse

LEMMA StoreTwoKeeps == ASSUME IInv, NEW t \in Threads, StoreTwo(t) PROVE IInv'
<1>1. pc[t] = "store" /\ pc[t] \in Sharing BY DEF StoreTwo, Sharing
<1>2. PICK v \in Vars : v = call[t].v BY <1>1, SharesInPeace
<1>3. PICK src \in Vars : src = call[t].src BY <1>1, SharesInPeace
<1>4. PICK c : c = call[t] OBVIOUS
<1>5. /\ Owner[v] = t /\ {"v", "src"} \subseteq DOMAIN c
      /\ var[src] \in live \ Literals /\ kind # "WStr" /\ refs[var[src]] = 1
      /\ \A u \in Threads \ {t} : pc[u] \in Sharing => call[u].src # v
  BY <1>1, <1>2, <1>3, <1>4, SharesInPeace
<1>6. TakeSource(t, c) /\ UNCHANGED <<kind, live>>
      /\ refs' = [refs EXCEPT ![var[src]] = refs[var[src]] + 1]
  BY <1>3, <1>4, <1>5 DEF StoreTwo
<1>7. c.v = v /\ c.src = src BY <1>2, <1>3, <1>4
<1> QED BY <1>1, <1>3, <1>5, <1>6, <1>7, TakeKeeps

LEMMA IncrementKeeps == ASSUME IInv, NEW t \in Threads, Increment(t) PROVE IInv'
<1>1. pc[t] = "inc" /\ pc[t] \in Sharing BY DEF Increment, Sharing
<1>2. PICK v \in Vars : v = call[t].v BY <1>1, SharesInPeace
<1>3. PICK src \in Vars : src = call[t].src BY <1>1, SharesInPeace
<1>4. PICK c : c = call[t] OBVIOUS
<1>5. /\ Owner[v] = t /\ {"v", "src"} \subseteq DOMAIN c
      /\ var[src] \in live \ Literals /\ kind # "WStr"
      /\ \A u \in Threads \ {t} : pc[u] \in Sharing => call[u].src # v
  BY <1>1, <1>2, <1>3, <1>4, SharesInPeace
<1>6. TakeSource(t, c) /\ UNCHANGED <<kind, live>>
      /\ refs' = [refs EXCEPT ![var[src]] = refs[var[src]] + 1]
  BY <1>3, <1>4 DEF Increment
<1>7. c.v = v /\ c.src = src BY <1>2, <1>3, <1>4
<1> QED BY <1>1, <1>3, <1>5, <1>6, <1>7, TakeKeeps

LEMMA CopyKeeps ==
    ASSUME ~SharedReads, IInv, NEW t \in Threads, NEW v \in Vars, NEW src \in Vars,
           copy_string(t, v, src)
    PROVE  IInv'
<1> DEFINE c == Call("Copy", v, src, 0, NoOne, Width)
<1>1. /\ kind # "WStr" /\ Ready(t, v) /\ pc[t] = "idle" /\ NotBusy(src) /\ NotLent(src)
      /\ var[v] # var[src] /\ UNCHANGED <<kind, live, refs>>
  BY CallerIsReady DEF copy_string, CanCall, Idle
<1>2. c.v = v /\ c.src = src /\ {"v", "src"} \subseteq DOMAIN c BY DEF Call
<1>3. \/ /\ var[src] # Nil /\ (Tested => refs[var[src]] > 0)
         /\ Goes(t, c, "share") /\ UNCHANGED <<var, hand>>
      \/ ~(var[src] # Nil /\ (Tested => refs[var[src]] > 0)) /\ TakeSource(t, c)
  BY DEF copy_string
<1> HIDE DEF c
<1>4. CASE ~(var[src] # Nil /\ (Tested => refs[var[src]] > 0)) /\ TakeSource(t, c)
  <2>1. ASSUME var[src] # Nil PROVE var[src] \in Literals
    <3> SUFFICES ASSUME var[src] \notin Literals PROVE FALSE OBVIOUS
    <3>1. var[src] \in live BY <2>1 DEF IInv, NothingFreedInUse
    <3>2. refs[var[src]] >= 1 BY <3>1, Named
    <3>3. refs[var[src]] \in Int BY <3>1 DEF IInv, Typed, TypeOK
    <3> QED BY <1>4, <2>1, <3>2, <3>3
  <2>2. Owner[v] = t /\ \A u \in Threads \ {t} : pc[u] \in Sharing => call[u].src # v
    BY <1>1 DEF Ready, NotLent
  <2> QED BY <1>1, <1>2, <1>4, <2>1, <2>2, TakeKeeps
<1>5. CASE /\ var[src] # Nil /\ (Tested => refs[var[src]] > 0)
           /\ Goes(t, c, "share") /\ UNCHANGED <<var, hand>>
  <2>1. /\ pc' = [pc EXCEPT ![t] = "share"] /\ pc'[t] = "share" /\ call'[t] = c
        /\ \A u \in Threads \ {t} : pc'[u] = pc[u] /\ call'[u] = call[u]
        /\ call' = [u \in Threads |-> call'[u]]
    BY <1>5, GoesOn DEF IInv
  <2>2. Others(t) BY <1>5, <2>1 DEF Others
  <2>3. Typed'
    <3>1. pc' \in [Threads -> PCs] BY <2>1 DEF IInv, Typed, TypeOK, PCs, Sharing
    <3>2. (hand'[t] # Nil) <=> (pc'[t] \in Releasing)
      BY <1>1, <1>5, <2>1 DEF IInv, Typed, TypeOK, Releasing
    <3>3. ~Idle(t)' => call'[t].v \in Vars /\ call'[t].src \in Vars BY <1>2, <2>1
    <3>4. /\ var' \in [Vars -> Blocks \cup {Nil}] /\ live' \subseteq Blocks /\ kind' = kind
          /\ refs' \in [Blocks -> Int] /\ hand' \in [Threads -> Blocks \cup {Nil}]
      BY <1>1, <1>5 DEF IInv, Typed, TypeOK
    <3> QED BY <2>1, <2>2, <3>1, <3>2, <3>3, <3>4, TypedKeeps
  <2>4. var[src] \notin Literals
    <3>1. CASE Tested BY <1>5, <3>1 DEF IInv, LiteralsStay
    <3>2. CASE ~Tested BY <3>2, KindsAssumption DEF Tested, IInv, LiteralsStay
    <3> QED BY <3>1, <3>2
  <2>5. v # src BY <1>1
  <2>6. Lends(t)'
    <3>1. \A u \in Threads : /\ ~Idle(u)' => call'[u].v # src
                             /\ u # t /\ pc'[u] \in Sharing => call'[u].src # src
      BY <1>1, <1>2, <2>1, <2>5 DEF NotBusy, NotLent, Idle
    <3> QED BY <1>2, <1>5, <2>1, <2>4, <3>1 DEF Lends
  <2>7. Works(t)' /\ Gives(t)' BY <1>1, <1>2, <2>1 DEF Works, Gives, Ready
  <2>8. LiteralsStay' /\ NothingFreedInUse'
    BY <1>1, <1>5 DEF IInv, LiteralsStay, NothingFreedInUse
  <2>9. CountsReferences'
    <3>1. \A b : HandsOf(b)' = HandsOf(b) BY <1>1, <1>5, <2>1 DEF HandsOf
    <3>2. \A b : VarsOf(b)' = VarsOf(b) BY <1>5 DEF VarsOf
    <3> QED BY <1>1, <3>1, <3>2 DEF IInv, CountsReferences
  <2>10. \A u \in Threads \ {t} : pc[u] \in Sharing =>
           /\ var'[call[u].src] = var[call[u].src]
           /\ ~Idle(t)' => call'[t].v # call[u].src
    BY <1>1, <1>2, <1>5, <2>1 DEF Ready, NotLent
  <2> QED BY <1>1, <2>2, <2>3, <2>6, <2>7, <2>8, <2>9, <2>10, Keeps
<1> QED BY <1>3, <1>4, <1>5

-----------------------------------------------------------------------------
(* Allocation.                                                             *)

(* A block that is not allocated has no references.                        *)
LEMMA FreshBlock ==
    ASSUME IInv, NEW b \in Blocks \ live
    PROVE  /\ Held(b) = 0
           /\ \A v \in Vars : var[v] # b
           /\ \A t \in Threads : hand[t] # b
<1>1. b # Nil BY ConstantsAssumption
<1>2. /\ \A v \in Vars : var[v] # b
      /\ \A t \in Threads : hand[t] # b
  BY <1>1 DEF IInv, NothingFreedInUse
<1>3. VarsOf(b) = {} /\ HandsOf(b) = {} BY <1>2 DEF VarsOf, HandsOf
<1> QED BY <1>2, <1>3, FS_EmptySet DEF Held

LEMMA AllocKeeps == ASSUME IInv, NEW t \in Threads, Alloc(t) PROVE IInv'
<1>1. pc[t] = "alloc" /\ ~Idle(t) /\ pc[t] \notin Releasing \cup Sharing /\ kind' = kind
  BY DEF Alloc, Idle, Releasing, Sharing
<1>2. PICK v \in Vars : v = call[t].v BY <1>1 DEF IInv, Typed, TypeOK
<1>3. PICK b \in Blocks \ live :
        /\ live' = live \cup {b} /\ refs' = [refs EXCEPT ![b] = 1]
        /\ var' = [var EXCEPT ![v] = b] /\ hand' = [hand EXCEPT ![t] = var[v]]
        /\ IF var[v] # Nil THEN Goes(t, call[t], "drop")
           ELSE \E p \in {"idle", "fill"} : Goes(t, call[t], p)
  BY <1>2 DEF Alloc, Return
<1>4. PICK p \in {"idle", "fill", "drop"} :
        Goes(t, call[t], p) /\ (p = "drop" <=> var[v] # Nil)
  BY <1>3
<1>5. /\ pc' = [pc EXCEPT ![t] = p] /\ pc'[t] = p
      /\ pc' \in [Threads -> PCs]
      /\ \A u \in Threads \ {t} : pc'[u] = pc[u] /\ call'[u] = call[u]
      /\ call' = [u \in Threads |-> call'[u]]
      /\ Works(t)'
      /\ ~Idle(t)' => call'[t].v \in Vars /\ call'[t].src \in Vars
      /\ \A u \in Threads \ {t} : pc[u] \in Sharing =>
           (~Idle(t)' => call'[t].v # call[u].src)
      /\ kind # "WStr"
  BY <1>1, <1>4, CallGoesOn DEF PCs, Releasing
<1>6. /\ var \in [Vars -> Blocks \cup {Nil}] /\ hand \in [Threads -> Blocks \cup {Nil}]
      /\ live \subseteq Blocks /\ refs \in [Blocks -> Int] /\ Literals \subseteq live
      /\ hand[t] = Nil /\ Nil \notin Blocks
  BY <1>1, ConstantsAssumption DEF IInv, Typed, TypeOK, LiteralsStay
<1>7. /\ var'[v] = b /\ \A w \in Vars \ {v} : var'[w] = var[w]
      /\ hand'[t] = var[v] /\ \A u \in Threads \ {t} : hand'[u] = hand[u]
      /\ refs'[b] = 1 /\ \A d \in Blocks \ {b} : refs'[d] = refs[d]
  BY <1>3, <1>6
<1>8. Others(t) BY <1>5, <1>7 DEF Others
<1>9. Typed'
  <2>1. (hand'[t] # Nil) <=> (pc'[t] \in Releasing) BY <1>4, <1>5, <1>7 DEF Releasing
  <2>2. /\ var' \in [Vars -> Blocks \cup {Nil}] /\ hand' \in [Threads -> Blocks \cup {Nil}]
        /\ live' \subseteq Blocks /\ refs' \in [Blocks -> Int]
    BY <1>3, <1>6
  <2> QED BY <1>1, <1>5, <1>8, <2>1, <2>2, TypedKeeps
<1>10. Lends(t)' /\ Gives(t)' BY <1>5 DEF Lends, Gives, Sharing
<1>11. \A d \in live : d \in Touches(t) \/ refs'[d] = refs[d] BY <1>6, <1>7
<1>12. LiteralsStay'
  <2>1. b \notin Literals BY <1>6
  <2>2. \A d \in Literals : refs'[d] = -1 BY <1>6, <1>7 DEF IInv, LiteralsStay
  <2>3. kind \notin LiteralKinds =>
          (\A w \in Vars : var'[w] \notin Literals) /\ (\A u \in Threads : hand'[u] \notin Literals)
    BY <1>7, <2>1 DEF IInv, LiteralsStay
  <2> QED BY <1>1, <1>3, <2>2, <2>3 DEF IInv, LiteralsStay
<1>13. NothingFreedInUse'
  <2>1. \A w \in Vars : var'[w] # Nil => var'[w] \in live'
    BY <1>3, <1>7 DEF IInv, NothingFreedInUse
  <2>2. \A u \in Threads : hand'[u] # Nil => hand'[u] \in live'
    BY <1>3, <1>7 DEF IInv, NothingFreedInUse
  <2> QED BY <2>1, <2>2 DEF NothingFreedInUse
<1>14. CountsReferences'
  <2>1. ASSUME NEW d \in live' \ Literals PROVE refs'[d] = Held(d)'
    <3>1. /\ Held(d)' = Held(d) + In((var[v] = d)') - In(var[v] = d)
                                + In(Holds(t, d)') - In(Holds(t, d))
          /\ Held(d) \in Nat
      BY <1>5, <1>7, Moves
    <3>2. CASE d = b
      <4>1. Held(d) = 0 /\ var[v] # d BY <3>2, FreshBlock
      <4>2. (var[v] = d)' /\ ~Holds(t, d) /\ ~Holds(t, d)'
        BY <1>6, <1>7, <3>2, <4>1 DEF Holds
      <4>3. /\ In((var[v] = d)') = 1 /\ In(var[v] = d) = 0
            /\ In(Holds(t, d)') = 0 /\ In(Holds(t, d)) = 0
        BY <4>1, <4>2, Zenon DEF In
      <4> QED BY <1>7, <3>1, <3>2, <4>1, <4>3
    <3>3. CASE d # b
      <4>1. d \in live \ Literals /\ d \in Blocks /\ d # Nil BY <1>3, <1>6, <3>3
      <4>2. refs[d] = Held(d) BY <4>1, Named
      <4>3. ~(var[v] = d)' /\ ~Holds(t, d) /\ (Holds(t, d)' <=> var[v] = d)
        BY <1>4, <1>5, <1>6, <1>7, <3>3, <4>1 DEF Holds
      <4>4. /\ In((var[v] = d)') = 0 /\ In(Holds(t, d)) = 0
            /\ In(Holds(t, d)') = In(var[v] = d) /\ In(var[v] = d) \in {0, 1}
        BY <4>3, Zenon DEF In
      <4> QED BY <1>7, <3>1, <3>3, <4>1, <4>2, <4>4
    <3> QED BY <3>2, <3>3
  <2> QED BY <2>1 DEF CountsReferences, Held
<1>15. \A u \in Threads \ {t} : pc[u] \in Sharing => var'[call[u].src] = var[call[u].src]
  <2>1. ASSUME NEW u \in Threads \ {t}, pc[u] \in Sharing
        PROVE  call[u].src \in Vars \ {v}
    BY <1>1, <1>2, <2>1, SharesInPeace DEF IInv, Lends
  <2> QED BY <1>7, <2>1
<1> QED BY <1>1, <1>5, <1>8, <1>9, <1>10, <1>11, <1>12, <1>13, <1>14, <1>15, Keeps

-----------------------------------------------------------------------------
(* Wide strings: every call is one step, or two with the caller's writing  *)
(* in between, on blocks that are never shared.                            *)

(* Where a step of t leaves its thread.                                    *)
WideControl(t) ==
    /\ Others(t) /\ hand' = hand /\ kind' = kind
    /\ pc' \in [Threads -> PCs] /\ pc'[t] \in {"idle", "fill", "cut"}
    /\ call' = [u \in Threads |-> call'[u]]
    /\ Works(t)'
    /\ ~Idle(t)' => call'[t].v \in Vars /\ call'[t].src \in Vars

(* What it leaves in memory.                                               *)
WideMemory ==
    /\ var' \in [Vars -> Blocks \cup {Nil}] /\ live' \subseteq Blocks
    /\ refs' \in [Blocks -> Int]
    /\ Literals \subseteq live' /\ \A b \in Literals : refs'[b] = -1
    /\ \A v \in Vars : var'[v] \notin Literals /\ (var'[v] # Nil => var'[v] \in live')
    /\ \A b \in live' \ Literals : refs'[b] = 1
    /\ CountsReferences'

LEMMA WideFacts ==
    ASSUME IInv, kind = "WStr"
    PROVE  /\ kind \notin LiteralKinds
           /\ \A v \in Vars : var[v] \notin Literals
           /\ \A t \in Threads : hand[t] = Nil /\ pc[t] \in {"idle", "fill", "cut"}
           /\ \A b \in live \ Literals : refs[b] = 1
           /\ Literals \subseteq live /\ \A b \in Literals : refs[b] = -1
           /\ var \in [Vars -> Blocks \cup {Nil}] /\ live \subseteq Blocks
           /\ refs \in [Blocks -> Int] /\ Nil \notin Blocks
<1>1. kind \notin LiteralKinds BY KindsAssumption
<1> QED BY <1>1, ConstantsAssumption
        DEF IInv, Typed, TypeOK, WideAlone, LiteralsStay, Releasing

LEMMA WideKeeps ==
    ASSUME IInv, kind = "WStr", NEW t \in Threads, WideControl(t), WideMemory
    PROVE  IInv'
<1> USE DEF WideControl, WideMemory
<1>1. Typed'
  <2>1. (hand'[t] # Nil) <=> (pc'[t] \in Releasing) BY WideFacts DEF Releasing
  <2>2. hand' \in [Threads -> Blocks \cup {Nil}] BY DEF IInv, Typed, TypeOK
  <2> QED BY <2>1, <2>2, TypedKeeps
<1>2. \A u \in Threads : pc'[u] \in {"idle", "fill", "cut"}
  BY WideFacts DEF Others
<1>3. ASSUME NEW u \in Threads PROVE Works(u)' /\ Lends(u)' /\ Gives(u)'
  <2>1. Works(u)' BY DEF IInv, Works, Others, Idle
  <2> QED BY <1>2, <2>1 DEF Lends, Gives, Sharing
<1>4. LiteralsStay'
  <2>1. \A u \in Threads : hand'[u] \notin Literals BY WideFacts, ConstantsAssumption
  <2> QED BY <2>1 DEF LiteralsStay
<1>5. NothingFreedInUse' BY WideFacts DEF NothingFreedInUse
<1>6. WideAlone' BY <1>2 DEF WideAlone
<1> QED BY <1>1, <1>3, <1>4, <1>5, <1>6 DEF IInv

LEMMA WideFree ==
    ASSUME IInv, kind = "WStr", NEW t \in Threads, WideControl(t),
           NEW v \in Vars, var[v] # Nil, SysFree(v)
    PROVE  WideMemory
<1> DEFINE b == var[v]
<1>1. /\ b \in live \ Literals /\ b \in Blocks /\ b # Nil
      /\ \A w \in Vars \ {v} : var[w] # b
  <2>1. b \in live \ Literals BY WideFacts DEF IInv, NothingFreedInUse
  <2>2. refs[b] = 1 BY <2>1, WideFacts
  <2> QED BY <2>1, <2>2, Named DEF IInv, Typed, TypeOK
<1>2. /\ live' = live \ {b} /\ refs' = [refs EXCEPT ![b] = 0] /\ var' = [var EXCEPT ![v] = Nil]
  BY DEF SysFree, Release
<1>3. /\ var'[v] = Nil /\ \A w \in Vars \ {v} : var'[w] = var[w]
      /\ \A d \in Blocks \ {b} : refs'[d] = refs[d]
  BY <1>1, <1>2, WideFacts
<1>4. CountsReferences'
  <2>1. ASSUME NEW d \in live' \ Literals
        PROVE  d \in live /\ refs'[d] = refs[d] + In((var[v] = d)') - In(var[v] = d)
                                     + In(Holds(t, d)') - In(Holds(t, d))
    <3>1. d \in live /\ d \in Blocks /\ d # b /\ refs[d] \in Int /\ d # Nil
      BY <1>2, WideFacts
    <3>2. ~Holds(t, d)' /\ ~Holds(t, d) /\ ~(var[v] = d)' /\ ~(var[v] = d)
      BY <1>3, <3>1, WideFacts DEF Holds, WideControl
    <3>3. /\ In(Holds(t, d)') = 0 /\ In(Holds(t, d)) = 0
          /\ In((var[v] = d)') = 0 /\ In(var[v] = d) = 0
      BY <3>2, Zenon DEF In
    <3> QED BY <1>3, <3>1, <3>3
  <2> QED BY <1>3, <2>1, KeepsCounts DEF WideControl
<1>5. /\ var' \in [Vars -> Blocks \cup {Nil}] /\ live' \subseteq Blocks
      /\ refs' \in [Blocks -> Int]
      /\ Literals \subseteq live' /\ \A d \in Literals : refs'[d] = -1
      /\ \A d \in live' \ Literals : refs'[d] = 1
  BY <1>1, <1>2, <1>3, WideFacts
<1>6. \A w \in Vars : var'[w] \notin Literals /\ (var'[w] # Nil => var'[w] \in live')
  BY <1>1, <1>2, <1>3, WideFacts DEF IInv, NothingFreedInUse
<1> QED BY <1>4, <1>5, <1>6 DEF WideMemory

LEMMA WideAlloc ==
    ASSUME IInv, kind = "WStr", NEW t \in Threads, WideControl(t),
           NEW v \in Vars, NEW length, NEW txt, var[v] = Nil, SysAlloc(v, length, txt)
    PROVE  WideMemory
<1>1. PICK b \in Blocks \ live :
        /\ live' = live \cup {b} /\ refs' = [refs EXCEPT ![b] = 1]
        /\ var' = [var EXCEPT ![v] = b]
  BY DEF SysAlloc
<1>2. /\ var'[v] = b /\ \A w \in Vars \ {v} : var'[w] = var[w]
      /\ refs'[b] = 1 /\ \A d \in Blocks \ {b} : refs'[d] = refs[d]
      /\ b \notin Literals
  BY <1>1, WideFacts
<1>3. CountsReferences'
  <2>1. ASSUME NEW d \in live' \ Literals PROVE refs'[d] = Held(d)'
    <3>0. d # Nil /\ d \in Blocks BY <1>1, WideFacts
    <3>1. /\ Held(d)' = Held(d) + In((var[v] = d)') - In(var[v] = d)
                                + In(Holds(t, d)') - In(Holds(t, d))
          /\ Held(d) \in Nat
      BY <1>2, Moves DEF WideControl, Others
    <3>2. ~(var[v] = d) /\ ~Holds(t, d) /\ ~Holds(t, d)' /\ ((var[v] = d)' <=> d = b)
      BY <1>2, <3>0, WideFacts DEF Holds, WideControl
    <3>3. /\ In((var[v] = d)') = In(d = b) /\ In(var[v] = d) = 0
          /\ In(Holds(t, d)') = 0 /\ In(Holds(t, d)) = 0
      BY <3>2, Zenon DEF In
    <3>4. CASE d = b
      <4>1. Held(d) = 0 /\ In(d = b) = 1 BY <3>4, FreshBlock DEF In
      <4> QED BY <1>2, <3>1, <3>3, <3>4, <4>1
    <3>5. CASE d # b
      <4>1. In(d = b) = 0 BY <3>5 DEF In
      <4>2. d \in live \ Literals /\ refs'[d] = refs[d] BY <1>1, <1>2, <3>0, <3>5
      <4>3. refs[d] = Held(d) BY <4>2, Named
      <4> QED BY <3>1, <3>3, <4>1, <4>2, <4>3
    <3> QED BY <3>4, <3>5
  <2> QED BY <2>1 DEF CountsReferences, Held
<1>4. /\ var' \in [Vars -> Blocks \cup {Nil}] /\ live' \subseteq Blocks
      /\ refs' \in [Blocks -> Int]
      /\ Literals \subseteq live' /\ \A d \in Literals : refs'[d] = -1
      /\ \A d \in live' \ Literals : refs'[d] = 1
  BY <1>1, <1>2, WideFacts
<1>5. \A w \in Vars : var'[w] \notin Literals /\ (var'[w] # Nil => var'[w] \in live')
  BY <1>1, <1>2, WideFacts DEF IInv, NothingFreedInUse
<1> QED BY <1>3, <1>4, <1>5 DEF WideMemory

LEMMA WideGoes ==
    ASSUME IInv, kind = "WStr", NEW t \in Threads, NEW v \in Vars, NEW c, NEW p,
           Ready(t, v), ForItself(c, v), p \in {"idle", "fill"}, Goes(t, c, p),
           UNCHANGED <<kind, hand>>
    PROVE  WideControl(t)
<1>1. /\ pc' = [pc EXCEPT ![t] = p] /\ pc'[t] = p
      /\ \A u \in Threads \ {t} : pc'[u] = pc[u] /\ call'[u] = call[u]
      /\ p # "idle" => call'[t] = c
      /\ call' = [u \in Threads |-> call'[u]]
  BY GoesOn DEF IInv
<1>2. pc' \in [Threads -> PCs] BY <1>1 DEF IInv, Typed, TypeOK, PCs
<1>3. Others(t) BY <1>1 DEF Others
<1>4. Works(t)' /\ (~Idle(t)' => call'[t].v \in Vars /\ call'[t].src \in Vars)
  BY <1>1 DEF Works, Idle, Ready, ForItself
<1> QED BY <1>1, <1>2, <1>3, <1>4 DEF WideControl

(* A call that frees or allocates its variable's block and goes on.        *)
LEMMA WideFreeKeeps ==
    ASSUME IInv, kind = "WStr", NEW t \in Threads, NEW v \in Vars, NEW c,
           Ready(t, v), ForItself(c, v), Goes(t, c, "idle"),
           UNCHANGED <<kind, hand>>, var[v] # Nil, SysFree(v)
    PROVE  IInv'
BY WideGoes, WideFree, WideKeeps

LEMMA WideAllocKeeps ==
    ASSUME IInv, kind = "WStr", NEW t \in Threads, NEW v \in Vars, NEW c, NEW p,
           Ready(t, v), ForItself(c, v), p \in {"idle", "fill"}, Goes(t, c, p),
           UNCHANGED <<kind, hand>>, NEW length, NEW txt,
           var[v] = Nil, SysAlloc(v, length, txt)
    PROVE  IInv'
BY WideGoes, WideAlloc, WideKeeps

LEMMA WideClearKeeps ==
    ASSUME IInv, NEW t \in Threads, NEW v \in Vars, WStrClear(t, v)
    PROVE  IInv'
<1>1. /\ kind = "WStr" /\ CanCall(t, v) /\ var[v] # Nil /\ SysFree(v)
      /\ UNCHANGED <<kind, pc, call, hand>>
  BY DEF WStrClear
<1>2. pc[t] = "idle" BY <1>1 DEF CanCall, Idle
<1>3. WideControl(t)
  BY <1>1, <1>2 DEF WideControl, IInv, Typed, TypeOK, Others, Works, Idle
<1> QED BY <1>1, <1>3, WideFree, WideKeeps

LEMMA WideInitKeeps ==
    ASSUME IInv, NEW t \in Threads, NEW v \in Vars, NEW length, NEW chars,
           WStrInit(t, v, length, chars)
    PROVE  IInv'
<1> DEFINE c == Call("Init", v, v, length, chars, Width)
<1>1. Ready(t, v) /\ ForItself(c, v) BY CallerIsReady, CallIsForItself DEF WStrInit
<1>2. pc[t] \notin Releasing \cup Sharing BY <1>1, ReadyIsFree
<1>3. /\ kind = "WStr" /\ UNCHANGED <<kind, hand>>
      /\ \/ UNCHANGED <<var, live, refs>> /\ (Return(t, c) \/ Fails(t))
         \/ var[v] = Nil /\ SysAlloc(v, length, WText(c)) /\ Return(t, c)
         \/ var[v] # Nil /\ SysFree(v) /\ Goes(t, c, "idle")
  BY DEF WStrInit, SysRealloc, Unchanged
<1> HIDE DEF c
<1>4. ASSUME Return(t, c) PROVE \E p \in {"idle", "fill"} : Goes(t, c, p)
  BY <1>4 DEF Return
<1>5. CASE UNCHANGED <<var, live, refs>> /\ Return(t, c)
  <2>1. PICK p \in {"idle", "fill"} : Goes(t, c, p) BY <1>4, <1>5
  <2> QED BY <1>1, <1>3, <1>5, <2>1, GoesAndStays
<1>6. CASE UNCHANGED <<var, live, refs>> /\ Fails(t)
  BY <1>2, <1>3, <1>6, FailsAndStays
<1>7. CASE var[v] = Nil /\ SysAlloc(v, length, WText(c)) /\ Return(t, c)
  <2>1. PICK p \in {"idle", "fill"} : Goes(t, c, p) BY <1>4, <1>7
  <2> QED BY <1>1, <1>3, <1>7, <2>1, WideAllocKeeps
<1>8. CASE var[v] # Nil /\ SysFree(v) /\ Goes(t, c, "idle")
  BY <1>1, <1>3, <1>8, WideFreeKeeps
<1> QED BY <1>3, <1>5, <1>6, <1>7, <1>8

LEMMA WideReserveKeeps ==
    ASSUME IInv, NEW t \in Threads, NEW v \in Vars, NEW length, WStrReserve(t, v, length)
    PROVE  IInv'
<1> DEFINE c == Call("Reserve", v, v, length, NoOne, Width)
<1>1. Ready(t, v) /\ ForItself(c, v) BY CallerIsReady, CallIsForItself DEF WStrReserve
<1>2. pc[t] \notin Releasing \cup Sharing BY <1>1, ReadyIsFree
<1>3. /\ kind = "WStr" /\ UNCHANGED <<kind, hand>>
      /\ \/ UNCHANGED <<var, live, refs>> /\ (Return(t, c) \/ Fails(t))
         \/ var[v] = Nil /\ SysAlloc(v, length, WText(c)) /\ Return(t, c)
  BY DEF WStrReserve, SysRealloc, Unchanged
<1> HIDE DEF c
<1>4. ASSUME Return(t, c) PROVE \E p \in {"idle", "fill"} : Goes(t, c, p)
  BY <1>4 DEF Return
<1>5. CASE UNCHANGED <<var, live, refs>> /\ Return(t, c)
  <2>1. PICK p \in {"idle", "fill"} : Goes(t, c, p) BY <1>4, <1>5
  <2> QED BY <1>1, <1>3, <1>5, <2>1, GoesAndStays
<1>6. CASE UNCHANGED <<var, live, refs>> /\ Fails(t)
  BY <1>2, <1>3, <1>6, FailsAndStays
<1>7. CASE var[v] = Nil /\ SysAlloc(v, length, WText(c)) /\ Return(t, c)
  <2>1. PICK p \in {"idle", "fill"} : Goes(t, c, p) BY <1>4, <1>7
  <2> QED BY <1>1, <1>3, <1>7, <2>1, WideAllocKeeps
<1> QED BY <1>3, <1>5, <1>6, <1>7

LEMMA WideSetLengthKeeps ==
    ASSUME IInv, NEW t \in Threads, NEW v \in Vars, NEW length, kind = "WStr", Ready(t, v),
           WStrSetLengthCall(t, v, length)
    PROVE  IInv'
<1> DEFINE c == Call("SetLength", v, v, length, NoOne, Width)
<1>1. ForItself(c, v) BY CallIsForItself
<1>2. pc[t] \notin Releasing \cup Sharing BY ReadyIsFree
<1>3. /\ UNCHANGED <<kind, hand>>
      /\ \/ UNCHANGED <<var, live, refs>> /\ (Goes(t, c, "idle") \/ Fails(t))
         \/ var[v] = Nil /\ SysAlloc(v, length, WText(c)) /\ Goes(t, c, "idle")
         \/ var[v] # Nil /\ SysFree(v) /\ Goes(t, c, "idle")
  BY DEF WStrSetLengthCall, SysRealloc, Unchanged
<1> HIDE DEF c
<1>4. CASE UNCHANGED <<var, live, refs>> /\ Goes(t, c, "idle")
  BY <1>1, <1>3, <1>4, GoesAndStays
<1>5. CASE UNCHANGED <<var, live, refs>> /\ Fails(t)
  BY <1>2, <1>3, <1>5, FailsAndStays
<1>6. CASE var[v] = Nil /\ SysAlloc(v, length, WText(c)) /\ Goes(t, c, "idle")
  BY <1>1, <1>3, <1>6, WideAllocKeeps
<1>7. CASE var[v] # Nil /\ SysFree(v) /\ Goes(t, c, "idle")
  BY <1>1, <1>3, <1>7, WideFreeKeeps
<1> QED BY <1>3, <1>4, <1>5, <1>6, <1>7

LEMMA WideCopyKeeps ==
    ASSUME IInv, NEW t \in Threads, NEW v \in Vars, NEW src \in Vars,
           copy_widestring(t, v, src)
    PROVE  IInv'
<1> DEFINE c == Call("Clear", v, v, 0, NoOne, Width)
<1>1. Ready(t, v) /\ ForItself(c, v) BY CallerIsReady, CallIsForItself DEF copy_widestring
<1>2. Goes(t, c, "idle") BY DEF copy_widestring, Goes
<1> HIDE DEF c
<1>3. /\ kind = "WStr" /\ UNCHANGED <<kind, hand>>
      /\ \/ UNCHANGED <<var, live, refs>>
         \/ var[v] = Nil /\ SysAlloc(v, head[var[src]].len, text[var[src]])
         \/ var[v] # Nil /\ SysFree(v)
  BY DEF copy_widestring, SysRealloc, Unchanged
<1>4. CASE UNCHANGED <<var, live, refs>> BY <1>1, <1>2, <1>3, <1>4, GoesAndStays
<1>5. CASE var[v] = Nil /\ SysAlloc(v, head[var[src]].len, text[var[src]])
  BY <1>1, <1>2, <1>3, <1>5, WideAllocKeeps
<1>6. CASE var[v] # Nil /\ SysFree(v)
  BY <1>1, <1>2, <1>3, <1>6, WideFreeKeeps
<1> QED BY <1>3, <1>4, <1>5, <1>6

LEMMA CutKeeps == ASSUME IInv, NEW t \in Threads, Cut(t) PROVE IInv'
<1>1. call[t].v \in Vars /\ Ready(t, call[t].v) BY CutIsReady DEF Cut
<1>2. PICK v \in Vars : v = call[t].v BY <1>1
<1>3. CASE kind = "WStr" BY <1>1, <1>2, <1>3, WideSetLengthKeeps DEF Cut
<1>4. CASE kind # "WStr" BY <1>1, <1>2, <1>4, SetLengthKeeps DEF Cut
<1> QED BY <1>3, <1>4

-----------------------------------------------------------------------------
(* The initial states and the steps.                                       *)

LEMMA InitInv == ASSUME Init PROVE IInv
<1>1. \A b \in Blocks : refs[b] = IF b \in Literals THEN -1 ELSE 0 BY DEF Init
<1>2. /\ pc = [t \in Threads |-> "idle"] /\ hand = [t \in Threads |-> Nil]
      /\ live = Literals /\ Literals \subseteq Blocks /\ kind \in Kinds /\ Nil \notin Blocks
  BY ConstantsAssumption DEF Init
<1>3. /\ var \in [Vars -> Literals \cup {Nil}]
      /\ kind \notin LiteralKinds => \A v \in Vars : var[v] = Nil
  BY DEF Init
<1>4. Typed
  <2>1. kind \in DOMAIN Layout BY <1>2, KindsAssumption
  <2>2. refs \in [Blocks -> Int] BY DEF Init
  <2>3. pc \in [Threads -> PCs] BY <1>2 DEF PCs
  <2>4. \A t \in Threads : (hand[t] # Nil) <=> (pc[t] \in Releasing)
    BY <1>2 DEF Releasing
  <2>5. call = [t \in Threads |-> call[t]] BY DEF Init
  <2>6. var \in [Vars -> Blocks \cup {Nil}] BY <1>2, <1>3
  <2> QED BY <1>2, <2>1, <2>2, <2>3, <2>4, <2>5, <2>6 DEF Typed, TypeOK, Idle
<1>5. \A t \in Threads : Works(t) /\ Lends(t) /\ Gives(t)
  BY <1>2 DEF Works, Lends, Gives, Idle, Sharing
<1>6. LiteralsStay BY <1>1, <1>2, <1>3 DEF LiteralsStay
<1>7. WideAlone BY <1>2 DEF WideAlone
<1>8. CountsReferences BY <1>2 DEF CountsReferences
<1>9. NothingFreedInUse BY <1>2, <1>3 DEF NothingFreedInUse
<1> QED BY <1>4, <1>5, <1>6, <1>7, <1>8, <1>9 DEF IInv

LEMMA StepKeeps ==
    ASSUME IInv, NEW t \in Threads, Step(t)
    PROVE  IInv'
BY AllocKeeps, AllocFailsKeeps, CutKeeps, DropKeeps, DropTestKeeps, DecrementKeeps,
   FreeMemKeeps, ShareKeeps, StoreTwoKeeps, IncrementKeeps, FillKeeps
   DEF Step

LEMMA OperationKeeps ==
    ASSUME IInv, ~SharedReads, NEW t \in Threads, NEW v \in Vars, Operation(t, v)
    PROVE  IInv'
<1>1. "WStr" \notin AStrs \cup UStrs \cup CStrs BY DEF AStrs, UStrs, CStrs
<1>2. ASSUME \/ AStrClear(t, v) \/ UStrClear(t, v) \/ CStrClear(t, v)
             \/ final_string(t, v)
      PROVE  IInv'
  BY <1>1, <1>2, ClearKeeps DEF AStrClear, UStrClear, CStrClear, final_string
<1>3. ASSUME NEW length,
             AStrReserve(t, v, length) \/ UStrReserve(t, v, length) \/ CStrReserve(t, v, length)
      PROVE  IInv'
  BY <1>1, <1>3, ReserveKeeps DEF AStrReserve, UStrReserve, CStrReserve
<1>4. ASSUME NEW length,
             \/ AStrSetLength(t, v, length) \/ UStrSetLength(t, v, length)
             \/ CStrSetLength(t, v, length)
      PROVE  IInv'
  BY <1>1, <1>4, SetLengthKeeps, CallerIsReady
     DEF AStrSetLength, UStrSetLength, CStrSetLength, StartSetLength
<1>5. ASSUME NEW length, NEW chars,
             \/ AStrInit(t, v, length, chars) \/ UStrInit(t, v, length, chars)
             \/ CStrInit(t, v, length, chars)
      PROVE  IInv'
  BY <1>1, <1>5, InitKeeps DEF AStrInit, UStrInit, CStrInit
<1>6. ASSUME NEW length, WStrSetLength(t, v, length) PROVE IInv'
  BY <1>6, WideSetLengthKeeps, CallerIsReady DEF WStrSetLength
<1> QED BY <1>2, <1>3, <1>4, <1>5, <1>6, WideClearKeeps, WideReserveKeeps, WideInitKeeps,
           CopyKeeps, WideCopyKeeps
        DEF Operation

LEMMA NextKeeps == ASSUME IInv, ~SharedReads, [Next]_vars PROVE IInv'
<1>1. CASE UNCHANGED vars
  BY <1>1 DEF vars, IInv, Typed, TypeOK, Works, Lends, Gives, LiteralsStay, WideAlone,
              CountsReferences, NothingFreedInUse, VarsOf, HandsOf, Idle, NotLent, Width
<1>2. CASE Next BY <1>2, StepKeeps, OperationKeeps DEF Next
<1> QED BY <1>1, <1>2

-----------------------------------------------------------------------------

(* The inductive invariant: what every thread in a call relies on, that    *)
(* literals stay as they are, wide strings have one variable each, and     *)
(* every counter is the number of references there are.                    *)
THEOREM Invariant == ASSUME ~SharedReads PROVE Spec => []IInv
<1>1. Init => IInv BY InitInv
<1>2. IInv /\ [Next]_vars => IInv' BY NextKeeps
<1> QED BY <1>1, <1>2, PTL DEF Spec

(* Every variable keeps its type; a thread has a reference in its hand     *)
(* exactly while it releases one.                                          *)
THEOREM TypeCorrect == ASSUME ~SharedReads PROVE Spec => []TypeOK
<1>1. IInv => TypeOK BY DEF IInv, Typed
<1> QED BY <1>1, Invariant, PTL

(* Whatever the interleaving of the threads' calls of Clear, Init,         *)
(* Reserve, SetLength, final_string and copy_string, the counter of every  *)
(* allocated block is the number of variables and calls that refer to it,  *)
(* and no variable and no call refers to a freed block.                    *)
THEOREM Counted == ASSUME ~SharedReads PROVE Spec => []ReferencesAreTrue
<1>1. IInv => ReferencesAreTrue BY DEF IInv, ReferencesAreTrue
<1> QED BY <1>1, Invariant, PTL

-----------------------------------------------------------------------------
(* Room for the characters and their terminator.                           *)

(* A call asks for characters of the width the terminator has.             *)
Asks(c) == c.width = Width /\ c.length \in Int /\ {"length", "width"} \subseteq DOMAIN c

(* Every allocated block, in use or not, has room for its text; every call *)
(* that may still allocate one asks for enough.                            *)
Room ==
    /\ kind \in Kinds \ {"UStr_new86"}
    /\ head \in [Blocks -> [len : Int, size : Int]]
    /\ \A b \in live : (head[b].len + 1) * Width <= head[b].size
    /\ \A t \in Threads : ~Idle(t) => Asks(call[t])

(* Where a step of t leaves the calls.                                     *)
AsksOn(t) ==
    /\ kind' = kind
    /\ \A u \in Threads \ {t} : pc'[u] = pc[u] /\ call'[u] = call[u]
    /\ ~Idle(t)' => Asks(call'[t])

LEMMA Widths ==
    ASSUME kind \in DOMAIN Layout, kind # "UStr_new86"
    PROVE  Width \in Nat /\ InitWidth = Width
BY DEF Layout, Width, InitWidth

LEMMA CallAsks ==
    ASSUME NEW op, NEW v, NEW src, NEW length \in Int, NEW chars
    PROVE  Asks(Call(op, v, src, length, chars, Width))
BY DEF Asks, Call

LEMMA GoesAsking ==
    ASSUME IInv, NEW t \in Threads, NEW c, NEW p, kind' = kind,
           (Goes(t, c, p) /\ Asks(c)) \/ Fails(t)
    PROVE  AsksOn(t)
<1>1. CASE Goes(t, c, p) /\ Asks(c)
  <2>1. /\ pc'[t] = p /\ (p # "idle" => call'[t] = c)
        /\ \A u \in Threads \ {t} : pc'[u] = pc[u] /\ call'[u] = call[u]
    BY <1>1, GoesOn DEF IInv
  <2> QED BY <1>1, <2>1 DEF AsksOn, Asks, Idle, Width
<1>2. CASE Fails(t) BY <1>2, FailsOn DEF AsksOn, IInv, Idle
<1> QED BY <1>1, <1>2

LEMMA RoomAsks ==
    ASSUME Room, NEW t \in Threads, AsksOn(t), NEW u \in Threads, ~Idle(u)'
    PROVE  Asks(call[u])'
<1>1. CASE u = t BY <1>1 DEF AsksOn, Asks, Width
<1>2. CASE u # t BY <1>2 DEF AsksOn, Asks, Width, Room, Idle
<1> QED BY <1>1, <1>2

(* No block is given another length.                                       *)
LEMMA RoomStays ==
    ASSUME Room, NEW t \in Threads, AsksOn(t), head' = head, live' \subseteq live
    PROVE  Room'
<1>1. \A b \in live' : (head'[b].len + 1) * Width' <= head'[b].size
  BY DEF Room, AsksOn, Width
<1> QED BY <1>1, RoomAsks DEF Room, AsksOn

(* One block is.                                                           *)
LEMMA RoomMade ==
    ASSUME IInv, Room, NEW t \in Threads, AsksOn(t), NEW b \in Blocks, NEW n \in Int,
           head' = [head EXCEPT ![b] = [len |-> n, size |-> (n + 1) * Width]],
           live' \subseteq live \cup {b}
    PROVE  Room'
<1>1. Width \in Nat BY Widths DEF Room, IInv, Typed, TypeOK
<1>2. PICK w \in Nat : w = Width BY <1>1
<1>3. PICK k \in Int : k = (n + 1) * w OBVIOUS
<1>4. head' = [head EXCEPT ![b] = [len |-> n, size |-> k]] BY <1>2, <1>3
<1>5. head' \in [Blocks -> [len : Int, size : Int]] BY <1>4 DEF Room
<1>6. /\ head'[b].len = n /\ head'[b].size = k
      /\ \A d \in Blocks \ {b} : head'[d] = head[d]
  BY <1>4 DEF Room
<1>7. ASSUME NEW d \in live' PROVE (head'[d].len + 1) * Width' <= head'[d].size
  <2>1. Width' = w BY <1>2 DEF AsksOn, Width
  <2>2. CASE d = b BY <1>3, <1>6, <2>1, <2>2
  <2>3. CASE d # b
    <3>1. d \in live /\ d \in Blocks BY <2>3 DEF IInv, Typed, TypeOK
    <3> QED BY <1>2, <1>6, <2>1, <2>3, <3>1 DEF Room
  <2> QED BY <2>2, <2>3
<1> QED BY <1>5, <1>7, RoomAsks DEF Room, AsksOn

(* One block is freed.                                                     *)
LEMMA RoomFreed ==
    ASSUME IInv, Room, NEW t \in Threads, AsksOn(t), NEW b \in Blocks, Release(b)
    PROVE  Room'
<1>1. /\ head' = [head EXCEPT ![b] = [len |-> 0, size |-> 0]] /\ live' = live \ {b}
  BY DEF Release
<1>2. head' \in [Blocks -> [len : Int, size : Int]] BY <1>1 DEF Room
<1>3. \A d \in live' : d \in live /\ head'[d] = head[d]
  BY <1>1 DEF Room, IInv, Typed, TypeOK
<1>4. \A d \in live' : (head'[d].len + 1) * Width' <= head'[d].size
  BY <1>3 DEF Room, AsksOn, Width
<1> QED BY <1>2, <1>4, RoomAsks DEF Room, AsksOn

-----------------------------------------------------------------------------
(* The operations keep it.                                                 *)

LEMMA ReplaceRoom ==
    ASSUME IInv, Room, NEW t \in Threads, NEW v \in Vars, NEW c, Asks(c), Replace(t, v, c)
    PROVE  Room'
BY GoesAsking, RoomStays DEF Replace

LEMMA ReallocRoom ==
    ASSUME IInv, Room, NEW t \in Threads, NEW v \in Vars, NEW c, Asks(c),
           var[v] # Nil, Realloc(t, v, c)
    PROVE  Room'
<1>1. PICK b \in Blocks : b = var[v] BY DEF IInv, Typed, TypeOK
<1>2. PICK n \in Int : n = c.length BY DEF Asks
<1>3. CASE Return(t, c) /\ head' = [head EXCEPT ![b] = [len |-> n, size |-> (n + 1) * Width]]
  <2>1. PICK p : Goes(t, c, p) BY <1>3 DEF Return
  <2>2. AsksOn(t) BY <2>1, GoesAsking DEF Realloc
  <2> QED BY <1>3, <2>2, RoomMade DEF Realloc
<1>4. CASE Fails(t) /\ UNCHANGED head
  <2>1. AsksOn(t) BY <1>4, GoesAsking DEF Realloc
  <2> QED BY <1>4, <2>1, RoomStays DEF Realloc
<1> QED BY <1>1, <1>2, <1>3, <1>4 DEF Realloc, Asks

LEMMA StartAllocRoom ==
    ASSUME IInv, Room, NEW t \in Threads, NEW v \in Vars, NEW c, Asks(c), StartAlloc(t, v, c)
    PROVE  Room'
BY GoesAsking, RoomStays DEF StartAlloc

LEMMA EmptyOutRoom ==
    ASSUME IInv, Room, NEW t \in Threads, NEW v \in Vars, NEW c, Asks(c), EmptyOut(t, v, c)
    PROVE  Room'
<1>1. Asks(Call("Clear", v, v, 0, NoOne, c.width)) BY CallAsks DEF Asks
<1> QED BY <1>1, ReplaceRoom DEF EmptyOut

LEMMA ClearRoom ==
    ASSUME IInv, Room, NEW t \in Threads, NEW v \in Vars, StartClear(t, v)
    PROVE  Room'
BY CallAsks, ReplaceRoom DEF StartClear

LEMMA InitRoom ==
    ASSUME IInv, Room, NEW t \in Threads, NEW v \in Vars,
           NEW length \in Int, NEW chars, StartInit(t, v, length, chars)
    PROVE  Room'
<1> DEFINE c == Call("Init", v, v, length, chars, InitWidth)
<1>1. InitWidth = Width BY Widths DEF IInv, Typed, TypeOK, Room
<1>2. Asks(c) BY <1>1, CallAsks
<1> HIDE DEF c
<1>3. CASE InitSame(t, v, c)
  <2>1. PICK p : Goes(t, c, p) BY <1>3 DEF InitSame, Return
  <2>2. AsksOn(t) BY <1>2, <1>3, <2>1, GoesAsking DEF InitSame
  <2> QED BY <1>3, <2>2, RoomStays DEF InitSame
<1>4. CASE InitOther(t, v, c)
  BY <1>2, <1>4, ReallocRoom, ReplaceRoom DEF InitOther
<1>5. CASE StartAlloc(t, v, c) BY <1>2, <1>5, StartAllocRoom
<1>6. CASE EmptyOut(t, v, c) BY <1>2, <1>6, EmptyOutRoom
<1> QED BY <1>3, <1>4, <1>5, <1>6 DEF StartInit, c

LEMMA ReserveRoom ==
    ASSUME IInv, Room, NEW t \in Threads, NEW v \in Vars,
           NEW length \in Int, StartReserve(t, v, length)
    PROVE  Room'
<1> DEFINE c == Call("Reserve", v, v, length, NoOne, Width)
<1>1. Asks(c) BY CallAsks
<1> HIDE DEF c
<1>2. CASE ReserveInPlace(t, v, c)
  <2>1. CASE Goes(t, c, "fill") /\ UNCHANGED <<kind, live, head>>
    BY <1>1, <2>1, GoesAsking, RoomStays
  <2>2. CASE Realloc(t, v, c) BY <1>1, <1>2, <2>2, ReallocRoom DEF ReserveInPlace
  <2> QED BY <1>2, <2>1, <2>2 DEF ReserveInPlace
<1>3. CASE ReserveReplace(t, v, c)
  BY <1>1, <1>3, ReplaceRoom DEF ReserveReplace
<1>4. CASE StartAlloc(t, v, c) BY <1>1, <1>4, StartAllocRoom
<1>5. CASE EmptyOut(t, v, c) BY <1>1, <1>5, EmptyOutRoom
<1> QED BY <1>2, <1>3, <1>4, <1>5 DEF StartReserve, c

LEMMA SetLengthRoom ==
    ASSUME IInv, Room, NEW t \in Threads, NEW v \in Vars,
           NEW length \in Int, SetLengthCall(t, v, length)
    PROVE  Room'
<1> DEFINE c == Call("SetLength", v, v, length, NoOne, Width)
<1>1. Asks(c) BY CallAsks
<1> HIDE DEF c
<1>2. CASE SetLengthKeep(t, v, c) BY <1>1, <1>2, GoesAsking, RoomStays DEF SetLengthKeep
<1>3. CASE SetLengthAlloc(t, v, c) BY <1>1, <1>3, GoesAsking, RoomStays DEF SetLengthAlloc
<1>4. CASE StartAlloc(t, v, c) BY <1>1, <1>4, StartAllocRoom
<1>5. CASE EmptyOut(t, v, c) BY <1>1, <1>5, EmptyOutRoom
<1> QED BY <1>2, <1>3, <1>4, <1>5 DEF SetLengthCall, c

(* The memory functions of the system.                                     *)
LEMMA SysRoom ==
    ASSUME IInv, Room, NEW t \in Threads, AsksOn(t), NEW v \in Vars, NEW n \in Int, NEW txt,
           \/ var[v] # Nil /\ SysFree(v)
           \/ var[v] # Nil /\ SysRealloc(v, n, txt)
           \/ SysAlloc(v, n, txt)
           \/ UNCHANGED <<live, head>>
    PROVE  Room'
<1>1. var[v] # Nil => var[v] \in Blocks BY DEF IInv, Typed, TypeOK
<1>2. CASE var[v] # Nil /\ SysFree(v) BY <1>1, <1>2, RoomFreed DEF SysFree
<1>3. CASE var[v] # Nil /\ SysRealloc(v, n, txt)
  <2>1. PICK b \in Blocks : b = var[v] BY <1>1, <1>3
  <2>2. head' = [head EXCEPT ![b] = [len |-> n, size |-> (n + 1) * Width]] /\ live' = live
    BY <1>3, <2>1 DEF SysRealloc
  <2> QED BY <2>2, RoomMade
<1>4. CASE SysAlloc(v, n, txt)
  <2>1. PICK b \in Blocks :
          /\ head' = [head EXCEPT ![b] = [len |-> n, size |-> (n + 1) * Width]]
          /\ live' = live \cup {b}
    BY <1>4 DEF SysAlloc
  <2> QED BY <2>1, RoomMade
<1>5. CASE UNCHANGED <<live, head>> BY <1>5, RoomStays
<1> QED BY <1>2, <1>3, <1>4, <1>5

LEMMA WideClearRoom ==
    ASSUME IInv, Room, NEW t \in Threads, NEW v \in Vars, WStrClear(t, v)
    PROVE  Room'
<1>1. AsksOn(t) BY DEF WStrClear, AsksOn, CanCall, Idle
<1>2. var[v] # Nil /\ SysFree(v) BY DEF WStrClear
<1>3. PICK n \in Int, txt \in {Nil} : TRUE OBVIOUS
<1> QED BY <1>1, <1>2, <1>3, SysRoom

LEMMA WideInitRoom ==
    ASSUME IInv, Room, NEW t \in Threads, NEW v \in Vars, NEW length \in Int, NEW chars,
           WStrInit(t, v, length, chars)
    PROVE  Room'
<1> DEFINE c == Call("Init", v, v, length, chars, Width)
<1>1. Asks(c) BY CallAsks
<1>2. /\ kind' = kind
      /\ (Return(t, c) \/ Fails(t) \/ Goes(t, c, "idle"))
      /\ \/ var[v] # Nil /\ SysFree(v)
         \/ var[v] # Nil /\ SysRealloc(v, length, WText(c))
         \/ SysAlloc(v, length, WText(c))
         \/ UNCHANGED <<live, head>>
  BY DEF WStrInit, Unchanged
<1> HIDE DEF c
<1>3. AsksOn(t) BY <1>1, <1>2, GoesAsking DEF Return
<1> QED BY <1>2, <1>3, SysRoom

LEMMA WideReserveRoom ==
    ASSUME IInv, Room, NEW t \in Threads, NEW v \in Vars, NEW length \in Int,
           WStrReserve(t, v, length)
    PROVE  Room'
<1> DEFINE c == Call("Reserve", v, v, length, NoOne, Width)
<1>1. Asks(c) BY CallAsks
<1>2. /\ kind' = kind
      /\ Return(t, c) \/ Fails(t)
      /\ \/ var[v] # Nil /\ SysRealloc(v, length, WText(c))
         \/ SysAlloc(v, length, WText(c))
         \/ UNCHANGED <<live, head>>
  BY DEF WStrReserve, Unchanged
<1> HIDE DEF c
<1>3. AsksOn(t) BY <1>1, <1>2, GoesAsking DEF Return
<1> QED BY <1>2, <1>3, SysRoom

LEMMA WideSetLengthRoom ==
    ASSUME IInv, Room, NEW t \in Threads, NEW v \in Vars, NEW length \in Int,
           WStrSetLengthCall(t, v, length)
    PROVE  Room'
<1> DEFINE c == Call("SetLength", v, v, length, NoOne, Width)
           kept == [text[var[v]] EXCEPT !.n = Least(@, length)]
<1>1. Asks(c) BY CallAsks
<1>2. /\ kind' = kind
      /\ Goes(t, c, "idle") \/ Fails(t)
      /\ \/ var[v] # Nil /\ SysFree(v)
         \/ var[v] # Nil /\ SysRealloc(v, length, kept)
         \/ SysAlloc(v, length, WText(c))
         \/ UNCHANGED <<live, head>>
  BY DEF WStrSetLengthCall, Unchanged
<1> HIDE DEF c, kept
<1>3. AsksOn(t) BY <1>1, <1>2, GoesAsking
<1> QED BY <1>2, <1>3, SysRoom

LEMMA WideCopyRoom ==
    ASSUME IInv, Room, NEW t \in Threads, NEW v \in Vars, NEW src \in Vars,
           copy_widestring(t, v, src)
    PROVE  Room'
<1> DEFINE c == Call("Copy", v, src, 0, NoOne, Width)
<1>1. Asks(c) BY CallAsks
<1>2. kind' = kind /\ Goes(t, c, "idle") /\ var[v] # var[src] BY DEF copy_widestring
<1> HIDE DEF c
<1>3. AsksOn(t) BY <1>1, <1>2, GoesAsking
<1>4. CASE var[src] = Nil
  <2>1. (var[v] # Nil /\ SysFree(v)) \/ UNCHANGED <<live, head>>
    BY <1>2, <1>4 DEF copy_widestring
  <2>2. PICK n \in Int, txt \in {Nil} : TRUE OBVIOUS
  <2> QED BY <1>3, <2>1, <2>2, SysRoom
<1>5. CASE var[src] # Nil
  <2>1. head[var[src]].len \in Int BY <1>5 DEF Room, IInv, Typed, TypeOK
  <2>2. \/ SysAlloc(v, head[var[src]].len, text[var[src]])
        \/ var[v] # Nil /\ SysRealloc(v, head[var[src]].len, text[var[src]])
        \/ UNCHANGED <<live, head>>
    BY <1>5 DEF copy_widestring, Unchanged
  <2> QED BY <1>3, <2>1, <2>2, SysRoom
<1> QED BY <1>4, <1>5

LEMMA AllocRoom == ASSUME IInv, Room, NEW t \in Threads, Alloc(t) PROVE Room'
<1>1. Asks(call[t]) /\ kind' = kind BY DEF Alloc, Room, Idle
<1>2. PICK p : Goes(t, call[t], p) BY DEF Alloc, Return
<1>3. AsksOn(t) BY <1>1, <1>2, GoesAsking
<1>4. PICK n \in Int : n = call[t].length /\ call[t].width = Width BY <1>1 DEF Asks
<1>5. PICK b \in Blocks :
        /\ head' = [head EXCEPT ![b] = [len |-> n, size |-> (n + 1) * Width]]
        /\ live' = live \cup {b}
  BY <1>4 DEF Alloc
<1> QED BY <1>3, <1>5, RoomMade

LEMMA FillRoom == ASSUME IInv, Room, NEW t \in Threads, NEW n \in Int, Fill(t, n) PROVE Room'
<1> DEFINE c == [call[t] EXCEPT !.length = n]
<1>1. Asks(call[t]) BY DEF Fill, Room, Idle
<1>2. Asks(c) BY <1>1 DEF Asks
<1>3. PICK p : Goes(t, c, p) BY DEF Fill
<1> HIDE DEF c
<1>4. AsksOn(t) BY <1>2, <1>3, GoesAsking DEF Fill
<1> QED BY <1>4, RoomStays DEF Fill

LEMMA CutRoom == ASSUME IInv, Room, NEW t \in Threads, Cut(t) PROVE Room'
<1>1. Asks(call[t]) /\ call[t].v \in Vars BY DEF Cut, Room, Idle, IInv, Typed, TypeOK
<1>2. PICK v \in Vars, n \in Int : v = call[t].v /\ n = call[t].length BY <1>1 DEF Asks
<1>3. WStrSetLengthCall(t, v, n) \/ SetLengthCall(t, v, n) BY <1>2 DEF Cut
<1> QED BY <1>3, WideSetLengthRoom, SetLengthRoom

(* The steps of a call that make no block.                                 *)
LEMMA StepRoom ==
    ASSUME IInv, Room, NEW t \in Threads,
           \/ AllocFails(t) \/ Drop(t) \/ DropTest(t) \/ Decrement(t) \/ FreeMem(t)
           \/ Share(t) \/ StoreTwo(t) \/ Increment(t)
    PROVE  Room'
<1>1. kind' = kind /\ ~Idle(t)
  BY DEF AllocFails, Drop, DropTest, Decrement, FreeMem, Share, StoreTwo, Increment, Idle
<1>2. Asks(call[t]) BY <1>1 DEF Room
<1>3. Fails(t) \/ \E p : Goes(t, call[t], p)
  BY DEF AllocFails, Drop, DropTest, Decrement, FreeMem, Share, StoreTwo, Increment,
         Released, TakeSource
<1>4. AsksOn(t) BY <1>1, <1>2, <1>3, GoesAsking
<1>5. CASE FreeMem(t)
  <2>1. hand[t] \in Blocks BY <1>5 DEF FreeMem, Releasing, IInv, Typed, TypeOK
  <2> QED BY <1>4, <1>5, <2>1, RoomFreed DEF FreeMem
<1>6. CASE ~FreeMem(t)
  <2>1. UNCHANGED <<live, head>>
    BY <1>6 DEF AllocFails, Drop, DropTest, Decrement, Share, StoreTwo, Increment
  <2> QED BY <1>4, <2>1, RoomStays
<1> QED BY <1>5, <1>6

LEMMA CopyRoom ==
    ASSUME IInv, Room, NEW t \in Threads, NEW v \in Vars, NEW src \in Vars,
           copy_string(t, v, src)
    PROVE  Room'
<1> DEFINE c == Call("Copy", v, src, 0, NoOne, Width)
<1>1. Asks(c) BY CallAsks
<1>2. kind' = kind /\ UNCHANGED <<live, head>> /\ \E p : Goes(t, c, p)
  BY DEF copy_string, TakeSource
<1> HIDE DEF c
<1> QED BY <1>1, <1>2, GoesAsking, RoomStays

LEMMA OperationRoom ==
    ASSUME IInv, Room, NEW t \in Threads, NEW v \in Vars, Operation(t, v)
    PROVE  Room'
<1>1. Lengths[kind] \subseteq Int BY ConstantsAssumption DEF Room
<1>2. ASSUME \/ AStrClear(t, v) \/ UStrClear(t, v) \/ CStrClear(t, v)
             \/ final_string(t, v)
      PROVE  Room'
  BY <1>2, ClearRoom DEF AStrClear, UStrClear, CStrClear, final_string
<1>3. ASSUME NEW length \in Int,
             AStrReserve(t, v, length) \/ UStrReserve(t, v, length) \/ CStrReserve(t, v, length)
      PROVE  Room'
  BY <1>3, ReserveRoom DEF AStrReserve, UStrReserve, CStrReserve
<1>4. ASSUME NEW length \in Int,
             \/ AStrSetLength(t, v, length) \/ UStrSetLength(t, v, length)
             \/ CStrSetLength(t, v, length)
      PROVE  Room'
  BY <1>4, SetLengthRoom DEF AStrSetLength, UStrSetLength, CStrSetLength, StartSetLength
<1>5. ASSUME NEW length \in Int, NEW chars,
             \/ AStrInit(t, v, length, chars) \/ UStrInit(t, v, length, chars)
             \/ CStrInit(t, v, length, chars)
      PROVE  Room'
  BY <1>5, InitRoom DEF AStrInit, UStrInit, CStrInit
<1>6. ASSUME NEW length \in Int, WStrSetLength(t, v, length) PROVE Room'
  BY <1>6, WideSetLengthRoom DEF WStrSetLength
<1> QED BY <1>1, <1>2, <1>3, <1>4, <1>5, <1>6, WideClearRoom, WideReserveRoom, WideInitRoom,
           CopyRoom, WideCopyRoom
        DEF Operation

LEMMA NextRoom == ASSUME IInv, Room, [Next]_vars PROVE Room'
<1>1. CASE UNCHANGED vars
  <2>1. UNCHANGED <<kind, live, head, pc, call>> BY <1>1 DEF vars
  <2> QED BY <2>1 DEF Room, Asks, Idle, Width
<1>2. CASE Next
  <2>1. Lengths[kind] \subseteq Int BY ConstantsAssumption DEF Room
  <2> QED BY <1>2, <2>1, OperationRoom, AllocRoom, FillRoom, CutRoom, StepRoom DEF Next, Step
<1> QED BY <1>1, <1>2

LEMMA InitRoomy == ASSUME Init, "UStr_new86" \notin Kinds PROVE Room
<1>1. kind \in Kinds \ {"UStr_new86"} /\ live = Literals BY DEF Init
<1>2. Width \in Nat BY <1>1, KindsAssumption, Widths
<1>3. PICK n \in Int, w \in Nat : n = LiteralLength /\ w = Width BY <1>2, ConstantsAssumption
<1>4. PICK k \in Int : k = (n + 1) * w OBVIOUS
<1>5. head = [b \in Blocks |-> IF b \in Literals THEN [len |-> n, size |-> k]
                              ELSE [len |-> 0, size |-> 0]]
  BY <1>3, <1>4 DEF Init
<1>6. head \in [Blocks -> [len : Int, size : Int]] BY <1>5
<1>7. \A b \in live : (head[b].len + 1) * Width <= head[b].size
  BY <1>1, <1>3, <1>4, <1>5, ConstantsAssumption
<1>8. \A t \in Threads : Idle(t) BY DEF Init, Idle
<1> QED BY <1>1, <1>6, <1>7, <1>8 DEF Room

(* Except in the layout whose Init takes characters of two bytes for one   *)
(* (UStr_new86), every string has room for its characters and the          *)
(* terminator, whichever operations made its block.                        *)
THEOREM Fits ==
    ASSUME ~SharedReads, "UStr_new86" \notin Kinds
    PROVE  Spec => []TextFits
<1>1. Init => Room BY InitRoomy
<1>2. IInv /\ Room /\ [Next]_vars => Room' BY NextRoom
<1>3. IInv /\ Room => TextFits BY DEF IInv, NothingFreedInUse, Room, TextFits
<1> QED BY <1>1, <1>2, <1>3, Invariant, PTL DEF Spec

-----------------------------------------------------------------------------
(* A string changes only by a call for its own variable, or whole by an    *)
(* Init into the block it shares.                                          *)

Memory ==
    /\ head = [b \in Blocks |-> head[b]]
    /\ text = [b \in Blocks |-> text[b]]

(* The block a caller writes into is his alone, or Init found that it has  *)
(* the length he asked for.                                                *)
Alone(v) == var[v] # Nil /\ refs[var[v]] = 1
InPlace(c) == c.op = "Init" /\ var[c.v] # Nil /\ head[var[c.v]].len = c.length
Writes(t) == pc[t] = "fill" => Alone(call[t].v) \/ InPlace(call[t])

Private == Memory /\ \A t \in Threads : Writes(t)

(* Thread t is in a call for its variable w, or is about to start one.     *)
Mine(t, w) == Owner[w] = t /\ IF Idle(t) THEN NotLent(w) ELSE call[t].v = w

(* Nobody else's call is disturbed, and if the caller is to write then he  *)
(* writes to w.                                                            *)
Calls(t, w) ==
    /\ \A u \in Threads \ {t} : pc'[u] = pc[u] /\ call'[u] = call[u]
    /\ pc'[t] = "fill" => call'[t].v = w /\ (Alone(w) \/ InPlace(call[t]))'

(* Init of t replaces all the characters of b.                             *)
Overwrites(t, b) ==
    /\ Idle(t) \/ call[t].op = "Init"
    /\ head'[b] = head[b]
    /\ text'[b] = [by |-> t, n |-> head[b].len]

(* A step of t for w: it changes no other variable, and the length and the *)
(* characters of no block but w's, if that is w's alone or if Init writes. *)
Tidy(t, w) ==
    /\ Mine(t, w)
    /\ Calls(t, w)
    /\ Memory'
    /\ \A v \in Vars \ {w} : var'[v] = var[v]
    /\ \A b \in live : b \in Touches(t) \/ b = var[w] \/ refs'[b] = refs[b]
    /\ \A b \in live \cap live' :
         \/ b = var[w] /\ refs[b] = 1
         \/ head'[b] = head[b] /\ text'[b] = text[b]
         \/ b = var[w] /\ Overwrites(t, b)

(* A block of which a variable has the only reference is in no one's hand. *)
LEMMA AloneIsAlone ==
    ASSUME IInv, NEW v \in Vars, Alone(v)
    PROVE  /\ var[v] \in live \ Literals
           /\ \A w \in Vars \ {v} : var[w] # var[v]
           /\ \A t \in Threads : pc[t] \in Releasing => hand[t] # var[v]
<1> DEFINE b == var[v]
<1>1. b \in live \ Literals
  BY DEF IInv, NothingFreedInUse, LiteralsStay, Alone
<1>2. refs[b] = 1 BY DEF Alone
<1>3. \A w \in Vars \ {v} : var[w] # b BY <1>1, <1>2, Named
<1>4. ASSUME NEW t \in Threads, pc[t] \in Releasing, hand[t] = b PROVE FALSE
  <2>1. CASE pc[t] = "freelast" BY <1>2, <1>4, <2>1 DEF IInv, Gives
  <2>2. CASE pc[t] # "freelast"
    BY <1>1, <1>2, <1>4, <2>2, Named DEF Holds
  <2> QED BY <2>1, <2>2
<1> QED BY <1>1, <1>3, <1>4

(* What others do leaves the block alone that is a caller's alone.         *)
LEMMA AloneStays ==
    ASSUME IInv, IInv', Memory, NEW t \in Threads, NEW w \in Vars, Tidy(t, w),
           NEW u \in Threads \ {t}, ~Idle(u), NEW v, v = call[u].v, Alone(v)
    PROVE  Alone(v)' /\ var'[v] = var[v] /\ Value(v)' = Value(v)
<1> USE DEF Tidy
<1>1. v \in Vars /\ Owner[v] = u BY DEF IInv, Typed, TypeOK, Works
<1>2. v # w BY <1>1 DEF Mine
<1>3. var'[v] = var[v] /\ var[v] # var[w] /\ var[v] \in live
  BY <1>1, <1>2, AloneIsAlone
<1>4. var[v] \notin Touches(t)
  <2>1. ASSUME pc[t] \in Sharing, var[call[t].src] = var[v] PROVE FALSE
    <3>1. call[t].src \in Vars BY <2>1 DEF IInv, Typed, TypeOK, Idle, Sharing
    <3>2. call[t].src # v BY <2>1 DEF IInv, Lends
    <3> QED BY <1>1, <2>1, <3>1, <3>2, AloneIsAlone
  <2> QED BY <1>1, <2>1, AloneIsAlone DEF Touches
<1>5. refs'[var[v]] = refs[var[v]] BY <1>3, <1>4
<1>6. var[v] \in live' BY <1>1, <1>3 DEF IInv, NothingFreedInUse, Alone
<1>7. head'[var[v]] = head[var[v]] /\ text'[var[v]] = text[var[v]]
  BY <1>3, <1>6
<1> QED BY <1>3, <1>5, <1>7 DEF Alone, Value

(* What is seen of t's step through another variable v than its own.       *)
Seen(t, w, v) ==
    Value(v)' # Value(v) =>
        /\ var[v] = var[w]
        /\ Idle(t) \/ call[t].op = "Init"
        /\ Rewritten(Value(v), Value(v)')

LEMMA TidyKeeps ==
    ASSUME IInv, IInv', Private, NEW t \in Threads, NEW w \in Vars, Tidy(t, w)
    PROVE  Private' /\ \A v \in Vars \ {w} : Seen(t, w, v)
<1> USE DEF Tidy
<1>1. ASSUME NEW v \in Vars \ {w}, var[v] # Nil
      PROVE  /\ var'[v] = var[v] /\ head'[var[v]] = head[var[v]]
             /\ \/ text'[var[v]] = text[var[v]]
                \/ var[v] = var[w] /\ Overwrites(t, var[v])
  <2>1. var'[v] = var[v] /\ var[v] \in live \cap live'
    BY <1>1 DEF IInv, NothingFreedInUse
  <2>2. ASSUME var[v] = var[w], refs[var[v]] = 1 PROVE FALSE
    BY <1>1, <2>2, AloneIsAlone DEF Alone
  <2> QED BY <2>1, <2>2 DEF Overwrites
<1>2. ASSUME NEW u \in Threads PROVE Writes(u)'
  <2>1. CASE u = t BY <2>1 DEF Writes, Calls
  <2>2. CASE u # t
    <3> SUFFICES ASSUME pc[u] = "fill" PROVE Alone(call[u].v)' \/ InPlace(call[u])'
      BY <2>2 DEF Writes, Calls
    <3>1. PICK v \in Vars : v = call[u].v /\ Owner[v] = u
      BY DEF IInv, Typed, TypeOK, Works, Idle
    <3>2. call'[u] = call[u] BY <2>2 DEF Calls
    <3>3. CASE Alone(v)
      <4>1. ~Idle(u) BY DEF Idle
      <4>2. Alone(v)' BY <2>2, <3>1, <3>3, <4>1, AloneStays DEF Private
      <4> QED BY <3>1, <3>2, <4>2 DEF Alone
    <3>4. CASE ~Alone(v)
      <4>1. InPlace(call[u]) BY <3>1, <3>4 DEF Private, Writes
      <4>2. v # w BY <2>2, <3>1 DEF Mine
      <4>3. var'[v] = var[v] /\ head'[var[v]] = head[var[v]]
        BY <1>1, <3>1, <4>1, <4>2 DEF InPlace
      <4> QED BY <3>1, <3>2, <4>1, <4>3 DEF InPlace
    <3> QED BY <3>3, <3>4
  <2> QED BY <2>1, <2>2
<1>3. ASSUME NEW v \in Vars \ {w} PROVE Seen(t, w, v)
  <2>1. CASE var[v] = Nil BY <2>1 DEF Value, Seen
  <2>2. CASE var[v] # Nil
    <3>1. CASE text'[var[v]] = text[var[v]] BY <1>1, <2>2, <3>1 DEF Value, Seen
    <3>2. CASE var[v] = var[w] /\ Overwrites(t, var[v])
      <4>1. Value(v).len = head[var[v]].len BY <2>2 DEF Value
      <4>2. Value(v)' = [len |-> head[var[v]].len, by |-> t, n |-> head[var[v]].len]
        BY <1>1, <2>2, <3>2 DEF Value, Overwrites
      <4>3. Rewritten(Value(v), Value(v)') BY <4>1, <4>2 DEF Rewritten
      <4> QED BY <3>2, <4>3 DEF Seen, Overwrites
    <3> QED BY <1>1, <2>2, <3>1, <3>2
  <2> QED BY <2>1, <2>2
<1> QED BY <1>2, <1>3 DEF Private

(* Steps that leave lengths and characters alone.                          *)
LEMMA TidyQuiet ==
    ASSUME Memory, NEW t, NEW w, Mine(t, w), Calls(t, w), UNCHANGED <<head, text>>,
           \A v \in Vars \ {w} : var'[v] = var[v],
           \A b \in live : b \in Touches(t) \/ refs'[b] = refs[b]
    PROVE  Tidy(t, w)
BY DEF Tidy, Memory

(* Steps that change one block, w's alone or not allocated yet.            *)
LEMMA TidyBlock ==
    ASSUME IInv, Memory, NEW t, NEW w, Mine(t, w), Calls(t, w),
           NEW b \in Blocks, NEW h, NEW x,
           b \notin live \/ (b = var[w] /\ refs[b] = 1) \/ b \notin live',
           head' = head \/ head' = [head EXCEPT ![b] = h],
           text' = text \/ text' = [text EXCEPT ![b] = x],
           \A v \in Vars \ {w} : var'[v] = var[v],
           \A a \in live : a \in Touches(t) \/ a = var[w] \/ refs'[a] = refs[a]
    PROVE  Tidy(t, w)
<1>1. Memory' BY DEF Memory
<1>2. \A a \in Blocks \ {b} : head'[a] = head[a] /\ text'[a] = text[a] BY DEF Memory
<1>3. ASSUME NEW a \in live \cap live'
      PROVE  (a = var[w] /\ refs[a] = 1) \/ (head'[a] = head[a] /\ text'[a] = text[a])
  <2>1. a \in Blocks BY DEF IInv, Typed, TypeOK
  <2>2. CASE a = b BY <2>2
  <2>3. CASE a # b BY <1>2, <2>1, <2>3
  <2> QED BY <2>2, <2>3
<1> QED BY <1>1, <1>3 DEF Tidy

LEMMA GoesCalls ==
    ASSUME IInv, NEW t \in Threads, NEW w, NEW c, NEW p, Goes(t, c, p), c.v = w,
           p = "fill" => Alone(w)'
    PROVE  Calls(t, w)
BY GoesOn DEF IInv, Calls

LEMMA FailsCalls ==
    ASSUME IInv, NEW t \in Threads, NEW w, Fails(t)
    PROVE  Calls(t, w)
BY FailsOn DEF IInv, Calls

LEMMA ReturnCalls ==
    ASSUME IInv, NEW t \in Threads, NEW w, NEW c, Return(t, c), c.v = w, Alone(w)'
    PROVE  Calls(t, w)
<1>1. PICK p \in {"idle", "fill"} : Goes(t, c, p) BY DEF Return
<1> QED BY <1>1, GoesCalls

LEMMA CallerIsMine ==
    ASSUME NEW t \in Threads, NEW v \in Vars, CanCall(t, v)
    PROVE  Mine(t, v)
BY DEF CanCall, Mine

LEMMA CallIsFor ==
    ASSUME NEW op, NEW v, NEW src, NEW length, NEW chars, NEW width
    PROVE  Call(op, v, src, length, chars, width).v = v
BY DEF Call

-----------------------------------------------------------------------------
(* The operations of the shared strings are tidy.                          *)

LEMMA ReplaceTidy ==
    ASSUME IInv, Memory, NEW t \in Threads, NEW v \in Vars, NEW c, c.v = v,
           Mine(t, v), Replace(t, v, c)
    PROVE  Tidy(t, v)
<1>1. Calls(t, v) BY GoesCalls DEF Replace
<1>2. \A w \in Vars \ {v} : var'[w] = var[w] BY DEF Replace, IInv, Typed, TypeOK
<1> QED BY <1>1, <1>2, TidyQuiet DEF Replace

(* The call goes on, or not, and nothing else happens.                     *)
LEMMA GoesTidy ==
    ASSUME IInv, Memory, NEW t \in Threads, NEW v \in Vars, NEW c, NEW p, c.v = v,
           Mine(t, v), Goes(t, c, p), p = "fill" => Alone(v),
           UNCHANGED <<var, refs, head, text>>
    PROVE  Tidy(t, v)
<1>1. Calls(t, v) BY GoesCalls DEF Alone
<1> QED BY <1>1, TidyQuiet

LEMMA FailsTidy ==
    ASSUME IInv, Memory, NEW t \in Threads, NEW v \in Vars,
           Mine(t, v), Fails(t), UNCHANGED <<var, refs, head, text>>
    PROVE  Tidy(t, v)
BY FailsCalls, TidyQuiet

(* The block of v, which is v's alone, gets another length or other        *)
(* characters.                                                             *)
LEMMA InPlaceTidy ==
    ASSUME IInv, Memory, NEW t \in Threads, NEW v \in Vars, NEW h, NEW x,
           Mine(t, v), Calls(t, v), Alone(v),
           head' = head \/ head' = [head EXCEPT ![var[v]] = h],
           text' = text \/ text' = [text EXCEPT ![var[v]] = x],
           UNCHANGED <<var, refs>>
    PROVE  Tidy(t, v)
<1>1. PICK b \in Blocks : b = var[v] BY AloneIsAlone DEF IInv, Typed, TypeOK
<1> QED BY <1>1, TidyBlock DEF Alone

LEMMA ReallocTidy ==
    ASSUME IInv, Memory, NEW t \in Threads, NEW v \in Vars, NEW c, c.v = v,
           Mine(t, v), Alone(v), Realloc(t, v, c)
    PROVE  Tidy(t, v)
<1>1. CASE Fails(t) /\ UNCHANGED <<var, refs, head, text>> BY <1>1, FailsTidy
<1>2. ASSUME ~(Fails(t) /\ UNCHANGED <<var, refs, head, text>>) PROVE Tidy(t, v)
  <2>1. /\ Return(t, c) /\ UNCHANGED <<var, refs>>
        /\ \E h, x : /\ head' = [head EXCEPT ![var[v]] = h]
                     /\ text' = [text EXCEPT ![var[v]] = x]
    BY ZenonT(60), <1>2 DEF Realloc
  <2>2. Calls(t, v) BY <2>1, ReturnCalls DEF Alone
  <2> QED BY <2>1, <2>2, InPlaceTidy
<1> QED BY <1>1, <1>2

LEMMA EmptyOutTidy ==
    ASSUME IInv, Memory, NEW t \in Threads, NEW v \in Vars, NEW c,
           Mine(t, v), EmptyOut(t, v, c)
    PROVE  Tidy(t, v)
BY CallIsFor, ReplaceTidy DEF EmptyOut

LEMMA StartAllocTidy ==
    ASSUME IInv, Memory, NEW t \in Threads, NEW v \in Vars, NEW c, c.v = v,
           Mine(t, v), StartAlloc(t, v, c)
    PROVE  Tidy(t, v)
BY GoesTidy DEF StartAlloc

LEMMA ClearTidy ==
    ASSUME IInv, Memory, NEW t \in Threads, NEW v \in Vars, StartClear(t, v)
    PROVE  Tidy(t, v)
BY CallIsFor, CallerIsMine, ReplaceTidy DEF StartClear

LEMMA Whole ==
    ASSUME kind \in DOMAIN Layout, NEW n \in Int
    PROVE  (n * Width) \div Width = n
<1>1. Width \in {1, 2, 4} BY DEF Width, Layout
<1>2. (n * 1) \div 1 = n /\ (n * 2) \div 2 = n /\ (n * 4) \div 4 = n OBVIOUS
<1> QED BY <1>1, <1>2

(* All the characters of v's block are replaced, whoever shares it.        *)
LEMMA OverwriteTidy ==
    ASSUME IInv, Memory, NEW t \in Threads, NEW v \in Vars, Mine(t, v), Calls(t, v),
           var[v] # Nil, Idle(t) \/ call[t].op = "Init",
           text' = [text EXCEPT ![var[v]] = [by |-> t, n |-> head[var[v]].len]],
           UNCHANGED <<var, refs, head>>
    PROVE  Tidy(t, v)
<1>1. PICK b \in Blocks : b = var[v] BY DEF IInv, Typed, TypeOK
<1>2. PICK x : x = [by |-> t, n |-> head[b].len] OBVIOUS
<1>3. text' = [text EXCEPT ![b] = x] BY <1>1, <1>2
<1>4. Memory' BY <1>3 DEF Memory
<1>5. text'[b] = x /\ \A a \in Blocks \ {b} : text'[a] = text[a]
  BY <1>3 DEF Memory
<1>6. Overwrites(t, b) BY <1>2, <1>5 DEF Overwrites
<1>7. live \subseteq Blocks BY DEF IInv, Typed, TypeOK
<1> QED BY <1>1, <1>4, <1>5, <1>6, <1>7 DEF Tidy

LEMMA InitTidy ==
    ASSUME IInv, Room, Memory, NEW t \in Threads, NEW v \in Vars,
           NEW length \in Int, NEW chars \in {NoOne, t}, StartInit(t, v, length, chars)
    PROVE  Tidy(t, v)
<1> DEFINE c == Call("Init", v, v, length, chars, InitWidth)
<1>1. Mine(t, v) /\ c.v = v /\ c.op = "Init" /\ c.length = length /\ c.chars = chars
  BY CallIsFor, CallerIsMine DEF StartInit, Call
<1>2. (c.length * c.width) \div Width = length
  <2>1. c.width = Width /\ c.length = length
    BY Widths DEF Call, Room, IInv, Typed, TypeOK
  <2> HIDE DEF c
  <2> QED BY <2>1, Whole DEF IInv, Typed, TypeOK
<1> HIDE DEF c
<1>3. CASE InitSame(t, v, c)
  <2>1. /\ Return(t, c) /\ UNCHANGED <<var, refs, head>>
        /\ var[v] # Nil /\ head[var[v]].len = length
    BY <1>1, <1>3 DEF InitSame
  <2>2. PICK p \in {"idle", "fill"} : Goes(t, c, p) BY <2>1 DEF Return
  <2>3. p = "fill" => call'[t] = c BY <2>2, GoesOn DEF IInv
  <2>4. p = "fill" => InPlace(call[t])' BY <1>1, <2>1, <2>3 DEF InPlace
  <2>5. Calls(t, v) BY <1>1, <2>2, <2>3, <2>4, GoesOn DEF IInv, Calls
  <2>6. CASE chars = NoOne
    <3>1. text' = text BY <1>1, <1>3, <2>6 DEF InitSame, Memory
    <3> QED BY <1>1, <2>1, <2>5, <3>1, TidyQuiet
  <2>7. CASE chars # NoOne
    <3>1. text' = [text EXCEPT ![var[v]] = [by |-> t, n |-> head[var[v]].len]]
      BY <1>1, <1>2, <1>3, <2>1, <2>7 DEF InitSame
    <3>2. Idle(t) BY DEF StartInit, CanCall
    <3> QED BY <1>1, <2>1, <2>5, <3>1, <3>2, OverwriteTidy
  <2> QED BY <2>6, <2>7
<1>4. CASE InitOther(t, v, c)
  BY <1>1, <1>4, ReallocTidy, ReplaceTidy DEF InitOther, Alone
<1>5. CASE StartAlloc(t, v, c) BY <1>1, <1>5, StartAllocTidy
<1>6. CASE EmptyOut(t, v, c) BY <1>1, <1>6, EmptyOutTidy
<1> QED BY <1>3, <1>4, <1>5, <1>6 DEF StartInit, c

LEMMA ReserveTidy ==
    ASSUME IInv, Memory, NEW t \in Threads, NEW v \in Vars,
           NEW length, StartReserve(t, v, length)
    PROVE  Tidy(t, v)
<1> DEFINE c == Call("Reserve", v, v, length, NoOne, Width)
<1>1. Mine(t, v) /\ c.v = v BY CallIsFor, CallerIsMine DEF StartReserve
<1> HIDE DEF c
<1>2. CASE ReserveInPlace(t, v, c)
  BY <1>1, <1>2, GoesTidy, ReallocTidy DEF ReserveInPlace, Alone
<1>3. CASE ReserveReplace(t, v, c) BY <1>1, <1>3, ReplaceTidy DEF ReserveReplace
<1>4. CASE StartAlloc(t, v, c) BY <1>1, <1>4, StartAllocTidy
<1>5. CASE EmptyOut(t, v, c) BY <1>1, <1>5, EmptyOutTidy
<1> QED BY <1>2, <1>3, <1>4, <1>5 DEF StartReserve, c

LEMMA SetLengthTidy ==
    ASSUME IInv, Memory, NEW t \in Threads, NEW v \in Vars, Mine(t, v),
           NEW length, SetLengthCall(t, v, length)
    PROVE  Tidy(t, v)
<1> DEFINE c == Call("SetLength", v, v, length, NoOne, Width)
<1>1. c.v = v BY CallIsFor
<1> HIDE DEF c
<1>2. CASE SetLengthKeep(t, v, c) BY <1>1, <1>2, GoesTidy DEF SetLengthKeep
<1>3. CASE SetLengthAlloc(t, v, c) BY <1>1, <1>3, GoesTidy DEF SetLengthAlloc
<1>4. CASE StartAlloc(t, v, c) BY <1>1, <1>4, StartAllocTidy
<1>5. CASE EmptyOut(t, v, c) BY <1>1, <1>5, EmptyOutTidy
<1> QED BY <1>2, <1>3, <1>4, <1>5 DEF SetLengthCall, c

-----------------------------------------------------------------------------
(* So are those of the wide strings.                                       *)

LEMMA WideIsAlone ==
    ASSUME IInv, kind = "WStr", NEW v \in Vars, var[v] # Nil
    PROVE  Alone(v)
<1>1. var[v] \in live \ Literals BY WideFacts DEF IInv, NothingFreedInUse
<1> QED BY <1>1, WideFacts DEF Alone

LEMMA SysFreeTidy ==
    ASSUME IInv, Memory, kind = "WStr", NEW t \in Threads, NEW v \in Vars,
           Mine(t, v), Calls(t, v), var[v] # Nil, SysFree(v)
    PROVE  Tidy(t, v)
<1>1. PICK b \in Blocks : b = var[v] BY DEF IInv, Typed, TypeOK
<1>2. /\ live' = live \ {b} /\ refs' = [refs EXCEPT ![b] = 0] /\ var' = [var EXCEPT ![v] = Nil]
      /\ \E h : head' = [head EXCEPT ![b] = h]
      /\ \E x : text' = [text EXCEPT ![b] = x]
  BY <1>1 DEF SysFree, Release
<1>3. \A w \in Vars \ {v} : var'[w] = var[w] BY <1>2 DEF IInv, Typed, TypeOK
<1>4. \A a \in live : a = var[v] \/ refs'[a] = refs[a] BY <1>1, <1>2 DEF IInv, Typed, TypeOK
<1>5. PICK h, x : head' = [head EXCEPT ![b] = h] /\ text' = [text EXCEPT ![b] = x] BY <1>2
<1>6. b \notin live' BY <1>2
<1> QED BY <1>3, <1>4, <1>5, <1>6, TidyBlock

(* A block that was not allocated yet becomes v's.                         *)
LEMMA FreshTidy ==
    ASSUME IInv, Memory, NEW t \in Threads, NEW v \in Vars, Mine(t, v),
           NEW b \in Blocks \ live, NEW h, NEW x,
           refs' = [refs EXCEPT ![b] = 1],
           head' = [head EXCEPT ![b] = h], text' = [text EXCEPT ![b] = x],
           var' = [var EXCEPT ![v] = b],
           Alone(v)' => Calls(t, v)
    PROVE  Tidy(t, v)
<1> USE DEF IInv, Typed, TypeOK
<1>1. var'[v] = b /\ refs'[b] = 1 /\ b # Nil BY ConstantsAssumption
<1>2. Calls(t, v) BY <1>1 DEF Alone
<1>3. \A w \in Vars \ {v} : var'[w] = var[w] OBVIOUS
<1>4. \A a \in live : refs'[a] = refs[a] OBVIOUS
<1> QED BY <1>2, <1>3, <1>4, TidyBlock

LEMMA SysAllocTidy ==
    ASSUME IInv, Memory, NEW t \in Threads, NEW v \in Vars, Mine(t, v),
           NEW length, NEW txt, SysAlloc(v, length, txt), Alone(v)' => Calls(t, v)
    PROVE  Tidy(t, v)
BY FreshTidy DEF SysAlloc

LEMMA SysReallocTidy ==
    ASSUME IInv, Memory, kind = "WStr", NEW t \in Threads, NEW v \in Vars, Mine(t, v),
           NEW length, NEW txt, var[v] # Nil, SysRealloc(v, length, txt),
           Alone(v)' => Calls(t, v)
    PROVE  Tidy(t, v)
<1>1. Alone(v) BY WideIsAlone
<1>2. Calls(t, v) BY <1>1 DEF SysRealloc, Alone
<1> QED BY <1>1, <1>2, InPlaceTidy DEF SysRealloc

LEMMA WideClearTidy ==
    ASSUME IInv, Memory, NEW t \in Threads, NEW v \in Vars, WStrClear(t, v)
    PROVE  Tidy(t, v)
<1>1. /\ kind = "WStr" /\ CanCall(t, v) /\ var[v] # Nil /\ SysFree(v)
      /\ UNCHANGED <<pc, call>>
  BY DEF WStrClear
<1>2. Mine(t, v) BY <1>1, CallerIsMine
<1>3. Calls(t, v) BY <1>1 DEF Calls, CanCall, Idle
<1> QED BY <1>1, <1>2, <1>3, SysFreeTidy

LEMMA WideInitTidy ==
    ASSUME IInv, Memory, NEW t \in Threads, NEW v \in Vars, NEW length, NEW chars,
           WStrInit(t, v, length, chars)
    PROVE  Tidy(t, v)
<1> DEFINE c == Call("Init", v, v, length, chars, Width)
<1>1. Mine(t, v) /\ c.v = v /\ kind = "WStr" BY CallIsFor, CallerIsMine DEF WStrInit
<1>2. \/ /\ var[v] # Nil /\ UNCHANGED <<var, live, refs, head>> /\ Return(t, c)
         /\ \E x : text' = [text EXCEPT ![var[v]] = x]
      \/ var[v] # Nil /\ SysRealloc(v, length, WText(c)) /\ Return(t, c)
      \/ Unchanged /\ Fails(t)
      \/ SysAlloc(v, length, WText(c)) /\ Return(t, c)
      \/ var[v] # Nil /\ SysFree(v) /\ Goes(t, c, "idle")
  BY DEF WStrInit
<1> HIDE DEF c
<1>3. Return(t, c) /\ Alone(v)' => Calls(t, v) BY <1>1, ReturnCalls
<1>4. CASE /\ var[v] # Nil /\ UNCHANGED <<var, live, refs, head>> /\ Return(t, c)
           /\ \E x : text' = [text EXCEPT ![var[v]] = x]
  <2>1. Alone(v) BY <1>1, <1>4, WideIsAlone
  <2>2. Calls(t, v) BY <1>3, <1>4, <2>1 DEF Alone
  <2> QED BY <1>1, <1>4, <2>1, <2>2, InPlaceTidy
<1>5. CASE var[v] # Nil /\ SysRealloc(v, length, WText(c)) /\ Return(t, c)
  BY <1>1, <1>3, <1>5, SysReallocTidy
<1>6. CASE Unchanged /\ Fails(t) BY <1>1, <1>6, FailsTidy DEF Unchanged
<1>7. CASE SysAlloc(v, length, WText(c)) /\ Return(t, c)
  BY <1>1, <1>3, <1>7, SysAllocTidy
<1>8. CASE var[v] # Nil /\ SysFree(v) /\ Goes(t, c, "idle")
  BY <1>1, <1>8, GoesCalls, SysFreeTidy
<1> QED BY <1>2, <1>4, <1>5, <1>6, <1>7, <1>8

LEMMA WideReserveTidy ==
    ASSUME IInv, Memory, NEW t \in Threads, NEW v \in Vars, NEW length,
           WStrReserve(t, v, length)
    PROVE  Tidy(t, v)
<1> DEFINE c == Call("Reserve", v, v, length, NoOne, Width)
<1>1. Mine(t, v) /\ c.v = v /\ kind = "WStr" BY CallIsFor, CallerIsMine DEF WStrReserve
<1>2. \/ var[v] # Nil /\ Unchanged /\ Return(t, c)
      \/ var[v] # Nil /\ SysRealloc(v, length, WText(c)) /\ Return(t, c)
      \/ Unchanged /\ Fails(t)
      \/ SysAlloc(v, length, WText(c)) /\ Return(t, c)
  BY DEF WStrReserve
<1> HIDE DEF c
<1>3. Return(t, c) /\ Alone(v)' => Calls(t, v) BY <1>1, ReturnCalls
<1>4. CASE var[v] # Nil /\ Unchanged /\ Return(t, c)
  <2>1. Alone(v) BY <1>1, <1>4, WideIsAlone
  <2>2. Calls(t, v) BY <1>3, <1>4, <2>1 DEF Alone, Unchanged
  <2> QED BY <1>1, <1>4, <2>1, <2>2, InPlaceTidy DEF Unchanged
<1>5. CASE var[v] # Nil /\ SysRealloc(v, length, WText(c)) /\ Return(t, c)
  BY <1>1, <1>3, <1>5, SysReallocTidy
<1>6. CASE Unchanged /\ Fails(t) BY <1>1, <1>6, FailsTidy DEF Unchanged
<1>7. CASE SysAlloc(v, length, WText(c)) /\ Return(t, c)
  BY <1>1, <1>3, <1>7, SysAllocTidy
<1> QED BY <1>2, <1>4, <1>5, <1>6, <1>7

LEMMA WideSetLengthTidy ==
    ASSUME IInv, Memory, kind = "WStr", NEW t \in Threads, NEW v \in Vars, Mine(t, v),
           NEW length, WStrSetLengthCall(t, v, length)
    PROVE  Tidy(t, v)
<1> DEFINE c == Call("SetLength", v, v, length, NoOne, Width)
<1>1. c.v = v BY CallIsFor
<1>2. /\ \/ Unchanged
         \/ var[v] # Nil /\ \E x : SysRealloc(v, length, x)
         \/ SysAlloc(v, length, WText(c))
         \/ var[v] # Nil /\ SysFree(v)
      /\ Goes(t, c, "idle") \/ Fails(t)
  BY DEF WStrSetLengthCall
<1> HIDE DEF c
<1>3. Calls(t, v) BY <1>1, <1>2, GoesCalls, FailsCalls
<1>4. CASE Unchanged
  BY <1>3, <1>4, TidyQuiet DEF Unchanged
<1>5. CASE var[v] # Nil /\ \E x : SysRealloc(v, length, x)
  BY <1>3, <1>5, SysReallocTidy
<1>6. CASE SysAlloc(v, length, WText(c)) BY <1>3, <1>6, SysAllocTidy
<1>7. CASE var[v] # Nil /\ SysFree(v) BY <1>3, <1>7, SysFreeTidy
<1> QED BY <1>2, <1>4, <1>5, <1>6, <1>7

LEMMA WideCopyTidy ==
    ASSUME IInv, Memory, NEW t \in Threads, NEW v \in Vars, NEW src \in Vars,
           copy_widestring(t, v, src)
    PROVE  Tidy(t, v)
<1> DEFINE c == Call("Copy", v, src, 0, NoOne, Width)
<1>1. Mine(t, v) /\ c.v = v /\ kind = "WStr" BY CallIsFor, CallerIsMine DEF copy_widestring
<1>2. /\ \/ Unchanged
         \/ var[v] # Nil /\ SysRealloc(v, head[var[src]].len, text[var[src]])
         \/ SysAlloc(v, head[var[src]].len, text[var[src]])
         \/ var[v] # Nil /\ SysFree(v)
      /\ Goes(t, c, "idle")
  BY DEF copy_widestring
<1> HIDE DEF c
<1>3. Calls(t, v) BY <1>1, <1>2, GoesCalls
<1>4. CASE Unchanged BY <1>1, <1>3, <1>4, TidyQuiet DEF Unchanged
<1>5. CASE var[v] # Nil /\ SysRealloc(v, head[var[src]].len, text[var[src]])
  BY <1>1, <1>3, <1>5, SysReallocTidy
<1>6. CASE SysAlloc(v, head[var[src]].len, text[var[src]])
  BY <1>1, <1>3, <1>6, SysAllocTidy
<1>7. CASE var[v] # Nil /\ SysFree(v) BY <1>1, <1>3, <1>7, SysFreeTidy
<1> QED BY <1>2, <1>4, <1>5, <1>6, <1>7

-----------------------------------------------------------------------------
(* So are copying and the steps of a call in progress.                     *)

LEMMA CallIsMine ==
    ASSUME IInv, NEW t \in Threads, ~Idle(t)
    PROVE  call[t].v \in Vars /\ Mine(t, call[t].v)
BY DEF IInv, Typed, TypeOK, Works, Mine

LEMMA CopyTidy ==
    ASSUME IInv, Memory, NEW t \in Threads, NEW v \in Vars, NEW src \in Vars,
           copy_string(t, v, src)
    PROVE  Tidy(t, v)
<1> DEFINE c == Call("Copy", v, src, 0, NoOne, Width)
<1>1. Mine(t, v) /\ c.v = v BY CallIsFor, CallerIsMine DEF copy_string
<1>2. PICK p \in {"share", "idle", "drop"} : Goes(t, c, p)
  BY DEF copy_string, TakeSource
<1>3. var' = var \/ \E b : var' = [var EXCEPT ![v] = b]
  BY <1>1 DEF copy_string, TakeSource
<1> HIDE DEF c
<1>4. Calls(t, v) BY <1>1, <1>2, GoesCalls
<1>5. \A w \in Vars \ {v} : var'[w] = var[w] BY <1>3 DEF IInv, Typed, TypeOK
<1> QED BY <1>1, <1>4, <1>5, TidyQuiet DEF copy_string

(* Steps that only take, count or release references.                      *)
LEMMA CountTidy ==
    ASSUME IInv, Memory, NEW t \in Threads,
           \/ AllocFails(t) \/ Drop(t) \/ DropTest(t) \/ Decrement(t)
           \/ Share(t) \/ StoreTwo(t) \/ Increment(t)
    PROVE  \E v \in Vars : Tidy(t, v)
<1>1. /\ ~Idle(t) /\ UNCHANGED <<head, text>>
      /\ Fails(t) \/ \E p \in PCs \ {"fill"} : Goes(t, call[t], p)
  BY DEF AllocFails, Drop, DropTest, Decrement, Share, StoreTwo, Increment, Idle,
         Released, TakeSource, PCs, Releasing, Sharing
<1>2. PICK v \in Vars : v = call[t].v /\ Mine(t, v) BY <1>1, CallIsMine
<1>3. Calls(t, v) BY <1>1, <1>2, GoesCalls, FailsCalls
<1>4. \A w \in Vars \ {v} : var'[w] = var[w]
  <2>1. var' = var \/ \E b : var' = [var EXCEPT ![v] = b]
    BY <1>2 DEF AllocFails, Drop, DropTest, Decrement, Share, StoreTwo, Increment, TakeSource
  <2> QED BY <2>1 DEF IInv, Typed, TypeOK
<1>5. \A b \in live : b \in Touches(t) \/ refs'[b] = refs[b]
  <2>1. CASE Decrement(t)
    BY <2>1 DEF Decrement, Touches, Releasing, IInv, Typed, TypeOK
  <2>2. CASE StoreTwo(t) \/ Increment(t)
    BY <2>2 DEF StoreTwo, Increment, Touches, Sharing, IInv, Typed, TypeOK
  <2>3. CASE AllocFails(t) \/ Drop(t) \/ DropTest(t) \/ Share(t)
    BY <2>3 DEF AllocFails, Drop, DropTest, Share
  <2> QED BY <2>1, <2>2, <2>3
<1> QED BY <1>1, <1>2, <1>3, <1>4, <1>5, TidyQuiet

LEMMA FreeMemTidy ==
    ASSUME IInv, Memory, NEW t \in Threads, FreeMem(t)
    PROVE  \E v \in Vars : Tidy(t, v)
<1>1. ~Idle(t) /\ pc[t] \in Releasing BY DEF FreeMem, Idle, Releasing
<1>2. PICK v \in Vars : v = call[t].v /\ Mine(t, v) BY <1>1, CallIsMine
<1>3. PICK p \in {"alloc", "idle"} : Goes(t, call[t], p) BY DEF FreeMem, Released
<1>4. Calls(t, v) BY <1>2, <1>3, GoesCalls
<1>5. PICK b \in Blocks : b = hand[t] /\ b \in Touches(t)
  BY <1>1 DEF IInv, Typed, TypeOK, Touches
<1>6. /\ live' = live \ {b} /\ refs' = [refs EXCEPT ![b] = 0] /\ var' = var
      /\ \E h : head' = [head EXCEPT ![b] = h]
      /\ \E x : text' = [text EXCEPT ![b] = x]
  BY <1>5 DEF FreeMem, Release
<1>7. \A a \in live : a \in Touches(t) \/ refs'[a] = refs[a]
  BY <1>5, <1>6 DEF IInv, Typed, TypeOK
<1>8. PICK h, x : head' = [head EXCEPT ![b] = h] /\ text' = [text EXCEPT ![b] = x] BY <1>6
<1>9. b \notin live' /\ \A w \in Vars \ {v} : var'[w] = var[w] BY <1>6
<1> QED BY <1>2, <1>4, <1>7, <1>8, <1>9, TidyBlock

LEMMA AllocTidy ==
    ASSUME IInv, Memory, NEW t \in Threads, Alloc(t)
    PROVE  \E v \in Vars : Tidy(t, v)
<1>1. ~Idle(t) BY DEF Alloc, Idle
<1>2. PICK v \in Vars : v = call[t].v /\ Mine(t, v) BY <1>1, CallIsMine
<1>3. PICK p \in {"fill", "drop", "idle"} : Goes(t, call[t], p) BY DEF Alloc, Return
<1>4. Alone(v)' => Calls(t, v) BY <1>2, <1>3, GoesCalls
<1>5. PICK b \in Blocks \ live :
        /\ refs' = [refs EXCEPT ![b] = 1] /\ var' = [var EXCEPT ![v] = b]
        /\ \E h : head' = [head EXCEPT ![b] = h]
        /\ \E x : text' = [text EXCEPT ![b] = x]
  BY <1>2 DEF Alloc
<1> QED BY <1>2, <1>4, <1>5, FreshTidy

LEMMA FillTidy ==
    ASSUME IInv, Private, NEW t \in Threads, NEW n, Fill(t, n)
    PROVE  \E v \in Vars : Tidy(t, v)
<1>1. ~Idle(t) /\ pc[t] = "fill" BY DEF Fill, Idle
<1>2. PICK v \in Vars : v = call[t].v /\ Mine(t, v) BY <1>1, CallIsMine
<1> DEFINE c == [call[t] EXCEPT !.length = n]
<1>3. c.v = v BY <1>1, <1>2 DEF IInv, Works
<1>4. PICK p \in {"cut", "idle"} : Goes(t, c, p) BY DEF Fill
<1> HIDE DEF c
<1>5. Calls(t, v) BY <1>3, <1>4, GoesCalls
<1>6. UNCHANGED <<var, refs, head>> /\ text' = [text EXCEPT ![var[v]] = [by |-> t, n |-> n]]
  BY <1>2 DEF Fill
<1>7. CASE Alone(v)
  <2>1. \E x : text' = [text EXCEPT ![var[v]] = x] BY <1>6
  <2> QED BY <1>2, <1>5, <1>6, <1>7, <2>1, InPlaceTidy DEF Private
<1>8. CASE ~Alone(v)
  <2>1. InPlace(call[t]) BY <1>1, <1>2, <1>8 DEF Private, Writes
  <2>2. n = head[var[v]].len BY <1>2, <2>1 DEF Fill, InPlace
  <2>3. var[v] # Nil /\ call[t].op = "Init" BY <1>2, <2>1 DEF InPlace
  <2> QED BY <1>2, <1>5, <1>6, <2>2, <2>3, OverwriteTidy DEF Private
<1> QED BY <1>7, <1>8

LEMMA CutTidy ==
    ASSUME IInv, Memory, NEW t \in Threads, Cut(t)
    PROVE  \E v \in Vars : Tidy(t, v)
<1>1. ~Idle(t) BY DEF Cut, Idle
<1>2. PICK v \in Vars : v = call[t].v /\ Mine(t, v) BY <1>1, CallIsMine
<1> QED BY <1>2, WideSetLengthTidy, SetLengthTidy DEF Cut

LEMMA StepTidy ==
    ASSUME IInv, Private, NEW t \in Threads, Step(t)
    PROVE  \E v \in Vars : Tidy(t, v)
BY AllocTidy, CutTidy, CountTidy, FreeMemTidy, FillTidy DEF Step, Private

LEMMA OperationTidy ==
    ASSUME IInv, Room, Memory, NEW t \in Threads, NEW v \in Vars, Operation(t, v)
    PROVE  Tidy(t, v)
<1>0. Lengths[kind] \subseteq Int BY ConstantsAssumption DEF Room
<1>1. ASSUME \/ AStrClear(t, v) \/ UStrClear(t, v) \/ CStrClear(t, v)
             \/ final_string(t, v)
      PROVE  Tidy(t, v)
  BY <1>1, ClearTidy DEF AStrClear, UStrClear, CStrClear, final_string
<1>2. ASSUME NEW length,
             AStrReserve(t, v, length) \/ UStrReserve(t, v, length) \/ CStrReserve(t, v, length)
      PROVE  Tidy(t, v)
  BY <1>2, ReserveTidy DEF AStrReserve, UStrReserve, CStrReserve
<1>3. ASSUME NEW length,
             \/ AStrSetLength(t, v, length) \/ UStrSetLength(t, v, length)
             \/ CStrSetLength(t, v, length)
      PROVE  Tidy(t, v)
  BY <1>3, SetLengthTidy, CallerIsMine
     DEF AStrSetLength, UStrSetLength, CStrSetLength, StartSetLength
<1>4. ASSUME NEW length \in Int, NEW chars \in {NoOne, t},
             \/ AStrInit(t, v, length, chars) \/ UStrInit(t, v, length, chars)
             \/ CStrInit(t, v, length, chars)
      PROVE  Tidy(t, v)
  BY <1>4, InitTidy DEF AStrInit, UStrInit, CStrInit
<1>5. ASSUME NEW length, WStrSetLength(t, v, length) PROVE Tidy(t, v)
  BY <1>5, WideSetLengthTidy, CallerIsMine DEF WStrSetLength
<1> QED BY <1>0, <1>1, <1>2, <1>3, <1>4, <1>5, WideClearTidy, WideReserveTidy, WideInitTidy,
           CopyTidy, WideCopyTidy
        DEF Operation

LEMMA InitPrivate == ASSUME Init PROVE Private
<1>1. Memory BY DEF Init, Memory
<1>2. \A t \in Threads : pc[t] # "fill" BY DEF Init
<1> QED BY <1>1, <1>2 DEF Private, Writes

(* A step is for one variable; this is what is seen through the others.    *)
LEMMA NextTidy ==
    ASSUME IInv, IInv', Room, Private, [Next]_vars
    PROVE  /\ Private'
           /\ \/ UNCHANGED vars
              \/ \E w \in Vars : /\ Mine(Owner[w], w)
                                 /\ \A v \in Vars \ {w} : Seen(Owner[w], w, v)
<1>1. CASE UNCHANGED vars
  BY <1>1 DEF vars, Private, Memory, Writes, Alone, InPlace
<1>2. CASE Next
  <2>1. PICK t \in Threads : \E w \in Vars : Tidy(t, w)
    BY <1>2, StepTidy, OperationTidy DEF Next, Private
  <2>2. PICK w \in Vars : Tidy(t, w) BY <2>1
  <2>3. Mine(t, w) /\ Owner[w] = t BY <2>2 DEF Tidy, Mine
  <2>4. Private' /\ \A v \in Vars \ {w} : Seen(t, w, v) BY <2>2, TidyKeeps
  <2> QED BY <2>3, <2>4
<1> QED BY <1>1, <1>2

(* A step changes the text of the variable it works for; through another   *)
(* variable, which then shares the block, it is seen only if it is Init    *)
(* with the length the block has, and then as a whole new text of that     *)
(* length: what a thread grows, cuts, reserves, copies or frees is never   *)
(* seen there.  Two threads do not copy from one variable at the same      *)
(* time, and no string has the layout UStr_new86.                          *)
THEOREM TextsStayApart ==
    ASSUME ~SharedReads, "UStr_new86" \notin Kinds
    PROVE  Spec => OthersKeepTheirText
<1>1. Init => Room /\ Private BY InitRoomy, InitPrivate
<1>2. IInv /\ Room /\ [Next]_vars => Room' BY NextRoom
<1>3. IInv /\ IInv' /\ Room /\ Private /\ [Next]_vars => Private' BY NextTidy
<1>4. IInv /\ IInv' /\ Room /\ Private /\ [Next]_vars =>
        [\E w \in Vars :
           /\ Idle(Owner[w]) \/ call[Owner[w]].v = w
           /\ \A v \in Vars \ {w} : Value(v)' # Value(v) =>
                /\ var[v] = var[w]
                /\ Idle(Owner[w]) \/ call[Owner[w]].op = "Init"
                /\ Rewritten(Value(v), Value(v)')]_vars
  BY NextTidy DEF Mine, Seen
<1> QED BY <1>1, <1>2, <1>3, <1>4, Invariant, PTL DEF Spec, OthersKeepTheirText

-----------------------------------------------------------------------------
(* A call delivers what it is for.                                         *)

(* What a call c that has its result holds while it gives back the block   *)
(* its variable had.                                                       *)
Gave(c) ==
    /\ c.op \in {"Clear", "Init", "Reserve"} => var[c.v] = Nil
    /\ c.op = "Copy" => Met(c.old, Value(c.v))
    /\ c.op = "SetLength" => Alone(c.v) /\ MetUpTo(c.length, c.old, Value(c.v))

Fields == {"op", "v", "src", "length", "chars", "width", "old"}

(* How far thread t has got with the call c when it is at place p.         *)
At(c, p, t) ==
    /\ DOMAIN c = Fields
    /\ c.op \in {"Clear", "Copy", "Init", "Reserve", "SetLength"}
    /\ c.op \in {"Init", "Reserve", "SetLength"} => c.length > 0
    /\ c.op = "Init" => c.chars \in {NoOne, t}
    /\ c.op \in {"Reserve", "SetLength"} => c.chars = NoOne
    /\ p \in Sharing => c.op = "Copy" /\ Met(c.old, Value(c.src))
    /\ p \in Releasing => Gave(c)
    /\ p = "alloc" => \/ c.op = "SetLength" /\ Met(c.old, Value(c.v))
                      \/ c.op \in {"Init", "Reserve"} /\ var[c.v] = Nil
    /\ p \in {"fill", "cut"} => var[c.v] # Nil
    /\ p = "fill" => \/ c.op = "Reserve"
                     \/ c.op = "Init" /\ c.chars = NoOne /\ Value(c.v).len = c.length
    /\ p = "cut" => /\ c.op = "Reserve" /\ Alone(c.v)
                    /\ Value(c.v).by = t /\ Value(c.v).n = c.length

Kept(t) == ~Idle(t) => At(call[t], pc[t], t)

LEMMA MetAgain ==
    ASSUME NEW old, NEW now, NEW later, Met(old, now), Met(now, later)
    PROVE  Met(old, later)
BY DEF Met, Rewritten

LEMMA SeenIsMet ==
    ASSUME NEW t, NEW w, NEW v, Seen(t, w, v)
    PROVE  Met(Value(v), Value(v)') /\ Value(v)'.len = Value(v).len
BY DEF Seen, Met, Rewritten

LEMMA KeptByOthers ==
    ASSUME IInv, IInv', Private, NEW t \in Threads, NEW w \in Vars, Tidy(t, w),
           NEW u \in Threads \ {t}, Kept(u)
    PROVE  Kept(u)'
<1> SUFFICES ASSUME ~Idle(u) PROVE Kept(u)'
  BY DEF Kept, Idle, Tidy, Calls
<1>1. PICK c, p : c = call[u] /\ p = pc[u] OBVIOUS
<1>2. call'[u] = c /\ pc'[u] = p BY <1>1 DEF Tidy, Calls
<1>3. PICK v \in Vars, r \in Vars : v = c.v /\ r = c.src /\ Owner[v] = u
  BY <1>1 DEF IInv, Typed, TypeOK, Works
<1>4. v # w BY <1>3 DEF Tidy, Mine
<1>5. var'[v] = var[v] /\ Met(Value(v), Value(v)') /\ Value(v)'.len = Value(v).len
  BY <1>3, <1>4, TidyKeeps, SeenIsMet DEF Tidy
<1>6. p \in Sharing => r # w
  BY <1>1, <1>3 DEF Tidy, Mine, NotLent, IInv, Lends
<1>7. p \in Sharing => Met(Value(r), Value(r)') BY <1>3, <1>6, TidyKeeps, SeenIsMet
<1>8. Alone(v) => Alone(v)' /\ Value(v)' = Value(v)
  BY <1>1, <1>3, AloneStays DEF Private
<1>9. At(c, p, u) BY <1>1 DEF Kept
<1>10. Gave(c) => Gave(c)'
  <2>1. ASSUME Met(c.old, Value(v)) PROVE Met(c.old, Value(v)') BY <1>5, <2>1, MetAgain
  <2> QED BY <1>3, <1>5, <1>8, <2>1 DEF Gave
<1>11. p = "alloc" => \/ c.op = "SetLength" /\ Met(c.old, Value(v)')
                      \/ c.op \in {"Init", "Reserve"} /\ var'[v] = Nil
  BY <1>3, <1>5, <1>9, MetAgain DEF At
<1>12. p \in Sharing => c.op = "Copy" /\ Met(c.old, Value(r)')
  BY <1>3, <1>7, <1>9, MetAgain DEF At
<1>13. At(c, p, u)'
  BY <1>3, <1>5, <1>8, <1>9, <1>10, <1>11, <1>12 DEF At
<1> QED BY <1>2, <1>13 DEF Kept

LEMMA KeptAt ==
    ASSUME IInv, NEW t \in Threads, NEW c, NEW p, Goes(t, c, p),
           p # "idle" => At(c, p, t)'
    PROVE  Kept(t)'
<1>1. pc'[t] = p /\ (p # "idle" => call'[t] = c) BY GoesOn DEF IInv
<1> QED BY <1>1 DEF Kept, Idle

LEMMA KeptFails == ASSUME IInv, NEW t \in Threads, Fails(t) PROVE Kept(t)'
BY FailsOn DEF IInv, Kept, Idle

(* The fields of a call.                                                   *)
LEMMA CallFields ==
    ASSUME NEW op, NEW v, NEW src, NEW length, NEW chars, NEW width, NEW c,
           c = Call(op, v, src, length, chars, width)
    PROVE  /\ DOMAIN c = Fields
           /\ c.op = op /\ c.v = v /\ c.src = src /\ c.length = length
           /\ c.chars = chars /\ c.width = width
           /\ op \in {"Copy", "SetLength"} => c.old = Value(src)
BY DEF Call, Fields

(* A call of t that asks for a string of some length: Init, Reserve or     *)
(* SetLength.                                                              *)
Wants(c, v, t) ==
    /\ DOMAIN c = Fields
    /\ c.op \in {"Init", "Reserve", "SetLength"}
    /\ c.v = v
    /\ c.op = "Init" => c.chars \in {NoOne, t}
    /\ c.op \in {"Reserve", "SetLength"} => c.chars = NoOne
    /\ c.op = "SetLength" => c.old = Value(v)

(* Where such a call goes.                                                 *)
LEMMA WantsFill ==
    ASSUME IInv, NEW t \in Threads, NEW v \in Vars, NEW c, Wants(c, v, t), c.length > 0,
           c.op = "Reserve" \/ (c.op = "Init" /\ Value(v)'.len = c.length),
           Return(t, c), var'[v] # Nil
    PROVE  Kept(t)'
<1>1. PICK p \in {"idle", "fill"} : Goes(t, c, p) /\ (p = "fill" => c.chars = NoOne)
  BY DEF Return
<1>2. p = "fill" => At(c, p, t)' BY <1>1 DEF At, Wants, Sharing, Releasing
<1> QED BY <1>1, <1>2, KeptAt

LEMMA WantsAlloc ==
    ASSUME IInv, NEW t \in Threads, NEW v \in Vars, NEW c, Wants(c, v, t), c.length > 0,
           Goes(t, c, "alloc"), UNCHANGED <<var, head, text>>,
           c.op = "SetLength" \/ var[v] = Nil
    PROVE  Kept(t)'
<1>1. Value(v)' = Value(v) BY DEF Value
<1>2. At(c, "alloc", t)' BY <1>1 DEF At, Wants, Sharing, Releasing, Met
<1> QED BY <1>2, KeptAt

LEMMA WantsReplace ==
    ASSUME IInv, NEW t \in Threads, NEW v \in Vars, NEW c, Replace(t, v, c), c.v = v,
           DOMAIN c = Fields,
           c.op = "Clear" \/ (Wants(c, v, t) /\ c.length > 0 /\ c.op # "SetLength")
    PROVE  Kept(t)'
<1>1. Goes(t, c, "drop") /\ var'[v] = Nil BY DEF Replace, IInv, Typed, TypeOK
<1>2. At(c, "drop", t)' BY <1>1 DEF At, Gave, Wants, Sharing, Releasing
<1> QED BY <1>1, <1>2, KeptAt

LEMMA WantsRealloc ==
    ASSUME IInv, Memory, NEW t \in Threads, NEW v \in Vars, NEW c, Wants(c, v, t),
           c.length > 0, c.op # "SetLength", var[v] # Nil, Realloc(t, v, c)
    PROVE  Kept(t)'
<1>1. CASE Fails(t) BY <1>1, KeptFails
<1>2. CASE ~Fails(t)
  <2>1. PICK b \in Blocks : b = var[v] /\ b # Nil
    BY ConstantsAssumption DEF IInv, Typed, TypeOK
  <2>2. PICK n, k : n = c.length /\ k = (c.length + 1) * c.width OBVIOUS
  <2>3. /\ head' = [head EXCEPT ![b] = [len |-> n, size |-> k]]
        /\ Return(t, c) /\ var' = var
    BY <1>2, <2>1, <2>2 DEF Realloc
  <2>4. head'[b].len = n BY <2>3 DEF Memory
  <2>5. Value(v)'.len = c.length BY <2>1, <2>2, <2>3, <2>4 DEF Value
  <2>6. var'[v] # Nil BY <2>1, <2>3
  <2> QED BY <2>3, <2>5, <2>6, WantsFill DEF Wants
<1> QED BY <1>1, <1>2

LEMMA WantsNothing ==
    ASSUME IInv, NEW t \in Threads, NEW v \in Vars, NEW c, EmptyOut(t, v, c)
    PROVE  Kept(t)'
<1> DEFINE d == Call("Clear", v, v, 0, NoOne, c.width)
<1>1. Replace(t, v, d) BY DEF EmptyOut
<1>2. DOMAIN d = Fields /\ d.v = v /\ d.op = "Clear" BY CallFields
<1> HIDE DEF d
<1> QED BY <1>1, <1>2, WantsReplace

LEMMA WantsFirst ==
    ASSUME IInv, NEW t \in Threads, NEW v \in Vars, NEW c, Wants(c, v, t), StartAlloc(t, v, c)
    PROVE  Kept(t)'
BY WantsAlloc DEF StartAlloc

-----------------------------------------------------------------------------
(* The operations.                                                         *)

LEMMA ClearKept ==
    ASSUME IInv, NEW t \in Threads, NEW v \in Vars, StartClear(t, v)
    PROVE  Kept(t)'
<1> DEFINE d == Call("Clear", v, v, 0, NoOne, Width)
<1>1. Replace(t, v, d) BY DEF StartClear
<1>2. DOMAIN d = Fields /\ d.v = v /\ d.op = "Clear" BY CallFields
<1> HIDE DEF d
<1> QED BY <1>1, <1>2, WantsReplace

LEMMA InitKept ==
    ASSUME IInv, Memory, NEW t \in Threads, NEW v \in Vars,
           NEW length, NEW chars \in {NoOne, t}, StartInit(t, v, length, chars)
    PROVE  Kept(t)'
<1> DEFINE c == Call("Init", v, v, length, chars, InitWidth)
<1>1. Wants(c, v, t) /\ c.op = "Init" BY CallFields DEF Wants
<1> HIDE DEF c
<1>2. CASE InitSame(t, v, c)
  <2>1. /\ Return(t, c) /\ UNCHANGED <<var, head>> /\ var[v] # Nil
        /\ head[var[v]].len = c.length /\ c.length > 0
    BY <1>2 DEF InitSame
  <2>2. Value(v)'.len = c.length BY <2>1 DEF Value
  <2> QED BY <1>1, <2>1, <2>2, WantsFill
<1>3. CASE InitOther(t, v, c)
  BY <1>1, <1>3, WantsRealloc, WantsReplace DEF InitOther, Wants
<1>4. CASE StartAlloc(t, v, c) BY <1>1, <1>4, WantsFirst
<1>5. CASE EmptyOut(t, v, c) BY <1>5, WantsNothing
<1> QED BY <1>2, <1>3, <1>4, <1>5 DEF StartInit, c

LEMMA ReserveKept ==
    ASSUME IInv, Memory, NEW t \in Threads, NEW v \in Vars,
           NEW length, StartReserve(t, v, length)
    PROVE  Kept(t)'
<1> DEFINE c == Call("Reserve", v, v, length, NoOne, Width)
<1>1. Wants(c, v, t) /\ c.op = "Reserve" BY CallFields DEF Wants
<1> HIDE DEF c
<1>2. CASE ReserveInPlace(t, v, c)
  <2>1. CASE Realloc(t, v, c)
    BY <1>1, <1>2, <2>1, WantsRealloc DEF ReserveInPlace
  <2>2. CASE Goes(t, c, "fill") /\ UNCHANGED var
    <3>1. Return(t, c) BY <1>1, <2>2 DEF Return, Wants
    <3>2. c.length > 0 /\ var'[v] # Nil BY <1>2, <2>2 DEF ReserveInPlace
    <3> QED BY <1>1, <3>1, <3>2, WantsFill
  <2> QED BY <1>2, <2>1, <2>2 DEF ReserveInPlace
<1>3. CASE ReserveReplace(t, v, c) BY <1>1, <1>3, WantsReplace DEF ReserveReplace, Wants
<1>4. CASE StartAlloc(t, v, c) BY <1>1, <1>4, WantsFirst
<1>5. CASE EmptyOut(t, v, c) BY <1>5, WantsNothing
<1> QED BY <1>2, <1>3, <1>4, <1>5 DEF StartReserve, c

LEMMA SetLengthKept ==
    ASSUME IInv, NEW t \in Threads, NEW v \in Vars, NEW length, SetLengthCall(t, v, length)
    PROVE  Kept(t)'
<1> DEFINE c == Call("SetLength", v, v, length, NoOne, Width)
<1>1. Wants(c, v, t) /\ c.op = "SetLength" BY CallFields DEF Wants
<1> HIDE DEF c
<1>2. CASE SetLengthKeep(t, v, c) BY <1>2, KeptAt DEF SetLengthKeep
<1>3. CASE SetLengthAlloc(t, v, c) BY <1>1, <1>3, WantsAlloc DEF SetLengthAlloc
<1>4. CASE StartAlloc(t, v, c) BY <1>1, <1>4, WantsFirst
<1>5. CASE EmptyOut(t, v, c) BY <1>5, WantsNothing
<1> QED BY <1>2, <1>3, <1>4, <1>5 DEF SetLengthCall, c

LEMMA CopyKept ==
    ASSUME IInv, NEW t \in Threads, NEW v \in Vars, NEW src \in Vars, copy_string(t, v, src)
    PROVE  Kept(t)'
<1>0. PICK c : c = Call("Copy", v, src, 0, NoOne, Width) OBVIOUS
<1>1. /\ DOMAIN c = Fields
      /\ c.op = "Copy" /\ c.v = v /\ c.src = src /\ c.old = Value(src)
  BY <1>0, CallFields
<1>2. UNCHANGED <<head, text>> BY DEF copy_string
<1>3. \/ Goes(t, c, "share") /\ UNCHANGED var
      \/ TakeSource(t, c)
  BY <1>0 DEF copy_string
<1>4. CASE Goes(t, c, "share") /\ UNCHANGED var
  <2>1. Value(src)' = Value(src) BY <1>2, <1>4 DEF Value
  <2>2. At(c, "share", t)' BY <1>1, <2>1 DEF At, Sharing, Releasing, Met
  <2> QED BY <1>4, <2>2, KeptAt
<1>5. CASE TakeSource(t, c)
  <2>1. var'[v] = var[src] BY <1>1, <1>5 DEF TakeSource, IInv, Typed, TypeOK
  <2>2. Value(v)' = Value(src) BY <1>2, <2>1 DEF Value
  <2>3. At(c, "drop", t)' BY <1>1, <2>2 DEF At, Gave, Sharing, Releasing, Met
  <2>4. PICK p \in {"idle", "drop"} : Goes(t, c, p) BY <1>5 DEF TakeSource
  <2> QED BY <2>3, <2>4, KeptAt
<1> QED BY <1>3, <1>4, <1>5

LEMMA WideInitKept ==
    ASSUME IInv, Memory, NEW t \in Threads, NEW v \in Vars,
           NEW length, NEW chars \in {NoOne, t}, WStrInit(t, v, length, chars)
    PROVE  Kept(t)'
<1> DEFINE c == Call("Init", v, v, length, chars, Width)
<1>1. Wants(c, v, t) /\ c.op = "Init" /\ c.length = length BY CallFields DEF Wants
<1>2. \/ Fails(t) \/ Goes(t, c, "idle")
      \/ /\ Return(t, c) /\ length > 0
         /\ \/ var[v] # Nil /\ UNCHANGED <<var, head>> /\ head[var[v]].len = length
            \/ var[v] # Nil /\ SysRealloc(v, length, WText(c))
            \/ SysAlloc(v, length, WText(c))
  BY DEF WStrInit
<1> HIDE DEF c
<1>3. CASE Fails(t) \/ Goes(t, c, "idle") BY <1>3, KeptFails, KeptAt
<1>4. ASSUME length > 0, Return(t, c), var'[v] # Nil, head'[var'[v]].len = length
      PROVE  Kept(t)'
  <2>1. Value(v)'.len = length BY <1>4 DEF Value
  <2> QED BY <1>1, <1>4, <2>1, WantsFill
<1>5. CASE var[v] # Nil /\ SysRealloc(v, length, WText(c)) /\ Return(t, c) /\ length > 0
  <2>1. PICK b \in Blocks : b = var[v] BY <1>5 DEF IInv, Typed, TypeOK
  <2>2. head'[b].len = length BY <1>5, <2>1 DEF SysRealloc, Memory
  <2> QED BY <1>4, <1>5, <2>1, <2>2 DEF SysRealloc
<1>6. CASE SysAlloc(v, length, WText(c)) /\ Return(t, c) /\ length > 0
  <2>1. PICK b \in Blocks : /\ var' = [var EXCEPT ![v] = b]
                            /\ \E k : head' = [head EXCEPT ![b] = [len |-> length, size |-> k]]
    BY <1>6 DEF SysAlloc
  <2>2. var'[v] = b /\ b # Nil /\ head'[b].len = length
    BY <2>1, ConstantsAssumption DEF IInv, Typed, TypeOK, Memory
  <2> QED BY <1>4, <1>6, <2>2
<1> QED BY <1>2, <1>3, <1>4, <1>5, <1>6

LEMMA WideReserveKept ==
    ASSUME IInv, NEW t \in Threads, NEW v \in Vars, NEW length, WStrReserve(t, v, length)
    PROVE  Kept(t)'
<1> DEFINE c == Call("Reserve", v, v, length, NoOne, Width)
<1>1. Wants(c, v, t) /\ c.op = "Reserve" /\ c.length = length BY CallFields DEF Wants
<1>2. /\ length > 0
      /\ \/ Fails(t)
         \/ /\ Return(t, c)
            /\ (var[v] # Nil /\ UNCHANGED var) \/ SysAlloc(v, length, WText(c))
  BY DEF WStrReserve, SysRealloc, Unchanged
<1> HIDE DEF c
<1>3. CASE Fails(t) BY <1>3, KeptFails
<1>4. CASE /\ Return(t, c)
           /\ (var[v] # Nil /\ UNCHANGED var) \/ SysAlloc(v, length, WText(c))
  <2>1. SysAlloc(v, length, WText(c)) => var'[v] # Nil
    BY ConstantsAssumption DEF SysAlloc, IInv, Typed, TypeOK
  <2>2. var'[v] # Nil BY <1>4, <2>1
  <2> QED BY <1>1, <1>2, <1>4, <2>2, WantsFill
<1> QED BY <1>2, <1>3, <1>4

-----------------------------------------------------------------------------
(* The steps of a call in progress: the call goes on, or ends and delivers.*)

Ends(c, t) == Kept(t)' /\ (call'[t].op = "returned" => Delivers(c, t))

LEMMA GoesEnds ==
    ASSUME IInv, NEW t \in Threads, NEW c, NEW d, NEW p, Goes(t, d, p),
           p # "idle" => At(d, p, t)',
           p = "idle" => Delivers(c, t)
    PROVE  Ends(c, t)
<1>1. pc'[t] = p /\ (p # "idle" => call'[t] = d) BY GoesOn DEF IInv
<1>2. Kept(t)' BY KeptAt
<1>3. p # "idle" => d.op # "returned" BY DEF At
<1> QED BY <1>1, <1>2, <1>3 DEF Ends

LEMMA FailsEnds == ASSUME IInv, NEW t \in Threads, NEW c, Fails(t) PROVE Ends(c, t)
<1>1. call'[t].op = "failed" BY DEF Fails, NoCall, IInv, Typed, TypeOK
<1> QED BY <1>1, KeptFails DEF Ends

(* What is known of the call a thread is in.                               *)
LEMMA InCall ==
    ASSUME IInv, Room, NEW t \in Threads, Kept(t), ~Idle(t), NEW c, c = call[t]
    PROVE  /\ c.v \in Vars /\ c.src \in Vars /\ Owner[c.v] = t
           /\ c.length \in Int /\ c.width = Width
           /\ At(c, pc[t], t)
BY DEF IInv, Typed, TypeOK, Works, Room, Asks, Kept

LEMMA ReleasesOn ==
    ASSUME IInv, Room, NEW t \in Threads, Kept(t), NEW c, c = call[t],
           pc[t] \in Releasing, var'[c.v] = var[c.v], Value(c.v)' = Value(c.v),
           \A b \in Blocks \ {hand[t]} : refs'[b] = refs[b],
           Released(t) \/ \E p \in Releasing : Goes(t, c, p)
    PROVE  Ends(c, t)
<1>1. ~Idle(t) BY DEF Releasing, Idle
<1>2. At(c, pc[t], t) /\ c.length \in Int BY <1>1, InCall
<1>3. Gave(c) /\ Gave(c)'
  <2>1. PICK v \in Vars : v = c.v BY <1>1, InCall
  <2>2. ASSUME Alone(v) PROVE Alone(v)'
    <3>1. var[v] \in Blocks \ {hand[t]} BY <2>2, AloneIsAlone DEF IInv, Typed, TypeOK
    <3> QED BY <2>1, <2>2, <3>1 DEF Alone
  <2>3. Gave(c) BY <1>2 DEF At
  <2> QED BY <2>1, <2>2, <2>3 DEF Gave
<1>4. CASE \E p \in Releasing : Goes(t, c, p)
  <2>1. PICK p \in Releasing : Goes(t, c, p) BY <1>4
  <2>2. At(c, p, t)' BY <1>2, <1>3, <2>1 DEF At, Releasing, Sharing
  <2>3. p # "idle" BY <2>1 DEF Releasing
  <2> QED BY <2>1, <2>2, <2>3, GoesEnds
<1>5. CASE Released(t) /\ c.op \in {"Init", "Reserve"}
  <2>1. Goes(t, c, "alloc") BY <1>2, <1>5 DEF Released, At
  <2>2. var'[c.v] = Nil BY <1>3, <1>5 DEF Gave
  <2>3. At(c, "alloc", t)' BY <1>2, <1>5, <2>2 DEF At, Releasing, Sharing
  <2> QED BY <2>1, <2>3, GoesEnds
<1>6. CASE Released(t) /\ c.op \notin {"Init", "Reserve"}
  <2>1. Goes(t, c, "idle") BY <1>6 DEF Released
  <2>2. Delivers(c, t)
    <3>1. CASE c.op = "Clear" BY <1>3, <3>1 DEF Gave, Delivers
    <3>2. CASE c.op = "Copy" BY <1>3, <3>2 DEF Gave, Delivers
    <3>3. CASE c.op = "SetLength"
      <4>1. c.length # 0 BY <1>2, <3>3 DEF At
      <4> QED BY <1>3, <3>3, <4>1 DEF Gave, Delivers
    <3> QED BY <1>2, <1>6, <3>1, <3>2, <3>3 DEF At
  <2> QED BY <2>1, <2>2, GoesEnds
<1> QED BY <1>4, <1>5, <1>6

LEMMA DropsOn ==
    ASSUME IInv, Room, NEW t \in Threads, Kept(t), NEW c, c = call[t],
           Drop(t) \/ DropTest(t) \/ Decrement(t)
    PROVE  Ends(c, t)
<1>1. /\ pc[t] \in Releasing /\ UNCHANGED <<var, head, text>>
      /\ Released(t) \/ \E p \in Releasing : Goes(t, c, p)
  BY DEF Drop, DropTest, Decrement, Releasing
<1>2. Value(c.v)' = Value(c.v) BY <1>1 DEF Value
<1>3. \A b \in Blocks \ {hand[t]} : refs'[b] = refs[b]
  BY DEF Drop, DropTest, Decrement, IInv, Typed, TypeOK
<1> QED BY <1>1, <1>2, <1>3, ReleasesOn

LEMMA FreesOn ==
    ASSUME IInv, IInv', Room, Memory, NEW t \in Threads, Kept(t), NEW c, c = call[t], FreeMem(t)
    PROVE  Ends(c, t)
<1>1. pc[t] \in Releasing /\ ~Idle(t) /\ Released(t) /\ var' = var
  BY DEF FreeMem, Releasing, Idle
<1>2. PICK b \in Blocks : b = hand[t] BY <1>1 DEF IInv, Typed, TypeOK
<1>3. /\ live' = live \ {b} /\ refs' = [refs EXCEPT ![b] = 0]
      /\ \E h : head' = [head EXCEPT ![b] = h]
      /\ \E x : text' = [text EXCEPT ![b] = x]
  BY <1>2 DEF FreeMem, Release
<1>4. PICK v \in Vars : v = c.v BY <1>1, InCall
<1>5. var[v] # Nil => var[v] \in Blocks \ {b}
  BY <1>1, <1>3 DEF IInv, Typed, TypeOK, NothingFreedInUse
<1>6. var[v] # Nil => head'[var[v]] = head[var[v]] /\ text'[var[v]] = text[var[v]]
  BY <1>3, <1>5 DEF Memory
<1>7. Value(v)' = Value(v) BY <1>1, <1>6 DEF Value
<1>8. \A d \in Blocks \ {hand[t]} : refs'[d] = refs[d]
  BY <1>2, <1>3 DEF IInv, Typed, TypeOK
<1> QED BY <1>1, <1>4, <1>7, <1>8, ReleasesOn

LEMMA SharesOn ==
    ASSUME IInv, Room, NEW t \in Threads, Kept(t), NEW c, c = call[t], Share(t)
    PROVE  Ends(c, t)
<1>1. PICK p \in {"store", "inc"} : Goes(t, c, p) BY DEF Share
<1>2. pc[t] = "share" /\ ~Idle(t) /\ UNCHANGED <<var, head, text>> BY DEF Share, Idle
<1>3. At(c, "share", t) BY <1>2, InCall
<1>4. Value(c.src)' = Value(c.src) BY <1>2 DEF Value
<1>5. At(c, p, t)' BY <1>3, <1>4 DEF At, Sharing, Releasing
<1> QED BY <1>1, <1>5, GoesEnds

LEMMA TakesOn ==
    ASSUME IInv, Room, NEW t \in Threads, Kept(t), NEW c, c = call[t],
           StoreTwo(t) \/ Increment(t)
    PROVE  Ends(c, t)
<1>1. pc[t] \in Sharing /\ ~Idle(t) /\ UNCHANGED <<head, text>> /\ TakeSource(t, c)
  BY DEF StoreTwo, Increment, Sharing, Idle
<1>2. At(c, pc[t], t) /\ c.v \in Vars /\ c.src \in Vars BY <1>1, InCall
<1>3. DOMAIN c = Fields /\ c.op = "Copy" /\ Met(c.old, Value(c.src)) BY <1>1, <1>2 DEF At
<1>4. PICK v \in Vars, w \in Vars : v = c.v /\ w = c.src BY <1>2
<1>5. var'[v] = var[w] BY <1>1, <1>4 DEF TakeSource, IInv, Typed, TypeOK
<1>6. Value(v)' = Value(w) BY <1>1, <1>5 DEF Value
<1>7. Delivers(c, t) BY <1>3, <1>4, <1>6 DEF Delivers
<1>8. At(c, "drop", t)' BY <1>3, <1>4, <1>6 DEF At, Gave, Sharing, Releasing
<1>9. PICK p \in {"idle", "drop"} : Goes(t, c, p) BY <1>1 DEF TakeSource
<1> QED BY <1>7, <1>8, <1>9, GoesEnds

LEMMA AllocsOn ==
    ASSUME IInv, Room, Memory, NEW t \in Threads, Kept(t), NEW c, c = call[t], Alloc(t)
    PROVE  Ends(c, t)
<1>1. pc[t] = "alloc" /\ ~Idle(t) BY DEF Alloc, Idle
<1>2. PICK v \in Vars, n \in Int : v = c.v /\ n = c.length BY <1>1, InCall
<1>3. At(c, "alloc", t) /\ c.width = Width BY <1>1, InCall
<1>4. PICK x : x = NewText(c) OBVIOUS
<1>5. PICK b \in Blocks :
        /\ var' = [var EXCEPT ![v] = b] /\ refs' = [refs EXCEPT ![b] = 1]
        /\ \E k : head' = [head EXCEPT ![b] = [len |-> n, size |-> k]]
        /\ text' = [text EXCEPT ![b] = x]
        /\ IF var[v] # Nil THEN Goes(t, c, "drop")
           ELSE IF c.op = "SetLength" THEN Goes(t, c, "idle")
           ELSE Return(t, c)
  BY <1>2, <1>4 DEF Alloc
<1>6. /\ var'[v] = b /\ b # Nil /\ refs'[b] = 1 /\ head'[b].len = n /\ text'[b] = x
  BY <1>5, ConstantsAssumption DEF IInv, Typed, TypeOK, Memory
<1>7. var'[v] # Nil /\ Value(v)' = [len |-> n, by |-> x.by, n |-> x.n]
  BY <1>6 DEF Value
<1>8. CASE c.op = "SetLength"
  <2>1. n > 0 /\ c.chars = NoOne /\ Met(c.old, Value(v))
    BY <1>2, <1>3, <1>8 DEF At
  <2>2. MetUpTo(n, c.old, Value(v)')
    <3>1. CASE var[v] = Nil
      <4>1. Value(v) = Empty /\ Empty.by \notin Threads
        BY <3>1, ConstantsAssumption DEF Value, Empty
      <4>2. c.old = Empty BY <2>1, <4>1 DEF Met, Rewritten
      <4>3. x.n = 0 /\ c.old.n = 0 BY <1>2, <1>4, <2>1, <3>1, <4>2 DEF NewText, Empty
      <4> QED BY <1>7, <2>1, <4>3 DEF Least, MetUpTo
    <3>2. CASE var[v] # Nil
      <4>1. x = [by |-> Value(v).by, n |-> Least(n, Value(v).n)]
        BY <1>2, <1>4, <1>8, <3>2 DEF NewText, Value
      <4>2. Value(v)' = [len |-> n, by |-> Value(v).by, n |-> Least(n, Value(v).n)]
        BY <1>7, <4>1
      <4> QED BY <2>1, <4>2 DEF Met, Rewritten, MetUpTo
    <3> QED BY <3>1, <3>2
  <2>3. Gave(c)' BY <1>2, <1>6, <1>8, <2>2 DEF Gave, Alone
  <2>4. At(c, "drop", t)' BY <1>3, <1>8, <2>3 DEF At, Sharing, Releasing
  <2>5. n # 0 BY <2>1
  <2>6. Delivers(c, t) BY <1>2, <1>7, <1>8, <2>2, <2>5 DEF Delivers
  <2>7. PICK p \in {"drop", "idle"} : Goes(t, c, p) BY <1>5, <1>8
  <2> QED BY <2>4, <2>6, <2>7, GoesEnds
<1>9. CASE c.op # "SetLength"
  <2>1. c.op \in {"Init", "Reserve"} /\ var[v] = Nil /\ n > 0
    BY <1>2, <1>3, <1>9 DEF At
  <2>2. Return(t, c) BY <1>5, <1>9, <2>1
  <2>3. CASE c.chars = NoOne
    <3>1. Goes(t, c, "fill") BY <2>2, <2>3 DEF Return
    <3>2. At(c, "fill", t)' BY <1>2, <1>3, <1>7, <2>1, <2>3 DEF At, Sharing, Releasing
    <3> QED BY <3>1, <3>2, GoesEnds
  <2>4. CASE c.chars # NoOne
    <3>1. Goes(t, c, "idle") BY <2>2, <2>4 DEF Return
    <3>2. c.op = "Init" /\ c.chars = t BY <1>3, <2>1, <2>4 DEF At
    <3>3. x = [by |-> t, n |-> (c.length * c.width) \div Width]
      BY <1>4, <1>9, <2>4, <3>2 DEF NewText
    <3>4. x.by = t /\ x.n = n
      BY <1>2, <1>3, <3>3, Whole DEF IInv, Typed, TypeOK
    <3>5. n # 0 BY <2>1
    <3>6. Delivers(c, t) BY <1>2, <1>7, <3>2, <3>4, <3>5 DEF Delivers
    <3> QED BY <3>1, <3>6, GoesEnds
  <2> QED BY <2>3, <2>4
<1> QED BY <1>8, <1>9

LEMMA FillsOn ==
    ASSUME IInv, Room, Private, NEW t \in Threads, Kept(t), NEW c, c = call[t],
           NEW n \in Int, Fill(t, n)
    PROVE  Ends(c, t)
<1>1. pc[t] = "fill" /\ ~Idle(t) /\ UNCHANGED <<var, refs, head>> BY DEF Fill, Idle
<1>2. PICK v \in Vars : v = c.v BY <1>1, InCall
<1>3. At(c, "fill", t) /\ c.length \in Int BY <1>1, InCall
<1>4. var[v] # Nil BY <1>2, <1>3 DEF At
<1>5. PICK b \in Blocks : b = var[v] BY <1>4 DEF IInv, Typed, TypeOK
<1>6. text' = [text EXCEPT ![b] = [by |-> t, n |-> n]] BY <1>2, <1>5 DEF Fill
<1>7. text'[b].by = t /\ text'[b].n = n BY <1>6 DEF Private, Memory
<1>8. Value(v)' = [len |-> head[b].len, by |-> t, n |-> n] /\ Value(v).len = head[b].len
  BY <1>1, <1>4, <1>5, <1>7 DEF Value
<1>9. CASE c.op = "Reserve"
  <2>1. PICK d : d = [c EXCEPT !.length = n] OBVIOUS
  <2>2. n > 0 /\ Goes(t, d, "cut") BY <1>3, <1>9, <2>1 DEF Fill
  <2>3. /\ DOMAIN d = Fields
        /\ d.op = "Reserve" /\ d.v = v /\ d.length = n /\ d.chars = NoOne
    <3>1. DOMAIN c = Fields /\ c.chars = NoOne BY <1>3, <1>9 DEF At
    <3>2. d = [f \in Fields |-> IF f = "length" THEN n ELSE c[f]]
      BY <2>1, <3>1 DEF Fields
    <3> QED BY <1>2, <1>9, <3>1, <3>2 DEF Fields
  <2>4. Alone(v) BY <1>1, <1>2, <1>9 DEF Private, Writes, InPlace
  <2>5. Alone(v)' BY <1>1, <2>4 DEF Alone
  <2>6. At(d, "cut", t)' BY <1>1, <1>4, <1>8, <2>2, <2>3, <2>5 DEF At, Sharing, Releasing
  <2> QED BY <2>2, <2>6, GoesEnds
<1>10. CASE c.op # "Reserve"
  <2>1. c.op = "Init" /\ Value(v).len = c.length /\ c.length > 0
    BY <1>2, <1>3, <1>10 DEF At
  <2>2. PICK d : Goes(t, d, "idle") BY <1>10 DEF Fill
  <2>3. n = c.length BY <1>10 DEF Fill
  <2>4. c.length # 0 BY <1>3, <2>1
  <2>5. Delivers(c, t) BY <1>2, <1>8, <2>1, <2>3, <2>4 DEF Delivers
  <2> QED BY <2>2, <2>5, GoesEnds
<1> QED BY <1>9, <1>10

LEMMA CutsOn ==
    ASSUME IInv, Room, NEW t \in Threads, Kept(t), NEW c, c = call[t], Cut(t), kind # "WStr"
    PROVE  Ends(c, t)
<1>1. pc[t] = "cut" /\ ~Idle(t) BY DEF Cut, Idle
<1>2. PICK v \in Vars, n \in Int : v = c.v /\ n = c.length BY <1>1, InCall
<1>3. At(c, "cut", t) BY <1>1, InCall
<1>4. /\ c.op = "Reserve" /\ n > 0 /\ var[v] # Nil /\ Value(v).by = t /\ Value(v).n = n
  BY <1>2, <1>3 DEF At
<1>5. PICK d : d = Call("SetLength", v, v, n, NoOne, Width) OBVIOUS
<1>6. d.op = "SetLength" /\ d.length = n BY <1>5, CallFields
<1>7. SetLengthCall(t, v, n) BY <1>2 DEF Cut
<1>8. Kept(t)' BY <1>7, SetLengthKept
<1>9. CASE SetLengthKeep(t, v, d)
  <2>1. Goes(t, d, "idle") /\ UNCHANGED <<var, head, text>> /\ head[var[v]].len = n
    BY <1>6, <1>9 DEF SetLengthKeep
  <2>2. Value(v)' = Value(v) /\ Value(v) = [len |-> n, by |-> t, n |-> n]
    BY <1>4, <2>1 DEF Value
  <2>3. n # 0 BY <1>4
  <2>4. Delivers(c, t) BY <1>2, <1>4, <2>2, <2>3 DEF Delivers
  <2> QED BY <2>1, <2>4, GoesEnds
<1>10. CASE ~SetLengthKeep(t, v, d)
  <2>1. Goes(t, d, "alloc")
    BY <1>4, <1>5, <1>6, <1>7, <1>10 DEF SetLengthCall, SetLengthAlloc, StartAlloc, EmptyOut
  <2>2. call'[t] = d BY <2>1, GoesOn DEF IInv
  <2> QED BY <1>6, <1>8, <2>2 DEF Ends
<1> QED BY <1>9, <1>10

(* The SetLength behind the Reserve of a wide string ends the call.        *)
LEMMA WideCutKept ==
    ASSUME IInv, NEW t \in Threads, Cut(t), kind = "WStr"
    PROVE  Kept(t)'
<1>1. Fails(t) \/ \E d : Goes(t, d, "idle") BY DEF Cut, WStrSetLengthCall
<1> QED BY <1>1, KeptFails, KeptAt

-----------------------------------------------------------------------------
(* All calls, all steps.                                                   *)

AllKept == \A t \in Threads : Kept(t)

LEMMA StepEnds ==
    ASSUME IInv, IInv', Room, Private, NEW t \in Threads, Kept(t), Step(t)
    PROVE  /\ Kept(t)'
           /\ \A c \in {call[t]} :
                call'[t].op = "returned" /\ ~(kind = "WStr" /\ pc[t] = "cut") => Delivers(c, t)
<1>1. PICK c : c = call[t] OBVIOUS
<1>2. Lengths[kind] \subseteq Int BY ConstantsAssumption DEF Room
<1>3. CASE Cut(t) /\ kind = "WStr" BY <1>3, WideCutKept DEF Cut
<1>4. CASE ~(Cut(t) /\ kind = "WStr")
  <2>1. CASE Drop(t) \/ DropTest(t) \/ Decrement(t) BY <1>1, <2>1, DropsOn DEF Ends
  <2>2. CASE FreeMem(t) BY <1>1, <2>2, FreesOn DEF Ends, Private
  <2>3. CASE Share(t) BY <1>1, <2>3, SharesOn DEF Ends
  <2>4. CASE StoreTwo(t) \/ Increment(t) BY <1>1, <2>4, TakesOn DEF Ends
  <2>5. CASE Alloc(t) BY <1>1, <2>5, AllocsOn DEF Ends, Private
  <2>6. CASE AllocFails(t) BY <1>1, <2>6, FailsEnds DEF Ends, AllocFails
  <2>7. CASE \E n \in Lengths[kind] : Fill(t, n)
    BY <1>1, <1>2, <2>7, FillsOn DEF Ends, Private
  <2>8. CASE Cut(t) BY <1>1, <1>4, <2>8, CutsOn DEF Ends
  <2> QED BY <2>1, <2>2, <2>3, <2>4, <2>5, <2>6, <2>7, <2>8 DEF Step
<1> QED BY <1>3, <1>4

LEMMA OperationKept ==
    ASSUME IInv, Memory, NEW t \in Threads, NEW v \in Vars, Operation(t, v)
    PROVE  Kept(t)'
<1>1. ASSUME \/ AStrClear(t, v) \/ UStrClear(t, v) \/ CStrClear(t, v)
             \/ final_string(t, v)
      PROVE  Kept(t)'
  BY <1>1, ClearKept DEF AStrClear, UStrClear, CStrClear, final_string
<1>2. ASSUME NEW length,
             AStrReserve(t, v, length) \/ UStrReserve(t, v, length) \/ CStrReserve(t, v, length)
      PROVE  Kept(t)'
  BY <1>2, ReserveKept DEF AStrReserve, UStrReserve, CStrReserve
<1>3. ASSUME NEW length,
             \/ AStrSetLength(t, v, length) \/ UStrSetLength(t, v, length)
             \/ CStrSetLength(t, v, length)
      PROVE  Kept(t)'
  BY <1>3, SetLengthKept
     DEF AStrSetLength, UStrSetLength, CStrSetLength, StartSetLength
<1>4. ASSUME NEW length, NEW chars \in {NoOne, t},
             \/ AStrInit(t, v, length, chars) \/ UStrInit(t, v, length, chars)
             \/ CStrInit(t, v, length, chars)
      PROVE  Kept(t)'
  BY <1>4, InitKept DEF AStrInit, UStrInit, CStrInit
<1>5. ASSUME NEW length, WStrSetLength(t, v, length) PROVE Kept(t)'
  <2>1. Fails(t) \/ \E d : Goes(t, d, "idle") BY <1>5 DEF WStrSetLength, WStrSetLengthCall
  <2> QED BY <2>1, KeptFails, KeptAt
<1>6. ASSUME NEW src, copy_widestring(t, v, src) PROVE Kept(t)'
  <2>1. \E d : Goes(t, d, "idle") BY <1>6 DEF copy_widestring
  <2> QED BY <2>1, KeptAt
<1>7. ASSUME WStrClear(t, v) PROVE Kept(t)'
  BY <1>7 DEF WStrClear, CanCall, Kept, Idle
<1> QED BY <1>1, <1>2, <1>3, <1>4, <1>5, <1>6, <1>7, WideReserveKept, WideInitKept, CopyKept
        DEF Operation

(* A thread whose call ends with a result has delivered it.                *)
LEMMA NextDelivers ==
    ASSUME IInv, IInv', Room, Private, AllKept, [Next]_vars
    PROVE  /\ AllKept'
           /\ \A t \in Threads : \A c \in {call[t]} :
                /\ ~Idle(t)
                /\ call'[t].op = "returned"
                /\ ~(kind = "WStr" /\ pc[t] = "cut")
                => Delivers(c, t) \/ UNCHANGED vars
<1>1. CASE UNCHANGED vars
  <2>1. UNCHANGED <<pc, call, var, refs, head, text>> BY <1>1 DEF vars
  <2>2. \A v : Value(v)' = Value(v) /\ Alone(v)' = Alone(v) BY <2>1 DEF Value, Alone
  <2> QED BY <1>1, <2>1, <2>2 DEF AllKept, Kept, At, Gave, Idle
<1>2. CASE Next
  <2>1. PICK t \in Threads : Step(t) \/ \E v \in Vars : Operation(t, v) BY <1>2 DEF Next
  <2>2. PICK w \in Vars : Tidy(t, w)
    BY <2>1, StepTidy, OperationTidy DEF Private
  <2>3. ASSUME NEW u \in Threads \ {t}
        PROVE  Kept(u)' /\ (~Idle(u) => call'[u].op # "returned")
    <3>1. Kept(u)' BY <2>2, KeptByOthers DEF AllKept
    <3>2. ~Idle(u) => call'[u].op # "returned"
      BY <2>2 DEF Tidy, Calls, AllKept, Kept, At
    <3> QED BY <3>1, <3>2
  <2>4. CASE Step(t)
    BY <2>3, <2>4, StepEnds DEF AllKept
  <2>5. CASE \E v \in Vars : Operation(t, v)
    <3>1. Kept(t)' BY <2>5, OperationKept DEF Private
    <3>2. Idle(t)
      BY <2>5 DEF Operation, AStrClear, UStrClear, CStrClear, WStrClear, final_string,
         StartClear, AStrReserve, UStrReserve, CStrReserve, WStrReserve, StartReserve,
         AStrSetLength, UStrSetLength, CStrSetLength, WStrSetLength, StartSetLength,
         AStrInit, UStrInit, CStrInit, WStrInit, StartInit, copy_string, copy_widestring,
         CanCall
    <3> QED BY <2>3, <3>1, <3>2 DEF AllKept
  <2> QED BY <2>1, <2>4, <2>5
<1> QED BY <1>1, <1>2

(* Whatever the other threads do meanwhile, a call of several steps that   *)
(* does not fail leaves in its variable what it is for: nothing (Clear),   *)
(* the source's string (copy), the characters given or written (Init,      *)
(* Reserve), the old ones up to the new length (SetLength); a string that  *)
(* is copied or kept may have been replaced meanwhile by another thread's  *)
(* Init into the shared block.  Under the conditions of the theorem above. *)
THEOREM CallsAreKept ==
    ASSUME ~SharedReads, "UStr_new86" \notin Kinds
    PROVE  Spec => CallsDeliver
<1>1. Init => Room /\ Private /\ AllKept
  BY InitRoomy, InitPrivate DEF Init, AllKept, Kept, Idle
<1>2. IInv /\ Room /\ [Next]_vars => Room' BY NextRoom
<1>3. IInv /\ IInv' /\ Room /\ Private /\ [Next]_vars => Private' BY NextTidy
<1>4. IInv /\ IInv' /\ Room /\ Private /\ AllKept /\ [Next]_vars => AllKept'
  BY NextDelivers
<1>5. IInv /\ IInv' /\ Room /\ Private /\ AllKept /\ [Next]_vars =>
        [\A t \in Threads : \A c \in {call[t]} :
           /\ ~Idle(t)
           /\ call'[t].op = "returned"
           /\ ~(kind = "WStr" /\ pc[t] = "cut")
           => Delivers(c, t)]_vars
  BY NextDelivers
<1> QED BY <1>1, <1>2, <1>3, <1>4, <1>5, Invariant, PTL DEF Spec, CallsDeliver

=============================================================================

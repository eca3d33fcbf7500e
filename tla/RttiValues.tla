------------------------------ MODULE RttiValues ------------------------------
(***************************************************************************)
(* Managed values as tiny.rtti.c copies and finalizes them: interfaces,    *)
(* objects with a reference counter, weak references to both, the value    *)
(* type of the library and dynamic arrays of managed elements.             *)
(*                                                                         *)
(* A slot is a variable of such a type: a root, or a field or element of   *)
(* an object.  Giving back the last reference destroys the object: its     *)
(* destructor runs, which is the user's code and may copy and finalize     *)
(* values itself; then its fields are finalized, which may destroy other   *)
(* objects.  The calls under way are a stack.  The weak-reference table,   *)
(* instances and their counters belong to the run-time library.            *)
(***************************************************************************)
EXTENDS Integers, Sequences, FiniteSets

CONSTANTS
    Objects,        \* instances and array blocks
    Roots,          \* slots outside of objects
    Fields,         \* object -> its slots
    Type,           \* slot -> its type
    Family,         \* object -> the strong type that refers to it
    Data,           \* what a value holds that is not a reference
    Nil, Dummy,     \* no object; the mark of a value without a reference
    Fpc,            \* FreePascal (CompilerMode 0) or Delphi
    WEAKINTFREF,    \* weak interface references exist
    WEAKINSTREF     \* objects are counted and have weak references

Slots == Roots \cup UNION {Fields[o] : o \in Objects}

(* The strong type of a slot that is a weak reference.                     *)
StrongType(slot) ==
    CASE Type[slot] = "weakinterface" -> "interface"
      [] Type[slot] = "weakrefobject" -> "refobject"
      [] OTHER -> Type[slot]

ASSUME ConstantsAssumption ==
    /\ Type \in [Slots -> {"interface", "weakinterface", "refobject", "weakrefobject",
                           "value", "dynarray"}]
    /\ Family \in [Objects -> {"interface", "refobject", "dynarray"}]
    /\ Nil \notin Objects /\ Dummy \notin Objects /\ Nil # Dummy

(* A field belongs to one object.                                          *)
ASSUME FieldsAssumption ==
    /\ IsFiniteSet(Slots)
    /\ \A o \in Objects :
         /\ Fields[o] \cap Roots = {}
         /\ \A p \in Objects : p # o => Fields[o] \cap Fields[p] = {}

VARIABLES
    slot,       \* slot -> the object it refers to, Nil, or Dummy
    data,       \* value slot -> its type and buffer
    refs,       \* object -> its reference counter
    state,      \* object -> "free", "alive" or "dying"
    told,       \* weak slots the weak-reference table knows
    stack       \* calls under way: references to give back, objects to destroy

valueVars == <<slot, data, refs, state, told, stack>>

(* The program that makes a call is the outermost one, or the destructor   *)
(* on top of the stack: that is one operation of the user's code.          *)
Destructor(o) == stack # <<>> /\ Head(stack).op = "destructor" /\ Head(stack).object = o
Push(frames) == frames \o (IF stack = <<>> THEN <<>> ELSE Tail(stack))
Giving(o) == <<[op |-> "release", object |-> o, left |-> {}]>>
IsObject(x) == x \in Objects

-----------------------------------------------------------------------------
(* init_library: which functions the tables hold, and the rules by which a *)
(* type chooses one.                                                       *)

WeakInterfaceCopy_Native == "copy_native"

WeakInterfaceCopy ==
    IF Fpc THEN "copy_interface"
    ELSE IF ~WEAKINSTREF THEN "copy_native"
    ELSE IF ~WEAKINTFREF THEN "copy_interface"
    ELSE "copy_weakinterface"

WeakInterfaceFinal ==
    IF Fpc \/ ~WEAKINTFREF THEN "final_interface" ELSE "final_weakinterface"

RefObjectCopy == IF Fpc \/ ~WEAKINSTREF THEN "copy_native" ELSE "copy_refobject"
RefObjectFinal == IF Fpc \/ ~WEAKINSTREF THEN "none_func" ELSE "final_refobject"
WeakRefObjectCopy == IF Fpc THEN "copy_native" ELSE "copy_weakrefobject"
WeakRefObjectFinal == IF Fpc \/ ~WEAKINSTREF THEN "none_func" ELSE "final_weakrefobject"

CopyFunc(target) ==
    CASE Type[target] = "interface" -> "copy_interface"
      [] Type[target] = "weakinterface" ->
           IF WEAKINTFREF THEN WeakInterfaceCopy ELSE "copy_interface"
      [] Type[target] = "refobject" -> RefObjectCopy
      [] Type[target] = "weakrefobject" -> WeakRefObjectCopy
      [] Type[target] = "value" -> "copy_value"
      [] Type[target] = "dynarray" -> "copy_fulldynarray"

FinalFunc(target) ==
    CASE Type[target] = "interface" -> "final_interface"
      [] Type[target] = "weakinterface" ->
           IF WEAKINTFREF THEN WeakInterfaceFinal ELSE "final_interface"
      [] Type[target] = "refobject" -> RefObjectFinal
      [] Type[target] = "weakrefobject" -> WeakRefObjectFinal
      [] Type[target] = "value" -> "final_value"
      [] Type[target] = "dynarray" -> "final_fulldynarray"

(* The functions that keep a reference of their own in the slot.           *)
Counting == {"copy_interface", "copy_refobject", "copy_fulldynarray"}
Releasing == {"final_interface", "final_refobject", "final_fulldynarray"}

-----------------------------------------------------------------------------
(* Copying.  A copy whose slots refer to the same object does nothing.     *)

(* AddRef of the new reference, the store, Release of the old one.         *)
AddRef(o) == refs' = [refs EXCEPT ![o] = @ + 1]

Release(o) == stack' = Push(IF IsObject(o) THEN Giving(o) ELSE <<>>)

CopyCounted_ReleaseFirst(target, source) ==
    LET t == slot[target]
        s == slot[source]
    IN  /\ CopyFunc(target) \in Counting
        /\ t # s
        /\ IF IsObject(s) /\ ~IsObject(t) THEN AddRef(s) ELSE UNCHANGED refs
        /\ slot' = [slot EXCEPT ![target] = s]
        /\ Release(t)
        /\ UNCHANGED <<data, state, told>>

CopyCounted(target, source) ==
    LET t == slot[target]
        s == slot[source]
    IN  /\ CopyFunc(target) \in Counting
        /\ t # s
        /\ IF IsObject(s) THEN AddRef(s) ELSE UNCHANGED refs
        /\ slot' = [slot EXCEPT ![target] = s]
        /\ Release(t)
        /\ UNCHANGED <<data, state, told>>

copy_value_SameDummy(target, source) ==
    LET t == slot[target]
        s == slot[source]
    IN  /\ CopyFunc(target) = "copy_value"
        /\ data' = [data EXCEPT ![target].type = data[source].type,
                      ![target].buffer = IF s = Dummy /\ t # s THEN data[source].buffer ELSE @]
        /\ slot' = [slot EXCEPT ![target] = s]
        /\ IF IsObject(s) /\ t # s THEN AddRef(s) ELSE UNCHANGED refs
        /\ Release(IF t # s THEN t ELSE Nil)
        /\ UNCHANGED <<state, told>>

(* The value type: a value without a reference has its data in the buffer. *)
copy_value(target, source) ==
    LET t == slot[target]
        s == slot[source]
    IN  /\ CopyFunc(target) = "copy_value"
        /\ data' = [data EXCEPT ![target].type = data[source].type,
                                ![target].buffer = IF s = Dummy THEN data[source].buffer ELSE @]
        /\ slot' = [slot EXCEPT ![target] = s]
        /\ IF t = s THEN UNCHANGED refs /\ Release(Nil)
           ELSE /\ IF IsObject(s) THEN AddRef(s) ELSE UNCHANGED refs
                /\ Release(t)
        /\ UNCHANGED <<state, told>>

(* A slot that is not counted: copy_weakinterface and copy_weakrefobject    *)
(* have the run-time library keep its table of them; copy_data8 copies the *)
(* pointer and nothing else.                                               *)
CopyPlain(target, source) ==
    /\ CopyFunc(target) \in {"copy_weakinterface", "copy_weakrefobject", "copy_native"}
    /\ slot[target] # slot[source]
    /\ slot' = [slot EXCEPT ![target] = slot[source]]
    /\ told' = IF CopyFunc(target) = "copy_native" THEN told
               ELSE IF slot[source] = Nil THEN told \ {target} ELSE told \cup {target}
    /\ Release(Nil)
    /\ UNCHANGED <<data, refs, state>>

-----------------------------------------------------------------------------
(* Finalizing: forget the reference, then give it back.                    *)

(* What finalizing the slot f leaves: the slot, the table and the frames   *)
(* the call adds.                                                          *)
Finalized(f) == [slot EXCEPT ![f] = IF FinalFunc(f) = "none_func" THEN @ ELSE Nil]
ToldAfter(f) == IF FinalFunc(f) \in {"final_weakinterface", "final_weakrefobject"}
                THEN told \ {f} ELSE told
GivenBack(f) == IF FinalFunc(f) \in Releasing \cup {"final_value"} /\ IsObject(slot[f])
                THEN Giving(slot[f]) ELSE <<>>

Final(target) ==
    /\ slot[target] # Nil
    /\ slot' = Finalized(target)
    /\ told' = ToldAfter(target)
    /\ stack' = Push(GivenBack(target))
    /\ UNCHANGED <<data, refs, state>>

-----------------------------------------------------------------------------
(* Programs: which slots a program may touch, and what it does to them.    *)

InUse(f) == f \in Roots \/ \E o \in Objects : f \in Fields[o] /\ (state[o] = "alive" \/ Destructor(o))

(* The program makes an object, or a value without a reference.            *)
Create(target) ==
    \E o \in Objects :
      /\ state[o] = "free" /\ slot[target] = Nil
      /\ Type[target] = Family[o]
      /\ state' = [state EXCEPT ![o] = "alive"]
      /\ refs' = [refs EXCEPT ![o] = 1]
      /\ slot' = [f \in Slots |-> IF f = target THEN o ELSE IF f \in Fields[o] THEN Nil ELSE slot[f]]
      /\ told' = told \ Fields[o]
      /\ Release(Nil)
      /\ UNCHANGED data

(* Plain data: every member of Data is of a type of its own.               *)
Fill(target) ==
    \E d \in Data :
      /\ Type[target] = "value" /\ slot[target] \in {Nil, Dummy}
      /\ slot' = [slot EXCEPT ![target] = Dummy]
      /\ data' = [data EXCEPT ![target] = [type |-> d, buffer |-> d]]
      /\ Release(Nil)
      /\ UNCHANGED <<refs, state, told>>

(* A value that holds an interface.                                        *)
Box(target, source) ==
    /\ Type[target] = "value" /\ slot[target] = Nil
    /\ Type[source] = "interface" /\ slot[source] # Nil
    /\ slot' = [slot EXCEPT ![target] = slot[source]]
    /\ data' = [data EXCEPT ![target].type = "interface"]
    /\ AddRef(slot[source])
    /\ Release(Nil)
    /\ UNCHANGED <<state, told>>

Operation ==
    \E target \in Slots :
      /\ InUse(target)
      /\ \/ Create(target) \/ Fill(target) \/ Final(target)
         \/ \E source \in Slots :
              /\ InUse(source)
              /\ \/ Box(target, source)
                 \/ /\ StrongType(source) = StrongType(target)
                    /\ \/ CopyCounted(target, source) \/ copy_value(target, source)
                       \/ CopyPlain(target, source)

-----------------------------------------------------------------------------
(* The call on top of the stack.                                           *)

Instead(frames) == stack' = Push(frames)
OnTop(op) == stack # <<>> /\ Head(stack).op = op

(* A reference is given back, not the last one.                            *)
StillHeld ==
    /\ OnTop("release")
    /\ refs[Head(stack).object] > 1
    /\ refs' = [refs EXCEPT ![Head(stack).object] = @ - 1]
    /\ Instead(<<>>)
    /\ UNCHANGED <<slot, data, state, told>>

(* The last one: weak references become Nil, the destructor begins.        *)
Destroy ==
    /\ OnTop("release")
    /\ refs[Head(stack).object] = 1
    /\ LET o == Head(stack).object
           weak == {f \in told : slot[f] = o}
       IN  /\ refs' = [refs EXCEPT ![o] = 0]
           /\ state' = [state EXCEPT ![o] = "dying"]
           /\ slot' = [f \in Slots |-> IF f \in weak THEN Nil ELSE slot[f]]
           /\ told' = told \ weak
           /\ Instead((IF Family[o] = "dynarray" THEN <<>>
                       ELSE <<[op |-> "destructor", object |-> o, left |-> {}]>>)
                      \o <<[op |-> "destroy", object |-> o, left |-> Fields[o]]>>)
    /\ UNCHANGED data

(* A destructor runs code of the user, which may make a call or not; array *)
(* blocks have none.                                                       *)
Callback == OnTop("destructor") /\ Operation

DestructorEnds ==
    /\ OnTop("destructor")
    /\ Instead(<<>>)
    /\ UNCHANGED <<slot, data, refs, state, told>>

(* SysFinalArray, SysFinalStruct: the fields one after the other.          *)
FinalField ==
    /\ OnTop("destroy")
    /\ \E f \in Head(stack).left :
         /\ slot' = Finalized(f)
         /\ told' = ToldAfter(f)
         /\ Instead(GivenBack(f) \o <<[Head(stack) EXCEPT !.left = @ \ {f}]>>)
    /\ UNCHANGED <<data, refs, state>>

FreeMem ==
    /\ OnTop("destroy")
    /\ Head(stack).left = {}
    /\ state' = [state EXCEPT ![Head(stack).object] = "free"]
    /\ Instead(<<>>)
    /\ UNCHANGED <<slot, data, refs, told>>

Call == stack = <<>> /\ Operation
Continue == StillHeld \/ Destroy \/ DestructorEnds \/ FinalField \/ FreeMem

ValuesInit ==
    /\ slot = [f \in Slots |-> Nil]
    /\ data = [f \in {g \in Slots : Type[g] = "value"} |->
                 [type |-> "none", buffer |-> CHOOSE d \in Data : TRUE]]
    /\ refs = [o \in Objects |-> 0]
    /\ state = [o \in Objects |-> "free"]
    /\ told = {}
    /\ stack = <<>>

ValuesNext == Call \/ Callback \/ Continue

ValuesSpec == ValuesInit /\ [][ValuesNext]_valueVars

-----------------------------------------------------------------------------
(* Properties.                                                             *)

(* Strong slots that refer to o: those of living objects, and those of a   *)
(* dying one that are still to be finalized.                               *)
HeldBy(o) ==
    {f \in Slots :
       /\ slot[f] = o
       /\ FinalFunc(f) \in Releasing \cup {"final_value"}
       /\ \/ InUse(f)
          \/ \E i \in DOMAIN stack : stack[i].op = "destroy" /\ f \in stack[i].left}

GivingBack(o) == {i \in DOMAIN stack : stack[i].op = "release" /\ stack[i].object = o}

(* Every object that is alive has as many references as its counter says,  *)
(* also while destructors run, call back and release each other: none is   *)
(* destroyed twice and none is lost.                                       *)
CountsReferences ==
    \A o \in Objects : state[o] = "alive" =>
        /\ refs[o] = Cardinality(HeldBy(o)) + Cardinality(GivingBack(o))
        /\ refs[o] > 0

(* No variable refers to an object that is destroyed, neither strongly nor *)
(* weakly: what a destructor, or the code after it, finds in a variable    *)
(* can be used.                                                            *)
NothingDangles ==
    \A f \in Slots : (InUse(f) /\ IsObject(slot[f])) => state[slot[f]] = "alive"

(* A copied value is equal to its source.                                  *)
CopiedValuesAreEqual ==
    [][\A target, source \in {f \in Slots : Type[f] = "value"} :
         copy_value(target, source) =>
           /\ slot'[target] = slot[source]
           /\ data'[target].type = data[source].type
           /\ slot[source] = Dummy => data'[target].buffer = data[source].buffer]_valueVars

=============================================================================

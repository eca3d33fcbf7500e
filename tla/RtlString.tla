------------------------------ MODULE RtlString ------------------------------
(***************************************************************************)
(* Strings of the Delphi and FreePascal run-time libraries as the C code   *)
(* handles them (tiny.types.c: AStr, UStr, CStr and WStr Clear, Init,      *)
(* Reserve, SetLength; tiny.rtti.c: final_string, copy_string and their    *)
(* wide-string relatives).  A string variable points to a block            *)
(* with a reference counter and a length in front of its characters.       *)
(* Blocks are shared by variables of several threads: every access to the  *)
(* counter of a block is a step of its own, everything a thread does to    *)
(* memory only it can reach is part of the neighbouring step.  Characters  *)
(* are abstracted to who wrote them and how many of them are defined.      *)
(***************************************************************************)
EXTENDS Integers, FiniteSets

CONSTANTS
    Threads,        \* the threads that call the library
    Vars,           \* string variables
    Owner,          \* the thread a variable belongs to
    Blocks,         \* addresses the memory manager can hand out
    Literals,       \* blocks of the program's image: counter -1, never freed
    LiteralKinds,   \* the layouts that have literals
    Kinds,          \* the layouts under test, names of the table Layout
    Lengths,        \* layout -> lengths the callers ask for
    LiteralLength,  \* the length of the literals
    SharedReads,    \* may two threads copy from one variable at a time?
    Nil,            \* the null pointer
    NoOne           \* the author of characters nobody has written

ASSUME ConstantsAssumption ==
    /\ Owner \in [Vars -> Threads]
    /\ Literals \subseteq Blocks
    /\ Lengths \in [Kinds -> SUBSET Nat]
    /\ LiteralLength \in Nat \ {0}
    /\ SharedReads \in BOOLEAN
    /\ Nil \notin Blocks
    /\ NoOne \notin Threads
    /\ IsFiniteSet(Threads)
    /\ IsFiniteSet(Vars)

VARIABLES
    kind,   \* the layout of all strings of this behaviour
    var,    \* variable -> the block it points to, or Nil
    live,   \* the blocks that are allocated
    refs,   \* block -> its reference counter
    head,   \* block -> [len, size]: the length it states, the bytes it has
    text,   \* block -> [by, n]: its first n characters were written by "by"
    pc,     \* thread -> where it is
    call,   \* thread -> the call it is in, or the last one it was in
    hand    \* thread -> the block whose reference it is about to give back

vars == <<kind, var, live, refs, head, text, pc, call, hand>>

Least(a, b) == IF a < b THEN a ELSE b

-----------------------------------------------------------------------------
(* The memory manager frees block b: what it held is nobody's any more.    *)
Release(b) ==
    /\ live' = live \ {b}
    /\ refs' = [refs EXCEPT ![b] = 0]
    /\ head' = [head EXCEPT ![b] = [len |-> 0, size |-> 0]]
    /\ text' = [text EXCEPT ![b] = [by |-> NoOne, n |-> 0]]

-----------------------------------------------------------------------------
(* Layouts: the width of a character as the markup macros write the        *)
(* terminator; the width Init takes it to be, the size of what its         *)
(* argument points to; whether addref and release first test that the      *)
(* counter is positive.                                                    *)

Layout ==
    [AStr_new     |-> [width |-> 1, initwidth |-> 1, tested |-> TRUE],
     AStr_nextgen |-> [width |-> 1, initwidth |-> 1, tested |-> TRUE],
     AStr_fpc     |-> [width |-> 1, initwidth |-> 1, tested |-> TRUE],
     UStr_new     |-> [width |-> 2, initwidth |-> 2, tested |-> TRUE],
     UStr_fpc     |-> [width |-> 2, initwidth |-> 2, tested |-> TRUE],
     UStr_new86   |-> [width |-> 2, initwidth |-> 1, tested |-> TRUE],
     CStr         |-> [width |-> 4, initwidth |-> 4, tested |-> TRUE],
     CStr_fpc     |-> [width |-> 4, initwidth |-> 4, tested |-> FALSE],
     WStr         |-> [width |-> 2, initwidth |-> 2, tested |-> TRUE]]

(* Constant strings exist for the string types of the compilers, whose     *)
(* counters are tested; wide strings are never shared with the image.      *)
ASSUME KindsAssumption ==
    /\ Kinds \subseteq DOMAIN Layout
    /\ \A k \in LiteralKinds :
         k \in DOMAIN Layout /\ Layout[k].tested /\ k # "WStr"

AStrs == {"AStr_new", "AStr_nextgen", "AStr_fpc"}
UStrs == {"UStr_new", "UStr_fpc", "UStr_new86"}
CStrs == {"CStr", "CStr_fpc"}

Width == Layout[kind].width
InitWidth == Layout[kind].initwidth
Tested == Layout[kind].tested

(* Growing a block in place is worth it when it is small or nearly large   *)
(* enough.                                                                 *)
HintRealloc(reclen, width, length) ==
    \/ reclen >= length
    \/ reclen <= 32 \div width
    \/ reclen >= (length * 3) \div 4

-----------------------------------------------------------------------------
(* Calls.                                                                  *)

Sharing == {"share", "store", "inc"}
Releasing == {"drop", "drop2", "dec", "free", "freelast"}
Idle(t) == pc[t] = "idle"

(* Nobody copies from v; nobody is in a call that changes v.               *)
NotLent(v) == \A u \in Threads : pc[u] \in Sharing => call[u].src # v
NotBusy(v) == \A u \in Threads : ~Idle(u) => call[u].v # v

Empty == [len |-> 0, by |-> NoOne, n |-> 0]

Value(v) ==
    IF var[v] = Nil THEN Empty
    ELSE [len |-> head[var[v]].len, by |-> text[var[v]].by, n |-> text[var[v]].n]

(* A call for the variable v that reads the string src, v itself unless it *)
(* is a copy; those that keep characters remember what they met.           *)
Call(op, v, src, length, chars, width) ==
    [op |-> op, v |-> v, src |-> src, length |-> length, chars |-> chars,
     width |-> width,
     old |-> IF op \in {"Copy", "SetLength"} THEN Value(src) ELSE Empty]

(* No call, after one that did what it is for (returned) or did not.       *)
NoCall(op) ==
    [op |-> op, v |-> Nil, src |-> Nil, length |-> 0, chars |-> NoOne,
     width |-> 0, old |-> Empty]

(* Thread t has the call c before it and goes on at place p, or is done.   *)
Goes(t, c, p) ==
    /\ pc' = [pc EXCEPT ![t] = p]
    /\ call' = [call EXCEPT ![t] = IF p = "idle" THEN NoCall("returned") ELSE c]
Fails(t) ==
    /\ pc' = [pc EXCEPT ![t] = "idle"]
    /\ call' = [call EXCEPT ![t] = NoCall("failed")]

(* Thread t may start a call that changes its variable v.                  *)
CanCall(t, v) == Idle(t) /\ Owner[v] = t /\ NotLent(v)

(* In the call c, t starts giving back the reference of its variable v.    *)
Replace(t, v, c) ==
    /\ var' = [var EXCEPT ![v] = Nil]
    /\ hand' = [hand EXCEPT ![t] = var[v]]
    /\ Goes(t, c, "drop")
    /\ UNCHANGED <<kind, live, refs, head, text>>

(* The pointer the call returns is given to the caller, who fills the      *)
(* characters if the call was not given any.                               *)
Return(t, c) == Goes(t, c, IF c.chars = NoOne THEN "fill" ELSE "idle")

(* rtl_rec_realloc and the markup after it: the characters both lengths    *)
(* have are kept, then overwritten by chars if there are any.              *)
Realloc_NoTerminator(t, v, c) ==
    LET rec == var[v] IN
    /\ head' = [head EXCEPT ![rec] = [len |-> c.length, size |-> c.length * c.width]]
    /\ text' = [text EXCEPT ![rec].n = Least(@, c.length)]
    /\ Return(t, c)
    /\ UNCHANGED <<kind, var, live, refs, hand>>

Realloc(t, v, c) ==
    LET rec == var[v] IN
    \/ /\ head' = [head EXCEPT ![rec] =
                     [len |-> c.length, size |-> (c.length + 1) * c.width]]
       /\ text' = [text EXCEPT ![rec] =
                     IF c.chars = NoOne
                     THEN [@ EXCEPT !.n = Least(@, c.length)]
                     ELSE [by |-> c.chars, n |-> (c.length * c.width) \div Width]]
       /\ Return(t, c)
       /\ UNCHANGED <<kind, var, live, refs, hand>>
    \/ /\ Fails(t)
       /\ UNCHANGED <<kind, var, live, refs, head, text, hand>>

-----------------------------------------------------------------------------
(* Clear: forget the pointer, then release what it pointed to.             *)

StartClear(t, v) ==
    /\ CanCall(t, v)
    /\ var[v] # Nil
    /\ Replace(t, v, Call("Clear", v, v, 0, NoOne, Width))

AStrClear(t, v) == kind \in AStrs /\ StartClear(t, v)
UStrClear(t, v) == kind \in UStrs /\ StartClear(t, v)
CStrClear(t, v) == kind \in CStrs /\ StartClear(t, v)

(* final_string, final_dynarray for the layouts that are dynamic arrays.   *)
final_string(t, v) == kind # "WStr" /\ StartClear(t, v)

-----------------------------------------------------------------------------
(* Init: a string of length characters, copied from chars if given.        *)

(* The length is right: the block is used as it is, and the counter is not *)
(* looked at: what is written shows in every variable that shares it, and  *)
(* in the program's literals.                                              *)
InitSame(t, v, c) ==
    /\ c.length > 0
    /\ var[v] # Nil
    /\ head[var[v]].len = c.length
    /\ text' = [text EXCEPT ![var[v]] =
                  IF c.chars = NoOne THEN @
                  ELSE [by |-> c.chars, n |-> (c.length * c.width) \div Width]]
    /\ Return(t, c)
    /\ UNCHANGED <<kind, var, live, refs, head, hand>>

(* Another length: grow or cut the block if it is ours alone and close     *)
(* enough, otherwise release it and allocate.                              *)
InitOther_Shared(t, v, c) ==
    /\ c.length > 0
    /\ var[v] # Nil
    /\ head[var[v]].len # c.length
    /\ IF HintRealloc(head[var[v]].len, c.width, c.length)
       THEN Realloc(t, v, c)
       ELSE Replace(t, v, c)

InitOther(t, v, c) ==
    /\ c.length > 0
    /\ var[v] # Nil
    /\ head[var[v]].len # c.length
    /\ IF refs[var[v]] = 1 /\ HintRealloc(head[var[v]].len, c.width, c.length)
       THEN Realloc(t, v, c)
       ELSE Replace(t, v, c)

(* No block yet.                                                           *)
StartAlloc(t, v, c) ==
    /\ c.length > 0
    /\ var[v] = Nil
    /\ Goes(t, c, "alloc")
    /\ UNCHANGED <<kind, var, live, refs, head, text, hand>>

(* No characters: the variable becomes empty.                              *)
EmptyOut(t, v, c) ==
    /\ c.length = 0
    /\ var[v] # Nil
    /\ Replace(t, v, Call("Clear", v, v, 0, NoOne, c.width))

StartInit(t, v, length, chars) ==
    LET c == Call("Init", v, v, length, chars, InitWidth)
    IN  /\ CanCall(t, v)
        /\ \/ InitSame(t, v, c)
           \/ InitOther(t, v, c)
           \/ StartAlloc(t, v, c)
           \/ EmptyOut(t, v, c)

AStrInit(t, v, length, chars) == kind \in AStrs /\ StartInit(t, v, length, chars)
UStrInit(t, v, length, chars) == kind \in UStrs /\ StartInit(t, v, length, chars)
CStrInit(t, v, length, chars) == kind \in CStrs /\ StartInit(t, v, length, chars)

-----------------------------------------------------------------------------
(* Reserve: a block of its own with room for length characters, for the    *)
(* caller to fill.                                                         *)

ReserveInPlace(t, v, c) ==
    /\ c.length > 0
    /\ var[v] # Nil
    /\ refs[var[v]] = 1
    /\ \/ /\ head[var[v]].len >= c.length
          /\ Goes(t, c, "fill")
          /\ UNCHANGED <<kind, var, live, refs, head, text, hand>>
       \/ /\ head[var[v]].len < c.length
          /\ HintRealloc(head[var[v]].len, c.width, c.length)
          /\ Realloc(t, v, c)

ReserveReplace(t, v, c) ==
    /\ c.length > 0
    /\ var[v] # Nil
    /\ refs[var[v]] = 1 => /\ head[var[v]].len < c.length
                           /\ ~HintRealloc(head[var[v]].len, c.width, c.length)
    /\ Replace(t, v, c)

StartReserve(t, v, length) ==
    LET c == Call("Reserve", v, v, length, NoOne, Width)
    IN  /\ CanCall(t, v)
        /\ \/ ReserveInPlace(t, v, c)
           \/ ReserveReplace(t, v, c)
           \/ StartAlloc(t, v, c)
           \/ EmptyOut(t, v, c)

AStrReserve(t, v, length) == kind \in AStrs /\ StartReserve(t, v, length)
UStrReserve(t, v, length) == kind \in UStrs /\ StartReserve(t, v, length)
CStrReserve(t, v, length) == kind \in CStrs /\ StartReserve(t, v, length)

-----------------------------------------------------------------------------
(* SetLength: a block of its own with exactly length characters, those     *)
(* there were kept.                                                        *)

SetLengthKeep(t, v, c) ==
    /\ c.length > 0
    /\ var[v] # Nil
    /\ refs[var[v]] = 1
    /\ head[var[v]].len = c.length
    /\ Goes(t, c, "idle")
    /\ UNCHANGED <<kind, var, live, refs, head, text, hand>>

SetLengthAlloc_Released(t, v, c) ==
    /\ c.length > 0
    /\ var[v] # Nil
    /\ refs[var[v]] # 1 \/ head[var[v]].len # c.length
    /\ Replace(t, v, c)

SetLengthAlloc(t, v, c) ==
    /\ c.length > 0
    /\ var[v] # Nil
    /\ refs[var[v]] # 1 \/ head[var[v]].len # c.length
    /\ Goes(t, c, "alloc")
    /\ UNCHANGED <<kind, var, live, refs, head, text, hand>>

SetLengthCall(t, v, length) ==
    LET c == Call("SetLength", v, v, length, NoOne, Width)
    IN  \/ SetLengthKeep(t, v, c)
        \/ SetLengthAlloc(t, v, c)
        \/ StartAlloc(t, v, c)
        \/ EmptyOut(t, v, c)

StartSetLength(t, v, length) == CanCall(t, v) /\ SetLengthCall(t, v, length)

AStrSetLength(t, v, length) == kind \in AStrs /\ StartSetLength(t, v, length)
UStrSetLength(t, v, length) == kind \in UStrs /\ StartSetLength(t, v, length)
CStrSetLength(t, v, length) == kind \in CStrs /\ StartSetLength(t, v, length)

-----------------------------------------------------------------------------
(* Wide strings of Windows (BSTR) are never shared: the memory functions   *)
(* of the system allocate, resize and free them and every call is private  *)
(* to its thread.                                                          *)

(* MMSysStrFree                                                            *)
SysFree(v) ==
    /\ Release(var[v])
    /\ var' = [var EXCEPT ![v] = Nil]

(* MMSysStrAlloc, when it succeeds                                         *)
SysAlloc(v, length, txt) ==
    \E b \in Blocks \ live :
      /\ live' = live \cup {b}
      /\ refs' = [refs EXCEPT ![b] = 1]
      /\ head' = [head EXCEPT ![b] = [len |-> length, size |-> (length + 1) * Width]]
      /\ text' = [text EXCEPT ![b] = txt]
      /\ var' = [var EXCEPT ![v] = b]

(* MMSysStrRealloc, when it succeeds                                       *)
SysRealloc(v, length, txt) ==
    /\ head' = [head EXCEPT ![var[v]] = [len |-> length, size |-> (length + 1) * Width]]
    /\ text' = [text EXCEPT ![var[v]] = txt]
    /\ UNCHANGED <<var, live, refs>>

Unchanged == UNCHANGED <<var, live, refs, head, text>>

WStrClear(t, v) ==
    /\ kind = "WStr" /\ CanCall(t, v)
    /\ var[v] # Nil
    /\ SysFree(v)
    /\ UNCHANGED <<kind, pc, call, hand>>

WText(c) == IF c.chars = NoOne THEN [by |-> NoOne, n |-> 0] ELSE [by |-> c.chars, n |-> c.length]

WStrInit(t, v, length, chars) ==
    LET c == Call("Init", v, v, length, chars, Width) IN
    /\ kind = "WStr" /\ CanCall(t, v)
    /\ \/ /\ length > 0 /\ var[v] # Nil /\ head[var[v]].len = length
          /\ text' = [text EXCEPT ![var[v]] = IF chars = NoOne THEN @ ELSE WText(c)]
          /\ UNCHANGED <<var, live, refs, head>>
          /\ Return(t, c)
       \/ /\ length > 0 /\ var[v] # Nil /\ head[var[v]].len # length
          /\ \/ SysRealloc(v, length, WText(c)) /\ Return(t, c)
             \/ Unchanged /\ Fails(t)
       \/ /\ length > 0 /\ var[v] = Nil
          /\ \/ SysAlloc(v, length, WText(c)) /\ Return(t, c)
             \/ Unchanged /\ Fails(t)
       \/ /\ length = 0 /\ var[v] # Nil
          /\ SysFree(v) /\ Goes(t, c, "idle")
    /\ UNCHANGED <<kind, hand>>

WStrReserve(t, v, length) ==
    LET c == Call("Reserve", v, v, length, NoOne, Width) IN
    /\ kind = "WStr" /\ CanCall(t, v)
    /\ length > 0
    /\ \/ var[v] # Nil /\ head[var[v]].len >= length /\ Unchanged /\ Return(t, c)
       \/ /\ var[v] # Nil /\ head[var[v]].len < length
          /\ \/ SysRealloc(v, length, WText(c)) /\ Return(t, c)
             \/ Unchanged /\ Fails(t)
       \/ /\ var[v] = Nil
          /\ \/ SysAlloc(v, length, WText(c)) /\ Return(t, c)
             \/ Unchanged /\ Fails(t)
    /\ UNCHANGED <<kind, hand>>

(* As the code has it: an error is raised when the block WAS resized and   *)
(* none when it could not be.                                              *)
WStrSetLengthCall(t, v, length) ==
    LET c == Call("SetLength", v, v, length, NoOne, Width)
        kept == [text[var[v]] EXCEPT !.n = Least(@, length)]
    IN
    /\ \/ /\ length > 0 /\ var[v] # Nil /\ head[var[v]].len = length
          /\ Unchanged /\ Goes(t, c, "idle")
       \/ /\ length > 0 /\ var[v] # Nil /\ head[var[v]].len # length
          /\ \/ SysRealloc(v, length, kept) /\ Fails(t)
             \/ Unchanged /\ Goes(t, c, "idle")
       \/ /\ length > 0 /\ var[v] = Nil
          /\ \/ SysAlloc(v, length, WText(c)) /\ Goes(t, c, "idle")
             \/ Unchanged /\ Fails(t)
       \/ /\ length = 0 /\ var[v] # Nil
          /\ SysFree(v) /\ Goes(t, c, "idle")
    /\ UNCHANGED <<kind, hand>>

WStrSetLength(t, v, length) ==
    kind = "WStr" /\ CanCall(t, v) /\ WStrSetLengthCall(t, v, length)

(* Neither failure of the system's functions is noticed.                   *)
copy_widestring(t, v, src) ==
    LET c == Call("Copy", v, src, 0, NoOne, Width) IN
    /\ kind = "WStr" /\ CanCall(t, v) /\ NotBusy(src)
    /\ var[v] # var[src]
    /\ \/ var[src] = Nil /\ SysFree(v)
       \/ var[src] # Nil /\ var[v] = Nil
             /\ SysAlloc(v, head[var[src]].len, text[var[src]])
       \/ var[src] # Nil /\ var[v] # Nil
             /\ SysRealloc(v, head[var[src]].len, text[var[src]])
       \/ var[src] # Nil /\ Unchanged
    /\ Goes(t, c, "idle")
    /\ UNCHANGED <<kind, hand>>

-----------------------------------------------------------------------------
(* The steps behind "allocate": rtl_rec_alloc and the markup.              *)

(* What the new block holds: the characters given, or for SetLength those  *)
(* of the string it replaces, or nothing.                                  *)
NewText(c) ==
    IF c.op = "SetLength" /\ var[c.v] # Nil
    THEN [by |-> text[var[c.v]].by, n |-> Least(c.length, text[var[c.v]].n)]
    ELSE IF c.chars = NoOne THEN [by |-> NoOne, n |-> 0]
    ELSE [by |-> c.chars, n |-> (c.length * c.width) \div Width]

(* SetLength copies from its source and only then releases it.             *)
Alloc(t) ==
    LET c == call[t] IN
    /\ pc[t] = "alloc"
    /\ \E b \in Blocks \ live :
         /\ live' = live \cup {b}
         /\ refs' = [refs EXCEPT ![b] = 1]
         /\ head' = [head EXCEPT ![b] =
                       [len |-> c.length, size |-> (c.length + 1) * c.width]]
         /\ text' = [text EXCEPT ![b] = NewText(c)]
         /\ var' = [var EXCEPT ![c.v] = b]
         /\ hand' = [hand EXCEPT ![t] = var[c.v]]
         /\ IF var[c.v] # Nil THEN Goes(t, c, "drop")
            ELSE IF c.op = "SetLength" THEN Goes(t, c, "idle")
            ELSE Return(t, c)
    /\ UNCHANGED kind

AllocFails(t) ==
    /\ pc[t] = "alloc"
    /\ Fails(t)
    /\ UNCHANGED <<kind, var, live, refs, head, text, hand>>

(* The caller (Pascal) writes through the pointer Init or Reserve returned *)
(* and, after Reserve, sets the length to what it wrote.                   *)
Fill(t, n) ==
    LET c == call[t] IN
    /\ pc[t] = "fill"
    /\ IF c.op = "Reserve" THEN n \in 1 .. c.length ELSE n = c.length
    /\ text' = [text EXCEPT ![var[c.v]] = [by |-> t, n |-> n]]
    /\ Goes(t, [c EXCEPT !.length = n], IF c.op = "Reserve" THEN "cut" ELSE "idle")
    /\ UNCHANGED <<kind, var, live, refs, head, hand>>

Cut(t) ==
    /\ pc[t] = "cut"
    /\ IF kind = "WStr" THEN WStrSetLengthCall(t, call[t].v, call[t].length)
       ELSE SetLengthCall(t, call[t].v, call[t].length)

-----------------------------------------------------------------------------
(* rtl_string_release: the counter is read up to twice before it is        *)
(* decremented.                                                            *)

Released(t) ==
    /\ Goes(t, call[t], IF call[t].op \in {"Init", "Reserve"} /\ call[t].length > 0
                        THEN "alloc" ELSE "idle")
    /\ hand' = [hand EXCEPT ![t] = Nil]

Drop(t) ==
    /\ pc[t] = "drop"
    /\ Goes(t, call[t], IF refs[hand[t]] = 1 THEN "free"
                        ELSE IF Tested THEN "drop2" ELSE "dec")
    /\ UNCHANGED <<kind, var, live, refs, head, text, hand>>

DropTest(t) ==
    /\ pc[t] = "drop2"
    /\ \/ refs[hand[t]] > 0 /\ Goes(t, call[t], "dec") /\ UNCHANGED hand
       \/ refs[hand[t]] <= 0 /\ Released(t)
    /\ UNCHANGED <<kind, var, live, refs, head, text>>

Decrement(t) ==
    /\ pc[t] = "dec"
    /\ refs' = [refs EXCEPT ![hand[t]] = @ - 1]
    /\ \/ refs[hand[t]] = 1 /\ Goes(t, call[t], "freelast") /\ UNCHANGED hand
       \/ refs[hand[t]] # 1 /\ Released(t)
    /\ UNCHANGED <<kind, var, live, head, text>>

FreeMem(t) ==
    /\ pc[t] \in {"free", "freelast"}
    /\ Release(hand[t])
    /\ Released(t)
    /\ UNCHANGED <<kind, var>>

-----------------------------------------------------------------------------
(* copy_string: add a reference to the source's block, store the pointer,  *)
(* release what the target had.  rtl_string_addref reads the counter up to *)
(* twice and stores 2 without a lock when it read 1.                       *)

(* The target takes the source's block; what it had is to be released.     *)
TakeSource(t, c) ==
    /\ var' = [var EXCEPT ![c.v] = var[c.src]]
    /\ hand' = [hand EXCEPT ![t] = var[c.v]]
    /\ Goes(t, c, IF var[c.v] = Nil THEN "idle" ELSE "drop")

copy_string(t, v, src) ==
    LET c == Call("Copy", v, src, 0, NoOne, Width) IN
    /\ kind # "WStr"
    /\ CanCall(t, v)
    /\ NotBusy(src)
    /\ SharedReads \/ NotLent(src)
    /\ var[v] # var[src]
    /\ IF var[src] # Nil /\ (Tested => refs[var[src]] > 0)
       THEN Goes(t, c, "share") /\ UNCHANGED <<var, hand>>
       ELSE TakeSource(t, c)
    /\ UNCHANGED <<kind, live, refs, head, text>>

Share_Blind(t) ==
    /\ pc[t] = "share"
    /\ Goes(t, call[t], "store")
    /\ UNCHANGED <<kind, var, live, refs, head, text, hand>>

Share(t) ==
    /\ pc[t] = "share"
    /\ Goes(t, call[t], IF refs[var[call[t].src]] = 1 THEN "store" ELSE "inc")
    /\ UNCHANGED <<kind, var, live, refs, head, text, hand>>

StoreTwo(t) ==
    /\ pc[t] = "store"
    /\ refs' = [refs EXCEPT ![var[call[t].src]] = 2]
    /\ TakeSource(t, call[t])
    /\ UNCHANGED <<kind, live, head, text>>

Increment(t) ==
    /\ pc[t] = "inc"
    /\ refs' = [refs EXCEPT ![var[call[t].src]] = @ + 1]
    /\ TakeSource(t, call[t])
    /\ UNCHANGED <<kind, live, head, text>>

-----------------------------------------------------------------------------

Step(t) ==
    \/ Alloc(t) \/ AllocFails(t) \/ Cut(t)
    \/ Drop(t) \/ DropTest(t) \/ Decrement(t) \/ FreeMem(t)
    \/ Share(t) \/ StoreTwo(t) \/ Increment(t)
    \/ \E n \in Lengths[kind] : Fill(t, n)

Operation(t, v) ==
    \/ AStrClear(t, v) \/ UStrClear(t, v) \/ CStrClear(t, v) \/ WStrClear(t, v)
    \/ final_string(t, v)
    \/ \E length \in Lengths[kind] :
         \/ AStrReserve(t, v, length) \/ UStrReserve(t, v, length)
         \/ CStrReserve(t, v, length) \/ WStrReserve(t, v, length)
         \/ AStrSetLength(t, v, length) \/ UStrSetLength(t, v, length)
         \/ CStrSetLength(t, v, length) \/ WStrSetLength(t, v, length)
         \/ \E chars \in {NoOne, t} :
              \/ AStrInit(t, v, length, chars) \/ UStrInit(t, v, length, chars)
              \/ CStrInit(t, v, length, chars) \/ WStrInit(t, v, length, chars)
    \/ \E src \in Vars : copy_string(t, v, src) \/ copy_widestring(t, v, src)

Init ==
    /\ kind \in Kinds
    /\ var \in [Vars -> {Nil} \cup (IF kind \in LiteralKinds THEN Literals ELSE {})]
    /\ live = Literals
    /\ refs = [b \in Blocks |-> IF b \in Literals THEN -1 ELSE 0]
    /\ head = [b \in Blocks |-> IF b \in Literals
                              THEN [len |-> LiteralLength, size |-> (LiteralLength + 1) * Width]
                              ELSE [len |-> 0, size |-> 0]]
    /\ text = [b \in Blocks |-> [by |-> NoOne, n |-> IF b \in Literals THEN head[b].len ELSE 0]]
    /\ pc = [t \in Threads |-> "idle"]
    /\ call = [t \in Threads |-> NoCall("returned")]
    /\ hand = [t \in Threads |-> Nil]

Next == \E t \in Threads : Step(t) \/ \E v \in Vars : Operation(t, v)

Spec == Init /\ [][Next]_vars

-----------------------------------------------------------------------------
(* Properties.                                                             *)

PCs == {"idle", "fill", "cut", "alloc"} \cup Releasing \cup Sharing

(* Every variable has its type, and a thread has a reference in its hand   *)
(* exactly while it releases one.                                          *)
TypeOK ==
    /\ kind \in DOMAIN Layout
    /\ var \in [Vars -> Blocks \cup {Nil}]
    /\ live \subseteq Blocks
    /\ refs \in [Blocks -> Int]
    /\ pc \in [Threads -> PCs]
    /\ hand \in [Threads -> Blocks \cup {Nil}]
    /\ \A t \in Threads : (hand[t] # Nil) <=> (pc[t] \in Releasing)
    /\ \A t \in Threads : ~Idle(t) => call[t].v \in Vars /\ call[t].src \in Vars

(* The variables and the calls in progress that hold a reference to b.     *)
VarsOf(b) == {v \in Vars : var[v] = b}
HandsOf(b) == {t \in Threads : hand[t] = b /\ pc[t] # "freelast"}

(* The counter of every allocated block is the number of references there  *)
(* are, whatever the interleaving of the plain reads and stores, the       *)
(* atomic additions and the releases of several threads; so no block is    *)
(* lost and none is freed by two.                                          *)
CountsReferences ==
    \A b \in live \ Literals :
        refs[b] = Cardinality(VarsOf(b)) + Cardinality(HandsOf(b))

(* No variable and no call in progress points to freed memory.             *)
NothingFreedInUse ==
    /\ \A v \in Vars : var[v] # Nil => var[v] \in live
    /\ \A t \in Threads : hand[t] # Nil => hand[t] \in live

ReferencesAreTrue == CountsReferences /\ NothingFreedInUse

(* The characters and their terminator fit into the memory of the block.   *)
TextFits ==
    \A v \in Vars : var[v] # Nil =>
        (head[var[v]].len + 1) * Width <= head[var[v]].size

(* A whole string of the old one's length, written by some thread.         *)
Rewritten(old, now) == now = [len |-> old.len, by |-> now.by, n |-> old.len] /\ now.by \in Threads

(* A string changes only by a call for its own variable w, with one        *)
(* exception, Init with the length the string has: it writes into the      *)
(* block whoever shares it, and its characters replace those of the other  *)
(* variables, whose length stays.  What else a thread grows, cuts, fills   *)
(* or frees is never seen through a variable that shares the block.        *)
OthersKeepTheirText ==
    [][\E w \in Vars :
         /\ Idle(Owner[w]) \/ call[Owner[w]].v = w
         /\ \A v \in Vars \ {w} : Value(v)' # Value(v) =>
              /\ var[v] = var[w]
              /\ Idle(Owner[w]) \/ call[Owner[w]].op = "Init"
              /\ Rewritten(Value(v), Value(v)')]_vars

(* The string now is the one a call met, but for an Init that has written  *)
(* into its block.                                                         *)
Met(old, now) == now = old \/ Rewritten(old, now)

(* Likewise, now has the characters of old up to length.                   *)
MetUpTo(length, old, now) ==
    /\ now.len = length
    /\ \/ now.n = Least(length, old.n) /\ (now.n > 0 => now.by = old.by)
       \/ now.n = Least(length, old.len) /\ now.by \in Threads

(* What a call c that did not fail leaves in its variable.                 *)
Delivers(c, t) ==
    CASE c.op = "Clear" -> var'[c.v] = Nil
      [] c.op = "Copy" -> Met(c.old, Value(c.v)')
      [] c.op \in {"Init", "Reserve"} ->
           Value(c.v)' = IF c.length = 0 THEN Empty
                         ELSE [len |-> c.length, by |-> t, n |-> c.length]
      [] c.op = "SetLength" ->
           IF c.length = 0 THEN var'[c.v] = Nil
           ELSE MetUpTo(c.length, c.old, Value(c.v)')

(* A call of several steps leaves in its variable what it is for: the      *)
(* characters given or written, the old ones up to the new length, the     *)
(* source's string or nothing, although other threads released and took    *)
(* references to the same blocks meanwhile.  A string it takes over may    *)
(* have been rewritten in place, as above, never cut, freed or half        *)
(* written.  WStrSetLength is left out: it reports its failure and its     *)
(* success the wrong way round.                                            *)
CallsDeliver ==
    [][\A t \in Threads : \A c \in {call[t]} :
         /\ ~Idle(t)
         /\ call'[t].op = "returned"
         /\ ~(kind = "WStr" /\ pc[t] = "cut")
         => Delivers(c, t)]_vars

=============================================================================

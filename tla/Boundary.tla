------------------------------- MODULE Boundary -------------------------------
(***************************************************************************)
(* Package cffi, the only package that calls the native core: what each    *)
(* wrapper does with C memory and with the opaque handles of the           *)
(* two-phase transactions, for any calls in any order on any number of     *)
(* handles, by goroutines that share the version check and the C heap.     *)
(* A handle is used by one call at a time: the driver keeps each one in a  *)
(* local variable, and CosignSealer is "NOT safe for concurrent use"       *)
(* (cosign.go 54).                                                         *)
(*                                                                         *)
(* A call is taken apart where another goroutine can come between: the     *)
(* version check, the C strings of the arguments, the native function, and *)
(* the release of its result and of the strings.                           *)
(***************************************************************************)
EXTENDS Naturals, FiniteSets

(* A definition named X_Y is a deliberately wrong form of X that no action uses: the      *)
(* property that guards X is checked to fail when X is replaced by it.                    *)
CONSTANTS
    Goroutines,
    Cells,       \* the Handle and StealthHandle objects of the Go heap
    MaxAddr,     \* bound on the addresses of the C heap
    MaxStrings,  \* bound on the C strings of one call: a wrapper of more makes this many
    Null         \* a nil pointer

Addrs == 1..MaxAddr

ASSUME AddrAssumption == MaxAddr \in Nat /\ MaxStrings \in Nat
ASSUME NullAssumption == Null \notin Addrs /\ Null \notin Cells

VARIABLES
    lib,      \* the linked library: of the expected ABI or "drifted"
    once,     \* abiOnce: "new", "running" or "done"
    abiErr,   \* the error of the version check is set
    heap,     \* what is allocated at each address of the C heap
    handles,  \* the objects: the Go type and ptr
    pc,       \* each goroutine's next statement within a wrapper
    call,     \* the wrapper it is in
    target,   \* the object it was called with
    args,     \* the addresses of its C strings
    ptr,      \* the pointer it took out of the object
    res,      \* the OotleResult: the address of its strings
    out,      \* the handle of the envelope
    ok        \* the ok of the envelope

library == <<lib, once, abiErr>>
frame == <<call, target, args, ptr, res, out, ok>>
vars == <<library, heap, handles, pc, frame>>

-----------------------------------------------------------------------------
(* The wrappers, by what they pass and what they do with a handle: the type *)
(* of the handle, the type the native function expects, and how many C     *)
(* strings are made, an optional argument that is absent making none.      *)

Wrapper(kind, to, takes, gives, strings) ==
    [kind : {kind}, to : {to}, takes : {takes}, gives : {gives},
     strings : {IF n < MaxStrings THEN n ELSE MaxStrings : n \in strings}]

Stateless(strings) == Wrapper("none", "none", "nothing", FALSE, strings)

OneShot == Stateless({2})
Keygen == Stateless({0, 1})
AddressCodec == Stateless({1, 2, 3})
StealthOneShot == Stateless({4})
StealthReceive == Stateless({1, 2, 3})
SubstateReads == Stateless({1, 2})
PartyB == Stateless({3})
ServedValues == Stateless({1})

PublicBuild == Wrapper("public", "public", "nothing", TRUE, {1})
PublicApply == Wrapper("public", "public", "consumes", TRUE, {1})
PublicSeal == Wrapper("public", "public", "consumes", FALSE, {1})
CosignRecord == Wrapper("public", "public", "borrows", FALSE, {0, 1})
CosignSeal == Wrapper("public", "public", "consumes", FALSE, {2, 3})

StealthBuild == Wrapper("stealth", "stealth", "nothing", TRUE, {1, 2})
StealthApply == Wrapper("stealth", "stealth", "consumes", TRUE, {3})
StealthSeal == Wrapper("stealth", "stealth", "consumes", FALSE, {1})

\* The test hook that hands a stealth handle to the public apply.
Misroute == Wrapper("stealth", "public", "misroutes", FALSE, {1})

Calls == UNION {OneShot, Keygen, AddressCodec, StealthOneShot, StealthReceive, SubstateReads,
                PartyB, ServedValues, PublicBuild, PublicApply, PublicSeal, CosignRecord,
                CosignSeal, StealthBuild, StealthApply, StealthSeal, Misroute}

NoCall == [kind |-> "none", to |-> "none", takes |-> "nothing", gives |-> FALSE, strings |-> 0]
Unmade == [kind |-> "none", ptr |-> Null]

Init ==
    /\ lib \in {"expected", "drifted"}
    /\ once = "new" /\ abiErr = FALSE
    /\ heap = [a \in Addrs |-> "free"]
    /\ handles = [o \in Cells |-> Unmade]
    /\ pc = [g \in Goroutines |-> "idle"]
    /\ call = [g \in Goroutines |-> NoCall]
    /\ target = [g \in Goroutines |-> Null]
    /\ args = [g \in Goroutines |-> {}]
    /\ ptr = [g \in Goroutines |-> Null]
    /\ res = [g \in Goroutines |-> Null]
    /\ out = [g \in Goroutines |-> Null]
    /\ ok = [g \in Goroutines |-> FALSE]

\* The C allocator gives out the lowest free address, so that what was released last is reused.
FreeAddrs(h) == {a \in Addrs : h[a] = "free"}
Lowest(h, n) == {a \in FreeAddrs(h) : Cardinality({b \in FreeAddrs(h) : b < a}) < n}

-----------------------------------------------------------------------------
(* A call.                                                                  *)

InUse(o) == \E g \in Goroutines : pc[g] # "idle" /\ target[g] = o
Room == Cardinality({g \in Goroutines : call[g].gives})
            < Cardinality({o \in Cells : handles[o] = Unmade})

Begin(g) ==
    /\ pc[g] = "idle"
    /\ \E c \in Calls :
          /\ c.gives => Room
          /\ \/ c.takes = "nothing" /\ UNCHANGED target
             \/ /\ c.takes # "nothing"
                /\ \E o \in Cells :
                      /\ handles[o].kind = c.kind /\ ~InUse(o)
                      /\ target' = [target EXCEPT ![g] = o]
          /\ call' = [call EXCEPT ![g] = c]
    /\ pc' = [pc EXCEPT ![g] = "abi"]
    /\ UNCHANGED <<library, heap, handles, args, ptr, res, out, ok>>

\* ensureABI: the first caller runs the check, the others wait for it and read its error.
FirstCall(g) ==
    /\ pc[g] = "abi" /\ once = "new"
    /\ once' = "running"
    /\ pc' = [pc EXCEPT ![g] = "checking"]
    /\ UNCHANGED <<lib, abiErr, heap, handles, frame>>

CheckABIVersion(g) ==
    /\ pc[g] = "checking"
    /\ abiErr' = (lib = "drifted")
    /\ once' = "done"
    /\ pc' = [pc EXCEPT ![g] = "abi"]
    /\ UNCHANGED <<lib, heap, handles, frame>>

Checked_Early == once # "new"
Checked == once = "done"

Leave(g) ==
    /\ pc' = [pc EXCEPT ![g] = "idle"]
    /\ call' = [call EXCEPT ![g] = NoCall]
    /\ target' = [target EXCEPT ![g] = Null]

\* A nil or consumed handle is refused, after the version check.
Spent(g) == target[g] # Null /\ handles[target[g]].ptr = Null

Refused(g) ==
    /\ pc[g] = "abi" /\ Checked
    /\ abiErr \/ Spent(g)
    /\ Leave(g)
    /\ UNCHANGED <<library, heap, handles, args, ptr, res, out, ok>>

\* The C strings are made, and a consuming call invalidates the object before it calls.
Invalidates(c) == c.takes = "consumes"

Marshal(g) ==
    /\ pc[g] = "abi" /\ Checked
    /\ ~abiErr /\ ~Spent(g)
    /\ LET strings == Lowest(heap, call[g].strings) IN
          /\ Cardinality(strings) = call[g].strings
          /\ args' = [args EXCEPT ![g] = strings]
          /\ heap' = [a \in Addrs |-> IF a \in strings THEN "string" ELSE heap[a]]
    /\ IF target[g] # Null /\ Invalidates(call[g])
       THEN /\ ptr' = [ptr EXCEPT ![g] = handles[target[g]].ptr]
            /\ handles' = [handles EXCEPT ![target[g]].ptr = Null]
       ELSE UNCHANGED <<ptr, handles>>
    /\ pc' = [pc EXCEPT ![g] = "call"]
    /\ UNCHANGED <<library, call, target, res, out, ok>>

\* The native function (outside src/).  It takes a handle by value, also when it fails, unless the
\* handle is of the other type, which it refuses and leaves alone; a handle it returns may be at
\* the address of the one it took.
Passed(g) == IF target[g] = Null THEN Null
             ELSE IF Invalidates(call[g]) THEN ptr[g] ELSE handles[target[g]].ptr
Accepts(g) == target[g] # Null => heap[Passed(g)] = call[g].to
Takes(g) == call[g].takes \in {"consumes", "misroutes"} /\ Accepts(g)

Native(g) ==
    /\ pc[g] = "call"
    /\ LET taken == IF Takes(g) THEN {Passed(g)} ELSE {}
           rest == [a \in Addrs |-> IF a \in taken THEN "free" ELSE heap[a]]
       IN  \E r \in Lowest(rest, 1) :
              LET answered == [rest EXCEPT ![r] = "result"] IN
              /\ res' = [res EXCEPT ![g] = r]
              /\ \/ /\ heap' = answered
                    /\ \/ ok' = [ok EXCEPT ![g] = FALSE]
                       \/ Accepts(g) /\ ok' = [ok EXCEPT ![g] = TRUE]
                    /\ UNCHANGED out
                 \/ /\ Accepts(g) /\ call[g].gives
                    /\ ok' = [ok EXCEPT ![g] = TRUE]
                    /\ \E h \in Lowest(answered, 1) :
                          /\ heap' = [answered EXCEPT ![h] = call[g].to]
                          /\ out' = [out EXCEPT ![g] = h]
    /\ ptr' = [ptr EXCEPT ![g] = Null]
    /\ pc' = [pc EXCEPT ![g] = "return"]
    /\ UNCHANGED <<library, handles, call, target, args>>

\* consume: the strings are copied and the result is freed, its handle is not.  The deferred frees
\* follow; a handle is handed to the caller, and an ok without one is an error.
Freed_WithHandle(g) == args[g] \cup {res[g], out[g]}
Freed(g) == args[g] \cup {res[g]}

Gives_Unchecked(g) == ok[g] /\ call[g].gives
Gives(g) == ok[g] /\ call[g].gives /\ out[g] # Null

Return(g) ==
    /\ pc[g] = "return"
    /\ heap' = [a \in Addrs |-> IF a \in Freed(g) THEN "free" ELSE heap[a]]
    /\ IF Gives(g)
       THEN \E o \in Cells :
               /\ handles[o] = Unmade
               /\ handles' = [handles EXCEPT ![o] = [kind |-> call[g].kind, ptr |-> out[g]]]
       ELSE UNCHANGED handles
    /\ Leave(g)
    /\ args' = [args EXCEPT ![g] = {}]
    /\ res' = [res EXCEPT ![g] = Null]
    /\ out' = [out EXCEPT ![g] = Null]
    /\ ok' = [ok EXCEPT ![g] = FALSE]
    /\ UNCHANGED <<library, ptr>>

InCall(g) == FirstCall(g) \/ CheckABIVersion(g) \/ Refused(g) \/ Marshal(g) \/ Native(g)
                \/ Return(g)

-----------------------------------------------------------------------------
(* What needs no call into the core, or only a free.                        *)

\* FreeHandle, FreeStealthHandle: nothing on a spent handle, and the core frees a handle of the
\* type only.
FreeHandle(o) ==
    /\ handles[o].ptr # Null /\ ~InUse(o)
    /\ heap' = [heap EXCEPT ![handles[o].ptr] = IF @ = handles[o].kind THEN "free" ELSE @]
    /\ handles' = [handles EXCEPT ![o].ptr = Null]
    /\ UNCHANGED <<library, pc, frame>>

\* The caller drops a spent handle (outside cffi).
Drop(o) ==
    /\ handles[o].kind # "none" /\ handles[o].ptr = Null /\ ~InUse(o)
    /\ handles' = [handles EXCEPT ![o] = Unmade]
    /\ UNCHANGED <<library, heap, pc, frame>>

Next == \/ \E g \in Goroutines : Begin(g) \/ InCall(g)
        \/ \E o \in Cells : FreeHandle(o) \/ Drop(o)

Spec == Init /\ [][Next]_vars

-----------------------------------------------------------------------------
(* Properties.                                                              *)

Kinds == {"none", "public", "stealth"}
Pointers == Addrs \cup {Null}

TypeOK ==
    /\ lib \in {"expected", "drifted"}
    /\ once \in {"new", "running", "done"} /\ abiErr \in BOOLEAN
    /\ heap \in [Addrs -> {"free", "string", "result", "public", "stealth"}]
    /\ handles \in [Cells -> [kind : Kinds, ptr : Pointers]]
    /\ pc \in [Goroutines -> {"idle", "abi", "checking", "call", "return"}]
    /\ call \in [Goroutines -> Calls]
    /\ target \in [Goroutines -> Cells \cup {Null}]
    /\ args \in [Goroutines -> SUBSET Addrs]
    /\ ptr \in [Goroutines -> Pointers]
    /\ res \in [Goroutines -> Pointers]
    /\ out \in [Goroutines -> Pointers]
    /\ ok \in [Goroutines -> BOOLEAN]

\* Everything that holds a pointer into the C heap: <<what it takes to be there, who holds it>>.
Owners(a) ==
    {<<"string", g>> : g \in {g \in Goroutines : a \in args[g]}}
        \cup {<<"result", g>> : g \in {g \in Goroutines : res[g] = a}}
        \cup {<<call[g].to, g>> : g \in {g \in Goroutines : a \in {ptr[g], out[g]}}}
        \cup {<<handles[o].kind, o>> : o \in {o \in Cells : handles[o].ptr = a}}

\* "Every C string argument is ... freed (deferred); every returned OotleResult is freed exactly
\* once; ... consuming ops take [the handle] by value, so it must never be freed afterwards"
\* (cffi.go 6-12): whatever is allocated has one owner that takes it for what it is, and nothing
\* else points to it.  So nothing leaks, dangles, is freed twice or goes to the other type's
\* functions, for any order of calls on any handles.
OneOwner ==
    \A a \in Addrs :
        IF heap[a] = "free" THEN Owners(a) = {}
        ELSE \E who \in Goroutines \cup Cells : Owners(a) = {<<heap[a], who>>}

\* A library of another ABI is never entered past the version check, however many goroutines make
\* their first call at once (cffi.go 42-44, 69-83), and so no handle of it ever exists.
DriftNeverEntered ==
    lib = "drifted" =>
        /\ \A g \in Goroutines : pc[g] \in {"idle", "abi", "checking"}
        /\ \A o \in Cells : handles[o] = Unmade

\* "The input Handle is invalidated regardless of outcome" (cffi.go 222-225, 250), also when the
\* call returns before it reaches the core; and a call that succeeds hands out a handle that is not
\* nil, one that fails none (158-159, 202-204).
ReturnsAsPromised ==
    [][\A g \in Goroutines :
          pc[g] # "idle" /\ pc'[g] = "idle" =>
              /\ call[g].takes = "consumes" => handles'[target[g]].ptr = Null
              /\ \A o \in Cells : handles[o] = Unmade /\ handles'[o] # Unmade =>
                    ok[g] /\ handles'[o].ptr # Null /\ handles'[o].kind = call[g].kind]_vars

=============================================================================

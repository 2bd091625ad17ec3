---------------------------- MODULE BoundaryProofs ----------------------------
(***************************************************************************)
(* The memory of package cffi, for any number of goroutines, handles and   *)
(* addresses.                                                              *)
(***************************************************************************)
EXTENDS Boundary, TLAPS

-----------------------------------------------------------------------------
(* The inductive invariant.                                                 *)

\* What each goroutine holds at each statement.
Frames ==
    \A g \in Goroutines :
        /\ pc[g] = "idle" => target[g] = Null /\ call[g] = NoCall
        /\ pc[g] \in {"idle", "abi", "checking"} => args[g] = {} /\ ptr[g] = Null
        /\ pc[g] # "return" => res[g] = Null /\ out[g] = Null /\ ok[g] = FALSE
        /\ pc[g] = "return" => res[g] # Null /\ ptr[g] = Null
        /\ out[g] # Null => ok[g] /\ call[g].gives
        /\ target[g] # Null <=> call[g].takes # "nothing"

\* The object of a call is of its type, is its alone, and is spent from the call of a consuming
\* function on.
Targets ==
    /\ \A g \in Goroutines : target[g] # Null =>
          /\ handles[target[g]].kind = call[g].kind
          /\ pc[g] = "call" =>
                IF Invalidates(call[g])
                THEN ptr[g] # Null /\ handles[target[g]].ptr = Null
                ELSE ptr[g] = Null /\ handles[target[g]].ptr # Null
          /\ pc[g] = "return" /\ Invalidates(call[g]) => handles[target[g]].ptr = Null
    /\ \A g \in Goroutines : pc[g] = "call" /\ target[g] = Null => ptr[g] = Null
    /\ \A g, h \in Goroutines : target[g] = target[h] /\ target[g] # Null => g = h
    /\ \A o \in Cells : handles[o].kind = "none" => handles[o].ptr = Null

\* What is pointed to is what the holder takes it for.
Typed ==
    /\ \A g \in Goroutines :
          /\ \A a \in args[g] : heap[a] = "string"
          /\ res[g] # Null => heap[res[g]] = "result"
          /\ \A a \in {ptr[g], out[g]} : a # Null => heap[a] = call[g].to
    /\ \A o \in Cells : handles[o].ptr # Null => heap[handles[o].ptr] = handles[o].kind

\* No two hold the same.
Alone ==
    /\ \A g, h \in Goroutines : g # h =>
          /\ \A a \in args[g] : a \notin args[h]
          /\ res[g] # Null => res[g] # res[h]
          /\ \A a \in {ptr[g], out[g]} : a # Null => a \notin {ptr[h], out[h]}
    /\ \A g \in Goroutines, o \in Cells :
          handles[o].ptr # Null => handles[o].ptr \notin {ptr[g], out[g]}
    /\ \A o, p \in Cells : o # p /\ handles[o].ptr # Null => handles[o].ptr # handles[p].ptr

\* Nothing is lost.
Held(a) ==
    \/ \E g \in Goroutines : a \in args[g] \cup {res[g], ptr[g], out[g]}
    \/ \E o \in Cells : handles[o].ptr = a
NothingLost == \A a \in Addrs : heap[a] # "free" => Held(a)

\* The version check and what depends on it.
Checks ==
    /\ once = "done" => abiErr = (lib = "drifted")
    /\ DriftNeverEntered

BoundaryInv == TypeOK /\ Frames /\ Targets /\ Typed /\ Alone /\ NothingLost /\ Checks

-----------------------------------------------------------------------------
(* The wrappers.                                                            *)

Takings == {"nothing", "borrows", "consumes", "misroutes"}

LEMMA WrapperFacts ==
    /\ \A c \in Calls :
          /\ c.kind \in Kinds /\ c.to \in Kinds /\ c.takes \in Takings /\ c.gives \in BOOLEAN
          /\ c.strings \in Nat
          /\ c.takes # "misroutes" => c.to = c.kind
          /\ c.takes # "nothing" => c.kind # "none" /\ c.to # "none"
          /\ c.takes = "misroutes" => c.kind # c.to /\ ~c.gives
          /\ c.gives => c.kind # "none"
    /\ NoCall \in Calls
<1>. USE DEF Wrapper, Kinds, Takings
<1>1. \A S \in SUBSET Nat :
         \A n \in {IF m < MaxStrings THEN m ELSE MaxStrings : m \in S} : n \in Nat
  BY AddrAssumption
<1>2. \A n \in {0, 1, 2, 3, 4} : {n} \in SUBSET Nat
  OBVIOUS
<1>. DEFINE Fact(c) ==
          /\ c.kind \in Kinds /\ c.to \in Kinds /\ c.takes \in Takings /\ c.gives \in BOOLEAN
          /\ c.strings \in Nat
          /\ c.takes # "misroutes" => c.to = c.kind
          /\ c.takes # "nothing" => c.kind # "none" /\ c.to # "none"
          /\ c.takes = "misroutes" => c.kind # c.to /\ ~c.gives
          /\ c.gives => c.kind # "none"
<1>3. ASSUME NEW S \in SUBSET Nat PROVE \A c \in Stateless(S) : Fact(c)
  BY <1>1, <1>3 DEF Stateless
<1>4. ASSUME NEW S \in SUBSET Nat, NEW kind \in {"public", "stealth"},
             NEW takes \in {"nothing", "borrows", "consumes"}, NEW gives \in BOOLEAN
      PROVE  \A c \in Wrapper(kind, kind, takes, gives, S) : Fact(c)
  BY <1>1, <1>4
<1>5. \A c \in Misroute : Fact(c)
  BY <1>1, <1>2 DEF Misroute
<1>6. \A c \in Calls : Fact(c)
  <2>1. \A c \in OneShot \cup Keygen \cup AddressCodec \cup StealthOneShot \cup StealthReceive
                    \cup SubstateReads \cup PartyB \cup ServedValues : Fact(c)
    <3>1. /\ {2} \in SUBSET Nat /\ {0, 1} \in SUBSET Nat /\ {1, 2, 3} \in SUBSET Nat
          /\ {4} \in SUBSET Nat /\ {1, 2} \in SUBSET Nat /\ {3} \in SUBSET Nat
          /\ {1} \in SUBSET Nat
      OBVIOUS
    <3>. HIDE DEF Fact, Wrapper
    <3>2. QED
      BY <3>1, <1>3 DEF OneShot, Keygen, AddressCodec, StealthOneShot, StealthReceive,
                        SubstateReads, PartyB, ServedValues
  <2>2. \A c \in PublicBuild \cup PublicApply \cup PublicSeal \cup CosignRecord \cup CosignSeal
                    \cup StealthBuild \cup StealthApply \cup StealthSeal : Fact(c)
    <3>1. /\ {0, 1} \in SUBSET Nat /\ {2, 3} \in SUBSET Nat /\ {1, 2} \in SUBSET Nat
          /\ {3} \in SUBSET Nat /\ {1} \in SUBSET Nat
      OBVIOUS
    <3>. HIDE DEF Fact, Wrapper
    <3>2. QED
      BY <3>1, <1>4 DEF PublicBuild, PublicApply, PublicSeal, CosignRecord, CosignSeal,
                        StealthBuild, StealthApply, StealthSeal
  <2>. HIDE DEF Fact
  <2>3. QED
    BY <2>1, <2>2, <1>5 DEF Calls
<1>7. NoCall \in Calls
  <2>1. 0 \in {IF n < MaxStrings THEN n ELSE MaxStrings : n \in {0, 1}}
    BY AddrAssumption
  <2>2. NoCall \in Keygen
    BY <2>1 DEF NoCall, Keygen, Stateless
  <2>3. QED
    BY <2>2 DEF Calls
<1>8. QED
  BY <1>6, <1>7

\* The allocator gives out free addresses.
LEMMA LowestFacts ==
    ASSUME NEW h, NEW n \in Nat
    PROVE  \A a \in Lowest(h, n) : a \in Addrs /\ h[a] = "free"
BY DEF Lowest, FreeAddrs

-----------------------------------------------------------------------------
(* Steps that leave the heap alone.                                         *)

LEMMA InitEstablishes == Init => BoundaryInv
<1>. SUFFICES ASSUME Init PROVE BoundaryInv
  OBVIOUS
<1>1. TypeOK
  BY WrapperFacts DEF Init, TypeOK, Unmade, Kinds, Pointers
<1>2. Frames /\ Targets /\ Typed /\ Alone /\ NothingLost /\ Checks
  BY NullAssumption
     DEF Init, Frames, Targets, Typed, Alone, NothingLost, Checks, DriftNeverEntered, Unmade, NoCall
<1>3. QED
  BY <1>1, <1>2 DEF BoundaryInv

LEMMA BeginPreserves ==
    ASSUME BoundaryInv, NEW g \in Goroutines, Begin(g)
    PROVE  BoundaryInv'
<1>. USE DEF BoundaryInv
<1>1. PICK c \in Calls :
          /\ \/ c.takes = "nothing" /\ UNCHANGED target
             \/ /\ c.takes # "nothing"
                /\ \E o \in Cells :
                      /\ handles[o].kind = c.kind /\ ~InUse(o)
                      /\ target' = [target EXCEPT ![g] = o]
          /\ call' = [call EXCEPT ![g] = c]
  BY DEF Begin
<1>2. /\ pc[g] = "idle" /\ pc' = [pc EXCEPT ![g] = "abi"]
      /\ UNCHANGED <<library, heap, handles, args, ptr, res, out, ok>>
  BY DEF Begin
<1>3. /\ target[g] = Null /\ args[g] = {} /\ ptr[g] = Null /\ res[g] = Null /\ out[g] = Null
      /\ ok[g] = FALSE
  BY <1>2 DEF Frames
<1>4. /\ target'[g] # Null <=> c.takes # "nothing"
      /\ target' \in [Goroutines -> Cells \cup {Null}]
      /\ target'[g] # Null => handles[target'[g]].kind = c.kind
      /\ \A h \in Goroutines : h # g =>
            target'[h] = target[h] /\ (target'[g] # Null => target[h] # target'[g])
  <2>1. CASE c.takes = "nothing"
    BY <1>1, <1>3, <2>1 DEF TypeOK
  <2>2. CASE c.takes # "nothing"
    <3>1. PICK o \in Cells : /\ handles[o].kind = c.kind /\ ~InUse(o)
                             /\ target' = [target EXCEPT ![g] = o]
      BY <1>1, <2>2
    <3>2. \A h \in Goroutines : target[h] # o
      BY <3>1, NullAssumption DEF InUse, Frames
    <3>3. QED
      BY <2>2, <3>1, <3>2, NullAssumption DEF TypeOK
  <2>3. QED
    BY <2>1, <2>2
<1>5. TypeOK'
  BY <1>1, <1>2, <1>4 DEF TypeOK, library
<1>6. /\ \A h \in Goroutines : h # g => pc'[h] = pc[h] /\ call'[h] = call[h]
     /\ pc'[g] = "abi" /\ call'[g] = c
  BY <1>1, <1>2 DEF TypeOK
<1>7. Frames'
  BY <1>2, <1>3, <1>4, <1>6 DEF Frames
<1>8. Targets'
  <2>1. ASSUME NEW h \in Goroutines, target'[h] # Null
        PROVE  /\ handles[target'[h]].kind = call'[h].kind
               /\ pc'[h] = "call" =>
                     IF Invalidates(call'[h])
                     THEN ptr[h] # Null /\ handles[target'[h]].ptr = Null
                     ELSE ptr[h] = Null /\ handles[target'[h]].ptr # Null
               /\ pc'[h] = "return" /\ Invalidates(call'[h]) => handles[target'[h]].ptr = Null
    <3>1. CASE h = g
      BY <1>4, <1>6, <2>1, <3>1
    <3>2. CASE h # g
      <4>1. target[h] = target'[h] /\ pc'[h] = pc[h] /\ call'[h] = call[h]
        BY <1>4, <1>6, <3>2
      <4>2. QED
        BY <2>1, <4>1 DEF Targets
    <3>3. QED
      BY <3>1, <3>2
  <2>2. \A h \in Goroutines : pc'[h] = "call" /\ target'[h] = Null => ptr[h] = Null
    BY <1>3, <1>4, <1>6 DEF Targets
  <2>3. \A h, k \in Goroutines : target'[h] = target'[k] /\ target'[h] # Null => h = k
    BY <1>4 DEF Targets
  <2>4. QED
    BY <1>2, <2>1, <2>2, <2>3 DEF Targets, Invalidates
<1>9. Typed' /\ Alone' /\ NothingLost'
  <2>1. Typed'
    BY <1>2, <1>3, <1>6 DEF Typed
  <2>2. Alone' /\ NothingLost'
    BY <1>2 DEF Alone, NothingLost, Held
  <2>3. QED
    BY <2>1, <2>2
<1>10. Checks'
  BY <1>2 DEF TypeOK, Checks, DriftNeverEntered, library
<1>11. QED
  BY <1>5, <1>7, <1>8, <1>9, <1>10

LEMMA CheckPreserves ==
    ASSUME BoundaryInv, NEW g \in Goroutines, FirstCall(g) \/ CheckABIVersion(g)
    PROVE  BoundaryInv'
<1>. USE DEF BoundaryInv
<1>1. /\ pc[g] \in {"abi", "checking"} /\ UNCHANGED <<lib, heap, handles, frame>>
      /\ \E p \in {"abi", "checking"} : pc' = [pc EXCEPT ![g] = p]
  BY DEF FirstCall, CheckABIVersion
<1>2. /\ once' \in {"running", "done"} /\ abiErr' \in BOOLEAN
      /\ once' = "done" => abiErr' = (lib = "drifted")
  BY DEF FirstCall, CheckABIVersion, TypeOK
<1>3. TypeOK' /\ Frames'
  BY <1>1, <1>2 DEF TypeOK, Frames, frame
<1>4. Targets'
  BY <1>1 DEF TypeOK, Targets, Invalidates, frame
<1>5. Typed' /\ Alone' /\ NothingLost'
  BY <1>1 DEF Typed, Alone, NothingLost, Held, frame
<1>6. Checks'
  BY <1>1, <1>2 DEF TypeOK, Checks, DriftNeverEntered
<1>7. QED
  BY <1>3, <1>4, <1>5, <1>6

LEMMA RefusedPreserves ==
    ASSUME BoundaryInv, NEW g \in Goroutines, Refused(g)
    PROVE  BoundaryInv'
<1>. USE DEF BoundaryInv
<1>1. /\ pc[g] = "abi" /\ pc' = [pc EXCEPT ![g] = "idle"]
      /\ call' = [call EXCEPT ![g] = NoCall] /\ target' = [target EXCEPT ![g] = Null]
      /\ UNCHANGED <<library, heap, handles, args, ptr, res, out, ok>>
  BY DEF Refused, Leave
<1>2. args[g] = {} /\ ptr[g] = Null /\ res[g] = Null /\ out[g] = Null
  BY <1>1 DEF Frames
<1>3. TypeOK' /\ Frames'
  BY <1>1, <1>2, WrapperFacts DEF TypeOK, Frames, library, NoCall
<1>4. Targets'
  BY <1>1, <1>2 DEF TypeOK, Targets, Invalidates, NoCall
<1>5. Typed' /\ Alone' /\ NothingLost'
  BY <1>1, <1>2 DEF TypeOK, Typed, Alone, NothingLost, Held
<1>6. Checks'
  BY <1>1 DEF TypeOK, Checks, DriftNeverEntered, library
<1>7. QED
  BY <1>3, <1>4, <1>5, <1>6

LEMMA DropPreserves ==
    ASSUME BoundaryInv, NEW o \in Cells, Drop(o)
    PROVE  BoundaryInv'
<1>. USE DEF BoundaryInv
<1>1. /\ handles[o].ptr = Null /\ ~InUse(o)
      /\ handles' = [handles EXCEPT ![o] = Unmade]
      /\ UNCHANGED <<library, heap, pc, frame>>
  BY DEF Drop
<1>2. \A g \in Goroutines : target[g] # o
  BY <1>1, NullAssumption DEF InUse, Frames
<1>3. /\ \A p \in Cells : handles'[p].ptr = handles[p].ptr
      /\ \A p \in Cells \ {o} : handles'[p] = handles[p]
      /\ handles'[o] = Unmade
  BY <1>1 DEF TypeOK, Unmade
<1>4. TypeOK' /\ Frames'
  BY <1>1 DEF TypeOK, Frames, library, frame, Unmade, Kinds, Pointers
<1>5. Targets'
  BY <1>1, <1>2, <1>3 DEF TypeOK, Targets, Invalidates, frame, Unmade
<1>6. Typed' /\ Alone' /\ NothingLost'
  <2>1. Typed'
    BY <1>1, <1>3 DEF Typed, frame
  <2>2. Alone'
    BY <1>1, <1>3 DEF Alone, frame
  <2>3. NothingLost'
    BY <1>1, <1>3 DEF NothingLost, Held, frame
  <2>4. QED
    BY <2>1, <2>2, <2>3
<1>7. Checks'
  BY <1>1, <1>3 DEF TypeOK, Checks, DriftNeverEntered, library
<1>8. QED
  BY <1>4, <1>5, <1>6, <1>7

-----------------------------------------------------------------------------
(* Steps that change the heap.                                              *)

\* What is pointed to is not free, and strings, results and handles are told apart by the heap.
LEMMA HolderFacts ==
    ASSUME BoundaryInv
    PROVE  /\ \A g \in Goroutines : \A a \in args[g] : a \in Addrs /\ heap[a] = "string"
           /\ \A g \in Goroutines : res[g] # Null => res[g] \in Addrs /\ heap[res[g]] = "result"
           /\ \A g \in Goroutines : \A a \in {ptr[g], out[g]} : a # Null =>
                 a \in Addrs /\ heap[a] = call[g].to /\ heap[a] \in {"public", "stealth"}
           /\ \A o \in Cells : LET a == handles[o].ptr IN a # Null =>
                 a \in Addrs /\ heap[a] = handles[o].kind /\ heap[a] \in {"public", "stealth"}
<1>. USE DEF BoundaryInv
<1>1. \A g \in Goroutines : /\ call[g] \in Calls /\ args[g] \subseteq Addrs
                            /\ {res[g], ptr[g], out[g]} \subseteq Pointers
  BY DEF TypeOK
<1>2. \A o \in Cells : handles[o].kind \in Kinds /\ handles[o].ptr \in Pointers
  BY DEF TypeOK
<1>3. ASSUME NEW g \in Goroutines, NEW a \in {ptr[g], out[g]}, a # Null
      PROVE  a \in Addrs /\ heap[a] = call[g].to /\ heap[a] \in {"public", "stealth"}
  <2>1. a \in Addrs /\ heap[a] = call[g].to
    BY <1>1, <1>3 DEF Typed, Pointers
  <2>2. call[g].to \in Kinds
    BY <1>1, WrapperFacts
  <2>3. call[g].to # "none"
    <3>1. CASE a = out[g]
      BY <1>1, <1>3, <3>1, WrapperFacts DEF Frames
    <3>2. CASE a = ptr[g]
      <4>1. pc[g] = "call"
        BY <1>3, <3>2 DEF Frames, TypeOK
      <4>2. target[g] # Null
        BY <1>3, <3>2, <4>1 DEF Targets
      <4>3. QED
        BY <1>1, <4>2, WrapperFacts DEF Frames
    <3>3. QED
      BY <1>3, <3>1, <3>2
  <2>4. QED
    BY <2>1, <2>2, <2>3 DEF Kinds
<1>4. ASSUME NEW o \in Cells, handles[o].ptr # Null
      PROVE  /\ handles[o].ptr \in Addrs /\ heap[handles[o].ptr] = handles[o].kind
             /\ heap[handles[o].ptr] \in {"public", "stealth"}
  BY <1>2, <1>4 DEF Typed, Targets, Pointers, Kinds
<1>5. QED
  BY <1>1, <1>3, <1>4 DEF Typed, Pointers

LEMMA FreePreserves ==
    ASSUME BoundaryInv, NEW o \in Cells, FreeHandle(o)
    PROVE  BoundaryInv'
<1>. USE DEF BoundaryInv
<1>. DEFINE freed == handles[o].ptr
<1>1. /\ freed # Null /\ ~InUse(o)
      /\ handles' = [handles EXCEPT ![o].ptr = Null]
      /\ UNCHANGED <<library, pc, frame>>
  BY DEF FreeHandle
<1>2. freed \in Addrs /\ heap[freed] = handles[o].kind
  BY <1>1, HolderFacts
<1>3. heap' = [heap EXCEPT ![freed] = "free"]
  BY <1>2 DEF FreeHandle, TypeOK
<1>4. \A g \in Goroutines : target[g] # o
  BY <1>1, NullAssumption DEF InUse, Frames
<1>5. /\ \A p \in Cells : p # o => handles'[p] = handles[p]
      /\ handles'[o].ptr = Null /\ handles'[o].kind = handles[o].kind
  BY <1>1 DEF TypeOK
<1>6. /\ \A a \in Addrs : a # freed => heap'[a] = heap[a]
      /\ heap'[freed] = "free"
  BY <1>2, <1>3 DEF TypeOK
<1>7. TypeOK' /\ Frames'
  BY <1>1, <1>3 DEF TypeOK, Frames, library, frame, Pointers
<1>8. Targets'
  BY <1>1, <1>4, <1>5 DEF TypeOK, Targets, Invalidates, frame
<1>9. /\ \A g \in Goroutines : freed \notin args[g] \cup {res[g], ptr[g], out[g]}
      /\ \A p \in Cells : p # o => handles[p].ptr # freed
  BY <1>1, HolderFacts DEF Alone
<1>10. Typed'
  BY <1>1, <1>5, <1>6, <1>9, HolderFacts DEF Typed, frame
<1>11. Alone'
  BY <1>1, <1>5 DEF Alone, frame
<1>12. NothingLost'
  BY <1>1, <1>5, <1>6, <1>9 DEF NothingLost, Held, frame
<1>13. Checks'
  BY <1>1, <1>5, NullAssumption DEF TypeOK, Checks, DriftNeverEntered, library, Unmade
<1>14. QED
  BY <1>7, <1>8, <1>10, <1>11, <1>12, <1>13

LEMMA MarshalPreserves ==
    ASSUME BoundaryInv, NEW g \in Goroutines, Marshal(g)
    PROVE  BoundaryInv'
<1>. USE DEF BoundaryInv
<1>. DEFINE strings == Lowest(heap, call[g].strings)
            moves == target[g] # Null /\ Invalidates(call[g])
<1>1. /\ pc[g] = "abi" /\ once = "done" /\ ~abiErr
      /\ target[g] # Null => handles[target[g]].ptr # Null
      /\ args' = [args EXCEPT ![g] = strings]
      /\ heap' = [a \in Addrs |-> IF a \in strings THEN "string" ELSE heap[a]]
      /\ pc' = [pc EXCEPT ![g] = "call"]
      /\ UNCHANGED <<library, call, target, res, out, ok>>
  BY DEF Marshal, Checked, Spent
<1>2. IF moves THEN /\ ptr' = [ptr EXCEPT ![g] = handles[target[g]].ptr]
                    /\ handles' = [handles EXCEPT ![target[g]].ptr = Null]
               ELSE UNCHANGED <<ptr, handles>>
  BY DEF Marshal
<1>3. \A a \in strings : a \in Addrs /\ heap[a] = "free"
  <2>1. call[g].strings \in Nat
    BY WrapperFacts DEF TypeOK
  <2>2. QED
    BY <2>1, LowestFacts
<1>. HIDE DEF strings
<1>4. /\ args[g] = {} /\ ptr[g] = Null /\ res[g] = Null /\ out[g] = Null /\ ok[g] = FALSE
      /\ target[g] \in Cells \cup {Null}
  BY <1>1 DEF Frames, TypeOK
<1>5. /\ args'[g] = strings /\ pc'[g] = "call"
      /\ \A h \in Goroutines : h # g => args'[h] = args[h] /\ ptr'[h] = ptr[h] /\ pc'[h] = pc[h]
      /\ \A a \in Addrs : heap'[a] = IF a \in strings THEN "string" ELSE heap[a]
  BY <1>1, <1>2 DEF TypeOK
<1>6. CASE moves
  <2>. DEFINE t == target[g]
  <2>1. /\ t \in Cells /\ handles[t].ptr # Null
        /\ ptr'[g] = handles[t].ptr /\ handles'[t].ptr = Null /\ handles'[t].kind = handles[t].kind
        /\ \A o \in Cells : o # t => handles'[o] = handles[o]
        /\ \A o \in Cells : handles'[o].kind = handles[o].kind
    <3>1. /\ t \in Cells /\ handles[t].ptr # Null
          /\ ptr' = [ptr EXCEPT ![g] = handles[t].ptr]
          /\ handles' = [handles EXCEPT ![t].ptr = Null]
      BY <1>1, <1>2, <1>4, <1>6
    <3>. HIDE DEF t
    <3>2. handles \in [Cells -> [kind : Kinds, ptr : Pointers]] /\ ptr \in [Goroutines -> Pointers]
      BY DEF TypeOK
    <3>3. QED
      BY <3>1, <3>2
  <2>2. call[g].takes = "consumes" /\ call[g].to = handles[t].kind
    BY <1>6, <2>1, WrapperFacts DEF Invalidates, Targets, TypeOK
  <2>3. TypeOK' /\ Frames'
    <3>1. TypeOK'
      BY <1>1, <1>2, <1>3, <1>6, <2>1 DEF TypeOK, library, Pointers
    <3>2. Frames'
      BY <1>1, <1>4, <1>5 DEF Frames
    <3>3. QED
      BY <3>1, <3>2
  <2>4. Targets'
    <3>1. \A h \in Goroutines : h # g /\ target[h] # Null => target[h] \in Cells /\ target[h] # t
      BY <2>1, NullAssumption DEF Targets, TypeOK
    <3>2. QED
      BY <1>1, <1>5, <1>6, <2>1, <3>1, NullAssumption DEF Targets, Invalidates
  <2>5. Typed'
    BY <1>1, <1>3, <1>4, <1>5, <2>1, <2>2, HolderFacts DEF Typed
  <2>6. Alone'
    BY <1>1, <1>3, <1>4, <1>5, <2>1, <2>2, HolderFacts, NullAssumption DEF Alone
  <2>7. NothingLost'
    BY <1>1, <1>4, <1>5, <2>1 DEF NothingLost, Held
  <2>8. Checks'
    BY <1>1 DEF TypeOK, Checks, DriftNeverEntered, library
  <2>9. QED
    BY <2>3, <2>4, <2>5, <2>6, <2>7, <2>8
<1>7. CASE ~moves
  <2>1. UNCHANGED <<ptr, handles>>
    BY <1>2, <1>7
  <2>2. TypeOK' /\ Frames'
    <3>1. TypeOK'
      BY <1>1, <1>3, <2>1 DEF TypeOK, library, Pointers
    <3>2. Frames'
      BY <1>1, <1>4, <1>5, <2>1 DEF Frames
    <3>3. QED
      BY <3>1, <3>2
  <2>3. Targets'
    BY <1>1, <1>4, <1>5, <1>7, <2>1 DEF Targets, Invalidates
  <2>4. Typed'
    BY <1>1, <1>3, <1>5, <2>1, HolderFacts DEF Typed
  <2>5. Alone'
    BY <1>1, <1>3, <1>4, <1>5, <2>1, HolderFacts DEF Alone
  <2>6. NothingLost'
    BY <1>1, <1>4, <1>5, <2>1 DEF NothingLost, Held
  <2>7. Checks'
    BY <1>1 DEF TypeOK, Checks, DriftNeverEntered, library
  <2>8. QED
    BY <2>2, <2>3, <2>4, <2>5, <2>6, <2>7
<1>8. QED
  BY <1>6, <1>7

LEMMA NativePreserves ==
    ASSUME BoundaryInv, NEW g \in Goroutines, Native(g)
    PROVE  BoundaryInv'
<1>. USE DEF BoundaryInv
<1>. DEFINE taken == IF Takes(g) THEN {Passed(g)} ELSE {}
            rest == [a \in Addrs |-> IF a \in taken THEN "free" ELSE heap[a]]
<1>1. pc[g] = "call" /\ res[g] = Null /\ out[g] = Null /\ ok[g] = FALSE /\ call[g] \in Calls
  BY DEF Native, Frames, TypeOK
\* What the native function takes is what the goroutine took out of the object.
<1>2. taken = IF ptr[g] = Null THEN {} ELSE {ptr[g]}
  <2>1. CASE target[g] = Null
    <3>1. call[g].takes = "nothing" /\ ptr[g] = Null
      BY <1>1, <2>1 DEF Frames, Targets
    <3>2. QED
      BY <3>1 DEF Takes
  <2>2. CASE target[g] # Null /\ Invalidates(call[g])
    <3>1. ptr[g] # Null /\ Passed(g) = ptr[g] /\ heap[ptr[g]] = call[g].to
      BY <1>1, <2>2 DEF Targets, Passed, Typed
    <3>2. QED
      BY <2>2, <3>1 DEF Takes, Accepts, Invalidates
  <2>3. CASE target[g] # Null /\ ~Invalidates(call[g])
    <3>1. /\ ptr[g] = Null /\ Passed(g) = handles[target[g]].ptr /\ Passed(g) # Null
          /\ target[g] \in Cells /\ handles[target[g]].kind = call[g].kind
      BY <1>1, <2>3 DEF Targets, Passed, TypeOK
    <3>2. heap[Passed(g)] = call[g].kind
      BY <3>1 DEF Typed
    <3>3. ~Takes(g)
      BY <1>1, <2>3, <3>2, WrapperFacts DEF Takes, Accepts, Invalidates
    <3>4. QED
      BY <3>1, <3>3
  <2>4. QED
    BY <2>1, <2>2, <2>3
<1>3. \A a \in Addrs : rest[a] = IF a = ptr[g] THEN "free" ELSE heap[a]
  BY <1>2, NullAssumption
<1>4. PICK r \in Lowest(rest, 1) :
         LET answered == [rest EXCEPT ![r] = "result"] IN
         /\ res' = [res EXCEPT ![g] = r]
         /\ \/ /\ heap' = answered
               /\ \/ ok' = [ok EXCEPT ![g] = FALSE]
                  \/ Accepts(g) /\ ok' = [ok EXCEPT ![g] = TRUE]
               /\ UNCHANGED out
            \/ /\ Accepts(g) /\ call[g].gives
               /\ ok' = [ok EXCEPT ![g] = TRUE]
               /\ \E h \in Lowest(answered, 1) :
                     /\ heap' = [answered EXCEPT ![h] = call[g].to]
                     /\ out' = [out EXCEPT ![g] = h]
  BY DEF Native
<1>5. /\ ptr' = [ptr EXCEPT ![g] = Null] /\ pc' = [pc EXCEPT ![g] = "return"]
      /\ UNCHANGED <<library, handles, call, target, args>>
  BY DEF Native
<1>. DEFINE answered == [rest EXCEPT ![r] = "result"]
<1>6. r \in Addrs /\ rest[r] = "free"
  BY <1>4, LowestFacts
<1>7. \A a \in Addrs : answered[a] = IF a = r THEN "result" ELSE rest[a]
  BY <1>6
<1>8. \A h \in Lowest(answered, 1) : h \in Addrs /\ answered[h] = "free"
  BY LowestFacts
<1>. HIDE DEF rest
\* What the step does, whether the function fails, succeeds, or hands a handle out.
<1>9. PICK h \in Addrs \cup {Null} :
         /\ out' = [out EXCEPT ![g] = h]
         /\ \/ h = Null /\ ok' \in [Goroutines -> BOOLEAN]
            \/ /\ h \in Addrs /\ answered[h] = "free" /\ call[g].gives
               /\ ok' = [ok EXCEPT ![g] = TRUE]
         /\ \A k \in Goroutines : k # g => ok'[k] = ok[k]
         /\ heap' \in [Addrs -> {"free", "string", "result", "public", "stealth"}]
         /\ \A a \in Addrs : heap'[a] = IF a = h THEN call[g].to ELSE answered[a]
  <2>1. answered \in [Addrs -> {"free", "string", "result", "public", "stealth"}]
    BY <1>6 DEF rest, TypeOK
  <2>2. CASE heap' = answered /\ UNCHANGED out
    <3>1. /\ out' = [out EXCEPT ![g] = Null] /\ ok' \in [Goroutines -> BOOLEAN]
          /\ \A k \in Goroutines : k # g => ok'[k] = ok[k]
      BY <1>1, <1>4, <2>2 DEF TypeOK
    <3>. HIDE DEF answered
    <3>2. \A a \in Addrs : heap'[a] = IF a = Null THEN call[g].to ELSE answered[a]
      BY <2>2, NullAssumption
    <3>3. heap' \in [Addrs -> {"free", "string", "result", "public", "stealth"}]
      BY <2>1, <2>2
    <3>4. Null \in Addrs \cup {Null}
      OBVIOUS
    <3>5. QED
      BY <3>1, <3>2, <3>3, <3>4
  <2>3. ASSUME NEW h \in Lowest(answered, 1), call[g].gives,
               ok' = [ok EXCEPT ![g] = TRUE],
               heap' = [answered EXCEPT ![h] = call[g].to],
               out' = [out EXCEPT ![g] = h]
        PROVE  /\ h \in Addrs /\ answered[h] = "free"
               /\ \A k \in Goroutines : k # g => ok'[k] = ok[k]
               /\ heap' \in [Addrs -> {"free", "string", "result", "public", "stealth"}]
               /\ \A a \in Addrs : heap'[a] = IF a = h THEN call[g].to ELSE answered[a]
    <3>1. h \in Addrs /\ answered[h] = "free"
      BY <1>8
    <3>2. call[g].to \in {"public", "stealth"}
      BY <1>1, <2>3, WrapperFacts DEF Kinds
    <3>. HIDE DEF answered
    <3>3. QED
      BY <2>1, <2>3, <3>1, <3>2 DEF TypeOK
  <2>4. QED
    BY <1>4, <2>2, <2>3
<1>. HIDE DEF answered
<1>10. /\ res'[g] = r /\ out'[g] = h /\ ptr'[g] = Null /\ pc'[g] = "return"
       /\ \A k \in Goroutines : k # g =>
             /\ res'[k] = res[k] /\ out'[k] = out[k] /\ ptr'[k] = ptr[k] /\ pc'[k] = pc[k]
             /\ ok'[k] = ok[k]
       /\ h # Null => ok'[g] = TRUE /\ call[g].gives
  BY <1>4, <1>5, <1>9 DEF TypeOK
<1>11. /\ heap'[r] = "result" /\ h # r
       /\ h # Null => heap'[h] = call[g].to
       /\ \A a \in Addrs : heap'[a] # "free" => a = r \/ a = h \/ (a # ptr[g] /\ heap[a] # "free")
       /\ \A a \in Addrs : heap[a] # "free" /\ a # ptr[g] => heap'[a] = heap[a] /\ a # r /\ a # h
  BY <1>3, <1>6, <1>7, <1>9, NullAssumption
<1>12. TypeOK'
  BY <1>4, <1>5, <1>6, <1>9 DEF TypeOK, library, Pointers
<1>13. Frames'
  BY <1>1, <1>5, <1>6, <1>10, NullAssumption DEF Frames
<1>14. Targets'
  BY <1>1, <1>5, <1>10 DEF Targets, Invalidates
\* What the others point to, and the strings of this call, are as they were.
<1>15. /\ \A k \in Goroutines : \A a \in args[k] : heap'[a] = "string" /\ a # r /\ a # h
       /\ \A k \in Goroutines : k # g /\ res[k] # Null =>
             heap'[res[k]] = "result" /\ res[k] # r /\ res[k] # h
       /\ \A k \in Goroutines : \A a \in {ptr[k], out[k]} : k # g /\ a # Null =>
             heap'[a] = call[k].to /\ a # r /\ a # h
       /\ \A o \in Cells : handles[o].ptr # Null =>
             /\ heap'[handles[o].ptr] = handles[o].kind
             /\ handles[o].ptr # r /\ handles[o].ptr # h
  <2>1. ASSUME NEW k \in Goroutines, NEW a \in args[k]
        PROVE  heap'[a] = "string" /\ a # r /\ a # h
    <3>1. a \in Addrs /\ heap[a] = "string" /\ a # ptr[g]
      BY HolderFacts, NullAssumption
    <3>2. QED
      BY <1>11, <3>1
  <2>2. ASSUME NEW k \in Goroutines, k # g, res[k] # Null
        PROVE  heap'[res[k]] = "result" /\ res[k] # r /\ res[k] # h
    <3>1. res[k] \in Addrs /\ heap[res[k]] = "result" /\ res[k] # ptr[g]
      BY <2>2, HolderFacts, NullAssumption
    <3>2. QED
      BY <1>11, <3>1
  <2>3. ASSUME NEW k \in Goroutines, NEW a \in {ptr[k], out[k]}, k # g, a # Null
        PROVE  heap'[a] = call[k].to /\ a # r /\ a # h
    <3>1. a \in Addrs /\ heap[a] = call[k].to /\ heap[a] # "free"
      BY <2>3, HolderFacts
    <3>2. a # ptr[g]
      BY <2>3 DEF Alone
    <3>3. QED
      BY <1>11, <3>1, <3>2
  <2>4. ASSUME NEW o \in Cells, handles[o].ptr # Null
        PROVE  /\ heap'[handles[o].ptr] = handles[o].kind
               /\ handles[o].ptr # r /\ handles[o].ptr # h
    <3>1. /\ handles[o].ptr \in Addrs /\ heap[handles[o].ptr] = handles[o].kind
          /\ heap[handles[o].ptr] # "free"
      BY <2>4, HolderFacts
    <3>2. handles[o].ptr # ptr[g]
      BY <2>4 DEF Alone
    <3>3. QED
      BY <1>11, <3>1, <3>2
  <2>5. QED
    BY <2>1, <2>2, <2>3, <2>4
<1>16. Typed'
  BY <1>5, <1>10, <1>11, <1>15 DEF Typed
<1>17. Alone'
  BY <1>5, <1>6, <1>10, <1>15, NullAssumption DEF Alone
<1>18. NothingLost'
  BY <1>1, <1>5, <1>10, <1>11, NullAssumption DEF NothingLost, Held
<1>19. Checks'
  BY <1>1, <1>5 DEF Checks, DriftNeverEntered, library
<1>20. QED
  BY <1>12, <1>13, <1>14, <1>16, <1>17, <1>18, <1>19

LEMMA ReturnPreserves ==
    ASSUME BoundaryInv, NEW g \in Goroutines, Return(g)
    PROVE  BoundaryInv'
<1>. USE DEF BoundaryInv
<1>1. /\ pc[g] = "return" /\ pc' = [pc EXCEPT ![g] = "idle"]
      /\ heap' = [a \in Addrs |-> IF a \in args[g] \cup {res[g]} THEN "free" ELSE heap[a]]
      /\ call' = [call EXCEPT ![g] = NoCall] /\ target' = [target EXCEPT ![g] = Null]
      /\ args' = [args EXCEPT ![g] = {}] /\ res' = [res EXCEPT ![g] = Null]
      /\ out' = [out EXCEPT ![g] = Null] /\ ok' = [ok EXCEPT ![g] = FALSE]
      /\ UNCHANGED <<library, ptr>>
  BY DEF Return, Freed, Leave
<1>2. ptr[g] = Null /\ res[g] # Null /\ call[g] \in Calls
  BY <1>1 DEF Frames, TypeOK
<1>3. Gives(g) <=> out[g] # Null
  BY DEF Gives, Frames
<1>4. /\ pc'[g] = "idle" /\ call'[g] = NoCall /\ target'[g] = Null /\ args'[g] = {}
      /\ res'[g] = Null /\ out'[g] = Null /\ ok'[g] = FALSE /\ ptr'[g] = Null
      /\ \A k \in Goroutines : k # g =>
            /\ pc'[k] = pc[k] /\ call'[k] = call[k] /\ target'[k] = target[k] /\ args'[k] = args[k]
            /\ res'[k] = res[k] /\ out'[k] = out[k] /\ ok'[k] = ok[k] /\ ptr'[k] = ptr[k]
  BY <1>1, <1>2 DEF TypeOK
\* The handle of the result, if there is one, moves into an object nobody uses.
<1>5. /\ handles' \in [Cells -> [kind : Kinds, ptr : Pointers]]
      /\ \E o \in Cells \cup {Null} :
            /\ o = Null <=> out[g] = Null
            /\ o # Null => handles[o] = Unmade /\ handles'[o] = [kind |-> call[g].kind, ptr |-> out[g]]
            /\ \A p \in Cells : p # o => handles'[p] = handles[p]
  <2>1. CASE out[g] = Null
    <3>1. handles' = handles
      BY <1>3, <2>1 DEF Return
    <3>2. QED
      BY <2>1, <3>1, NullAssumption DEF TypeOK
  <2>2. CASE out[g] # Null
    <3>1. PICK o \in Cells :
             /\ handles[o] = Unmade
             /\ handles' = [handles EXCEPT ![o] = [kind |-> call[g].kind, ptr |-> out[g]]]
      BY <1>3, <2>2 DEF Return
    <3>2. call[g].kind \in Kinds /\ out[g] \in Pointers
      BY <1>2, WrapperFacts DEF TypeOK
    <3>. DEFINE made == [kind |-> call[g].kind, ptr |-> out[g]]
    <3>3. made \in [kind : Kinds, ptr : Pointers]
      BY <3>2
    <3>. HIDE DEF made
    <3>4. /\ handles' \in [Cells -> [kind : Kinds, ptr : Pointers]]
          /\ handles'[o] = made /\ \A p \in Cells : p # o => handles'[p] = handles[p]
      BY <3>1, <3>3 DEF TypeOK, made
    <3>5. o # Null
      BY NullAssumption
    <3>6. QED
      BY <2>2, <3>1, <3>4, <3>5 DEF made
  <2>3. QED
    BY <2>1, <2>2
<1>6. PICK o \in Cells \cup {Null} :
         /\ o = Null <=> out[g] = Null
         /\ o # Null => handles[o] = Unmade /\ handles'[o] = [kind |-> call[g].kind, ptr |-> out[g]]
         /\ \A p \in Cells : p # o => handles'[p] = handles[p]
  BY <1>5
<1>7. o # Null =>
         /\ o \in Cells /\ out[g] # Null /\ handles[o].ptr = Null /\ handles[o].kind = "none"
         /\ handles'[o].kind = call[g].kind /\ handles'[o].ptr = out[g]
         /\ call[g].gives /\ call[g].kind # "none" /\ call[g].to = call[g].kind
  <2>1. out[g] # Null => call[g].gives
    BY DEF Frames
  <2>2. QED
    BY <1>2, <1>6, <2>1, WrapperFacts DEF Unmade
<1>8. \A k \in Goroutines : target[k] # Null => target[k] \in Cells /\ target[k] # o
  <2>1. ASSUME NEW k \in Goroutines, target[k] # Null
        PROVE  target[k] \in Cells /\ handles[target[k]].kind # "none"
    <3>1. call[k].takes # "nothing" /\ call[k] \in Calls
      BY <2>1 DEF Frames, TypeOK
    <3>2. QED
      BY <2>1, <3>1, WrapperFacts DEF Targets, TypeOK
  <2>2. QED
    BY <1>7, <2>1
<1>9. TypeOK'
  BY <1>1, <1>5, WrapperFacts DEF TypeOK, library, Pointers
<1>10. Frames'
  BY <1>4, NullAssumption DEF Frames, NoCall
<1>11. Targets'
  <2>1. \A k \in Goroutines : target'[k] # Null =>
           /\ k # g /\ target'[k] = target[k] /\ call'[k] = call[k] /\ pc'[k] = pc[k] /\ ptr'[k] = ptr[k]
           /\ handles'[target[k]] = handles[target[k]]
    BY <1>4, <1>6, <1>8
  <2>2. \A p \in Cells : handles'[p].kind = "none" => handles'[p].ptr = Null
    BY <1>6, <1>7, NullAssumption DEF Targets
  <2>3. QED
    BY <1>4, <2>1, <2>2 DEF Targets, Invalidates
\* What is released belongs to this call alone.
<1>12. \A a \in Addrs : a \notin args[g] \cup {res[g]} => heap'[a] = heap[a]
  BY <1>1
<1>13. /\ \A k \in Goroutines : k # g => \A a \in args[k] : a \in Addrs /\ a \notin args[g] \cup {res[g]}
       /\ \A k \in Goroutines : k # g /\ res[k] # Null =>
             res[k] \in Addrs /\ res[k] \notin args[g] \cup {res[g]}
       /\ \A k \in Goroutines : \A a \in {ptr[k], out[k]} : a # Null =>
             a \in Addrs /\ a \notin args[g] \cup {res[g]}
       /\ \A p \in Cells : handles[p].ptr # Null =>
             handles[p].ptr \in Addrs /\ handles[p].ptr \notin args[g] \cup {res[g]}
  <2>1. \A a \in args[g] \cup {res[g]} : a \in Addrs /\ heap[a] \in {"string", "result"}
    BY <1>2, HolderFacts
  <2>2. ASSUME NEW k \in Goroutines, k # g, NEW a \in args[k]
        PROVE  a \in Addrs /\ a \notin args[g] \cup {res[g]}
    BY <1>2, <2>2, HolderFacts DEF Alone
  <2>3. ASSUME NEW k \in Goroutines, k # g, res[k] # Null
        PROVE  res[k] \in Addrs /\ res[k] \notin args[g] \cup {res[g]}
    BY <2>3, HolderFacts DEF Alone
  <2>4. ASSUME NEW k \in Goroutines, NEW a \in {ptr[k], out[k]}, a # Null
        PROVE  a \in Addrs /\ a \notin args[g] \cup {res[g]}
    BY <2>1, <2>4, HolderFacts
  <2>5. ASSUME NEW p \in Cells, handles[p].ptr # Null
        PROVE  handles[p].ptr \in Addrs /\ handles[p].ptr \notin args[g] \cup {res[g]}
    BY <2>1, <2>5, HolderFacts
  <2>6. QED
    BY <2>2, <2>3, <2>4, <2>5
<1>14. Typed'
  <2>1. ASSUME NEW k \in Goroutines
        PROVE  /\ \A a \in args'[k] : heap'[a] = "string"
               /\ res'[k] # Null => heap'[res'[k]] = "result"
               /\ \A a \in {ptr'[k], out'[k]} : a # Null => heap'[a] = call'[k].to
    <3>1. CASE k = g
      BY <1>4, <3>1
    <3>2. CASE k # g
      BY <1>4, <1>12, <1>13, <3>2 DEF Typed
    <3>3. QED
      BY <3>1, <3>2
  <2>2. ASSUME NEW p \in Cells, handles'[p].ptr # Null
        PROVE  heap'[handles'[p].ptr] = handles'[p].kind
    <3>1. CASE p = o
      BY <1>7, <1>12, <1>13, <2>2, <3>1, NullAssumption DEF Typed
    <3>2. CASE p # o
      BY <1>6, <1>12, <1>13, <2>2, <3>2 DEF Typed
    <3>3. QED
      BY <3>1, <3>2
  <2>3. QED
    BY <2>1, <2>2 DEF Typed
<1>15. Alone'
  <2>1. \A h, k \in Goroutines : h # k =>
          /\ \A a \in args'[h] : a \notin args'[k]
          /\ res'[h] # Null => res'[h] # res'[k]
          /\ \A a \in {ptr'[h], out'[h]} : a # Null => a \notin {ptr'[k], out'[k]}
    BY <1>4 DEF Alone
  <2>2. ASSUME NEW k \in Goroutines, NEW p \in Cells, handles'[p].ptr # Null
        PROVE  handles'[p].ptr \notin {ptr'[k], out'[k]}
    <3>1. CASE k = g
      BY <1>4, <2>2, <3>1
    <3>2. CASE k # g /\ p = o
      BY <1>4, <1>7, <3>2, <2>2, NullAssumption DEF Alone
    <3>3. CASE k # g /\ p # o
      BY <1>4, <1>6, <2>2, <3>3 DEF Alone
    <3>4. QED
      BY <3>1, <3>2, <3>3
  <2>3. ASSUME NEW p \in Cells, NEW q \in Cells, p # q, handles'[p].ptr # Null
        PROVE  handles'[p].ptr # handles'[q].ptr
    <3>1. CASE p # o /\ q # o
      BY <1>6, <2>3, <3>1 DEF Alone
    <3>2. ASSUME NEW x \in Cells \ {o}, o # Null, handles[x].ptr # Null
          PROVE  handles[x].ptr # out[g]
      BY <3>2 DEF Alone
    <3>3. CASE p = o
      BY <1>6, <1>7, <2>3, <3>2, <3>3, NullAssumption
    <3>4. CASE q = o
      BY <1>6, <1>7, <2>3, <3>2, <3>4, NullAssumption
    <3>5. QED
      BY <3>1, <3>3, <3>4
  <2>4. QED
    BY <2>1, <2>2, <2>3 DEF Alone
<1>16. NothingLost'
  <2>1. ASSUME NEW a \in Addrs, heap'[a] # "free" PROVE Held(a)'
    <3>1. heap[a] # "free" /\ a \notin args[g] \cup {res[g]} /\ a # Null
      BY <1>1, <2>1, NullAssumption
    <3>2. CASE \E k \in Goroutines : k # g /\ a \in args[k] \cup {res[k], ptr[k], out[k]}
      BY <1>4, <3>2 DEF Held
    <3>3. CASE a = out[g]
      BY <1>6, <1>7, <3>1, <3>3 DEF Held
    <3>4. CASE \E p \in Cells : handles[p].ptr = a
      BY <1>6, <1>7, <3>1, <3>4, NullAssumption DEF Held
    <3>5. QED
      BY <1>2, <3>1, <3>2, <3>3, <3>4 DEF NothingLost, Held
  <2>2. QED
    BY <2>1 DEF NothingLost
<1>17. Checks'
  <2>1. lib # "drifted"
    BY <1>1 DEF Checks, DriftNeverEntered
  <2>2. QED
    BY <1>1, <2>1 DEF Checks, DriftNeverEntered, library
<1>18. QED
  BY <1>9, <1>10, <1>11, <1>14, <1>15, <1>16, <1>17

-----------------------------------------------------------------------------
(* The theorems.                                                            *)

LEMMA StutterPreserves == BoundaryInv /\ UNCHANGED vars => BoundaryInv'
<1>. USE DEF vars, library, frame
<1>1. TypeOK /\ UNCHANGED vars => TypeOK'
  BY DEF TypeOK
<1>2. Frames /\ Targets /\ UNCHANGED vars => Frames' /\ Targets'
  BY DEF Frames, Targets, Invalidates
<1>3. Typed /\ Alone /\ NothingLost /\ UNCHANGED vars => Typed' /\ Alone' /\ NothingLost'
  BY DEF Typed, Alone, NothingLost, Held
<1>4. Checks /\ UNCHANGED vars => Checks'
  BY DEF Checks, DriftNeverEntered
<1>5. QED
  BY <1>1, <1>2, <1>3, <1>4 DEF BoundaryInv

\* Every reachable state satisfies the invariant.
THEOREM Invariance == Spec => []BoundaryInv
<1>1. BoundaryInv /\ [Next]_vars => BoundaryInv'
  <2>. SUFFICES ASSUME BoundaryInv, [Next]_vars PROVE BoundaryInv'
    OBVIOUS
  <2>1. ASSUME NEW g \in Goroutines, Begin(g) \/ InCall(g) PROVE BoundaryInv'
    BY <2>1, BeginPreserves, CheckPreserves, RefusedPreserves, MarshalPreserves, NativePreserves,
       ReturnPreserves DEF InCall
  <2>2. ASSUME NEW o \in Cells, FreeHandle(o) \/ Drop(o) PROVE BoundaryInv'
    BY <2>2, FreePreserves, DropPreserves
  <2>3. QED
    BY <2>1, <2>2, StutterPreserves DEF Next
<1>2. QED
  BY <1>1, InitEstablishes, PTL DEF Spec

\* Types.
THEOREM TypeCorrect == Spec => []TypeOK
BY Invariance, PTL DEF BoundaryInv

\* Whatever is allocated on the C heap has exactly one owner, who takes it for what it is.
THEOREM MemoryOwned == Spec => []OneOwner
<1>1. BoundaryInv => OneOwner
  <2>. SUFFICES ASSUME BoundaryInv, NEW a \in Addrs
               PROVE  IF heap[a] = "free" THEN Owners(a) = {}
                      ELSE \E who \in Goroutines \cup Cells : Owners(a) = {<<heap[a], who>>}
    BY DEF OneOwner
  <2>. USE DEF BoundaryInv
  <2>1. a # Null
    BY NullAssumption
  <2>2. \A g \in Goroutines : /\ a \in args[g] => heap[a] = "string"
                              /\ res[g] = a => heap[a] = "result"
                              /\ a \in {ptr[g], out[g]} =>
                                    heap[a] = call[g].to /\ heap[a] \in {"public", "stealth"}
    BY <2>1, HolderFacts
  <2>3. \A o \in Cells : handles[o].ptr = a =>
           heap[a] = handles[o].kind /\ heap[a] \in {"public", "stealth"}
    BY <2>1, HolderFacts
  <2>4. CASE heap[a] = "free"
    BY <2>2, <2>3, <2>4 DEF Owners
  <2>5. CASE heap[a] # "free"
    <3>1. CASE \E g \in Goroutines : a \in args[g]
      <4>1. PICK g \in Goroutines : a \in args[g]
        BY <3>1
      <4>2. heap[a] = "string" /\ \A k \in Goroutines : a \in args[k] => k = g
        BY <2>2, <4>1 DEF Alone
      <4>3. Owners(a) = {<<heap[a], g>>}
        BY <2>2, <2>3, <4>1, <4>2 DEF Owners
      <4>4. QED
        BY <2>5, <4>3
    <3>2. CASE \E g \in Goroutines : res[g] = a
      <4>1. PICK g \in Goroutines : res[g] = a
        BY <3>2
      <4>2. heap[a] = "result" /\ \A k \in Goroutines : res[k] = a => k = g
        BY <2>1, <2>2, <4>1 DEF Alone
      <4>3. Owners(a) = {<<heap[a], g>>}
        BY <2>2, <2>3, <4>1, <4>2 DEF Owners
      <4>4. QED
        BY <2>5, <4>3
    <3>3. CASE \E g \in Goroutines : a \in {ptr[g], out[g]}
      <4>1. PICK g \in Goroutines : a \in {ptr[g], out[g]}
        BY <3>3
      <4>2. /\ heap[a] = call[g].to /\ heap[a] \in {"public", "stealth"}
            /\ \A k \in Goroutines : a \in {ptr[k], out[k]} => k = g
        BY <2>1, <2>2, <4>1 DEF Alone
      <4>3. \A o \in Cells : handles[o].ptr # a
        BY <2>1, <4>1 DEF Alone
      <4>4. Owners(a) = {<<heap[a], g>>}
        BY <2>2, <4>1, <4>2, <4>3 DEF Owners
      <4>5. QED
        BY <2>5, <4>4
    <3>4. CASE \E o \in Cells : handles[o].ptr = a
      <4>1. PICK o \in Cells : handles[o].ptr = a
        BY <3>4
      <4>2. /\ heap[a] = handles[o].kind /\ heap[a] \in {"public", "stealth"}
            /\ \A p \in Cells : handles[p].ptr = a => p = o
        BY <2>1, <2>3, <4>1 DEF Alone
      <4>3. \A g \in Goroutines : a \notin {ptr[g], out[g]}
        BY <2>1, <4>1 DEF Alone
      <4>4. Owners(a) = {<<heap[a], o>>}
        BY <2>2, <4>1, <4>2, <4>3 DEF Owners
      <4>5. QED
        BY <2>5, <4>4
    <3>5. QED
      BY <2>5, <3>1, <3>2, <3>3, <3>4 DEF NothingLost, Held
  <2>6. QED
    BY <2>4, <2>5
<1>2. QED
  BY <1>1, Invariance, PTL

\* A library of another ABI is never entered.
THEOREM NeverDrifts == Spec => []DriftNeverEntered
<1>1. BoundaryInv => DriftNeverEntered
  BY DEF BoundaryInv, Checks
<1>2. QED
  BY <1>1, Invariance, PTL

\* A consuming call leaves its handle spent, and hands out a handle exactly when it succeeds with one.
THEOREM ReturnsKept == Spec => ReturnsAsPromised
<1>. DEFINE Promise ==
        \A g \in Goroutines :
          pc[g] # "idle" /\ pc'[g] = "idle" =>
              /\ call[g].takes = "consumes" => handles'[target[g]].ptr = Null
              /\ \A o \in Cells : handles[o] = Unmade /\ handles'[o] # Unmade =>
                    ok[g] /\ handles'[o].ptr # Null /\ handles'[o].kind = call[g].kind
<1>1. BoundaryInv /\ [Next]_vars => [Promise]_vars
  <2>. SUFFICES ASSUME BoundaryInv, Next, NEW g \in Goroutines, pc[g] # "idle", pc'[g] = "idle"
               PROVE  /\ call[g].takes = "consumes" => handles'[target[g]].ptr = Null
                      /\ \A o \in Cells : handles[o] = Unmade /\ handles'[o] # Unmade =>
                            ok[g] /\ handles'[o].ptr # Null /\ handles'[o].kind = call[g].kind
    OBVIOUS
  <2>. USE DEF BoundaryInv
  <2>1. Refused(g) \/ Return(g)
    <3>1. pc \in [Goroutines -> {"idle", "abi", "checking", "call", "return"}]
      BY DEF TypeOK
    <3>2. ASSUME NEW k \in Goroutines, Begin(k) \/ InCall(k) PROVE Refused(g) \/ Return(g)
      <4>1. CASE k = g
        BY <3>1, <3>2, <4>1
           DEF Begin, InCall, FirstCall, CheckABIVersion, Marshal, Native
      <4>2. CASE k # g
        BY <3>1, <3>2, <4>2
           DEF Begin, InCall, FirstCall, CheckABIVersion, Refused, Leave, Marshal, Native, Return
      <4>3. QED
        BY <4>1, <4>2
    <3>3. QED
      BY <3>2 DEF Next, FreeHandle, Drop
  \* The object of a consuming call is not an unmade one.
  <2>2. call[g].takes = "consumes" =>
           /\ target[g] \in Cells /\ handles[target[g]].kind # "none"
           /\ Invalidates(call[g])
    <3>1. call[g] \in Calls /\ target[g] \in Cells \cup {Null}
      BY DEF TypeOK
    <3>2. QED
      BY <3>1, WrapperFacts DEF Frames, Targets, Invalidates
  <2>3. CASE Refused(g)
    <3>1. handles' = handles /\ once = "done" /\ (abiErr \/ Spent(g))
      BY <2>3 DEF Refused, Checked
    <3>2. abiErr => lib = "drifted"
      BY <3>1 DEF Checks
    <3>3. ASSUME call[g].takes = "consumes" PROVE handles[target[g]].ptr = Null
      <4>1. ~abiErr
        BY <2>2, <3>2, <3>3 DEF Checks, DriftNeverEntered, Unmade
      <4>2. QED
        BY <3>1, <4>1 DEF Spent
    <3>4. QED
      BY <3>1, <3>3
  <2>4. CASE Return(g)
    <3>1. pc[g] = "return"
      BY <2>4 DEF Return
    <3>2. call[g].takes = "consumes" => handles[target[g]].ptr = Null
      BY <2>2, <3>1, NullAssumption DEF Targets
    <3>3. CASE ~Gives(g)
      <4>1. handles' = handles
        BY <2>4, <3>3 DEF Return
      <4>2. QED
        BY <3>2, <4>1
    <3>4. CASE Gives(g)
      <4>1. PICK o \in Cells :
               /\ handles[o] = Unmade
               /\ handles' = [handles EXCEPT ![o] = [kind |-> call[g].kind, ptr |-> out[g]]]
        BY <2>4, <3>4 DEF Return
      <4>2. ok[g] /\ out[g] # Null
        BY <3>4 DEF Gives
      <4>3. /\ handles'[o].kind = call[g].kind /\ handles'[o].ptr = out[g]
            /\ \A p \in Cells : p # o => handles'[p] = handles[p]
        BY <4>1 DEF TypeOK
      <4>4. call[g].takes = "consumes" => target[g] \in Cells /\ target[g] # o
        BY <2>2, <4>1 DEF Unmade
      <4>5. QED
        BY <3>2, <4>2, <4>3, <4>4
    <3>5. QED
      BY <3>3, <3>4
  <2>5. QED
    BY <2>1, <2>3, <2>4
<1>2. QED
  BY <1>1, Invariance, PTL DEF Spec, ReturnsAsPromised

=============================================================================

---------------------------- MODULE BuildersProofs ----------------------------
(***************************************************************************)
(* The builders and the intents they hand out, for any elements, widths    *)
(* and capacities: what is handed out is kept as long as one appends, a    *)
(* stealth intent stays reconciled, and a send's window is fresh.          *)
(***************************************************************************)
EXTENDS Builders, SequenceTheorems, FiniteSetTheorems, TLAPS

-----------------------------------------------------------------------------
(* Slices.                                                                  *)

Heaps == Seq(Seq(Nat))
Slices == [array : Nat, len : Nat]

\* What a slice header shows of a heap, and that it is a header of that heap.
In(h, s) == IF s.array = 0 THEN <<>> ELSE SubSeq(h[s.array], 1, s.len)
Fits(h, s) ==
    /\ s \in Slices
    /\ IF s.array = 0 THEN s.len = 0 ELSE s.array \in 1..Len(h) /\ s.len <= Len(h[s.array])

LEMMA InFacts ==
    ASSUME NEW h \in Heaps, NEW s, Fits(h, s)
    PROVE  /\ In(h, s) \in Seq(Nat) /\ Len(In(h, s)) = s.len
           /\ s.array # 0 => /\ h[s.array] \in Seq(Nat)
                             /\ \A i \in 1..s.len : In(h, s)[i] = h[s.array][i]
<1>1. CASE s.array = 0
  BY <1>1 DEF In, Fits
<1>2. CASE s.array # 0
  <2>1. /\ s.array \in 1..Len(h) /\ s.len \in Nat /\ s.len <= Len(h[s.array])
        /\ h[s.array] \in Seq(Nat) /\ Len(h[s.array]) \in Nat
    BY <1>2 DEF Fits, Heaps, Slices
  <2>2. \A i \in 1..s.len : h[s.array][i] \in Nat
    BY <2>1
  <2>3. /\ SubSeq(h[s.array], 1, s.len) \in Seq(Nat)
        /\ Len(SubSeq(h[s.array], 1, s.len)) = s.len
        /\ \A i \in 1..s.len : SubSeq(h[s.array], 1, s.len)[i] = h[s.array][i]
    BY <2>1, <2>2
  <2>4. QED
    BY <1>2, <2>1, <2>3 DEF In
<1>3. QED
  BY <1>1, <1>2

\* A slice shows the same of two heaps whose arrays agree that far.
LEMMA InSame ==
    ASSUME NEW h \in Heaps, NEW k \in Heaps, NEW s, Fits(h, s), Fits(k, s),
           s.array # 0 => \A i \in 1..s.len : h[s.array][i] = k[s.array][i]
    PROVE  In(h, s) = In(k, s)
<1>1. CASE s.array = 0
  BY <1>1 DEF In
<1>2. CASE s.array # 0
  <2>1. /\ In(h, s) \in Seq(Nat) /\ In(k, s) \in Seq(Nat) /\ Len(In(h, s)) = Len(In(k, s))
        /\ Len(In(h, s)) = s.len
        /\ \A i \in 1..s.len : In(h, s)[i] = In(k, s)[i]
    BY <1>2, InFacts
  <2>2. QED
    BY <2>1, SeqEqual
<1>3. QED
  BY <1>1, <1>2

\* A sequence with one element replaced.
LEMMA Replaced ==
    ASSUME NEW S, NEW q \in Seq(S), NEW a \in 1..Len(q), NEW c \in S, NEW k, k = [q EXCEPT ![a] = c]
    PROVE  /\ k \in Seq(S) /\ Len(k) = Len(q)
           /\ \A b \in 1..Len(q) : k[b] = IF b = a THEN c ELSE q[b]
BY ExceptSeq

\* The array of u in k holds what t shows in h, and then e.
Holds(h, t, e, k, u) ==
    /\ u.array # 0 /\ k[u.array][t.len + 1] = e
    /\ \A i \in 1..t.len : k[u.array][i] = In(h, t)[i]

\* What a header shows after append: as before, and the new element.
LEMMA ShowsOneMore ==
    ASSUME NEW h \in Heaps, NEW k \in Heaps, NEW t, NEW u, NEW e \in Nat,
           Fits(h, t), Fits(k, u), u.len = t.len + 1, Holds(h, t, e, k, u)
    PROVE  In(k, u) = Append(In(h, t), e)
<1>1. /\ In(k, u) \in Seq(Nat) /\ Len(In(k, u)) = u.len
      /\ \A i \in 1..u.len : In(k, u)[i] = k[u.array][i]
  BY InFacts DEF Holds
<1>2. In(h, t) \in Seq(Nat) /\ Len(In(h, t)) = t.len /\ t.len \in Nat
  BY InFacts DEF Fits, Slices
<1>3. PICK new : new = Append(In(h, t), e)
  OBVIOUS
<1>4. /\ new \in Seq(Nat) /\ Len(new) = t.len + 1 /\ new[t.len + 1] = e
      /\ \A i \in 1..t.len : new[i] = In(h, t)[i]
  BY <1>2, <1>3
<1>5. ASSUME NEW i \in 1..u.len
      PROVE  In(k, u)[i] = new[i]
  <2>1. i = t.len + 1 \/ i \in 1..t.len
    BY <1>2
  <2>2. QED
    BY <1>1, <1>4, <2>1 DEF Holds
<1>6. In(k, u) = new
  BY <1>1, <1>4, <1>5, SeqEqual
<1>7. QED
  BY <1>3, <1>6

\* k is h after the next cell of t's array was written.
Wrote(h, k, t, e) ==
    /\ k \in Heaps /\ Len(k) = Len(h)
    /\ \A b \in 1..Len(h) : Len(k[b]) = Len(h[b])
    /\ k[t.array][t.len + 1] = e
    /\ \A b \in 1..Len(h) : \A i \in 1..Len(h[b]) :
          b # t.array \/ i # t.len + 1 => k[b][i] = h[b][i]

\* k and u are h and t after append: u shows one element more, and whoever shares the array and is
\* not ahead of t sees nothing.
Extended(h, t, e, k, u) ==
    /\ k \in Heaps /\ Fits(k, u)
    /\ In(k, u) = Append(In(h, t), e)
    /\ u.len = t.len + 1
    /\ u.array = t.array \/ u.array = Len(h) + 1
    /\ \A s : Fits(h, s) =>
          /\ Fits(k, s)
          /\ s.array # t.array \/ s.len <= t.len => In(k, s) = In(h, s)
          /\ s.array # Len(h) + 1

LEMMA WriteFacts ==
    ASSUME NEW h \in Heaps, NEW t, Fits(h, t), t.array # 0, t.len < Len(h[t.array]),
           NEW e \in Nat, NEW k, k = [h EXCEPT ![t.array][t.len + 1] = e]
    PROVE  Wrote(h, k, t, e)
<1>1. /\ t.array \in 1..Len(h) /\ t.len \in Nat /\ Len(h) \in Nat
      /\ h[t.array] \in Seq(Nat) /\ Len(h[t.array]) \in Nat /\ t.len + 1 \in 1..Len(h[t.array])
  BY DEF Fits, Slices, Heaps
<1>2. PICK cell : cell = [h[t.array] EXCEPT ![t.len + 1] = e]
  OBVIOUS
<1>3. /\ cell \in Seq(Nat) /\ Len(cell) = Len(h[t.array])
      /\ \A i \in 1..Len(h[t.array]) : cell[i] = IF i = t.len + 1 THEN e ELSE h[t.array][i]
  BY <1>1, <1>2, Replaced
<1>4. k = [h EXCEPT ![t.array] = cell]
  BY <1>2
<1>5. /\ k \in Heaps /\ Len(k) = Len(h)
      /\ \A b \in 1..Len(h) : k[b] = IF b = t.array THEN cell ELSE h[b]
  BY <1>1, <1>3, <1>4 DEF Heaps
<1>6. QED
  BY <1>1, <1>3, <1>5 DEF Wrote

\* Whoever is not ahead of the header sees nothing of the write.
LEMMA WriteUnseen ==
    ASSUME NEW h \in Heaps, NEW k, NEW t, NEW e, NEW s, Fits(h, t), Fits(h, s), Wrote(h, k, t, e)
    PROVE  /\ Fits(k, s)
           /\ s.array # t.array \/ s.len <= t.len => In(k, s) = In(h, s)
<1>1. Fits(k, s) /\ k \in Heaps
  BY DEF Fits, Wrote
<1>2. ASSUME s.array # t.array \/ s.len <= t.len
      PROVE  In(k, s) = In(h, s)
  <2>1. ASSUME s.array # 0, NEW i \in 1..s.len
        PROVE  h[s.array][i] = k[s.array][i]
    <3>1. /\ s.array \in 1..Len(h) /\ s.len \in Nat /\ s.len <= Len(h[s.array])
          /\ Len(h[s.array]) \in Nat /\ t.len \in Nat
      BY <2>1 DEF Fits, Slices, Heaps
    <3>2. i \in 1..Len(h[s.array]) /\ (s.array # t.array \/ i # t.len + 1)
      BY <1>2, <3>1
    <3>3. QED
      BY <3>1, <3>2 DEF Wrote
  <2>2. QED
    BY <1>1, <2>1, InSame
<1>3. QED
  BY <1>1, <1>2

\* append in place.
LEMMA WriteExtends ==
    ASSUME NEW h \in Heaps, NEW k, NEW t, NEW u \in Slices, NEW e \in Nat,
           Fits(h, t), t.array # 0, t.len < Len(h[t.array]), Wrote(h, k, t, e),
           u.array = t.array, u.len = t.len + 1
    PROVE  Extended(h, t, e, k, u)
<1>1. /\ t.array \in 1..Len(h) /\ t.len \in Nat /\ Len(h) \in Nat /\ Len(h[t.array]) \in Nat
      /\ \A s : Fits(h, s) => s.array # Len(h) + 1
  BY DEF Fits, Slices, Heaps
<1>2. k \in Heaps /\ Fits(k, u) /\ k[u.array][t.len + 1] = e
  BY <1>1 DEF Fits, Wrote
<1>3. \A i \in 1..t.len : In(h, t)[i] = h[t.array][i]
  BY InFacts
<1>4. \A i \in 1..t.len : k[u.array][i] = h[t.array][i]
  <2>1. \A i \in 1..t.len : i \in 1..Len(h[t.array]) /\ i # t.len + 1
    BY <1>1
  <2>2. QED
    BY <1>1, <2>1 DEF Wrote
<1>5. In(k, u) = Append(In(h, t), e)
  <2>1. Holds(h, t, e, k, u)
    BY <1>2, <1>3, <1>4 DEF Holds
  <2>2. QED
    BY <1>2, <2>1, ShowsOneMore
<1>6. \A s : Fits(h, s) =>
         /\ Fits(k, s)
         /\ s.array # t.array \/ s.len <= t.len => In(k, s) = In(h, s)
  BY WriteUnseen
<1>7. QED
  BY <1>1, <1>2, <1>5, <1>6 DEF Extended

\* A sequence, one element and a rest.
LEMMA Longer ==
    ASSUME NEW q \in Seq(Nat), NEW e \in Nat, NEW rest \in Seq(Nat),
           NEW fresh, fresh = Append(q, e) \o rest
    PROVE  /\ fresh \in Seq(Nat) /\ Len(q) + 1 <= Len(fresh) /\ fresh[Len(q) + 1] = e
           /\ \A i \in 1..Len(q) : fresh[i] = q[i]
<1>1. PICK longer : longer = Append(q, e)
  OBVIOUS
<1>2. /\ longer \in Seq(Nat) /\ Len(longer) = Len(q) + 1 /\ longer[Len(q) + 1] = e
      /\ \A i \in 1..Len(q) : longer[i] = q[i]
  BY <1>1
<1>3. fresh = longer \o rest
  BY <1>1
<1>4. QED
  BY <1>2, <1>3

\* append into a new array.
LEMMA CopyExtends ==
    ASSUME NEW h \in Heaps, NEW k, NEW t, NEW u \in Slices, NEW e \in Nat, NEW fresh \in Seq(Nat),
           Fits(h, t), k = Append(h, fresh), u.array = Len(h) + 1, u.len = t.len + 1,
           t.len + 1 <= Len(fresh), fresh[t.len + 1] = e,
           \A i \in 1..t.len : fresh[i] = In(h, t)[i]
    PROVE  Extended(h, t, e, k, u)
<1>1. t.len \in Nat /\ Len(h) \in Nat /\ \A s : Fits(h, s) => s.array # Len(h) + 1
  BY DEF Fits, Slices, Heaps
<1>2. /\ k \in Heaps /\ Len(k) = Len(h) + 1 /\ k[Len(h) + 1] = fresh
      /\ \A b \in 1..Len(h) : k[b] = h[b]
  BY DEF Heaps
<1>3. Fits(k, u)
  BY <1>1, <1>2 DEF Fits
<1>4. In(k, u) = Append(In(h, t), e)
  <2>1. Holds(h, t, e, k, u)
    BY <1>1, <1>2 DEF Holds
  <2>2. QED
    BY <1>2, <1>3, <2>1, ShowsOneMore
<1>5. \A s : Fits(h, s) => Fits(k, s) /\ In(k, s) = In(h, s)
  BY <1>1, <1>2 DEF Fits, In
<1>6. QED
  BY <1>1, <1>2, <1>3, <1>4, <1>5 DEF Extended

\* Every outcome of append.
LEMMA AppendFacts ==
    ASSUME arrays \in Heaps, NEW slice, Fits(arrays, slice), NEW e \in Nat,
           NEW r \in Appended(slice, e)
    PROVE  Extended(arrays, slice, e, r.heap, r.slice)
<1>1. slice.array \in Nat /\ slice.len \in Nat /\ Len(arrays) \in Nat /\ slice \in Slices
  BY DEF Fits, Slices, Heaps
<1>2. In(arrays, slice) \in Seq(Nat) /\ Len(In(arrays, slice)) = slice.len
  BY InFacts
<1>3. Contents(slice) = In(arrays, slice)
  BY DEF Contents, In
<1>4. CASE slice.len < Capacity(slice)
  <2>1. slice.array # 0 /\ slice.len < Len(arrays[slice.array])
    BY <1>1, <1>4 DEF Capacity
  <2>2. r = [heap |-> [arrays EXCEPT ![slice.array][slice.len + 1] = e],
             slice |-> [slice EXCEPT !.len = @ + 1]]
    BY <1>4 DEF Appended
  <2>3. /\ r.heap = [arrays EXCEPT ![slice.array][slice.len + 1] = e]
        /\ r.slice \in Slices /\ r.slice.array = slice.array /\ r.slice.len = slice.len + 1
    BY <1>1, <2>2 DEF Slices
  <2>4. Wrote(arrays, r.heap, slice, e)
    BY <2>1, <2>3, WriteFacts
  <2>5. QED
    BY <2>1, <2>3, <2>4, WriteExtends
<1>5. CASE ~(slice.len < Capacity(slice))
  <2>1. PICK spare \in 0..MaxCap - slice.len - 1 :
           r = [heap |-> Append(arrays, Append(Contents(slice), e) \o [i \in 1..spare |-> 0]),
                slice |-> [array |-> Len(arrays) + 1, len |-> slice.len + 1]]
    BY <1>5 DEF Appended
  <2>2. PICK rest : rest = [i \in 1..spare |-> 0]
    OBVIOUS
  <2>3. rest \in Seq(Nat)
    <3>1. spare \in Nat
      BY <1>1, SizesAssumption
    <3>2. QED
      BY <2>2, <3>1
  <2>4. PICK fresh : fresh = Append(In(arrays, slice), e) \o rest
    OBVIOUS
  <2>5. /\ r.heap = Append(arrays, fresh)
        /\ r.slice \in Slices /\ r.slice.array = Len(arrays) + 1 /\ r.slice.len = slice.len + 1
    <3>1. r.heap = Append(arrays, Append(Contents(slice), e) \o rest)
      BY <2>1, <2>2
    <3>2. r.slice = [array |-> Len(arrays) + 1, len |-> slice.len + 1]
      BY <2>1
    <3>3. QED
      BY <1>1, <1>3, <2>4, <3>1, <3>2 DEF Slices
  <2>6. /\ fresh \in Seq(Nat) /\ slice.len + 1 <= Len(fresh) /\ fresh[slice.len + 1] = e
        /\ \A i \in 1..slice.len : fresh[i] = In(arrays, slice)[i]
    BY <1>2, <2>3, <2>4, Longer
  <2>7. QED
    BY <2>5, <2>6, CopyExtends
<1>6. QED
  BY <1>4, <1>5

-----------------------------------------------------------------------------
(* The invariant.                                                           *)

Records == [list : Slices, revealed : Nat, maxEpoch : Nat, claim : Nat]
Readings == [list : Seq(Nat), revealed : Nat, maxEpoch : Nat]

Typed ==
    /\ arrays \in Heaps /\ claims \in Seq(Nat)
    /\ builder \in Records /\ builder.claim \in 0..Len(claims)
    /\ intents \in Seq(Records) /\ meant \in Seq(Readings) /\ Len(meant) = Len(intents)
    /\ \A i \in 1..Len(intents) : intents[i].claim \in 0..Len(claims)
    /\ appenders \subseteq 0..Len(intents)
    /\ epoch \in Nat

\* The builder and the intents' holders, and the header each has of the list.
Holders == 0..Len(intents)
Held(j) == IF j = 0 THEN builder.list ELSE intents[j].list

Fitting == \A j \in Holders : Fits(arrays, Held(j))

\* Whoever alone appends is never behind those it shares an array with: the cells it writes are
\* beyond what they show.
Ahead ==
    \A w \in Holders : appenders \subseteq {w} =>
        \A j \in Holders : Held(j).array = Held(w).array => Held(j).len <= Held(w).len

ListsKept ==
    \A w \in Holders : appenders \subseteq {w} =>
        \A i \in 1..Len(intents) : In(arrays, intents[i].list) = meant[i].list

\* Everything else in an intent is its own, a claim too: no other intent points to it.
FieldsKept ==
    \A i \in 1..Len(intents) :
        /\ meant[i].revealed = intents[i].revealed
        /\ meant[i].maxEpoch = IF intents[i].claim # 0 THEN claims[intents[i].claim]
                                                       ELSE intents[i].maxEpoch

Reconciled ==
    kind = "stealth" /\ appenders \subseteq {0} =>
        \A i \in 1..Len(intents) : Deposits(meant[i].list) = meant[i].revealed

Claimless == kind # "faucet" => builder.claim = 0

Windowed ==
    sent # NoSend =>
        /\ sent.intent \in 1..Len(intents)
        /\ sent.maxEpoch = IF meant[sent.intent].maxEpoch # 0 THEN meant[sent.intent].maxEpoch
                                                              ELSE sent.at + DefaultValidityEpochs

BuildersInv ==
    /\ Typed /\ Fitting /\ Ahead /\ ListsKept
    /\ FieldsKept /\ Reconciled /\ Claimless /\ Windowed

-----------------------------------------------------------------------------
(* Each kind of step.                                                       *)

\* An append by w, the builder or the holder of an intent.
LEMMA Extending ==
    ASSUME Typed, Fitting, Ahead, NEW w \in Holders, NEW e \in Nat,
           Extended(arrays, Held(w), e, arrays', Held(w)'), Appending(w),
           Len(intents') = Len(intents),
           \A j \in Holders : j # w => Held(j)' = Held(j)
    PROVE  /\ Fitting' /\ Ahead' /\ appenders' \subseteq Holders
           /\ \A v \in Holders : appenders' \subseteq {v} =>
                 /\ v = w /\ appenders \subseteq {w}
                 /\ \A j \in Holders : j # w => In(arrays', Held(j)') = In(arrays, Held(j))
<1>1. /\ Len(intents) \in Nat /\ Holders' = Holders
      /\ \A j \in Holders : Fits(arrays, Held(j)) /\ Held(j) \in Slices
  BY DEF Typed, Fitting, Fits, Holders
<1>2. /\ Fits(arrays', Held(w)')
      /\ Held(w)'.len = Held(w).len + 1
      /\ Held(w)'.array = Held(w).array \/ Held(w)'.array = Len(arrays) + 1
      /\ \A j \in Holders :
            /\ Fits(arrays', Held(j))
            /\ Held(j).array # Held(w).array \/ Held(j).len <= Held(w).len
                  => In(arrays', Held(j)) = In(arrays, Held(j))
            /\ Held(j).array # Len(arrays) + 1
  BY <1>1 DEF Extended
<1>3. Fitting'
  BY <1>1, <1>2 DEF Fitting
<1>4. ASSUME NEW v \in Holders, appenders' \subseteq {v}
      PROVE  v = w /\ appenders \subseteq {w}
  <2>1. CASE intents = <<>>
    BY <1>1, <2>1 DEF Typed, Holders
  <2>2. CASE intents # <<>>
    BY <1>4, <2>2 DEF Appending
  <2>3. QED
    BY <2>1, <2>2
<1>5. ASSUME appenders \subseteq {w}, NEW j \in Holders, j # w
      PROVE  /\ In(arrays', Held(j)') = In(arrays, Held(j))
             /\ Held(j)'.array = Held(w)'.array => Held(j)'.len <= Held(w)'.len
  <2>1. Held(j)' = Held(j)
    BY <1>5
  <2>2. Held(j).array = Held(w).array => Held(j).len <= Held(w).len
    BY <1>5 DEF Ahead
  <2>3. In(arrays', Held(j)) = In(arrays, Held(j))
    BY <1>2, <2>2
  <2>4. Held(j).len \in Nat /\ Held(w).len \in Nat
    BY <1>1 DEF Slices
  <2>5. QED
    BY <1>2, <2>1, <2>2, <2>3, <2>4
<1>6. Ahead'
  <2>. SUFFICES ASSUME NEW v \in Holders, appenders' \subseteq {v}, NEW j \in Holders,
                       Held(j)'.array = Held(v)'.array
                PROVE  Held(j)'.len <= Held(v)'.len
    BY <1>1 DEF Ahead
  <2>1. v = w /\ appenders \subseteq {w}
    BY <1>4
  <2>2. CASE j = w
    BY <1>1, <1>2, <2>1, <2>2 DEF Slices
  <2>3. CASE j # w
    BY <1>5, <2>1, <2>3
  <2>4. QED
    BY <2>2, <2>3
<1>7. appenders' \subseteq Holders
  BY DEF Appending, Typed, Holders
<1>8. QED
  BY <1>3, <1>4, <1>5, <1>6, <1>7

\* An append by the builder.
LEMMA AddKeeps ==
    ASSUME BuildersInv, NEW e \in Elements, Add(e)
    PROVE  BuildersInv'
<1>1. /\ builder \in Records /\ e \in Nat /\ Len(intents) \in Nat
      /\ 0 \in Holders /\ Held(0) = builder.list /\ Fits(arrays, builder.list)
  BY BuildersAssumption DEF BuildersInv, Typed, Fitting, Holders, Held
<1>2. PICK r \in Appended(builder.list, e) :
         arrays' = r.heap /\ builder' = [builder EXCEPT !.list = r.slice]
  BY DEF Add
<1>3. Extended(arrays, builder.list, e, r.heap, r.slice)
  BY <1>1, <1>2, AppendFacts DEF BuildersInv, Typed
<1>4. /\ arrays' \in Heaps /\ builder' \in Records /\ builder'.list = r.slice
      /\ builder'.claim = builder.claim
  BY <1>1, <1>2, <1>3 DEF Extended, Records, Fits
<1>5. /\ Extended(arrays, Held(0), e, arrays', Held(0)') /\ Appending(0)
      /\ UNCHANGED <<kind, claims, intents, meant, epoch, sent>>
  BY <1>1, <1>2, <1>3, <1>4 DEF Held, Add, HandsNothingOut
<1>6. \A j \in Holders : j # 0 => Held(j)' = Held(j) /\ Held(j) = intents[j].list
  BY <1>5 DEF Held
<1>7. /\ Fitting' /\ Ahead' /\ appenders' \subseteq Holders
      /\ \A v \in Holders : appenders' \subseteq {v} =>
            /\ v = 0 /\ appenders \subseteq {0}
            /\ \A j \in Holders : j # 0 => In(arrays', Held(j)') = In(arrays, Held(j))
  BY <1>1, <1>5, <1>6, Extending DEF BuildersInv
<1>8. Typed'
  BY <1>4, <1>5, <1>7 DEF BuildersInv, Typed, Holders
<1>9. ListsKept'
  <2>. SUFFICES ASSUME NEW w \in Holders, appenders' \subseteq {w}, NEW i \in 1..Len(intents)
                PROVE  In(arrays', intents[i].list) = meant[i].list
    BY <1>5 DEF ListsKept, Holders
  <2>1. i \in Holders /\ i # 0 /\ appenders \subseteq {0}
    BY <1>1, <1>7 DEF Holders
  <2>2. In(arrays', intents[i].list) = In(arrays, intents[i].list)
    BY <1>6, <1>7, <2>1
  <2>3. QED
    BY <1>1, <2>1, <2>2 DEF BuildersInv, ListsKept
<1>10. Reconciled'
  BY <1>1, <1>5, <1>7 DEF BuildersInv, Reconciled
<1>11. FieldsKept' /\ Claimless' /\ Windowed'
  BY <1>4, <1>5 DEF BuildersInv, FieldsKept, Claimless, Windowed
<1>12. QED
  BY <1>7, <1>8, <1>9, <1>10, <1>11 DEF BuildersInv

\* An append by the holder of an intent.
LEMMA AdjustKeeps ==
    ASSUME BuildersInv, NEW w \in 1..Len(intents), NEW e \in Elements, Adjust(w, e)
    PROVE  BuildersInv'
<1>1. /\ intents \in Seq(Records) /\ meant \in Seq(Readings) /\ Len(meant) = Len(intents)
      /\ e \in Nat /\ Len(intents) \in Nat /\ w \in Holders /\ w # 0
      /\ intents[w] \in Records /\ meant[w] \in Readings
      /\ Held(w) = intents[w].list /\ Fits(arrays, intents[w].list)
  BY BuildersAssumption DEF BuildersInv, Typed, Fitting, Holders, Held
<1>2. PICK r \in Appended(intents[w].list, e) :
         arrays' = r.heap /\ intents' = [intents EXCEPT ![w].list = r.slice]
  BY DEF Adjust
<1>3. Extended(arrays, intents[w].list, e, r.heap, r.slice)
  BY <1>1, <1>2, AppendFacts DEF BuildersInv, Typed
<1>4. PICK mine : mine = [intents[w] EXCEPT !.list = r.slice]
  OBVIOUS
<1>5. /\ arrays' \in Heaps /\ mine \in Records /\ mine.list = r.slice
      /\ mine.revealed = intents[w].revealed /\ mine.maxEpoch = intents[w].maxEpoch
      /\ mine.claim = intents[w].claim
  BY <1>1, <1>2, <1>3, <1>4 DEF Extended, Records, Fits
<1>6. /\ intents' \in Seq(Records) /\ Len(intents') = Len(intents)
      /\ \A i \in 1..Len(intents) : intents'[i] = IF i = w THEN mine ELSE intents[i]
  <2>1. intents' = [intents EXCEPT ![w] = mine]
    BY <1>2, <1>4
  <2>2. QED
    BY <1>1, <1>5, <2>1, Replaced
<1>7. PICK told : told = [meant[w] EXCEPT !.list = Append(@, e)]
  OBVIOUS
<1>8. /\ told \in Readings /\ told.list = Append(meant[w].list, e)
      /\ told.revealed = meant[w].revealed /\ told.maxEpoch = meant[w].maxEpoch
  <2>1. PICK longer : longer = Append(meant[w].list, e)
    OBVIOUS
  <2>2. longer \in Seq(Nat)
    BY <1>1, <2>1 DEF Readings
  <2>3. told = [meant[w] EXCEPT !.list = longer]
    BY <1>7, <2>1
  <2>4. /\ told \in Readings /\ told.list = longer
        /\ told.revealed = meant[w].revealed /\ told.maxEpoch = meant[w].maxEpoch
    BY <1>1, <2>2, <2>3 DEF Readings
  <2>5. QED
    BY <2>1, <2>4
<1>9. /\ meant' \in Seq(Readings) /\ Len(meant') = Len(meant)
      /\ \A i \in 1..Len(intents) : meant'[i] = IF i = w THEN told ELSE meant[i]
  <2>1. meant' = [meant EXCEPT ![w] = told]
    BY <1>7 DEF Adjust
  <2>2. QED
    BY <1>1, <1>8, <2>1, Replaced
<1>10. Appending(w) /\ UNCHANGED <<kind, builder, claims, epoch, sent>>
  BY DEF Adjust
<1>11. Extended(arrays, Held(w), e, arrays', Held(w)')
  BY <1>1, <1>2, <1>3, <1>5, <1>6 DEF Held
<1>12. \A j \in Holders : j # w => Held(j)' = Held(j)
  BY <1>6, <1>10 DEF Held, Holders
<1>13. /\ Fitting' /\ Ahead' /\ appenders' \subseteq Holders
       /\ \A v \in Holders : appenders' \subseteq {v} =>
             /\ v = w /\ appenders \subseteq {w}
             /\ \A j \in Holders : j # w => In(arrays', Held(j)') = In(arrays, Held(j))
  BY <1>1, <1>6, <1>10, <1>11, <1>12, Extending DEF BuildersInv
<1>14. Typed'
  BY <1>1, <1>5, <1>6, <1>9, <1>10, <1>13 DEF BuildersInv, Typed, Holders
<1>15. ListsKept'
  <2>. SUFFICES ASSUME NEW v \in Holders, appenders' \subseteq {v}, NEW i \in 1..Len(intents)
                PROVE  In(arrays', intents'[i].list) = meant'[i].list
    BY <1>6 DEF ListsKept, Holders
  <2>1. i \in Holders /\ i # 0 /\ appenders \subseteq {w}
    BY <1>1, <1>13 DEF Holders
  <2>2. In(arrays, intents[i].list) = meant[i].list
    BY <1>1, <2>1 DEF BuildersInv, ListsKept
  <2>3. CASE i = w
    BY <1>2, <1>3, <1>5, <1>6, <1>8, <1>9, <2>2, <2>3 DEF Extended
  <2>4. CASE i # w
    <3>1. In(arrays', Held(i)') = In(arrays, Held(i))
      BY <1>13, <2>1, <2>4
    <3>2. Held(i) = intents[i].list /\ Held(i)' = intents'[i].list
      BY <2>1 DEF Held
    <3>3. QED
      BY <1>9, <2>2, <2>4, <3>1, <3>2
  <2>5. QED
    BY <2>3, <2>4
<1>16. Reconciled'
  <2>1. ~(appenders' \subseteq {0})
    BY <1>1, <1>13 DEF Holders
  <2>2. QED
    BY <2>1 DEF Reconciled
<1>17. FieldsKept'
  BY <1>5, <1>6, <1>8, <1>9, <1>10 DEF BuildersInv, FieldsKept
<1>18. Claimless' /\ Windowed'
  BY <1>1, <1>6, <1>8, <1>9, <1>10 DEF BuildersInv, Claimless, Windowed
<1>19. QED
  BY <1>13, <1>14, <1>15, <1>16, <1>17, <1>18 DEF BuildersInv

\* An intent handed out with a list someone holds, or none, and a claim of its own, or none.
LEMMA HandOutKeeps ==
    ASSUME BuildersInv, NEW c \in Records, HandOut(c), builder' = builder,
           claims' \in Seq(Nat), Len(claims) <= Len(claims'),
           \A a \in 1..Len(claims) : claims'[a] = claims[a],
           c.claim \in 0..Len(claims'),
           c.list = NilSlice \/ \E j \in Holders : c.list = Held(j),
           kind = "stealth" /\ appenders \subseteq {0} => Deposits(In(arrays, c.list)) = c.revealed
    PROVE  BuildersInv'
<1>. PICK n : n = Len(intents) + 1
  OBVIOUS
<1>1. /\ intents \in Seq(Records) /\ meant \in Seq(Readings) /\ Len(meant) = Len(intents)
      /\ Len(intents) \in Nat /\ 0 \in Holders /\ Len(claims) \in Nat /\ Len(claims') \in Nat
  BY DEF BuildersInv, Typed, Holders
<1>2. /\ \A j \in Holders : Fits(arrays, Held(j)) /\ Held(j) \in Slices
      /\ appenders \subseteq Holders
  BY DEF BuildersInv, Typed, Fitting, Fits, Holders
<1>3. Fits(arrays, c.list) /\ c.list \in Slices
  BY <1>2 DEF Fits, NilSlice, Slices
<1>4. In(arrays, c.list) \in Seq(Nat) /\ Contents(c.list) = In(arrays, c.list)
  BY <1>3, InFacts DEF BuildersInv, Typed, Contents, In
<1>5. PICK told : told = ReadsIn(claims', c)
  OBVIOUS
<1>6. /\ told \in Readings /\ told.list = In(arrays, c.list) /\ told.revealed = c.revealed
      /\ told.maxEpoch = IF c.claim # 0 THEN claims'[c.claim] ELSE c.maxEpoch
  <2>1. c.claim # 0 => claims'[c.claim] \in Nat
    BY <1>1
  <2>2. PICK epochOf : epochOf = IF c.claim # 0 THEN claims'[c.claim] ELSE c.maxEpoch
    OBVIOUS
  <2>3. epochOf \in Nat
    BY <2>1, <2>2 DEF Records
  <2>4. told = [list |-> In(arrays, c.list), revealed |-> c.revealed, maxEpoch |-> epochOf]
    BY <1>4, <1>5, <2>2 DEF ReadsIn
  <2>5. QED
    BY <1>4, <2>2, <2>3, <2>4 DEF Readings, Records
<1>7. /\ intents' = Append(intents, c) /\ meant' = Append(meant, told)
      /\ UNCHANGED <<kind, arrays, appenders, epoch, sent>>
  BY <1>5 DEF HandOut
<1>8. /\ intents' \in Seq(Records) /\ Len(intents') = n /\ intents'[n] = c
      /\ \A i \in 1..Len(intents) : intents'[i] = intents[i]
  BY <1>1, <1>7
<1>9. /\ meant' \in Seq(Readings) /\ Len(meant') = n /\ meant'[n] = told
      /\ \A i \in 1..Len(intents) : meant'[i] = meant[i]
  BY <1>1, <1>6, <1>7
<1>10. /\ n \in Nat /\ n # 0 /\ n \notin Holders /\ Holders' = Holders \cup {n}
       /\ \A i \in 1..n : i = n \/ i \in 1..Len(intents)
  BY <1>1, <1>8 DEF Holders
<1>11. Held(n)' = c.list /\ \A j \in Holders : Held(j)' = Held(j)
  BY <1>1, <1>8, <1>10 DEF Held, Holders
<1>12. Typed'
  <2>1. ASSUME NEW i \in 1..n
        PROVE  intents'[i].claim \in 0..Len(claims')
    <3>1. CASE i = n
      BY <1>8, <3>1
    <3>2. CASE i \in 1..Len(intents)
      <4>1. intents[i].claim \in 0..Len(claims)
        BY <3>2 DEF BuildersInv, Typed
      <4>2. QED
        BY <1>1, <1>8, <3>2, <4>1
    <3>3. QED
      BY <1>10, <3>1, <3>2
  <2>2. appenders' \subseteq 0..n
    BY <1>1, <1>2, <1>7, <1>10 DEF Holders
  <2>3. QED
    BY <1>1, <1>7, <1>8, <1>9, <2>1, <2>2 DEF BuildersInv, Typed
<1>13. Fitting'
  BY <1>2, <1>3, <1>7, <1>10, <1>11 DEF Fitting
<1>14. \A w \in Holders' : appenders \subseteq {w} => w \in Holders \/ appenders = {}
  BY <1>2, <1>10
<1>15. Ahead'
  <2>. SUFFICES ASSUME NEW w \in Holders', appenders \subseteq {w}, NEW j \in Holders',
                       Held(j)'.array = Held(w)'.array
                PROVE  Held(j)'.len <= Held(w)'.len
    BY <1>7 DEF Ahead
  <2>1. \A v \in Holders : appenders \subseteq {v} =>
           \A i \in Holders : Held(i).array = Held(v).array => Held(i).len <= Held(v).len
    BY DEF BuildersInv, Ahead
  <2>2. \A i \in Holders : Held(i).len \in Nat /\ (Held(i).array = 0 => Held(i).len = 0)
    BY <1>2 DEF Fits, Slices
  <2>3. CASE j \in Holders /\ w \in Holders
    BY <1>11, <2>1, <2>3
  <2>4. CASE j = n /\ w \in Holders
    <3>1. CASE c.list = NilSlice
      BY <1>11, <2>2, <2>4, <3>1 DEF NilSlice
    <3>2. CASE \E i \in Holders : c.list = Held(i)
      BY <1>11, <2>1, <2>4, <3>2
    <3>3. QED
      BY <3>1, <3>2
  <2>5. CASE j \in Holders /\ w = n
    <3>1. appenders = {}
      BY <1>10, <1>14, <2>5
    <3>2. CASE c.list = NilSlice
      BY <1>11, <2>2, <2>5, <3>2 DEF NilSlice
    <3>3. CASE \E i \in Holders : c.list = Held(i)
      BY <1>11, <2>1, <2>5, <3>1, <3>3
    <3>4. QED
      BY <3>2, <3>3
  <2>6. CASE j = n /\ w = n
    BY <1>3, <1>11, <2>6 DEF Slices
  <2>7. QED
    BY <1>10, <2>3, <2>4, <2>5, <2>6
<1>16. ListsKept'
  <2>. SUFFICES ASSUME NEW w \in Holders', appenders \subseteq {w}, NEW i \in 1..n
                PROVE  In(arrays, intents'[i].list) = meant'[i].list
    BY <1>7, <1>8 DEF ListsKept
  <2>1. CASE i = n
    BY <1>6, <1>8, <1>9, <2>1
  <2>2. CASE i \in 1..Len(intents)
    <3>1. PICK v \in Holders : appenders \subseteq {v}
      BY <1>1, <1>14
    <3>2. In(arrays, intents[i].list) = meant[i].list
      BY <2>2, <3>1 DEF BuildersInv, ListsKept
    <3>3. QED
      BY <1>8, <1>9, <2>2, <3>2
  <2>3. QED
    BY <1>10, <2>1, <2>2
<1>17. FieldsKept'
  <2>1. ASSUME NEW i \in 1..n
        PROVE  /\ meant'[i].revealed = intents'[i].revealed
               /\ meant'[i].maxEpoch = IF intents'[i].claim # 0 THEN claims'[intents'[i].claim]
                                                                ELSE intents'[i].maxEpoch
    <3>1. CASE i = n
      BY <1>6, <1>8, <1>9, <3>1
    <3>2. CASE i \in 1..Len(intents)
      <4>1. /\ intents[i].claim \in 0..Len(claims)
            /\ meant[i].revealed = intents[i].revealed
            /\ meant[i].maxEpoch = IF intents[i].claim # 0 THEN claims[intents[i].claim]
                                                           ELSE intents[i].maxEpoch
        BY <3>2 DEF BuildersInv, Typed, FieldsKept
      <4>2. intents[i].claim # 0 => claims'[intents[i].claim] = claims[intents[i].claim]
        BY <1>1, <4>1
      <4>3. QED
        BY <1>8, <1>9, <3>2, <4>1, <4>2
    <3>3. QED
      BY <1>10, <3>1, <3>2
  <2>2. QED
    BY <1>8, <2>1 DEF FieldsKept
<1>18. Reconciled'
  <2>. SUFFICES ASSUME kind = "stealth", appenders \subseteq {0}, NEW i \in 1..n
                PROVE  Deposits(meant'[i].list) = meant'[i].revealed
    BY <1>7, <1>8 DEF Reconciled
  <2>1. CASE i = n
    BY <1>6, <1>9, <2>1
  <2>2. CASE i \in 1..Len(intents)
    BY <1>9, <2>2 DEF BuildersInv, Reconciled
  <2>3. QED
    BY <1>10, <2>1, <2>2
<1>19. Claimless' /\ Windowed'
  <2>1. Claimless'
    BY <1>7 DEF BuildersInv, Claimless
  <2>2. Windowed'
    <3>1. 1..Len(intents) \subseteq 1..n
      BY <1>1
    <3>2. QED
      BY <1>7, <1>8, <1>9, <3>1 DEF BuildersInv, Windowed
  <2>3. QED
    BY <2>1, <2>2
<1>20. QED
  BY <1>12, <1>13, <1>15, <1>16, <1>17, <1>18, <1>19 DEF BuildersInv

\* The three ways an intent is handed out.
LEMMA IntentKeeps ==
    ASSUME BuildersInv, Intent
    PROVE  BuildersInv'
<1>1. builder \in Records /\ Fits(arrays, builder.list) /\ claims \in Seq(Nat)
  BY DEF BuildersInv, Typed, Fitting, Holders, Held
<1>2. PICK c : c = [list |-> builder.list, revealed |-> builder.revealed,
                    maxEpoch |-> IF kind = "faucet" THEN 0 ELSE builder.maxEpoch, claim |-> 0]
  OBVIOUS
<1>3. /\ HandOut(c) /\ builder' = builder /\ claims' = claims
  BY <1>2 DEF Intent, AfterIntent
<1>4. /\ c \in Records /\ c.claim = 0 /\ c.list = builder.list /\ c.revealed = builder.revealed
  BY <1>1, <1>2 DEF Records
<1>5. kind = "stealth" => Deposits(In(arrays, c.list)) = c.revealed
  <2>1. Contents(builder.list) = In(arrays, builder.list)
    BY DEF Contents, In
  <2>2. QED
    BY <1>4, <2>1 DEF Intent, Reconciles
<1>6. \E j \in Holders : c.list = Held(j)
  <2>1. 0 \in Holders /\ Held(0) = builder.list
    BY DEF BuildersInv, Typed, Holders, Held
  <2>2. QED
    BY <1>4, <2>1
<1>7. Len(claims) \in Nat /\ c.claim \in 0..Len(claims')
  BY <1>1, <1>3, <1>4
<1>8. QED
  BY <1>1, <1>3, <1>4, <1>5, <1>6, <1>7, HandOutKeeps

LEMMA FaucetIntentKeeps ==
    ASSUME BuildersInv, FaucetIntent
    PROVE  BuildersInv'
<1>1. builder \in Records /\ claims \in Seq(Nat) /\ Len(claims) \in Nat
  BY DEF BuildersInv, Typed
<1>2. claims' = Append(claims, builder.maxEpoch) /\ builder.maxEpoch \in Nat
  BY <1>1 DEF FaucetIntent, Records
<1>3. /\ claims' \in Seq(Nat) /\ Len(claims') = Len(claims) + 1
      /\ \A a \in 1..Len(claims) : claims'[a] = claims[a]
  BY <1>1, <1>2
<1>4. PICK c : c = [list |-> NilSlice, revealed |-> 0, maxEpoch |-> 0, claim |-> Len(claims')]
  OBVIOUS
<1>5. HandOut(c) /\ builder' = builder
  BY <1>4 DEF FaucetIntent
<1>6. c \in Records /\ c.list = NilSlice /\ c.claim = Len(claims')
  BY <1>1, <1>3, <1>4 DEF Records, NilSlice, Slices
<1>7. kind # "stealth"
  BY DEF BuildersInv, Claimless, FaucetIntent
<1>8. Len(claims) <= Len(claims') /\ c.claim \in 0..Len(claims')
  BY <1>1, <1>3, <1>6
<1>9. QED
  BY <1>3, <1>5, <1>6, <1>7, <1>8, HandOutKeeps

LEMMA AsDryRunKeeps ==
    ASSUME BuildersInv, NEW i \in 1..Len(intents), AsDryRun(i)
    PROVE  BuildersInv'
<1>1. /\ intents[i] \in Records /\ claims \in Seq(Nat) /\ Len(claims) \in Nat
      /\ intents[i].claim \in 0..Len(claims) /\ Len(intents) \in Nat
  BY DEF BuildersInv, Typed
<1>2. /\ claims' \in Seq(Nat) /\ Len(claims) <= Len(claims')
      /\ \A a \in 1..Len(claims) : claims'[a] = claims[a]
  <2>1. CASE intents[i].claim = 0
    BY <1>1, <2>1 DEF AsDryRun
  <2>2. CASE intents[i].claim # 0
    <3>1. PICK copy : copy = claims[intents[i].claim]
      OBVIOUS
    <3>2. copy \in Nat
      BY <1>1, <2>2, <3>1
    <3>3. claims' = Append(claims, copy)
      BY <2>2, <3>1 DEF AsDryRun
    <3>4. QED
      BY <1>1, <3>2, <3>3
  <2>3. QED
    BY <2>1, <2>2
<1>3. PICK c : c = [intents[i] EXCEPT !.claim = IF @ = 0 THEN 0 ELSE Len(claims')]
  OBVIOUS
<1>4. HandOut(c) /\ builder' = builder /\ kind # "stealth"
  BY <1>3 DEF AsDryRun
<1>5. Len(claims') \in Nat
  BY <1>2
<1>6. c \in Records /\ c.list = intents[i].list /\ c.claim \in 0..Len(claims')
  <2>1. PICK claim : claim = IF intents[i].claim = 0 THEN 0 ELSE Len(claims')
    OBVIOUS
  <2>2. claim \in Nat /\ claim \in 0..Len(claims')
    BY <1>5, <2>1
  <2>3. c = [intents[i] EXCEPT !.claim = claim]
    BY <1>3, <2>1
  <2>4. QED
    BY <1>1, <2>2, <2>3 DEF Records
<1>7. \E j \in Holders : c.list = Held(j)
  <2>1. i \in Holders /\ Held(i) = intents[i].list
    BY <1>1 DEF Holders, Held
  <2>2. QED
    BY <1>6, <2>1
<1>8. QED
  BY <1>2, <1>4, <1>6, <1>7, HandOutKeeps

\* The steps that touch no list and no intent.
LEMMA OthersKeep ==
    ASSUME BuildersInv, UNCHANGED <<kind, arrays, intents, meant, appenders>>,
           builder' \in Records, builder'.list = builder.list, builder'.claim \in 0..Len(claims'),
           claims' \in Seq(Nat), Len(claims) <= Len(claims'),
           \A a \in 1..Len(claims) : claims'[a] = claims[a],
           epoch' \in Nat, kind # "faucet" => builder'.claim = 0, Windowed'
    PROVE  BuildersInv'
<1>1. Len(claims) \in Nat /\ Len(claims') \in Nat
  BY DEF BuildersInv, Typed
<1>2. Typed'
  <2>1. ASSUME NEW i \in 1..Len(intents)
        PROVE  intents[i].claim \in 0..Len(claims')
    <3>1. intents[i].claim \in 0..Len(claims)
      BY DEF BuildersInv, Typed
    <3>2. QED
      BY <1>1, <3>1
  <2>2. QED
    BY <2>1 DEF BuildersInv, Typed
<1>3. Holders' = Holders /\ \A j \in Holders : Held(j)' = Held(j)
  BY DEF Holders, Held
<1>4. Fitting' /\ Ahead'
  BY <1>3 DEF BuildersInv, Fitting, Ahead
<1>5. ListsKept' /\ Reconciled' /\ Claimless'
  BY <1>3 DEF BuildersInv, ListsKept, Reconciled, Claimless
<1>6. FieldsKept'
  <2>1. ASSUME NEW i \in 1..Len(intents), intents[i].claim # 0
        PROVE  claims'[intents[i].claim] = claims[intents[i].claim]
    <3>1. intents[i].claim \in 0..Len(claims)
      BY DEF BuildersInv, Typed
    <3>2. QED
      BY <1>1, <2>1, <3>1
  <2>2. QED
    BY <2>1 DEF BuildersInv, FieldsKept
<1>7. QED
  BY <1>2, <1>4, <1>5, <1>6 DEF BuildersInv

-----------------------------------------------------------------------------
(* The theorems.                                                            *)

LEMMA InitInv == Init => BuildersInv
<1>. SUFFICES ASSUME Init PROVE BuildersInv
  OBVIOUS
<1>1. /\ arrays = <<>> /\ claims = <<>> /\ intents = <<>> /\ meant = <<>> /\ appenders = {}
      /\ builder.list = NilSlice /\ builder.claim = 0 /\ epoch = 0 /\ sent = NoSend
  BY DEF Init
<1>2. Len(intents) = 0 /\ Len(meant) = 0 /\ Len(claims) = 0 /\ 1..Len(intents) = {}
  BY <1>1
<1>3. builder \in Records
  BY DEF Init, Records, NilSlice, Slices
<1>4. Typed
  BY <1>1, <1>2, <1>3 DEF Typed, Heaps
<1>5. Holders = {0} /\ Held(0) = NilSlice
  BY <1>1, <1>2 DEF Holders, Held
<1>6. Fitting
  BY <1>5 DEF Fitting, Fits, NilSlice, Slices
<1>7. Ahead
  BY <1>5 DEF Ahead, NilSlice
<1>8. ListsKept /\ FieldsKept /\ Reconciled
  BY <1>2 DEF ListsKept, FieldsKept, Reconciled
<1>9. Claimless /\ Windowed
  BY <1>1 DEF Claimless, Windowed
<1>10. QED
  BY <1>4, <1>6, <1>7, <1>8, <1>9 DEF BuildersInv

\* The window a send settles: the pin it reads is the one its holder was handed.
LEMMA SendWindowed ==
    ASSUME BuildersInv, NEW i \in 1..Len(intents), Send(i)
    PROVE  Windowed'
<1>1. /\ sent' = [intent |-> i, at |-> epoch, maxEpoch |-> Settled(Reads(i).maxEpoch)]
      /\ UNCHANGED <<meant, intents>>
  BY DEF Send
<1>2. Reads(i).maxEpoch = meant[i].maxEpoch
  BY DEF BuildersInv, FieldsKept, Reads, ReadsIn
<1>3. QED
  BY <1>1, <1>2 DEF Windowed, Settled

LEMMA StepInv == BuildersInv /\ [Next]_vars => BuildersInv'
<1>. SUFFICES ASSUME BuildersInv, [Next]_vars
              PROVE  BuildersInv'
  OBVIOUS
<1>1. /\ builder \in Records /\ claims \in Seq(Nat) /\ Len(claims) \in Nat /\ epoch \in Nat
      /\ builder.claim \in 0..Len(claims) /\ Windowed
      /\ kind # "faucet" => builder.claim = 0
  BY DEF BuildersInv, Typed, Claimless
<1>2. ASSUME NEW e \in Elements, Add(e)
      PROVE  BuildersInv'
  BY <1>2, AddKeeps
<1>3. ASSUME NEW amount \in Elements, ToRevealedOutput(amount)
      PROVE  BuildersInv'
  <2>1. (builder.revealed + amount) % AmountWidth \in Nat
    BY <1>1, BuildersAssumption, SizesAssumption DEF Records
  <2>2. /\ builder' \in Records /\ builder'.list = builder.list /\ builder'.claim = builder.claim
        /\ UNCHANGED <<kind, arrays, claims, intents, meant, appenders, epoch, sent>>
    BY <1>1, <1>3, <2>1 DEF ToRevealedOutput, HandsNothingOut, Records
  <2>3. QED
    BY <1>1, <2>2, OthersKeep DEF Windowed
<1>4. ASSUME NEW pin \in Pins, SetMaxEpoch(pin)
      PROVE  BuildersInv'
  <2>1. pin \in Nat
    BY SizesAssumption DEF Pins
  <2>2. /\ builder' \in Records /\ builder'.list = builder.list /\ builder'.claim = builder.claim
        /\ UNCHANGED <<kind, arrays, claims, intents, meant, appenders, epoch, sent>>
    BY <1>1, <1>4, <2>1 DEF SetMaxEpoch, HandsNothingOut, Records
  <2>3. QED
    BY <1>1, <2>2, OthersKeep DEF Windowed
<1>5. CASE Take
  <2>1. /\ claims' = Append(claims, 0) /\ builder' = [builder EXCEPT !.claim = Len(claims')]
        /\ UNCHANGED <<kind, arrays, intents, meant, appenders, epoch, sent>> /\ kind = "faucet"
    BY <1>5 DEF Take, HandsNothingOut
  <2>2. /\ claims' \in Seq(Nat) /\ Len(claims') = Len(claims) + 1
        /\ \A a \in 1..Len(claims) : claims'[a] = claims[a]
    BY <1>1, <2>1
  <2>3. Len(claims') \in Nat /\ Len(claims) <= Len(claims')
    BY <1>1, <2>2
  <2>4. builder' \in Records /\ builder'.list = builder.list /\ builder'.claim = Len(claims')
    BY <1>1, <2>1, <2>3 DEF Records
  <2>5. builder'.claim \in 0..Len(claims')
    BY <2>3, <2>4
  <2>6. QED
    BY <1>1, <2>1, <2>2, <2>3, <2>4, <2>5, OthersKeep DEF Windowed
<1>6. CASE Intent
  BY <1>6, IntentKeeps
<1>7. CASE FaucetIntent
  BY <1>7, FaucetIntentKeeps
<1>8. ASSUME NEW i \in 1..Len(intents), AsDryRun(i)
      PROVE  BuildersInv'
  BY <1>8, AsDryRunKeeps
<1>9. ASSUME NEW i \in 1..Len(intents), Send(i)
      PROVE  BuildersInv'
  <2>1. UNCHANGED <<kind, arrays, builder, claims, intents, meant, appenders, epoch>>
    BY <1>9 DEF Send, AfterSend
  <2>2. Windowed'
    BY <1>9, SendWindowed
  <2>3. QED
    BY <1>1, <2>1, <2>2, OthersKeep
<1>10. ASSUME NEW i \in 1..Len(intents), NEW e \in Elements, Adjust(i, e)
       PROVE  BuildersInv'
  BY <1>10, AdjustKeeps
<1>11. CASE NextEpoch
  <2>1. /\ UNCHANGED <<kind, arrays, builder, claims, intents, meant, appenders, sent>>
        /\ epoch' \in Nat
    BY <1>1, <1>11 DEF NextEpoch
  <2>2. QED
    BY <1>1, <2>1, OthersKeep DEF Windowed
<1>12. CASE UNCHANGED vars
  <2>1. UNCHANGED <<kind, arrays, builder, claims, intents, meant, appenders, epoch, sent>>
    BY <1>12 DEF vars
  <2>2. QED
    BY <1>1, <2>1, OthersKeep DEF Windowed
<1>13. QED
  BY <1>2, <1>3, <1>4, <1>5, <1>6, <1>7, <1>8, <1>9, <1>10, <1>11, <1>12
  DEF Next, Building, Holding

\* BuildersInv is an invariant of every builder and its intents, whatever the calls on them.
THEOREM Invariance == Spec => []BuildersInv
<1>1. QED
  BY InitInv, StepInv, PTL DEF Spec

\* Every intent reads what it was handed out with, as long as at most one appends to a shared list
\* (HandedOutIsKept), for any elements and any capacities the runtime chooses.
THEOREM HandedOutKept == Spec => []HandedOutIsKept
<1>1. ASSUME BuildersInv, Cardinality(appenders) <= 1, NEW i \in 1..Len(intents)
      PROVE  Reads(i) = meant[i]
  <2>1. /\ appenders \subseteq Holders /\ IsFiniteSet(Holders) /\ 0 \in Holders
        /\ meant[i] \in Readings
    <3>1. Len(intents) \in Nat /\ appenders \subseteq 0..Len(intents) /\ meant[i] \in Readings
      BY <1>1 DEF BuildersInv, Typed
    <3>2. IsFiniteSet(0..Len(intents))
      BY <3>1, FS_Interval
    <3>3. QED
      BY <3>1, <3>2 DEF Holders
  <2>2. IsFiniteSet(appenders)
    BY <2>1, FS_Subset
  <2>3. \E w \in Holders : appenders \subseteq {w}
    <3>1. CASE Cardinality(appenders) = 0
      BY <2>1, <2>2, <3>1, FS_EmptySet
    <3>2. CASE Cardinality(appenders) = 1
      BY <2>1, <2>2, <3>2, FS_Singleton
    <3>3. Cardinality(appenders) \in Nat
      BY <2>2, FS_CardinalityType
    <3>4. QED
      BY <1>1, <3>1, <3>2, <3>3
  <2>4. In(arrays, intents[i].list) = meant[i].list
    BY <1>1, <2>3 DEF BuildersInv, ListsKept
  <2>5. Contents(intents[i].list) = In(arrays, intents[i].list)
    BY DEF Contents, In
  <2>6. /\ meant[i].revealed = intents[i].revealed
        /\ meant[i].maxEpoch = IF intents[i].claim # 0 THEN claims[intents[i].claim]
                                                       ELSE intents[i].maxEpoch
    BY <1>1 DEF BuildersInv, FieldsKept
  <2>7. Reads(i) = [list |-> meant[i].list, revealed |-> meant[i].revealed,
                    maxEpoch |-> meant[i].maxEpoch]
    BY <2>4, <2>5, <2>6 DEF Reads, ReadsIn
  <2>8. QED
    BY <2>1, <2>7 DEF Readings
<1>2. BuildersInv => HandedOutIsKept
  BY <1>1 DEF HandedOutIsKept
<1>3. QED
  BY <1>2, Invariance, PTL

\* A stealth intent that reconciled when it was handed out still does when it is read to be sent
\* (StaysReconciled), for any amounts and any width they wrap at.
THEOREM StealthReconciles == Spec => []StaysReconciled
<1>1. ASSUME BuildersInv, kind = "stealth", appenders \subseteq {0}, NEW i \in 1..Len(intents)
      PROVE  Deposits(Contents(intents[i].list)) = intents[i].revealed
  <2>1. 0 \in Holders
    BY <1>1 DEF BuildersInv, Typed, Holders
  <2>2. In(arrays, intents[i].list) = meant[i].list
    BY <1>1, <2>1 DEF BuildersInv, ListsKept
  <2>3. Contents(intents[i].list) = In(arrays, intents[i].list)
    BY DEF Contents, In
  <2>4. Deposits(meant[i].list) = meant[i].revealed /\ meant[i].revealed = intents[i].revealed
    BY <1>1 DEF BuildersInv, Reconciled, FieldsKept
  <2>5. QED
    BY <2>2, <2>3, <2>4
<1>2. BuildersInv => StaysReconciled
  BY <1>1 DEF StaysReconciled
<1>3. QED
  BY <1>2, Invariance, PTL

\* A send without a pin settles its window from the epoch served then, and a pin is kept
\* (FreshWindow), however often and of whichever copy it is.
THEOREM WindowFresh == Spec => []FreshWindow
<1>1. BuildersInv => FreshWindow
  BY DEF BuildersInv, Windowed, FreshWindow
<1>2. QED
  BY <1>1, Invariance, PTL

=============================================================================

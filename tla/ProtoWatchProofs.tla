-------------------------- MODULE ProtoWatchProofs --------------------------
(***************************************************************************)
(* Proofs about ProtoWatch, for any number of threads and of messages and  *)
(* for all sizes, limits and windows.                                      *)
(***************************************************************************)
EXTENDS ProtoWatch, DataLemmas

-----------------------------------------------------------------------------
(* What is left of a list *)

Keeps(f, list, S) ==
  \A i \in 0..Len(list) :
    f[i] = IF i = 0 THEN <<>>
           ELSE IF list[i] \in S THEN f[i - 1] ELSE Append(f[i - 1], list[i])

\* The recursion of Without has a solution.
LEMMA KeepsExists ==
  ASSUME NEW V, NEW list \in Seq(V), NEW S
  PROVE  \E f \in [0..Len(list) -> Seq(V)] : Keeps(f, list, S)
<1> DEFINE op == [p \in Seq(V) \X V |-> IF p[2] \in S THEN p[1] ELSE Append(p[1], p[2])]
<1>1. op \in [Seq(V) \X V -> Seq(V)] /\ <<>> \in Seq(V)
  OBVIOUS
<1>2. \A a \in Seq(V), x \in V : op[<<a, x>>] = IF x \in S THEN a ELSE Append(a, x)
  OBVIOUS
<1> HIDE DEF op
<1> DEFINE W == Seq(V)
           base == <<>>
<1>3. PICK f : Runs(f, list, W, base, op)
  <2>1. op \in [W \X V -> W] /\ base \in W
    BY <1>1
  <2> HIDE DEF W, base
  <2> QED BY <2>1, ListRecursion
<1>4. ASSUME NEW i \in 0..Len(list), i # 0
      PROVE  f[i] = IF list[i] \in S THEN f[i - 1] ELSE Append(f[i - 1], list[i])
  <2>1. Len(list) \in Nat /\ i - 1 \in 0..Len(list)
    BY <1>4
  <2>2. f[i - 1] \in Seq(V) /\ list[i] \in V
    BY <1>3, <1>4, <2>1 DEF Runs
  <2> QED BY <1>2, <1>3, <1>4, <2>2 DEF Runs
<1> QED BY <1>3, <1>4 DEF Keeps, Runs

\* Without is the last value of such a recursion.
LEMMA WithoutKeeps ==
  ASSUME NEW V, NEW list \in Seq(V), NEW S
  PROVE  \E f : Keeps(f, list, S) /\ Without(list, S) = f[Len(list)]
<1> DEFINE Def(f) == f = [i \in 0..Len(list) |->
                            IF i = 0 THEN <<>>
                            ELSE IF list[i] \in S THEN f[i - 1] ELSE Append(f[i - 1], list[i])]
<1>1. \E f : Def(f)
  <2>1. PICK f \in [0..Len(list) -> Seq(V)] : Keeps(f, list, S)
    BY KeepsExists
  <2>2. Def(f)
    BY <2>1 DEF Keeps
  <2> QED BY <2>2
<1> DEFINE kept == CHOOSE f : Def(f)
<1>2. Def(kept)
  <2> HIDE DEF Def
  <2> QED BY <1>1
<1>3. Without(list, S) = kept[Len(list)]
  BY DEF Without
<1>4. Keeps(kept, list, S)
  <2> HIDE DEF kept
  <2> QED BY <1>2 DEF Keeps
<1> QED BY <1>3, <1>4

\* What Without leaves is a list of the other entries, none of them twice.
LEMMA WithoutEntries ==
  ASSUME NEW V, NEW list \in Seq(V), NEW S
  PROVE  /\ Without(list, S) \in Seq(V)
         /\ ToSet(Without(list, S)) = ToSet(list) \ S
         /\ IsInjective(list) => IsInjective(Without(list, S))
<1>0. PICK f : Keeps(f, list, S) /\ Without(list, S) = f[Len(list)]
  BY WithoutKeeps
<1> DEFINE Ok(n) == /\ f[n] \in Seq(V)
                    /\ ToSet(f[n]) = {list[i] : i \in 1..n} \ S
                    /\ IsInjective(list) => IsInjective(f[n])
           Good == {n \in Nat : n <= Len(list) => Ok(n)}
<1>1. Len(list) \in Nat /\ DOMAIN list = 1..Len(list)
  OBVIOUS
<1>2. 0 \in Good
  <2>1. f[0] = <<>>
    BY <1>0, <1>1 DEF Keeps
  <2>2. {list[i] : i \in 1..0} = {} /\ DOMAIN f[0] = {} /\ f[0] \in Seq(V)
    BY <2>1
  <2>3. ToSet(f[0]) = {} /\ IsInjective(f[0])
    BY <2>2 DEF ToSet, IsInjective
  <2> QED BY <2>2, <2>3
<1>3. ASSUME NEW n \in Good, n + 1 <= Len(list) PROVE Ok(n + 1)
  <2>1. Ok(n) /\ n \in Nat
    BY <1>1, <1>3
  <2>2. f[n + 1] = IF list[n + 1] \in S THEN f[n] ELSE Append(f[n], list[n + 1])
    BY <1>0, <1>1, <1>3 DEF Keeps
  <2>3. list[n + 1] \in V /\ {list[i] : i \in 1..(n + 1)} = {list[i] : i \in 1..n} \cup {list[n + 1]}
    BY <1>1, <1>3
  <2>4. CASE list[n + 1] \in S
    BY <2>1, <2>2, <2>3, <2>4
  <2>5. CASE list[n + 1] \notin S
    <3> DEFINE a == f[n]
               x == list[n + 1]
               b == Append(a, x)
    <3>1. f[n + 1] = b /\ a \in Seq(V) /\ x \in V /\ ToSet(a) = {list[i] : i \in 1..n} \ S
          /\ (IsInjective(list) => IsInjective(a))
      BY <2>1, <2>2, <2>3, <2>5
    <3>2. IsInjective(list) => x \notin ToSet(a)
      BY <1>1, <1>3, <2>1, <3>1 DEF IsInjective
    <3> HIDE DEF a, x
    <3>3. b \in Seq(V) /\ ToSet(b) = ToSet(a) \cup {x} /\ (IsInjective(a) /\ x \notin ToSet(a) => IsInjective(b))
      BY <3>1, AppendEntries
    <3> QED BY <2>3, <2>5, <3>1, <3>2, <3>3 DEF x
  <2> QED BY <2>4, <2>5
<1>4. Good = Nat
  <2>1. \A n \in Good : n + 1 \in Good
    <3> HIDE DEF Ok
    <3> QED BY <1>3
  <2>2. Good \in SUBSET Nat
    OBVIOUS
  <2> HIDE DEF Good
  <2> QED BY <1>2, <2>1, <2>2, NatSetInduction
<1>5. Ok(Len(list))
  <2> HIDE DEF Ok
  <2> QED BY <1>1, <1>4
<1>6. {list[i] : i \in 1..Len(list)} = ToSet(list)
  BY <1>1 DEF ToSet
<1> QED BY <1>0, <1>5, <1>6

\* From nothing nothing is taken.
LEMMA WithoutNothing == \A S : Without(<<>>, S) = <<>>
<1> SUFFICES ASSUME NEW S PROVE Without(<<>>, S) = <<>>
  OBVIOUS
<1>1. <<>> \in Seq({})
  OBVIOUS
<1>2. PICK h : Keeps(h, <<>>, S) /\ Without(<<>>, S) = h[Len(<<>>)]
  BY <1>1, WithoutKeeps
<1> QED BY <1>2 DEF Keeps

\* Without goes from the front to the end.
LEMMA WithoutAppend ==
  ASSUME NEW V, NEW list \in Seq(V), NEW x \in V, NEW S
  PROVE  /\ x \in S => Without(Append(list, x), S) = Without(list, S)
         /\ x \notin S => Without(Append(list, x), S) = Append(Without(list, S), x)
<1> DEFINE longer == Append(list, x)
<1>1. /\ longer \in Seq(V) /\ Len(longer) = Len(list) + 1 /\ Len(list) \in Nat
      /\ longer[Len(list) + 1] = x /\ \A i \in 1..Len(list) : longer[i] = list[i]
  OBVIOUS
<1> HIDE DEF longer
<1>2. PICK f : Keeps(f, list, S) /\ Without(list, S) = f[Len(list)]
  BY WithoutKeeps
<1>3. PICK g : Keeps(g, longer, S) /\ Without(longer, S) = g[Len(longer)]
  BY <1>1, WithoutKeeps
<1> DEFINE Good == {n \in Nat : n <= Len(list) => f[n] = g[n]}
<1>4. 0 \in Good
  BY <1>1, <1>2, <1>3 DEF Keeps
<1>5. ASSUME NEW n \in Good PROVE n + 1 \in Good
  <2> SUFFICES ASSUME n + 1 <= Len(list) PROVE f[n + 1] = g[n + 1]
    OBVIOUS
  <2>1. f[n] = g[n] /\ longer[n + 1] = list[n + 1] /\ n \in Nat
    BY <1>1, <1>5
  <2>2. n + 1 \in 0..Len(list) /\ n + 1 \in 0..Len(longer) /\ n + 1 # 0 /\ n + 1 - 1 = n
    BY <1>1, <2>1
  <2>3. f[n + 1] = IF list[n + 1] \in S THEN f[n] ELSE Append(f[n], list[n + 1])
    BY <1>2, <2>2 DEF Keeps
  <2>4. g[n + 1] = IF longer[n + 1] \in S THEN g[n] ELSE Append(g[n], longer[n + 1])
    BY <1>3, <2>2 DEF Keeps
  <2> QED BY <2>1, <2>3, <2>4
<1>6. f[Len(list)] = g[Len(list)]
  <2>1. Good \in SUBSET Nat
    OBVIOUS
  <2>2. Good = Nat
    <3> HIDE DEF Good
    <3> QED BY <1>4, <1>5, <2>1, NatSetInduction
  <2> QED BY <1>1, <2>2
<1>7. g[Len(list) + 1] = IF x \in S THEN g[Len(list)] ELSE Append(g[Len(list)], x)
  <2>1. Len(list) + 1 \in 0..Len(longer) /\ Len(list) + 1 # 0 /\ Len(list) + 1 - 1 = Len(list)
    BY <1>1
  <2> QED BY <1>1, <1>3, <2>1 DEF Keeps
<1> QED BY <1>1, <1>2, <1>3, <1>6, <1>7 DEF longer

\* and may stop between.
LEMMA WithoutConcat ==
  ASSUME NEW V, NEW s \in Seq(V), NEW t \in Seq(V), NEW S
  PROVE  Without(s \o t, S) = Without(s, S) \o Without(t, S)
<1> DEFINE Ok(r) == Without(s \o r, S) = Without(s, S) \o Without(r, S)
           Good == {r \in Seq(V) : Ok(r)}
<1>0. Without(s, S) \in Seq(V)
  BY WithoutEntries
<1>1. Ok(<<>>)
  <2>1. Without(<<>>, S) = <<>>
    BY WithoutNothing
  <2>2. s \o <<>> = s /\ Without(s, S) \o <<>> = Without(s, S)
    BY <1>0
  <2> QED BY <2>1, <2>2
<1>2. ASSUME NEW r \in Good, NEW x \in V PROVE Ok(Append(r, x))
  <2>0. r \in Seq(V) /\ Without(s \o r, S) = Without(s, S) \o Without(r, S)
    BY <1>2
  <2>1. s \o Append(r, x) = Append(s \o r, x) /\ s \o r \in Seq(V) /\ Append(r, x) \in Seq(V)
    BY <2>0
  <2>2. Without(r, S) \in Seq(V)
    BY <2>0, WithoutEntries
  <2> DEFINE sr == s \o r
  <2>3. /\ x \in S => Without(Append(sr, x), S) = Without(sr, S)
        /\ x \notin S => Without(Append(sr, x), S) = Append(Without(sr, S), x)
    <3>1. sr \in Seq(V)
      BY <2>1
    <3> HIDE DEF sr
    <3> QED BY <3>1, WithoutAppend
  <2>4. /\ x \in S => Without(Append(r, x), S) = Without(r, S)
        /\ x \notin S => Without(Append(r, x), S) = Append(Without(r, S), x)
    BY <2>0, WithoutAppend
  <2>5. Without(s, S) \o Append(Without(r, S), x) = Append(Without(s, S) \o Without(r, S), x)
    BY <1>0, <2>2
  <2> QED BY <2>0, <2>1, <2>3, <2>4, <2>5
<1>3. Good = Seq(V)
  <2>1. <<>> \in Good
    <3> HIDE DEF Ok
    <3> QED BY <1>1
  <2>2. \A r \in Good : \A x \in V : Append(r, x) \in Good
    <3> SUFFICES ASSUME NEW r \in Good, NEW x \in V PROVE Append(r, x) \in Good
      OBVIOUS
    <3>1. r \in Seq(V) /\ Append(r, x) \in Seq(V)
      OBVIOUS
    <3>2. Ok(Append(r, x))
      BY <1>2
    <3> HIDE DEF Ok
    <3> QED BY <3>1, <3>2
  <2>3. Good \in SUBSET Seq(V)
    OBVIOUS
  <2> HIDE DEF Good
  <2> QED BY <2>1, <2>2, <2>3, ListInduction
<1> QED BY <1>3

\* A list of one value stays, or goes.
LEMMA WithoutBytes ==
  ASSUME NEW mb \in Mb, NEW k \in Nat, NEW S
  PROVE  /\ Bytes(mb, k) \in Seq(MbIds)
         /\ Without(Bytes(mb, k), S) = IF mb.n \in S THEN <<>> ELSE Bytes(mb, k)
<1> DEFINE Ok(n) == Without(Bytes(mb, n), S) = IF mb.n \in S THEN <<>> ELSE Bytes(mb, n)
           Good == {n \in Nat : Ok(n)}
<1>0. \A n \in Nat : Bytes(mb, n) \in Seq(MbIds)
  <2>1. mb.n \in MbIds
    BY DEF Mb
  <2> QED BY <2>1 DEF Bytes
<1>1. Ok(0)
  <2>1. Bytes(mb, 0) = <<>>
    BY <1>0 DEF Bytes
  <2>2. Without(<<>>, S) = <<>>
    BY WithoutNothing
  <2> QED BY <2>1, <2>2
<1>2. ASSUME NEW n \in Good PROVE Ok(n + 1)
  <2>0. n \in Nat /\ Ok(n)
    BY <1>2
  <2>1. Bytes(mb, n + 1) = Append(Bytes(mb, n), mb.n) /\ mb.n \in MbIds
    <3>1. mb.n \in MbIds
      BY DEF Mb
    <3>2. Bytes(mb, n + 1) \in Seq(MbIds) /\ Append(Bytes(mb, n), mb.n) \in Seq(MbIds)
          /\ Bytes(mb, n) \in Seq(MbIds)
      BY <1>0, <2>0, <3>1
    <3>3. /\ Len(Bytes(mb, n)) = n /\ Len(Bytes(mb, n + 1)) = n + 1
          /\ Len(Append(Bytes(mb, n), mb.n)) = n + 1
          /\ \A i \in 1..(n + 1) : Append(Bytes(mb, n), mb.n)[i] = mb.n /\ Bytes(mb, n + 1)[i] = mb.n
      BY <2>0, <3>1 DEF Bytes
    <3> QED BY <3>1, <3>2, <3>3, SeqEqual
  <2> DEFINE b == Bytes(mb, n)
             x == mb.n
  <2>2. /\ x \in S => Without(Append(b, x), S) = Without(b, S)
        /\ x \notin S => Without(Append(b, x), S) = Append(Without(b, S), x)
    <3>1. b \in Seq(MbIds) /\ x \in MbIds
      BY <1>0, <2>0, <2>1
    <3> HIDE DEF b, x
    <3> QED BY <3>1, WithoutAppend
  <2> QED BY <2>0, <2>1, <2>2
<1>3. Good = Nat
  <2>1. 0 \in Good /\ \A n \in Good : n + 1 \in Good
    <3>1. \A n \in Good : n \in Nat
      OBVIOUS
    <3> HIDE DEF Ok
    <3> QED BY <1>1, <1>2
  <2>2. Good \in SUBSET Nat
    OBVIOUS
  <2> HIDE DEF Good
  <2> QED BY <2>1, <2>2, NatSetInduction
<1> QED BY <1>0, <1>3

-----------------------------------------------------------------------------
(* The size of a list of messages *)

SizeIn == [m \in Mb |-> m.size]

\* Every message has its size.
LEMMA MbSize == \A m \in Mb : SizeIn[m] = m.size /\ m.size \in Nat
  BY SizesAssumption DEF SizeIn, Mb

\* A list without repetition is as long and as large as the set of its entries.
LEMMA SizeOfSet ==
  ASSUME NEW s \in Seq(Mb), IsInjective(s)
  PROVE  /\ IsFiniteSet(ToSet(s)) /\ Cardinality(ToSet(s)) = Len(s)
         /\ SizeOf(s) \in Nat
         /\ SizeOf(s) = Total(SizeIn, ToSet(s))
<1> DEFINE I == DOMAIN s
           T == ToSet(s)
           sizes == [i \in I |-> s[i].size]
<1>1. I = 1..Len(s) /\ Len(s) \in Nat /\ \A i \in I : s[i] \in Mb
  OBVIOUS
<1>2. IsFiniteSet(I) /\ Cardinality(I) = Len(s)
  BY <1>1, FS_Interval
<1>3. s \in Bijection(I, T)
  <2>1. s \in [I -> T] /\ \A y \in T : \E i \in I : s[i] = y
    BY <1>1 DEF ToSet
  <2>2. \A i, j \in I : s[i] = s[j] => i = j
    BY DEF IsInjective
  <2> HIDE DEF I, T
  <2> QED BY <2>1, <2>2 DEF Bijection, Injection, Surjection, IsInjective
<1>4. IsFiniteSet(T) /\ Cardinality(T) = Cardinality(I)
  <2> HIDE DEF I, T
  <2> QED BY <1>2, <1>3, FS_Bijection DEF ExistsBijection
<1>5. \A i \in I : sizes[i] \in Nat /\ SizeIn[s[i]] = sizes[i]
  BY <1>1, MbSize
<1>6. Total(sizes, I) = Total(SizeIn, T) /\ Total(sizes, I) \in Nat
  <2> HIDE DEF I, T, sizes
  <2> QED BY <1>2, <1>3, <1>5, TotalReindex, TotalType
<1> QED BY <1>2, <1>4, <1>6 DEF SizeOf

\* The size of a list with a message more.
LEMMA SizeAppend ==
  ASSUME NEW s \in Seq(Mb), IsInjective(s), NEW x \in Mb, x \notin ToSet(s)
  PROVE  SizeOf(Append(s, x)) = SizeOf(s) + x.size
<1> DEFINE a == Append(s, x)
<1>1. a \in Seq(Mb) /\ IsInjective(a) /\ ToSet(a) = ToSet(s) \cup {x}
  BY AppendEntries
<1> HIDE DEF a
<1>2. SizeOf(a) = Total(SizeIn, ToSet(a)) /\ IsFiniteSet(ToSet(a))
  BY <1>1, SizeOfSet
<1>3. \A m \in ToSet(a) : SizeIn[m] \in Nat
  BY <1>1, MbSize DEF ToSet
<1>4. Total(SizeIn, ToSet(a)) = SizeIn[x] + Total(SizeIn, ToSet(a) \ {x})
  BY <1>1, <1>2, <1>3, TotalSplit
<1>5. ToSet(a) \ {x} = ToSet(s)
  BY <1>1
<1>6. SizeOf(s) \in Nat /\ SizeOf(s) = Total(SizeIn, ToSet(s)) /\ SizeIn[x] = x.size /\ x.size \in Nat
  BY SizeOfSet, MbSize
<1>7. SizeOf(a) = x.size + SizeOf(s)
  BY <1>2, <1>4, <1>5, <1>6
<1>8. SizeOf(a) = SizeOf(s) + x.size
  BY <1>6, <1>7
<1> QED BY <1>8 DEF a

\* The size of a list with its first message gone.
LEMMA SizeTail ==
  ASSUME NEW s \in Seq(Mb), IsInjective(s), s # <<>>
  PROVE  /\ Head(s) \in Mb /\ SizeOf(Tail(s)) \in Nat
         /\ SizeOf(s) = Head(s).size + SizeOf(Tail(s))
<1>1. Tail(s) \in Seq(Mb) /\ IsInjective(Tail(s)) /\ Head(s) \in ToSet(s)
      /\ ToSet(Tail(s)) = ToSet(s) \ {Head(s)} /\ Head(s) \in Mb
  BY TailEntries
<1>2. /\ SizeOf(s) = Total(SizeIn, ToSet(s)) /\ IsFiniteSet(ToSet(s))
      /\ SizeOf(Tail(s)) = Total(SizeIn, ToSet(s) \ {Head(s)}) /\ SizeOf(Tail(s)) \in Nat
  BY <1>1, SizeOfSet
<1>3. \A m \in ToSet(s) : SizeIn[m] \in Nat
  BY MbSize DEF ToSet
<1>4. Total(SizeIn, ToSet(s)) = SizeIn[Head(s)] + Total(SizeIn, ToSet(s) \ {Head(s)})
  BY <1>1, <1>2, <1>3, TotalSplit
<1> QED BY <1>1, <1>2, <1>4, MbSize

\* Dropping messages takes their sizes off, and leaves no more than there was.
LEMMA SizeWithout ==
  ASSUME NEW s \in Seq(Mb), IsInjective(s), NEW D \in SUBSET ToSet(s)
  PROVE  /\ IsFiniteSet(D) /\ Cardinality(D) \in Nat
         /\ Len(Without(s, D)) = Len(s) - Cardinality(D)
         /\ SizeOf(Without(s, D)) \in Nat
         /\ Total([m \in D |-> m.size], D) \in Nat
         /\ SizeOf(s) = Total([m \in D |-> m.size], D) + SizeOf(Without(s, D))
<1> DEFINE T == ToSet(s)
           w == Without(s, D)
           sizes == [m \in D |-> m.size]
           id == [m \in D |-> m]
<1>1. w \in Seq(Mb) /\ IsInjective(w) /\ ToSet(w) = T \ D
  BY WithoutEntries
<1> HIDE DEF w
<1>2. /\ SizeOf(s) = Total(SizeIn, T) /\ IsFiniteSet(T) /\ Cardinality(T) = Len(s)
      /\ SizeOf(w) = Total(SizeIn, T \ D) /\ SizeOf(w) \in Nat /\ Cardinality(T \ D) = Len(w)
  BY <1>1, SizeOfSet
<1>3. \A m \in T : SizeIn[m] \in Nat /\ m \in Mb
  BY MbSize DEF ToSet
<1>4. Total(SizeIn, T) = Total(SizeIn, D) + Total(SizeIn, T \ D)
  <2> HIDE DEF T
  <2> QED BY <1>2, <1>3, TotalDifference DEF T
<1>5. IsFiniteSet(D) /\ Cardinality(D) \in Nat /\ Cardinality(T \ D) = Cardinality(T) - Cardinality(D)
  <2>1. IsFiniteSet(D) /\ Cardinality(D) \in Nat
    BY <1>2, FS_Subset, FS_CardinalityType
  <2>2. Cardinality(T \ D) = Cardinality(T) - Cardinality(T \cap D) /\ T \cap D = D
    BY <1>2, FS_Difference
  <2> QED BY <2>1, <2>2
<1>6. Total(sizes, D) = Total(SizeIn, D) /\ Total(sizes, D) \in Nat
  <2>1. id \in Bijection(D, D)
    BY DEF Bijection, Injection, Surjection, IsInjective
  <2>2. \A m \in D : sizes[m] \in Nat /\ SizeIn[id[m]] = sizes[m]
    BY <1>3, MbSize
  <2> HIDE DEF id, sizes
  <2> QED BY <1>5, <2>1, <2>2, TotalReindex, TotalType
<1> QED BY <1>2, <1>4, <1>5, <1>6 DEF w

-----------------------------------------------------------------------------
(* Threads and references *)

Busy == Cardinality({t \in Procs : proc[t] # Idle})
Quiet == \A t \in Procs : proc[t] = Idle

\* The threads and the loop can be counted.
LEMMA ProcsFinite == IsFiniteSet(Procs) /\ LoopThread \in Procs
  BY ThreadsAssumption, FS_AddElement DEF Procs

\* One thread moves.
LEMMA ThreadMoves ==
  ASSUME NEW t \in Procs, NEW p, TypeOK, proc' = [proc EXCEPT ![t] = p]
  PROVE  /\ Busy \in Nat /\ Busy' \in Nat /\ Held \in Nat /\ Held' \in Nat
         /\ Busy' = Busy - One(proc[t] # Idle) + One(p # Idle)
         /\ Held' = Held - One(proc[t].mb # <<>>) + One(p.mb # <<>>)
         /\ proc[t] # Idle => Busy # 0
<1>1. proc'[t] = p /\ \A u \in Procs : u # t => proc'[u] = proc[u]
  BY DEF TypeOK
<1> DEFINE S == {u \in Procs : proc[u] # Idle}
           R == {u \in Procs : proc'[u] # Idle}
           A == {u \in Procs : proc[u].mb # <<>>}
           B == {u \in Procs : proc'[u].mb # <<>>}
<1>2. IsFiniteSet(S) /\ IsFiniteSet(A)
  BY ProcsFinite, FS_Subset
<1>3. R \ {t} = S \ {t} /\ B \ {t} = A \ {t}
  BY <1>1
<1>4. (t \in S <=> proc[t] # Idle) /\ (t \in R <=> p # Idle)
      /\ (t \in A <=> proc[t].mb # <<>>) /\ (t \in B <=> p.mb # <<>>)
  BY <1>1
<1>5. Busy = Cardinality(S) /\ Busy' = Cardinality(R)
      /\ Held = Cardinality(A) /\ Held' = Cardinality(B)
  BY DEF Busy, Held, Idle, At
<1> HIDE DEF S, R, A, B
<1>6. /\ Cardinality(R) \in Nat /\ Cardinality(S) \in Nat
      /\ Cardinality(R) = Cardinality(S) - (IF t \in S THEN 1 ELSE 0) + (IF t \in R THEN 1 ELSE 0)
  BY <1>2, <1>3, CountChange
<1>7. /\ Cardinality(A) \in Nat /\ Cardinality(B) \in Nat
      /\ Cardinality(B) = Cardinality(A) - (IF t \in A THEN 1 ELSE 0) + (IF t \in B THEN 1 ELSE 0)
  BY <1>2, <1>3, CountChange
<1>8. t \in S => Cardinality(S) # 0
  BY <1>2, FS_EmptySet
<1> QED BY <1>4, <1>5, <1>6, <1>7, <1>8 DEF One

\* A thread that is busy is counted, and there is none when nothing is counted.
LEMMA BusyCounts ==
  ASSUME TypeOK
  PROVE  /\ Busy \in Nat /\ Held \in Nat
         /\ Busy = 0 <=> Quiet
         /\ Quiet => Held = 0
<1> DEFINE S == {u \in Procs : proc[u] # Idle}
           A == {u \in Procs : proc[u].mb # <<>>}
<1>1. IsFiniteSet(S) /\ IsFiniteSet(A)
  BY ProcsFinite, FS_Subset
<1>2. Busy \in Nat /\ Held \in Nat
  BY <1>1, FS_CardinalityType DEF Busy, Held
<1>3. Busy = 0 <=> S = {}
  BY <1>1, FS_EmptySet DEF Busy
<1>4. S = {} <=> Quiet
  BY DEF Quiet
<1>5. Quiet => A = {}
  BY DEF Quiet, Idle, At
<1>6. A = {} => Held = 0
  BY FS_EmptySet DEF Held
<1> QED BY <1>2, <1>3, <1>4, <1>5, <1>6

\* What a thread between two of its steps is.
LEMMA ThreadAt ==
  ASSUME TypeOK, Numbered, NEW t \in Procs
  PROVE  /\ proc[t] = At(proc[t].pc, proc[t].mb)
         /\ proc[t].pc # "write" => proc[t].mb = <<>>
         /\ proc[t].pc = "write" => proc[t].mb = <<MbOf(t)>> /\ MbOf(t) \in Mb
<1>1. proc[t] \in ThreadType
  BY DEF TypeOK
<1>2. Len(proc[t].mb) <= 1 /\ (proc[t].pc = "write" <=> proc[t].mb # <<>>)
  BY DEF Numbered, Writing
<1>3. proc[t] = At(proc[t].pc, proc[t].mb)
  BY <1>1 DEF At, ThreadType
<1> QED BY <1>1, <1>2, <1>3 DEF MbOf, ThreadType

\* A step of a call moves one thread.
LEMMA StepMoves ==
  ASSUME TypeOK, Numbered, NEW t \in Procs, NEW from, NEW to, Step(t, from, to), from # "write"
  PROVE  /\ proc[t] = At(from, <<>>)
         /\ proc' = [proc EXCEPT ![t] = At(to, <<>>)]
<1>1. proc[t] = At(from, <<>>)
  BY ThreadAt DEF Step
<1>2. proc' = [proc EXCEPT ![t].pc = to]
  BY DEF Step
<1>3. [proc[t] EXCEPT !.pc = to] = At(to, <<>>)
  BY <1>1 DEF At
<1> QED BY <1>1, <1>2, <1>3

Owners == One(~nc_killed) + Busy + One(ev.phase \in {"queued", "watched"})
            + One(ev.asked) + ev.modify + One(loop.pc = "drop")

\* The watch is freed, and its event, with the last reference.
LEMMA References ==
  ASSUME IInv
  PROVE  /\ refs = Owners /\ Busy \in Nat /\ ev.modify \in Nat
         /\ refs = 0 <=> pw.mem = "freed"
         /\ ev.phase = "freed" <=> pw.mem = "freed"
<1>1. Busy \in Nat
  BY BusyCounts DEF IInv
<1>2. ev.modify \in Nat
  BY DEF IInv, TypeOK, EventType
<1> QED BY <1>1, <1>2 DEF IInv, ReferencesConserved, Attached, Owners, Busy

\* The text is that of the write buffer and of the backlog.
LEMMA TextLength ==
  ASSUME TypeOK
  PROVE  /\ Len(Text) = Len(write_buffer) + Len(backlog_list)
         /\ Text = <<>> <=> write_buffer = <<>> /\ backlog_list = <<>>
<1>1. write_buffer \in Seq(Mb) /\ backlog_list \in Seq(Mb)
  BY DEF TypeOK
<1> QED BY <1>1 DEF Text

\* A reference is given back: the watch is freed, and its text, when no other is left.
LEMMA ReleaseKeeps ==
  ASSUME IInv, Release, TypeOK', Owners \in Nat \ {0}, Owners' = Owners - 1, Held' = Held,
         refs = 1 => loop'.pc = "poll"
  PROVE  /\ MessagesAccounted'
         /\ ReferencesConserved'
         /\ refs > 1 => UNCHANGED <<pw, buffers>>
         /\ refs = 1 => /\ Text' = <<>> /\ backlog_list' = <<>> /\ pw'.mem = "freed"
                        /\ Quiet'
<1>1. refs = Owners /\ refs \in Nat /\ refs >= 1 /\ pw.mem = "live"
  <2>1. pw.mem \in {"live", "freed"}
    BY DEF IInv, TypeOK, WatchType
  <2> QED BY <2>1, References
<1>2. refs' = refs - 1
  BY <1>1 DEF Release
<1>3. (Busy \in Nat /\ Held \in Nat /\ (Busy = 0 <=> Quiet) /\ (Quiet => Held = 0))'
  BY BusyCounts, PTL
<1>4. (ev.modify \in Nat)'
  BY DEF TypeOK, EventType
<1>5. CASE refs > 1
  <2>1. UNCHANGED <<pw, buffers>>
    BY <1>5 DEF Release
  <2>2. MessagesAccounted'
    BY <1>1, <2>1 DEF IInv, MessagesAccounted, buffers, Text, SizeOf
  <2>3. ReferencesConserved'
    BY <1>1, <1>2, <1>5, <2>1 DEF ReferencesConserved, Owners, Busy
  <2> QED BY <1>5, <2>1, <2>2, <2>3
<1>6. CASE refs = 1
  <2>1. /\ pw'.mem = "freed" /\ write_buffer' = <<>> /\ backlog_list' = <<>>
        /\ out' = out - Len(Text)
    <3>1. pw' = [pw EXCEPT !.mem = "freed", !.fd = "closed"]
          /\ write_buffer' = <<>> /\ backlog_list' = <<>> /\ out' = out - Len(Text)
      BY <1>6 DEF Release, free_memblock
    <3>2. pw \in WatchType
      BY DEF IInv, TypeOK
    <3> QED BY <3>1, <3>2 DEF WatchType
  <2>2. Busy' = 0
    BY <1>1, <1>3, <1>4, <1>6 DEF Owners, One
  <2>3. Held' = 0 /\ Quiet'
    BY <1>3, <2>2
  <2>4. Text' = <<>> /\ Len(Text') = 0
    BY <2>1 DEF Text
  <2>5. out = Len(Text) + Held /\ Len(Text) \in Nat
    <3>1. write_buffer \in Seq(Mb) /\ backlog_list \in Seq(Mb)
      BY DEF IInv, TypeOK
    <3> QED BY <3>1, TextLength DEF IInv, MessagesAccounted
  <2>6. MessagesAccounted'
    <3>2. Held = 0
      BY <2>3
    <3>3. out' = out - Len(Text) /\ out = Len(Text) + Held /\ Len(Text) \in Nat
      BY <2>1, <2>5
    <3>1. out' = 0
      BY <3>2, <3>3
    <3> QED BY <2>1, <2>3, <2>4, <3>1 DEF MessagesAccounted
  <2>7. ReferencesConserved'
    BY <1>1, <1>2, <1>6, <2>1 DEF ReferencesConserved, Owners, Busy
  <2> QED BY <1>6, <2>1, <2>3, <2>4, <2>6, <2>7
<1> QED BY <1>1, <1>5, <1>6

\* The invariant holds at the start.
LEMMA InitHolds == Init => IInv
<1> SUFFICES ASSUME Init PROVE IInv
  OBVIOUS
<1>1. TypeOK
  <2>1. ev \in EventType
    BY DEF Init, EventType
  <2>2. pw \in WatchType
    BY DEF Init, WatchType
  <2>3. write_buffer \in Seq(Mb) /\ Len(write_buffer) <= 1 /\ backlog_list \in Seq(Mb)
        /\ due \in Seq(MbIds)
    BY DEF Init
  <2>4. proc \in [Procs -> ThreadType]
    BY DEF Init, Idle, At, ThreadType
  <2>5. loop \in LoopType
    BY DEF Init, LoopType
  <2>6. written \in 0..MaxMsgs /\ seq \in 0..(Word - 1)
    BY LimitsAssumption, FirstSeqAssumption DEF Init
  <2>7. backlog_size \in Nat /\ refs \in Nat /\ sent \in Nat /\ out \in Int
    BY DEF Init
  <2>8. nc_killed \in BOOLEAN /\ broken \in BOOLEAN
    BY DEF Init
  <2> QED BY <2>1, <2>2, <2>3, <2>4, <2>5, <2>6, <2>7, <2>8 DEF TypeOK
<1>2. Quiet
  BY DEF Init, Quiet
<1>3. Busy = 0 /\ Held = 0
  BY <1>1, <1>2, BusyCounts
<1>4. Text = <<>> /\ Len(Text) = 0
  BY DEF Init, Text
<1>5. SizeOf(backlog_list) = 0
  <2>1. backlog_list = <<>> /\ <<>> \in Seq(Mb) /\ IsInjective(<<>>) /\ ToSet(<<>>) = {}
    BY DEF Init, IsInjective, ToSet
  <2>2. SizeOf(backlog_list) = Total(SizeIn, {})
    BY <2>1, SizeOfSet
  <2> QED BY <2>2, FS_EmptySet, TotalType
<1>6. MessagesAccounted
  BY <1>3, <1>4, <1>5, LimitsAssumption DEF Init, MessagesAccounted
<1>7. ReferencesConserved
  BY <1>3 DEF Init, ReferencesConserved, Busy, One
<1>8. Numbered
  BY DEF Init, Numbered, Writing, Idle, At, ToSet, IsInjective
<1>9. Attached
  BY <1>2 DEF Init, Attached, Killing, Quiet, Idle, At
<1>10. Heard
  BY <1>4 DEF Init, Heard, LockFree
<1> QED BY <1>1, <1>6, <1>7, <1>8, <1>9, <1>10 DEF IInv

-----------------------------------------------------------------------------
(* What a step that leaves something alone keeps *)

\* What leaves buffers and calls alone leaves the messages accounted for.
LEMMA SameMessages ==
  ASSUME MessagesAccounted, UNCHANGED <<write_buffer, backlog_list, backlog_size, out>>,
         Held' = Held, pw'.mem = pw.mem
  PROVE  MessagesAccounted' /\ Text' = Text
<1>1. Text' = Text
  BY DEF Text
<1>2. SizeOf(backlog_list)' = SizeOf(backlog_list)
  OBVIOUS
<1> HIDE DEF SizeOf
<1> QED BY <1>1, <1>2 DEF MessagesAccounted

\* The references are conserved when counter and owners change alike.
LEMMA SameReferences ==
  ASSUME IInv, refs' = Owners', refs # 0, refs' # 0, pw'.mem = pw.mem
  PROVE  ReferencesConserved'
<1>1. pw.mem # "freed"
  BY References
<1> QED BY <1>1 DEF ReferencesConserved, Owners, Busy

\* A thread moves that has no message then, and nothing is added to the backlog.
LEMMA MovesKeep ==
  ASSUME TypeOK, Numbered, NEW t \in Procs,
         NEW pc \in {"idle", "want", "set", "push", "unref", "kill"},
         proc' = [proc EXCEPT ![t] = At(pc, <<>>)], written' = written,
         ToSet(backlog_list') \subseteq ToSet(backlog_list), IsInjective(backlog_list')
  PROVE  Numbered' /\ proc' \in [Procs -> ThreadType]
<1>1. proc \in [Procs -> ThreadType]
  BY DEF TypeOK
<1>2. proc'[t] = At(pc, <<>>) /\ \A u \in Procs : u # t => proc'[u] = proc[u]
  BY <1>1
<1>3. At(pc, <<>>).pc = pc /\ At(pc, <<>>).mb = <<>> /\ At(pc, <<>>) \in ThreadType
  BY DEF At, ThreadType
<1>4. proc' \in [Procs -> ThreadType]
  BY <1>1, <1>3
<1>5. ASSUME NEW u \in Procs
      PROVE  /\ Len(proc'[u].mb) <= 1
             /\ proc'[u].pc = "write" <=> proc'[u].mb # <<>>
             /\ proc'[u].pc = "write" => u # t
  <2>1. CASE u = t
    BY <1>2, <1>3, <2>1
  <2>2. CASE u # t
    BY <1>2, <2>2 DEF Numbered, Writing
  <2> QED BY <2>1, <2>2
<1>6. ASSUME NEW u \in Procs, proc'[u].pc = "write"
      PROVE  /\ proc'[u].mb[1].n <= written
             /\ \A mb \in ToSet(backlog_list) : mb.n # proc'[u].mb[1].n
             /\ \A v \in Procs : v # t /\ proc[v].pc = "write" /\ proc[v].mb[1].n = proc'[u].mb[1].n
                  => v = u
  <2>1. u # t /\ proc'[u] = proc[u]
    BY <1>2, <1>5, <1>6
  <2> QED BY <1>6, <2>1 DEF Numbered, Writing, MbOf
<1>7. \A mb \in ToSet(backlog_list) : mb.n <= written
  BY DEF Numbered
<1>8. \A u, v \in Procs : proc'[u].pc = "write" /\ proc'[v].pc = "write"
                            /\ proc'[u].mb[1].n = proc'[v].mb[1].n => u = v
  BY <1>2, <1>5, <1>6
<1>9. \A mb \in ToSet(backlog_list') : mb \in ToSet(backlog_list)
  OBVIOUS
<1> HIDE DEF ToSet, IsInjective
<1>10. Numbered'
  BY <1>5, <1>6, <1>7, <1>8, <1>9 DEF Numbered, Writing, MbOf
<1> QED BY <1>4, <1>10

\* Messages that leave the backlog leave the others in order.
LEMMA SameNumbers ==
  ASSUME Numbered, UNCHANGED <<proc, written>>,
         ToSet(backlog_list') \subseteq ToSet(backlog_list), IsInjective(backlog_list')
  PROVE  Numbered'
BY DEF Numbered, Writing, MbOf

-----------------------------------------------------------------------------
(* The steps of a thread *)

CalmPcs == {"idle", "want", "set", "push", "unref", "kill"}

\* A call outside the write: the messages stay, and the thread is busy or not.
LEMMA CalmMoves ==
  ASSUME TypeOK, Numbered, NEW t \in Procs, NEW from \in CalmPcs, NEW to \in CalmPcs,
         proc[t] = At(from, <<>>), proc' = [proc EXCEPT ![t] = At(to, <<>>)]
  PROVE  /\ proc' \in [Procs -> ThreadType]
         /\ Held' = Held
         /\ Busy \in Nat /\ Busy' \in Nat
         /\ Busy' = Busy - One(from # "idle") + One(to # "idle")
         /\ from # "idle" => Busy # 0
         /\ {from, to} \cap {"want", "set"} = {} => Asking' = Asking
         /\ "push" \notin {from, to} => Pushing' = Pushing
         /\ to \in {"want", "set"} => Asking'
         /\ to = "push" => Pushing'
         /\ to # "kill" /\ Killing' => Killing
<1>1. /\ At(from, <<>>).mb = <<>> /\ At(to, <<>>).mb = <<>>
      /\ At(from, <<>>).pc = from /\ At(to, <<>>).pc = to
      /\ At(from, <<>>) # Idle <=> from # "idle"
      /\ At(to, <<>>) # Idle <=> to # "idle"
      /\ At(to, <<>>) \in ThreadType
  BY DEF At, Idle, ThreadType, CalmPcs
<1>2. /\ Busy \in Nat /\ Busy' \in Nat /\ Held \in Nat /\ Held' \in Nat
      /\ Busy' = Busy - One(At(from, <<>>) # Idle) + One(At(to, <<>>) # Idle)
      /\ Held' = Held - One(At(from, <<>>).mb # <<>>) + One(At(to, <<>>).mb # <<>>)
      /\ At(from, <<>>) # Idle => Busy # 0
  <2> DEFINE p == At(to, <<>>)
  <2> HIDE DEF p
  <2>1. proc' = [proc EXCEPT ![t] = p]
    BY DEF p
  <2> QED BY <2>1, ThreadMoves DEF p
<1>3. Held' = Held /\ Busy' = Busy - One(from # "idle") + One(to # "idle")
      /\ (from # "idle" => Busy # 0)
  BY <1>1, <1>2 DEF One
<1>4. proc \in [Procs -> ThreadType]
  BY DEF TypeOK
<1>5. proc' \in [Procs -> ThreadType]
  BY <1>1, <1>4
<1>6. \A u \in Procs : proc'[u] = IF u = t THEN At(to, <<>>) ELSE proc[u]
  BY <1>4
<1>7. /\ {from, to} \cap {"want", "set"} = {} => Asking' = Asking
      /\ to \in {"want", "set"} => Asking'
  BY <1>1, <1>6 DEF Asking
<1>8. /\ "push" \notin {from, to} => Pushing' = Pushing
      /\ to = "push" => Pushing'
  BY <1>1, <1>6 DEF Pushing
<1>9. to # "kill" /\ Killing' => Killing
  BY <1>1, <1>6 DEF Killing
<1> QED BY <1>2, <1>3, <1>5, <1>7, <1>8, <1>9

\* The same for a step between two places of a call.
LEMMA StepsKeep ==
  ASSUME TypeOK, Numbered, NEW t \in Procs, NEW from \in CalmPcs, NEW to \in CalmPcs,
         Step(t, from, to)
  PROVE  /\ proc[t] = At(from, <<>>)
         /\ proc' = [proc EXCEPT ![t] = At(to, <<>>)]
         /\ proc' \in [Procs -> ThreadType]
         /\ Held' = Held
         /\ Busy \in Nat /\ Busy' \in Nat
         /\ Busy' = Busy - One(from # "idle") + One(to # "idle")
         /\ from # "idle" => Busy # 0
         /\ {from, to} \cap {"want", "set"} = {} => Asking' = Asking
         /\ "push" \notin {from, to} => Pushing' = Pushing
         /\ to \in {"want", "set"} => Asking'
         /\ to = "push" => Pushing'
         /\ to # "kill" /\ Killing' => Killing
<1>1. from # "write"
  BY DEF CalmPcs
<1>2. proc[t] = At(from, <<>>) /\ proc' = [proc EXCEPT ![t] = At(to, <<>>)]
  BY <1>1, StepMoves
<1> QED BY <1>2, CalmMoves

\* Types and lists after a reference was dropped, the last or not.
LEMMA ReleaseType ==
  ASSUME TypeOK, Release, refs >= 1, IsInjective(backlog_list)
  PROVE  /\ pw' \in WatchType /\ pw'.sched = pw.sched /\ pw'.killed = pw.killed
         /\ write_buffer' \in Seq(Mb) /\ Len(write_buffer') <= 1
         /\ backlog_list' \in Seq(Mb) /\ backlog_size' \in Nat /\ refs' \in Nat
         /\ out' \in Int /\ due' \in Seq(MbIds)
         /\ ToSet(backlog_list') \subseteq ToSet(backlog_list) /\ IsInjective(backlog_list')
<1>1. /\ pw \in WatchType /\ write_buffer \in Seq(Mb) /\ Len(write_buffer) <= 1
      /\ backlog_list \in Seq(Mb) /\ backlog_size \in Nat /\ refs \in Nat
      /\ out \in Int /\ due \in Seq(MbIds)
  BY DEF TypeOK
<1>2. CASE refs > 1
  <2>1. refs' = refs - 1 /\ UNCHANGED <<pw, write_buffer, backlog_list, backlog_size, out, due>>
    BY <1>2 DEF Release, buffers
  <2> QED BY <1>1, <1>2, <2>1
<1>3. CASE ~(refs > 1)
  <2>1. /\ refs' = 0 /\ pw' = [pw EXCEPT !.mem = "freed", !.fd = "closed"]
        /\ write_buffer' = <<>> /\ backlog_list' = <<>> /\ due' = <<>>
        /\ out' = out - Len(Text) /\ backlog_size' = backlog_size
    BY <1>3 DEF Release, free_memblock
  <2>2. pw' \in WatchType /\ pw'.sched = pw.sched /\ pw'.killed = pw.killed
    BY <1>1, <2>1 DEF WatchType
  <2>3. Len(Text) \in Nat
    BY <1>1, TextLength
  <2>4. ToSet(<<>>) = {} /\ IsInjective(<<>>)
    BY DEF ToSet, IsInjective
  <2>5. out' \in Int
    BY <1>1, <2>1, <2>3
  <2> QED BY <1>1, <2>1, <2>2, <2>4, <2>5
<1> QED BY <1>2, <1>3

\* A call ends: the reference it held goes, and with the last one the watch.
LEMMA UnrefKeeps ==
  ASSUME IInv, NEW t \in Procs, proto_watch_unref(t)
  PROVE  IInv'
<1>0. TypeOK /\ MessagesAccounted /\ ReferencesConserved /\ Numbered /\ Attached /\ Heard
  BY DEF IInv
<1>1. /\ proc[t] = At("unref", <<>>) /\ proc' = [proc EXCEPT ![t] = At("idle", <<>>)]
      /\ proc' \in [Procs -> ThreadType]
      /\ Held' = Held /\ Busy' = Busy - 1 /\ Busy' \in Nat /\ Busy \in Nat
      /\ Asking' = Asking /\ Pushing' = Pushing /\ (Killing' => Killing)
  BY <1>0, StepsKeep DEF proto_watch_unref, CalmPcs, One
<1>3. Release /\ ev' = Finalized(ev) /\ UNCHANGED <<nc_killed, loop, broken, given, sent>>
  BY DEF proto_watch_unref
<1>4. /\ ev'.asked = ev.asked /\ ev'.want = ev.want /\ ev'.io = ev.io /\ ev'.modify = ev.modify
      /\ ev'.phase = IF refs > 1 THEN ev.phase ELSE "freed"
      /\ ev' \in EventType /\ ev \in EventType /\ ev.modify \in Nat
  BY <1>0, <1>3 DEF Finalized, TypeOK, EventType
<1>5. refs = Owners /\ refs >= 1 /\ refs \in Nat
  BY <1>0, <1>1, <1>4, References DEF Owners, One, TypeOK
<1>6. refs = 1 => loop.pc = "poll" /\ ev.phase \notin {"queued", "watched"} /\ nc_killed
  BY <1>0, <1>1, <1>4, <1>5 DEF Owners, One, Attached
<1>7. Owners' = Owners - 1
  BY <1>1, <1>3, <1>4, <1>5, <1>6 DEF Owners, One
<1>8. /\ pw' \in WatchType /\ pw'.sched = pw.sched /\ pw'.killed = pw.killed
      /\ write_buffer' \in Seq(Mb) /\ Len(write_buffer') <= 1
      /\ backlog_list' \in Seq(Mb) /\ backlog_size' \in Nat /\ refs' \in Nat
      /\ out' \in Int /\ due' \in Seq(MbIds)
      /\ ToSet(backlog_list') \subseteq ToSet(backlog_list) /\ IsInjective(backlog_list')
  BY <1>0, <1>3, <1>5, ReleaseType DEF Numbered
<1>9. TypeOK'
  BY <1>0, <1>1, <1>3, <1>4, <1>8 DEF TypeOK, given
<1>10. MessagesAccounted' /\ ReferencesConserved'
      /\ (refs > 1 => UNCHANGED <<pw, buffers>>)
      /\ (refs = 1 => Text' = <<>> /\ backlog_list' = <<>> /\ pw'.mem = "freed" /\ Quiet')
  BY <1>1, <1>3, <1>5, <1>6, <1>7, <1>9, ReleaseKeeps
<1>11. Numbered'
  BY <1>0, <1>1, <1>3, <1>8, MovesKeep DEF given
<1>12. Attached'
  <2>1. ev.phase = "freed" <=> pw.mem = "freed"
    BY <1>0 DEF Attached
  <2>2. pw.mem # "freed"
    BY <1>5, References
  <2>3. ev'.phase = "freed" <=> pw'.mem = "freed"
    BY <1>4, <1>5, <1>10, <2>1, <2>2
  <2> QED BY <1>0, <1>1, <1>3, <1>4, <1>5, <1>6, <1>8, <2>3 DEF Attached
<1>13. Heard'
  <2>1. CASE refs > 1
    <3>1. Text' = Text
      BY <1>10, <2>1 DEF Text, buffers
    <3> QED BY <1>0, <1>1, <1>3, <1>4, <1>8, <2>1, <3>1 DEF Heard, LockFree
  <2>2. CASE refs = 1
    BY <1>3, <1>4, <1>6, <1>10, <2>2 DEF Heard, LockFree
  <2> QED BY <1>5, <2>1, <2>2
<1> QED BY <1>9, <1>10, <1>11, <1>12, <1>13 DEF IInv

\* A thread in a call has a reference: the watch is not freed.
LEMMA BusyLives ==
  ASSUME IInv, Busy # 0 \/ ~nc_killed \/ ev.phase \in {"queued", "watched"} \/ loop.pc = "drop"
                 \/ ev.modify # 0
  PROVE  refs \in Nat \ {0} /\ pw.mem = "live" /\ ev.phase # "freed"
<1>1. refs \in Nat /\ pw.mem \in {"live", "freed"}
  BY DEF IInv, TypeOK, WatchType
<1>2. refs # 0
  BY <1>1, References DEF Owners, One
<1> QED BY <1>1, <1>2, References

\* The bit is looked at: the one who must ask goes on to set it.
LEMMA LookKeeps ==
  ASSUME IInv, NEW t \in Procs, AddEventsLook(t)
  PROVE  IInv'
<1>0. TypeOK /\ MessagesAccounted /\ ReferencesConserved /\ Numbered /\ Attached /\ Heard
  BY DEF IInv
<1> DEFINE to == IF ev.want THEN "unref" ELSE "set"
<1>1. /\ proc[t] = At("want", <<>>) /\ proc' = [proc EXCEPT ![t] = At(to, <<>>)]
      /\ proc' \in [Procs -> ThreadType] /\ to \in {"unref", "set"}
      /\ Held' = Held /\ Busy' = Busy /\ Busy \in Nat \ {0}
      /\ Pushing' = Pushing /\ (Killing' => Killing) /\ (to = "set" => Asking')
  <2>1. "want" \in CalmPcs /\ to \in CalmPcs /\ to \in {"unref", "set"} /\ Step(t, "want", to)
    BY DEF AddEventsLook, CalmPcs
  <2> HIDE DEF to
  <2> QED BY <1>0, <2>1, StepsKeep DEF One
<1>2. UNCHANGED <<pw, buffers, ev, refs, nc_killed, loop, broken, given, sent>>
  BY DEF AddEventsLook
<1>3. refs \in Nat \ {0} /\ pw.mem = "live"
  BY <1>1, BusyLives
<1>4. TypeOK'
  BY <1>0, <1>1, <1>2 DEF TypeOK, buffers, given
<1>5. MessagesAccounted' /\ Text' = Text
  BY <1>0, <1>1, <1>2, SameMessages DEF buffers
<1>6. ReferencesConserved'
  <2>1. Owners' = Owners
    BY <1>1, <1>2 DEF Owners
  <2> QED BY <1>2, <1>3, <2>1, References, SameReferences
<1>7. Numbered'
  <2>1. to \in {"idle", "want", "set", "push", "unref", "kill"}
    BY <1>1
  <2> HIDE DEF to
  <2> QED BY <1>0, <1>1, <1>2, <2>1, MovesKeep DEF Numbered, buffers, given
<1>8. Attached'
  BY <1>0, <1>1, <1>2 DEF Attached
<1>9. Heard'
  BY <1>0, <1>1, <1>2, <1>5 DEF Heard, LockFree
<1> QED BY <1>4, <1>5, <1>6, <1>7, <1>8, <1>9 DEF IInv

\* The bit is set: now the modify operation is owed.
LEMMA SetKeeps ==
  ASSUME IInv, NEW t \in Procs, AddEventsSet(t)
  PROVE  IInv'
<1>0. TypeOK /\ MessagesAccounted /\ ReferencesConserved /\ Numbered /\ Attached /\ Heard
  BY DEF IInv
<1>1. /\ proc[t] = At("set", <<>>) /\ proc' = [proc EXCEPT ![t] = At("push", <<>>)]
      /\ proc' \in [Procs -> ThreadType]
      /\ Held' = Held /\ Busy' = Busy /\ Busy \in Nat \ {0}
      /\ Pushing' /\ (Killing' => Killing)
  BY <1>0, StepsKeep DEF AddEventsSet, CalmPcs, One
<1>2. /\ UNCHANGED <<pw, buffers, refs, nc_killed, loop, broken, given, sent>>
      /\ ev' = [ev EXCEPT !.want = TRUE]
  BY DEF AddEventsSet
<1>3. refs \in Nat \ {0} /\ pw.mem = "live"
  BY <1>1, BusyLives
<1>4. /\ ev' \in EventType /\ ev'.want = TRUE /\ ev'.phase = ev.phase /\ ev'.asked = ev.asked
      /\ ev'.modify = ev.modify
  BY <1>0, <1>2 DEF TypeOK, EventType
<1>5. TypeOK'
  BY <1>0, <1>1, <1>2, <1>4 DEF TypeOK, buffers, given
<1>6. MessagesAccounted' /\ Text' = Text
  BY <1>0, <1>1, <1>2, SameMessages DEF buffers
<1>7. ReferencesConserved'
  <2>1. Owners' = Owners
    BY <1>1, <1>2, <1>4 DEF Owners
  <2> QED BY <1>2, <1>3, <2>1, References, SameReferences
<1>8. Numbered'
  BY <1>0, <1>1, <1>2, MovesKeep DEF Numbered, buffers, given
<1>9. Attached'
  BY <1>0, <1>1, <1>2, <1>4 DEF Attached
<1>10. Heard'
  BY <1>0, <1>1, <1>2, <1>4, <1>6 DEF Heard, LockFree
<1> QED BY <1>5, <1>6, <1>7, <1>8, <1>9, <1>10 DEF IInv

\* The modify operation is queued, with a reference of its own.
LEMMA PushKeeps ==
  ASSUME IInv, NEW t \in Procs, AddEventsPush(t)
  PROVE  IInv'
<1>0. TypeOK /\ MessagesAccounted /\ ReferencesConserved /\ Numbered /\ Attached /\ Heard
  BY DEF IInv
<1>1. /\ proc[t] = At("push", <<>>) /\ proc' = [proc EXCEPT ![t] = At("unref", <<>>)]
      /\ proc' \in [Procs -> ThreadType]
      /\ Held' = Held /\ Busy' = Busy /\ Busy \in Nat \ {0}
      /\ Asking' = Asking /\ (Killing' => Killing)
  BY <1>0, StepsKeep DEF AddEventsPush, CalmPcs, One
<1> DEFINE k == One(ev.phase # "ready")
<1>2. UNCHANGED <<pw, buffers, nc_killed, loop, broken, given, sent>>
  BY DEF AddEventsPush
<1>3. refs \in Nat \ {0} /\ pw.mem = "live"
  BY <1>1, BusyLives
<1>4. /\ ev' \in EventType /\ ev'.want = ev.want /\ ev'.io = ev.io
      /\ ev'.phase = ev.phase /\ ev'.asked = ev.asked
      /\ ev.modify \in Nat /\ ev'.modify = ev.modify + k /\ refs' = refs + k
  <2>1. CASE ev.phase # "ready"
    <3>1. ev' = [ev EXCEPT !.modify = @ + 1] /\ refs' = refs + 1
      BY <2>1 DEF AddEventsPush
    <3>2. ev \in EventType
      BY <1>0 DEF TypeOK
    <3>3. ev.modify \in Nat /\ k = 1
      BY <2>1, <3>2 DEF EventType, One
    <3>4. /\ ev' \in EventType /\ ev'.want = ev.want /\ ev'.io = ev.io
          /\ ev'.phase = ev.phase /\ ev'.asked = ev.asked /\ ev'.modify = ev.modify + 1
      BY <3>1, <3>2, <3>3 DEF EventType
    <3> QED BY <3>1, <3>3, <3>4
  <2>2. CASE ev.phase = "ready"
    <3>1. ev' = ev /\ refs' = refs
      BY <2>2 DEF AddEventsPush
    <3> QED BY <1>0, <1>3, <2>2, <3>1 DEF TypeOK, EventType, One
  <2> QED BY <2>1, <2>2
<1>5. k \in {0, 1} /\ (ev.phase = "watched" => k = 1)
  BY DEF One
<1> HIDE DEF k
<1>6. TypeOK'
  BY <1>0, <1>1, <1>2, <1>3, <1>4, <1>5 DEF TypeOK, buffers, given
<1>7. MessagesAccounted' /\ Text' = Text
  BY <1>0, <1>1, <1>2, SameMessages DEF buffers
<1>8. ReferencesConserved'
  <2>1. Owners' = Owners + k
    BY <1>1, <1>2, <1>4, <1>5 DEF Owners, One
  <2> QED BY <1>2, <1>3, <1>4, <1>5, <2>1, References, SameReferences
<1>9. Numbered'
  BY <1>0, <1>1, <1>2, MovesKeep DEF Numbered, buffers, given
<1>10. Attached'
  BY <1>0, <1>1, <1>2, <1>4 DEF Attached
<1>11. Heard'
  BY <1>0, <1>1, <1>2, <1>4, <1>5, <1>7 DEF Heard, LockFree
<1> QED BY <1>6, <1>7, <1>8, <1>9, <1>10, <1>11 DEF IInv

\* The end of a write: the call holds its message no longer.
LEMMA WriteEndsKeeps ==
  ASSUME TypeOK, Numbered, NEW t \in Procs, proc[t].pc = "write",
         NEW to \in {"unref", "want"}, WriteEnds(t, to), written' = written
  PROVE  /\ proc' = [proc EXCEPT ![t] = At(to, <<>>)]
         /\ proc' \in [Procs -> ThreadType]
         /\ Held' = Held - 1 /\ Held \in Nat
         /\ Busy' = Busy /\ Busy \in Nat \ {0}
         /\ Pushing' = Pushing /\ (Killing' => Killing)
         /\ (to = "want" => Asking') /\ (Asking => Asking')
         /\ MbOf(t) \in Mb /\ proc[t].mb = <<MbOf(t)>>
<1>1. proc' = [proc EXCEPT ![t] = At(to, <<>>)]
  BY DEF WriteEnds
<1>2. proc[t] = At("write", <<MbOf(t)>>) /\ MbOf(t) \in Mb /\ proc[t].mb = <<MbOf(t)>>
  BY ThreadAt
<1>3. /\ proc[t] # Idle /\ proc[t].mb # <<>>
      /\ At(to, <<>>).pc = to /\ At(to, <<>>).mb = <<>> /\ At(to, <<>>) # Idle
      /\ At(to, <<>>) \in ThreadType
  BY <1>2 DEF At, Idle, ThreadType
<1>4. proc \in [Procs -> ThreadType]
  BY DEF TypeOK
<1>5. /\ proc' \in [Procs -> ThreadType]
      /\ \A u \in Procs : proc'[u] = IF u = t THEN At(to, <<>>) ELSE proc[u]
  BY <1>1, <1>3, <1>4
<1>6. /\ Held' = Held - 1 /\ Held \in Nat /\ Busy' = Busy /\ Busy \in Nat \ {0}
  <2> DEFINE p == At(to, <<>>)
  <2> HIDE DEF p
  <2>1. proc' = [proc EXCEPT ![t] = p] /\ p # Idle /\ p.mb = <<>>
    BY <1>1, <1>3 DEF p
  <2>2. /\ Busy \in Nat /\ Busy' \in Nat /\ Held \in Nat /\ Held' \in Nat
        /\ Busy' = Busy - One(proc[t] # Idle) + One(p # Idle)
        /\ Held' = Held - One(proc[t].mb # <<>>) + One(p.mb # <<>>)
        /\ proc[t] # Idle => Busy # 0
    BY <2>1, ThreadMoves
  <2>3. One(proc[t] # Idle) = 1 /\ One(p # Idle) = 1
        /\ One(proc[t].mb # <<>>) = 1 /\ One(p.mb # <<>>) = 0
    BY <1>3, <2>1 DEF One
  <2> QED BY <1>3, <2>2, <2>3
<1>7. Pushing' = Pushing
  BY <1>3, <1>5 DEF Pushing
<1>8. Killing' => Killing
  BY <1>3, <1>5 DEF Killing
<1>9. (to = "want" => Asking') /\ (Asking => Asking')
  BY <1>3, <1>5 DEF Asking
<1> QED BY <1>1, <1>2, <1>5, <1>6, <1>7, <1>8, <1>9

\* A write that finds the watch killed frees the message.
LEMMA WriteKilledKeeps ==
  ASSUME IInv, NEW t \in Procs, WriteKilled(t)
  PROVE  IInv'
<1>0. TypeOK /\ MessagesAccounted /\ ReferencesConserved /\ Numbered /\ Attached /\ Heard
  BY DEF IInv
<1>1. /\ UNCHANGED <<pw, write_buffer, backlog_list, backlog_size, due, ev, refs, nc_killed,
                     loop, broken, given, sent>>
      /\ proc[t].pc = "write" /\ WriteEnds(t, "unref") /\ out' = out - 1
  BY DEF WriteKilled, Writes, free_memblock
<1>2. /\ proc' = [proc EXCEPT ![t] = At("unref", <<>>)] /\ proc' \in [Procs -> ThreadType]
      /\ Held' = Held - 1 /\ Held \in Nat /\ Busy' = Busy /\ Busy \in Nat \ {0}
      /\ Pushing' = Pushing /\ (Killing' => Killing) /\ (Asking => Asking')
  BY <1>0, <1>1, WriteEndsKeeps DEF given
<1>3. refs \in Nat \ {0} /\ pw.mem = "live"
  BY <1>2, BusyLives
<1>4. TypeOK'
  BY <1>0, <1>1, <1>2 DEF TypeOK, given
<1>5. Text' = Text
  BY <1>1 DEF Text
<1>6. MessagesAccounted'
  <2>1. SizeOf(backlog_list)' = SizeOf(backlog_list)
    BY <1>1
  <2>2. Len(Text)' = Len(Text) /\ Len(Text) \in Nat
    <3>1. write_buffer \in Seq(Mb) /\ backlog_list \in Seq(Mb)
      BY <1>0 DEF TypeOK
    <3> QED BY <1>0, <1>5, <3>1, TextLength
  <2>3. out = Len(Text) + Held
    BY <1>0 DEF MessagesAccounted
  <2>4. out' = Len(Text)' + Held'
    BY <1>1, <1>2, <2>2, <2>3
  <2> QED BY <1>0, <1>1, <2>1, <2>4 DEF MessagesAccounted
<1>7. ReferencesConserved'
  <2>1. Owners' = Owners
    BY <1>1, <1>2 DEF Owners
  <2> QED BY <1>1, <1>3, <2>1, References, SameReferences
<1>8. Numbered'
  BY <1>0, <1>1, <1>2, MovesKeep DEF Numbered, given
<1>9. Attached'
  BY <1>0, <1>1, <1>2 DEF Attached
<1>10. Heard'
  BY <1>0, <1>1, <1>2, <1>5 DEF Heard, LockFree
<1> QED BY <1>4, <1>6, <1>7, <1>8, <1>9, <1>10 DEF IInv

\* The client's kill: the first caller goes on to kill the watch.
LEMMA ClientKillKeeps ==
  ASSUME IInv, NEW t \in Procs, network_client_self_kill(t)
  PROVE  IInv'
<1>0. TypeOK /\ MessagesAccounted /\ ReferencesConserved /\ Numbered /\ Attached /\ Heard
  BY DEF IInv
<1>1. /\ UNCHANGED <<pw, buffers, ev, refs, loop, broken, given, sent>>
      /\ proc[t].pc = "idle" /\ proc' = [proc EXCEPT ![t] = At("kill", <<>>)]
      /\ nc_killed = FALSE /\ nc_killed' = TRUE
  BY <1>0 DEF network_client_self_kill, MayCall, TypeOK
<1>2. /\ proc' \in [Procs -> ThreadType] /\ Held' = Held
      /\ Busy' = Busy + 1 /\ Busy \in Nat
      /\ Asking' = Asking /\ Pushing' = Pushing
  <2>1. proc[t] = At("idle", <<>>)
    BY <1>0, <1>1, ThreadAt
  <2> DEFINE from == "idle"
             to == "kill"
  <2>2. from \in CalmPcs /\ to \in CalmPcs /\ {from, to} \cap {"want", "set"} = {}
        /\ "push" \notin {from, to}
    BY DEF CalmPcs
  <2>3. proc[t] = At(from, <<>>) /\ proc' = [proc EXCEPT ![t] = At(to, <<>>)]
    BY <1>1, <2>1
  <2> HIDE DEF from, to
  <2>4. /\ proc' \in [Procs -> ThreadType] /\ Held' = Held /\ Busy \in Nat
        /\ Busy' = Busy - One(from # "idle") + One(to # "idle")
        /\ Asking' = Asking /\ Pushing' = Pushing
    BY <1>0, <2>2, <2>3, CalmMoves
  <2>5. One(from # "idle") = 0 /\ One(to # "idle") = 1
    BY DEF from, to, One
  <2> QED BY <2>4, <2>5
<1>3. refs \in Nat \ {0} /\ pw.mem = "live"
  BY <1>1, BusyLives
<1>4. TypeOK'
  BY <1>0, <1>1, <1>2 DEF TypeOK, buffers, given
<1>5. MessagesAccounted' /\ Text' = Text
  BY <1>0, <1>1, <1>2, SameMessages DEF buffers
<1>6. ReferencesConserved'
  <2>1. Owners' = Owners
    <3>1. ev.modify \in Nat
      BY References
    <3> QED BY <1>1, <1>2, <3>1 DEF Owners, One
  <2> QED BY <1>1, <1>3, <2>1, References, SameReferences
<1>7. Numbered'
  BY <1>0, <1>1, <1>2, MovesKeep DEF Numbered, buffers, given
<1>8. Attached'
  BY <1>0, <1>1 DEF Attached
<1>9. Heard'
  BY <1>0, <1>1, <1>2, <1>5 DEF Heard, LockFree
<1> QED BY <1>4, <1>5, <1>6, <1>7, <1>8, <1>9 DEF IInv

\* The kill of the watch: the loop is asked to remove the event, if it has it.
LEMMA KillKeeps ==
  ASSUME IInv, NEW t \in Procs, proto_watch_kill(t)
  PROVE  IInv'
<1>0. TypeOK /\ MessagesAccounted /\ ReferencesConserved /\ Numbered /\ Attached /\ Heard
  BY DEF IInv
<1>1. /\ UNCHANGED <<buffers, nc_killed, loop, broken, given, sent>> /\ LockFree
      /\ pw' = [pw EXCEPT !.killed = TRUE, !.sched = FALSE]
  BY DEF proto_watch_kill
<1>2. /\ proc[t] = At("kill", <<>>) /\ proc' = [proc EXCEPT ![t] = At("unref", <<>>)]
      /\ proc' \in [Procs -> ThreadType]
      /\ Held' = Held /\ Busy' = Busy /\ Busy \in Nat \ {0}
      /\ Asking' = Asking /\ Pushing' = Pushing
  BY <1>0, StepsKeep DEF proto_watch_kill, CalmPcs, One
<1>3. refs \in Nat \ {0} /\ pw.mem = "live"
  BY <1>2, BusyLives
<1>4. nc_killed
  <2>1. Killing
    BY <1>2 DEF Killing, At
  <2> QED BY <1>0, <2>1 DEF Attached
<1> DEFINE k == One(pw.sched)
<1>5. /\ ev' \in EventType /\ ev'.want = ev.want /\ ev'.io = ev.io
      /\ ev'.phase = ev.phase /\ ev'.modify = ev.modify
      /\ One(ev'.asked) = One(ev.asked) + k /\ refs' = refs + k
  <2>1. CASE pw.sched
    <3>1. ev' = [ev EXCEPT !.asked = TRUE] /\ refs' = refs + 1
      BY <2>1 DEF proto_watch_kill
    <3>2. ev.asked = FALSE
      BY <1>0, <2>1 DEF Attached, TypeOK, EventType
    <3>3. /\ ev' \in EventType /\ ev'.want = ev.want /\ ev'.io = ev.io
          /\ ev'.phase = ev.phase /\ ev'.modify = ev.modify /\ ev'.asked = TRUE
      BY <1>0, <3>1 DEF TypeOK, EventType
    <3>4. One(ev'.asked) = 1 /\ One(ev.asked) = 0 /\ k = 1
      BY <2>1, <3>2, <3>3 DEF One
    <3> HIDE DEF k
    <3>5. One(ev'.asked) = One(ev.asked) + k
      BY <3>4
    <3>6. refs' = refs + k
      BY <3>1, <3>4
    <3> QED BY <3>3, <3>5, <3>6
  <2>2. CASE ~pw.sched
    <3>1. ev' = ev /\ refs' = refs
      BY <2>2 DEF proto_watch_kill
    <3> QED BY <1>0, <1>3, <2>2, <3>1 DEF TypeOK, EventType, One
  <2> QED BY <2>1, <2>2
<1>6. k \in {0, 1}
  BY DEF One
<1> HIDE DEF k
<1>7. pw' \in WatchType /\ pw'.mem = pw.mem /\ pw'.sched = FALSE
  BY <1>0, <1>1 DEF TypeOK, WatchType
<1>8. TypeOK'
  BY <1>0, <1>1, <1>2, <1>3, <1>5, <1>6, <1>7 DEF TypeOK, buffers, given
<1>9. MessagesAccounted' /\ Text' = Text
  BY <1>0, <1>1, <1>2, <1>7, SameMessages DEF buffers
<1>10. ReferencesConserved'
  <2>1. ev.modify \in Nat /\ One(ev.asked) \in Nat
    BY References DEF One
  <2>2. Owners' = Owners + k
    <3> DEFINE nc == One(~nc_killed)
               in == One(ev.phase \in {"queued", "watched"})
               asks == One(ev.asked)
               drop == One(loop.pc = "drop")
    <3>1. nc \in Nat /\ in \in Nat /\ asks \in Nat /\ drop \in Nat /\ Busy \in Nat /\ k \in Nat
      BY <1>2, <1>6 DEF One
    <3>2. Owners = nc + Busy + in + asks + ev.modify + drop
      BY DEF Owners
    <3>3. Owners' = nc + Busy + in + One(ev'.asked) + ev.modify + drop
      BY <1>1, <1>2, <1>5 DEF Owners
    <3>4. One(ev'.asked) = asks + k
      BY <1>5
    <3> HIDE DEF nc, in, asks, drop
    <3> QED BY <2>1, <3>1, <3>2, <3>3, <3>4
  <2> QED BY <1>3, <1>5, <1>6, <1>7, <2>2, References, SameReferences
<1>11. Numbered'
  BY <1>0, <1>1, <1>2, MovesKeep DEF Numbered, buffers, given
<1>12. Attached'
  BY <1>0, <1>1, <1>4, <1>5, <1>7 DEF Attached
<1>13. Heard'
  BY <1>0, <1>1, <1>2, <1>5, <1>9 DEF Heard, LockFree
<1> QED BY <1>8, <1>9, <1>10, <1>11, <1>12, <1>13 DEF IInv

\* A call begins: it holds a message and a reference.
LEMMA SendMbKeeps ==
  ASSUME IInv, NEW t \in Procs, network_client_send_mb(t)
  PROVE  IInv'
<1>0. TypeOK /\ MessagesAccounted /\ ReferencesConserved /\ Numbered /\ Attached /\ Heard
  BY DEF IInv
<1>1. /\ UNCHANGED <<pw, write_buffer, backlog_list, backlog_size, due, ev, nc_killed,
                     loop, broken, sent>>
      /\ proc[t].pc = "idle" /\ nc_killed = FALSE /\ written < MaxMsgs
      /\ out' = out + 1 /\ refs' = refs + 1 /\ written' = written + 1
  BY <1>0 DEF network_client_send_mb, MayCall, alloc_memblock, TypeOK
<1>2. PICK size \in Sizes, drop \in BOOLEAN, step \in {1, Window + 1} :
        /\ seq' = (seq + step) % Word
        /\ proc' = [proc EXCEPT ![t] = At("write",
             <<[n |-> written', seq |-> seq', size |-> size, off |-> 0, drop |-> drop]>>)]
  BY DEF network_client_send_mb
<1> DEFINE m == [n |-> written', seq |-> seq', size |-> size, off |-> 0, drop |-> drop]
           p == At("write", <<m>>)
<1>3. written \in Nat /\ written' \in 0..MaxMsgs /\ written' \in MbIds
  BY <1>0, <1>1, LimitsAssumption DEF TypeOK, MbIds
<1>4. seq' \in 0..(Word - 1)
  <2>1. seq \in Nat /\ step \in Nat /\ Word \in Nat \ {0} /\ seq + step \in Nat
    BY <1>0, LimitsAssumption DEF TypeOK
  <2> QED BY <1>2, <2>1
<1>5. m \in Mb /\ m.n = written'
  BY <1>3, <1>4 DEF Mb
<1> HIDE DEF m
<1>6. /\ p \in ThreadType /\ p.pc = "write" /\ p.mb = <<m>> /\ p.mb # <<>> /\ p # Idle
      /\ p.mb[1] = m /\ Len(p.mb) = 1
  <2>1. <<m>> \in Seq(Mb) /\ <<m>> # <<>> /\ Len(<<m>>) = 1 /\ <<m>>[1] = m
    BY <1>5
  <2> QED BY <2>1 DEF At, ThreadType, Idle
<1>7. proc' = [proc EXCEPT ![t] = p]
  BY <1>2 DEF m
<1>8. proc[t] = Idle /\ proc[t].mb = <<>>
  BY <1>0, <1>1, ThreadAt DEF Idle
<1> HIDE DEF p
<1>9. Busy' = Busy + 1 /\ Held' = Held + 1 /\ Busy \in Nat /\ Held \in Nat
  <2>1. /\ Busy \in Nat /\ Busy' \in Nat /\ Held \in Nat /\ Held' \in Nat
        /\ Busy' = Busy - One(proc[t] # Idle) + One(p # Idle)
        /\ Held' = Held - One(proc[t].mb # <<>>) + One(p.mb # <<>>)
    BY <1>0, <1>7, ThreadMoves
  <2>2. One(proc[t] # Idle) = 0 /\ One(p # Idle) = 1
        /\ One(proc[t].mb # <<>>) = 0 /\ One(p.mb # <<>>) = 1
    BY <1>6, <1>8 DEF One
  <2> QED BY <2>1, <2>2
<1>10. proc \in [Procs -> ThreadType]
  BY <1>0 DEF TypeOK
<1>11. /\ proc' \in [Procs -> ThreadType]
       /\ \A u \in Procs : proc'[u] = IF u = t THEN p ELSE proc[u]
  BY <1>6, <1>7, <1>10
<1>12. Asking' = Asking
  BY <1>1, <1>6, <1>11 DEF Asking
<1>13. Pushing' = Pushing
  BY <1>1, <1>6, <1>11 DEF Pushing
<1>14. Killing' => Killing
  BY <1>6, <1>11 DEF Killing
<1>15. refs \in Nat \ {0} /\ pw.mem = "live"
  BY <1>1, BusyLives
<1>16. TypeOK'
  BY <1>0, <1>1, <1>3, <1>4, <1>11, <1>15 DEF TypeOK
<1>17. Text' = Text
  BY <1>1 DEF Text
<1>18. MessagesAccounted'
  <2>1. SizeOf(backlog_list)' = SizeOf(backlog_list)
    BY <1>1
  <2>2. Len(Text)' = Len(Text) /\ Len(Text) \in Nat
    <3>1. write_buffer \in Seq(Mb) /\ backlog_list \in Seq(Mb)
      BY <1>0 DEF TypeOK
    <3> QED BY <1>0, <1>17, <3>1, TextLength
  <2>3. out = Len(Text) + Held
    BY <1>0 DEF MessagesAccounted
  <2>4. out' = Len(Text)' + Held'
    BY <1>1, <1>9, <2>2, <2>3
  <2> QED BY <1>0, <1>1, <2>1, <2>4 DEF MessagesAccounted
<1>19. ReferencesConserved'
  <2>1. Owners' = Owners + 1
    <3>1. ev.modify \in Nat
      BY References
    <3> QED BY <1>1, <1>9, <3>1 DEF Owners, One
  <2> QED BY <1>1, <1>15, <2>1, References, SameReferences
<1>20. Numbered'
  <2>1. ASSUME NEW u \in Procs
        PROVE  /\ Len(proc'[u].mb) <= 1
               /\ proc'[u].pc = "write" <=> proc'[u].mb # <<>>
               /\ proc'[u].pc = "write" =>
                    /\ proc'[u].mb[1].n <= written'
                    /\ u # t => proc'[u].mb[1].n <= written
                    /\ \A mb \in ToSet(backlog_list) : mb.n # proc'[u].mb[1].n
    <3>1. CASE u = t
      <4>1. proc'[u] = p
        BY <1>11, <3>1
      <4>2. \A mb \in ToSet(backlog_list) : mb.n <= written /\ mb.n \in Nat
        <5>1. \A mb \in ToSet(backlog_list) : mb \in Mb
          BY <1>0 DEF TypeOK, ToSet
        <5> QED BY <1>0, <5>1 DEF Numbered, Mb, MbIds
      <4>3. m.n <= written' /\ \A mb \in ToSet(backlog_list) : mb.n # m.n
        BY <1>1, <1>3, <1>5, <4>2
      <4>4. proc'[u].pc = "write" /\ proc'[u].mb # <<>> /\ proc'[u].mb[1] = m
            /\ Len(proc'[u].mb) = 1
        BY <1>6, <4>1
      <4> HIDE DEF ToSet
      <4> QED BY <3>1, <4>3, <4>4
    <3>2. CASE u # t
      <4>1. proc'[u] = proc[u]
        BY <1>11, <3>2
      <4>2. proc[u].pc = "write" => proc[u].mb[1].n \in Nat
        BY <1>0, ThreadAt DEF MbOf, Mb, MbIds
      <4> QED BY <1>0, <1>1, <1>3, <4>1, <4>2 DEF Numbered, Writing, MbOf
    <3> QED BY <3>1, <3>2
  <2>2. ASSUME NEW u \in Procs, NEW v \in Procs, proc'[u].pc = "write", proc'[v].pc = "write",
               proc'[u].mb[1].n = proc'[v].mb[1].n
        PROVE  u = v
    <3>1. u # t /\ v # t => proc'[u] = proc[u] /\ proc'[v] = proc[v]
      BY <1>11
    <3>2. u # t /\ v # t => u = v
      BY <1>0, <2>2, <3>1 DEF Numbered, Writing, MbOf
    <3>3. proc'[t].mb[1].n = written + 1
      BY <1>1, <1>5, <1>6, <1>11
    <3> QED BY <1>3, <2>1, <2>2, <3>2, <3>3
  <2>3. \A mb \in ToSet(backlog_list) : mb.n <= written'
    <3>1. \A mb \in ToSet(backlog_list) : mb.n <= written /\ mb.n \in Nat
      <4>1. \A mb \in ToSet(backlog_list) : mb \in Mb
        BY <1>0 DEF TypeOK, ToSet
      <4> QED BY <1>0, <4>1 DEF Numbered, Mb, MbIds
    <3> QED BY <1>1, <1>3, <3>1
  <2>4. IsInjective(backlog_list)
    BY <1>0 DEF Numbered
  <2> HIDE DEF IsInjective, ToSet
  <2> QED BY <1>1, <2>1, <2>2, <2>3, <2>4 DEF Numbered, Writing, MbOf
<1>21. Attached'
  BY <1>0, <1>1, <1>14 DEF Attached
<1>22. Heard'
  BY <1>0, <1>1, <1>12, <1>13, <1>17 DEF Heard, LockFree
<1> QED BY <1>16, <1>18, <1>19, <1>20, <1>21, <1>22 DEF IInv

\* The event is handed to the loop, which gets a reference.
LEMMA AttachKeeps ==
  ASSUME IInv, NEW t \in Procs, proto_watch_attach(t)
  PROVE  IInv'
<1>0. TypeOK /\ MessagesAccounted /\ ReferencesConserved /\ Numbered /\ Attached /\ Heard
  BY DEF IInv
<1>1. /\ UNCHANGED <<buffers, nc_killed, proc, loop, broken, given, sent>>
      /\ nc_killed = FALSE /\ LockFree /\ ~pw.sched /\ refs' = refs + 1
      /\ pw' = [pw EXCEPT !.sched = TRUE] /\ ev' = [ev EXCEPT !.phase = "queued"]
  BY <1>0 DEF proto_watch_attach, MayCall, TypeOK
<1>2. ev.phase = "ready" /\ ~ev.asked /\ ~Killing /\ loop.pc \in {"poll", "drop"}
  BY <1>0, <1>1 DEF Attached
<1>3. refs \in Nat \ {0} /\ pw.mem = "live" /\ Busy \in Nat
  BY <1>1, BusyLives, References
<1>4. /\ ev' \in EventType /\ ev'.phase = "queued" /\ ev'.asked = ev.asked /\ ev'.want = ev.want
      /\ ev'.modify = ev.modify /\ ev.modify \in Nat
      /\ pw' \in WatchType /\ pw'.mem = pw.mem /\ pw'.sched = TRUE
  BY <1>0, <1>1 DEF TypeOK, EventType, WatchType
<1>5. Busy' = Busy /\ Held' = Held /\ Asking' = Asking /\ Killing' = Killing
  BY <1>1 DEF Busy, Held, Asking, Killing
<1>6. TypeOK'
  BY <1>0, <1>1, <1>3, <1>4 DEF TypeOK, buffers, given
<1>7. MessagesAccounted' /\ Text' = Text
  BY <1>0, <1>1, <1>4, <1>5, SameMessages DEF buffers
<1>8. ReferencesConserved'
  <2>1. Owners' = Owners + 1
    BY <1>1, <1>2, <1>3, <1>4, <1>5 DEF Owners, One
  <2> QED BY <1>1, <1>3, <1>4, <2>1, References, SameReferences
<1>9. Numbered'
  BY <1>0, <1>1, SameNumbers DEF Numbered, buffers, given
<1>10. Attached'
  BY <1>0, <1>1, <1>2, <1>3, <1>4, <1>5 DEF Attached
<1>11. Heard'
  BY <1>0, <1>1, <1>2, <1>4, <1>5, <1>7 DEF Heard, LockFree
<1> QED BY <1>6, <1>7, <1>8, <1>9, <1>10, <1>11 DEF IInv

\* The watch waits for its connection.
LEMMA ConnectKeeps ==
  ASSUME IInv, NEW t \in Procs, proto_watch_set_dst(t)
  PROVE  IInv'
<1>0. TypeOK /\ MessagesAccounted /\ ReferencesConserved /\ Numbered /\ Attached /\ Heard
  BY DEF IInv
<1>1. /\ UNCHANGED <<buffers, refs, nc_killed, proc, loop, broken, given, sent>>
      /\ nc_killed = FALSE /\ LockFree /\ ev.phase = "ready"
      /\ pw' = [pw EXCEPT !.connecting = TRUE] /\ ev' = [ev EXCEPT !.want = TRUE]
  BY <1>0 DEF proto_watch_set_dst, MayCall, TypeOK
<1>2. refs \in Nat \ {0} /\ pw.mem = "live" /\ Busy \in Nat
  BY <1>1, BusyLives, References
<1>3. /\ ev' \in EventType /\ ev'.phase = ev.phase /\ ev'.asked = ev.asked /\ ev'.want = TRUE
      /\ ev'.modify = ev.modify
      /\ pw' \in WatchType /\ pw'.mem = pw.mem /\ pw'.sched = pw.sched /\ pw'.killed = pw.killed
  BY <1>0, <1>1 DEF TypeOK, EventType, WatchType
<1>4. Busy' = Busy /\ Held' = Held /\ Killing' = Killing
  BY <1>1 DEF Busy, Held, Killing
<1>5. TypeOK'
  BY <1>0, <1>1, <1>3 DEF TypeOK, buffers, given
<1>6. MessagesAccounted' /\ Text' = Text
  BY <1>0, <1>1, <1>3, <1>4, SameMessages DEF buffers
<1>7. ReferencesConserved'
  <2>1. Owners' = Owners
    BY <1>1, <1>3, <1>4 DEF Owners
  <2> QED BY <1>1, <1>2, <1>3, <2>1, References, SameReferences
<1>8. Numbered'
  BY <1>0, <1>1, SameNumbers DEF Numbered, buffers, given
<1>9. Attached'
  BY <1>0, <1>1, <1>3, <1>4 DEF Attached
<1>10. Heard'
  BY <1>0, <1>1, <1>3, <1>6 DEF Heard, LockFree
<1> QED BY <1>5, <1>6, <1>7, <1>8, <1>9, <1>10 DEF IInv

\* The ghost of the stream stays one.
LEMMA BytesType ==
  ASSUME NEW mb \in Mb, NEW size \in Nat, NEW bytes \in Seq(MbIds), NEW k \in Nat
  PROVE  /\ bytes \o Bytes(mb, size) \in Seq(MbIds)
         /\ Rest(bytes, k) \in Seq(MbIds)
<1>1. Bytes(mb, size) \in Seq(MbIds)
  <2>1. mb.n \in MbIds
    BY DEF Mb
  <2> QED BY <2>1 DEF Bytes
<1>2. Rest(bytes, k) \in Seq(MbIds)
  <2>1. CASE k + 1 > Len(bytes)
    BY <2>1 DEF Rest
  <2>2. CASE k + 1 <= Len(bytes)
    BY <2>2 DEF Rest
  <2> QED BY <2>1, <2>2
<1> QED BY <1>1, <1>2

\* A message that finds no text is the write buffer, and EV_WRITE is asked for.
LEMMA DirectlyKeeps ==
  ASSUME IInv, NEW t \in Procs, WriteDirectly(t)
  PROVE  IInv'
<1>0. TypeOK /\ MessagesAccounted /\ ReferencesConserved /\ Numbered /\ Attached /\ Heard
  BY DEF IInv
<1> DEFINE mb == MbOf(t)
<1>1. /\ UNCHANGED <<pw, backlog_list, backlog_size, ev, refs, nc_killed, loop, given>>
      /\ proc[t].pc = "write" /\ LockFree /\ Text = <<>>
  BY DEF WriteDirectly, Writes, Direct
<1>2. mb \in Mb /\ mb.size \in Nat
  <2>1. mb \in Mb
    BY <1>0, <1>1, ThreadAt
  <2> QED BY <2>1, SizesAssumption DEF Mb
<1>3. PICK k \in 0..mb.size :
        /\ sent' = sent + k
        /\ \/ /\ due' = Rest(due \o Bytes(mb, mb.size), k)
              /\ WriteEnds(t, "unref") /\ out' = out - 1
              /\ UNCHANGED <<write_buffer, broken>>
           \/ /\ write_buffer' = <<[mb EXCEPT !.off = k]>>
              /\ due' = Rest(due \o Bytes(mb, mb.size), k)
              /\ WriteEnds(t, "want")
              /\ UNCHANGED <<broken, out>>
           \/ /\ broken' = TRUE
              /\ WriteEnds(t, "unref") /\ out' = out - 1
              /\ UNCHANGED <<write_buffer, due>>
  BY DEF WriteDirectly, free_memblock
<1>4. write_buffer = <<>> /\ backlog_list = <<>>
  BY <1>0, <1>1, TextLength
<1>5. due' \in Seq(MbIds) /\ broken' \in BOOLEAN /\ sent' \in Nat /\ k \in Nat
  <2>1. due \in Seq(MbIds) /\ broken \in BOOLEAN /\ sent \in Nat /\ k \in Nat
    BY <1>0, <1>2, <1>3 DEF TypeOK
  <2>2. due \o Bytes(mb, mb.size) \in Seq(MbIds)
    <3> HIDE DEF mb
    <3> QED BY <1>2, <2>1, BytesType
  <2>3. Rest(due \o Bytes(mb, mb.size), k) \in Seq(MbIds)
    <3> HIDE DEF mb
    <3> QED BY <1>2, <2>1, <2>2, BytesType
  <2> HIDE DEF mb
  <2>4. due' \in Seq(MbIds)
    BY <1>3, <2>1, <2>3
  <2>5. broken' \in BOOLEAN
    BY <1>3, <2>1
  <2>6. sent' \in Nat
    BY <1>3, <2>1
  <2> QED BY <2>1, <2>4, <2>5, <2>6
<1> HIDE DEF mb
<1>6. PICK to \in {"unref", "want"} :
        /\ WriteEnds(t, to)
        /\ to = "unref" => out' = out - 1 /\ write_buffer' = <<>>
        /\ to = "want" => out' = out
        /\ to = "want" => write_buffer' \in Seq(Mb) /\ Len(write_buffer') = 1
  <2>1. [mb EXCEPT !.off = k] \in Mb
    BY <1>2, <1>5 DEF Mb
  <2> DEFINE m == [mb EXCEPT !.off = k]
  <2> HIDE DEF m
  <2>2. <<m>> \in Seq(Mb) /\ Len(<<m>>) = 1
    BY <2>1 DEF m
  <2> QED BY <1>3, <1>4, <2>2 DEF m
<1>7. /\ proc' = [proc EXCEPT ![t] = At(to, <<>>)] /\ proc' \in [Procs -> ThreadType]
      /\ Held' = Held - 1 /\ Held \in Nat /\ Busy' = Busy /\ Busy \in Nat \ {0}
      /\ Pushing' = Pushing /\ (Killing' => Killing)
      /\ (to = "want" => Asking') /\ (Asking => Asking')
  BY <1>0, <1>1, <1>6, WriteEndsKeeps DEF given
<1>8. refs \in Nat \ {0} /\ pw.mem = "live"
  BY <1>7, BusyLives
<1>9. TypeOK'
  <2>1. write_buffer' \in Seq(Mb) /\ Len(write_buffer') <= 1
    <3>1. CASE to = "unref"
      BY <1>6, <3>1
    <3>2. CASE to = "want"
      <4>1. write_buffer' \in Seq(Mb) /\ Len(write_buffer') = 1
        BY <1>6, <3>2
      <4> QED BY <4>1
    <3> QED BY <3>1, <3>2
  <2>2. out' \in Int
    BY <1>0, <1>6 DEF TypeOK
  <2> QED BY <1>0, <1>1, <1>5, <1>7, <2>1, <2>2 DEF TypeOK, given
<1>10. /\ to = "unref" => Len(Text') = 0 /\ Text' = <<>>
       /\ to = "want" => Len(Text') = 1
  BY <1>1, <1>4, <1>6 DEF Text
<1>11. MessagesAccounted'
  <2>1. SizeOf(backlog_list)' = SizeOf(backlog_list)
    BY <1>1
  <2>2. out = Held
    BY <1>0, <1>1, <1>7 DEF MessagesAccounted
  <2>3. out' = Len(Text') + Held'
    <3>1. CASE to = "unref"
      BY <1>6, <1>7, <1>10, <2>2, <3>1
    <3>2. CASE to = "want"
      <4>1. out' = out /\ Len(Text') = 1
        BY <1>6, <1>10, <3>2
      <4>2. Held' = Held - 1 /\ Held \in Nat
        BY <1>7
      <4> QED BY <2>2, <4>1, <4>2
    <3> QED BY <3>1, <3>2
  <2> QED BY <1>0, <1>1, <2>1, <2>3 DEF MessagesAccounted
<1>12. ReferencesConserved'
  <2>1. Owners' = Owners
    BY <1>1, <1>7 DEF Owners
  <2> QED BY <1>1, <1>8, <2>1, References, SameReferences
<1>13. Numbered'
  BY <1>0, <1>1, <1>7, MovesKeep DEF Numbered, given
<1>14. Attached'
  BY <1>0, <1>1, <1>7 DEF Attached
<1>15. Heard'
  BY <1>0, <1>1, <1>7, <1>10 DEF Heard, LockFree
<1> QED BY <1>9, <1>11, <1>12, <1>13, <1>14, <1>15 DEF IInv

\* The message of a thread goes to the backlog, or nowhere.
LEMMA QueuedOnce ==
  ASSUME TypeOK, Numbered, NEW t \in Procs, proc[t].pc = "write",
         NEW to \in {"unref", "want"}, WriteEnds(t, to), written' = written,
         ToSet(backlog_list') \subseteq ToSet(backlog_list) \cup {MbOf(t)}, IsInjective(backlog_list')
  PROVE  Numbered'
<1>1. proc \in [Procs -> ThreadType]
  BY DEF TypeOK
<1>2. proc'[t] = At(to, <<>>) /\ \A u \in Procs : u # t => proc'[u] = proc[u]
  BY <1>1 DEF WriteEnds
<1>3. At(to, <<>>).pc = to /\ At(to, <<>>).mb = <<>>
  BY DEF At
<1>4. \A u \in Procs : /\ Len(proc[u].mb) <= 1
                       /\ proc[u].pc = "write" <=> proc[u].mb # <<>>
                       /\ proc[u].pc = "write" =>
                            /\ proc[u].mb[1].n <= written
                            /\ \A mb \in ToSet(backlog_list) : mb.n # proc[u].mb[1].n
  BY DEF Numbered, Writing, MbOf
<1>5. \A u, v \in Procs : proc[u].pc = "write" /\ proc[v].pc = "write"
                            /\ proc[u].mb[1].n = proc[v].mb[1].n => u = v
  BY DEF Numbered, Writing, MbOf
<1>6. ASSUME NEW u \in Procs
      PROVE  /\ Len(proc'[u].mb) <= 1
             /\ proc'[u].pc = "write" <=> proc'[u].mb # <<>>
             /\ proc'[u].pc = "write" => u # t /\ proc'[u] = proc[u]
  <2>1. CASE u = t
    BY <1>2, <1>3, <2>1
  <2>2. CASE u # t
    BY <1>2, <1>4, <2>2
  <2> QED BY <2>1, <2>2
<1>7. ASSUME NEW u \in Procs, proc'[u].pc = "write"
      PROVE  /\ proc'[u].mb[1].n <= written
             /\ \A mb \in ToSet(backlog_list') : mb.n # proc'[u].mb[1].n
  <2>1. u # t /\ proc'[u] = proc[u]
    BY <1>6, <1>7
  <2>2. proc'[u].mb[1].n # MbOf(t).n
    BY <1>5, <1>7, <2>1 DEF MbOf
  <2>3. \A mb \in ToSet(backlog_list') : mb \in ToSet(backlog_list) \/ mb = MbOf(t)
    OBVIOUS
  <2> HIDE DEF ToSet, MbOf
  <2> QED BY <1>4, <1>7, <2>1, <2>2, <2>3
<1>8. \A u, v \in Procs : proc'[u].pc = "write" /\ proc'[v].pc = "write"
                            /\ proc'[u].mb[1].n = proc'[v].mb[1].n => u = v
  BY <1>5, <1>6
<1>9. \A mb \in ToSet(backlog_list') : mb.n <= written
  <2>1. MbOf(t).n <= written /\ \A mb \in ToSet(backlog_list) : mb.n <= written
    BY DEF Numbered, Writing
  <2>2. \A mb \in ToSet(backlog_list') : mb \in ToSet(backlog_list) \/ mb = MbOf(t)
    OBVIOUS
  <2> HIDE DEF ToSet
  <2> QED BY <2>1, <2>2
<1> HIDE DEF ToSet, IsInjective
<1> QED BY <1>6, <1>7, <1>8, <1>9 DEF Numbered, Writing, MbOf

\* A message behind others is put into the backlog, or dropped or refused.
LEMMA BacklogKeeps ==
  ASSUME IInv, NEW t \in Procs, WriteBacklog(t)
  PROVE  IInv'
<1>0. TypeOK /\ MessagesAccounted /\ ReferencesConserved /\ Numbered /\ Attached /\ Heard
  BY DEF IInv
<1> DEFINE mb == MbOf(t)
           dropped == proto_watch_adjust_window(mb.seq)
           kept == Without(backlog_list, dropped)
           taken == Total([m \in dropped |-> m.size], dropped)
           size == backlog_size - taken
           left == Without(due, {m.n : m \in dropped})
           count == Cardinality(dropped)
<1>1. /\ UNCHANGED <<pw, write_buffer, ev, refs, nc_killed, loop, broken, given, sent>>
      /\ proc[t].pc = "write" /\ LockFree
  BY DEF WriteBacklog, Writes
<1>2. mb \in Mb /\ mb.size \in Nat /\ mb \notin ToSet(backlog_list)
  <2>1. mb \in Mb
    BY <1>0, <1>1, ThreadAt
  <2>2. \A x \in ToSet(backlog_list) : x.n # mb.n
    BY <1>0, <1>1 DEF Numbered, Writing
  <2> QED BY <2>1, <2>2, SizesAssumption DEF Mb
<1>3. dropped \in SUBSET ToSet(backlog_list)
  BY DEF proto_watch_adjust_window, ToSet
<1>4. \/ /\ backlog_list' = Append(kept, mb) /\ backlog_size' = size + mb.size
         /\ size + mb.size <= MaxBacklog
         /\ due' = left \o Bytes(mb, mb.size)
         /\ out' = out - count /\ WriteEnds(t, "want")
      \/ /\ backlog_list' = kept /\ backlog_size' = size /\ due' = left
         /\ out' = out - (count + 1) /\ WriteEnds(t, "unref")
  BY DEF WriteBacklog, free_memblock, Fits
<1>5. backlog_list \in Seq(Mb) /\ due \in Seq(MbIds) /\ out \in Int /\ IsInjective(backlog_list)
  BY <1>0 DEF TypeOK, Numbered
<1> HIDE DEF mb, dropped
<1>6. kept \in Seq(Mb) /\ ToSet(kept) \subseteq ToSet(backlog_list) /\ IsInjective(kept)
  BY <1>5, WithoutEntries
<1>7. /\ count \in Nat /\ Len(kept) = Len(backlog_list) - count /\ Len(kept) \in Nat
      /\ SizeOf(kept) \in Nat /\ taken \in Nat
      /\ SizeOf(backlog_list) = taken + SizeOf(kept)
  BY <1>3, <1>5, <1>6, SizeWithout
<1>8. left \in Seq(MbIds)
  BY <1>5, WithoutEntries
<1> HIDE DEF kept, left, count, taken
<1> DEFINE longer == Append(kept, mb)
<1>9. /\ longer \in Seq(Mb) /\ Len(longer) = Len(kept) + 1 /\ IsInjective(longer)
      /\ ToSet(longer) \subseteq ToSet(backlog_list) \cup {mb}
      /\ SizeOf(longer) = SizeOf(kept) + mb.size
  <2>1. mb \notin ToSet(kept)
    BY <1>2, <1>6
  <2>2. Len(longer) = Len(kept) + 1
    BY <1>2, <1>6
  <2> HIDE DEF longer
  <2> QED BY <1>2, <1>6, <2>1, <2>2, AppendEntries, SizeAppend DEF longer
<1> HIDE DEF longer
<1>10. PICK to \in {"unref", "want"} : WriteEnds(t, to)
  BY <1>4
<1>11. /\ proc' = [proc EXCEPT ![t] = At(to, <<>>)] /\ proc' \in [Procs -> ThreadType]
       /\ Held' = Held - 1 /\ Held \in Nat /\ Busy' = Busy /\ Busy \in Nat \ {0}
       /\ Pushing' = Pushing /\ (Killing' => Killing)
       /\ (to = "want" => Asking') /\ (Asking => Asking')
  BY <1>0, <1>1, <1>10, WriteEndsKeeps DEF given
<1>12. to = "want" \/ backlog_list' = kept
  <2>1. WriteEnds(t, "want") => to = "want"
    <3>1. At(to, <<>>).pc = to /\ At("want", <<>>).pc = "want"
      BY DEF At
    <3>2. proc \in [Procs -> ThreadType]
      BY <1>0 DEF TypeOK
    <3>3. proc'[t] = At(to, <<>>)
      BY <1>11, <3>2
    <3>4. WriteEnds(t, "want") => proc'[t] = At("want", <<>>)
      BY <3>2 DEF WriteEnds
    <3> QED BY <3>1, <3>3, <3>4
  <2> QED BY <1>4, <2>1
<1>13. refs \in Nat \ {0} /\ pw.mem = "live"
  BY <1>11, BusyLives
<1>14. backlog_size = taken + SizeOf(kept) /\ size = SizeOf(kept) /\ size <= MaxBacklog
  <2>1. backlog_size = SizeOf(backlog_list) /\ backlog_size <= MaxBacklog
    BY <1>0, <1>13 DEF MessagesAccounted
  <2>2. size = SizeOf(kept)
    BY <1>7, <2>1
  <2>3. SizeOf(kept) <= backlog_size
    BY <1>7, <2>1
  <2>4. MaxBacklog \in Nat
    BY LimitsAssumption
  <2>5. SizeOf(kept) <= MaxBacklog
    BY <1>7, <2>1, <2>3, <2>4
  <2> QED BY <1>7, <2>1, <2>2, <2>5
<1> HIDE DEF size
<1>15. /\ backlog_list' \in Seq(Mb) /\ IsInjective(backlog_list')
       /\ ToSet(backlog_list') \subseteq ToSet(backlog_list) \cup {mb}
  BY <1>4, <1>6, <1>9 DEF longer
<1>16. /\ backlog_size' \in Nat /\ backlog_size' <= MaxBacklog
       /\ backlog_size' = SizeOf(backlog_list')
  <2>1. CASE backlog_list' = longer /\ backlog_size' = size + mb.size /\ size + mb.size <= MaxBacklog
    <3>1. SizeOf(backlog_list') = SizeOf(kept) + mb.size
      BY <1>9, <2>1
    <3> QED BY <1>2, <1>7, <1>14, <2>1, <3>1
  <2>2. CASE backlog_list' = kept /\ backlog_size' = size
    BY <1>7, <1>14, <2>2
  <2> QED BY <1>4, <2>1, <2>2 DEF longer
<1>17. out' \in Int /\ out' - Len(backlog_list') = out - Len(backlog_list) - 1
  <2>1. Len(backlog_list) \in Nat
    BY <1>5
  <2> DEFINE a == Len(backlog_list)
             b == Len(kept)
             c == Len(longer)
  <2>2. a \in Nat /\ b \in Nat /\ count \in Nat /\ out \in Int /\ b = a - count /\ c = b + 1
    BY <1>5, <1>7, <1>9, <2>1
  <2>3. /\ out - count \in Int /\ out - (count + 1) \in Int
        /\ (out - count) - c = out - a - 1 /\ (out - (count + 1)) - b = out - a - 1
    <3> HIDE DEF a, b, c
    <3> QED BY <2>2
  <2>4. CASE backlog_list' = longer /\ out' = out - count
    BY <2>3, <2>4
  <2>5. CASE backlog_list' = kept /\ out' = out - (count + 1)
    BY <2>3, <2>5
  <2> QED BY <1>4, <2>4, <2>5 DEF longer
<1>18. due' \in Seq(MbIds)
  BY <1>2, <1>4, <1>8, BytesType
<1>19. TypeOK'
  BY <1>0, <1>1, <1>11, <1>15, <1>16, <1>17, <1>18 DEF TypeOK, given
<1>20. MessagesAccounted'
  <2>1. Len(Text) = Len(write_buffer) + Len(backlog_list)
    BY <1>0, TextLength
  <2>2. Len(Text)' = Len(write_buffer)' + Len(backlog_list)'
    <3>1. (TypeOK => Len(Text) = Len(write_buffer) + Len(backlog_list))'
      BY TextLength, PTL
    <3> QED BY <1>19, <3>1
  <2>3. out = Len(Text) + Held
    BY <1>0 DEF MessagesAccounted
  <2>4. Len(write_buffer) \in Nat /\ Len(backlog_list) \in Nat /\ Len(backlog_list') \in Nat
    BY <1>0, <1>5, <1>15 DEF TypeOK
  <2>5. out' = Len(Text)' + Held'
    <3> DEFINE w == Len(write_buffer)
               a == Len(backlog_list)
               b == Len(backlog_list')
               x == Len(Text)
               y == Len(Text)'
    <3>1. x = w + a /\ y = w + b
      BY <1>1, <2>1, <2>2
    <3>2. w \in Nat /\ a \in Nat /\ b \in Nat /\ out \in Int /\ out' \in Int
      BY <1>5, <1>17, <2>4
    <3>3. out = x + Held /\ out' - b = out - a - 1
      BY <1>17, <2>3
    <3> HIDE DEF w, a, b, x, y
    <3>5. Held' = Held - 1 /\ Held \in Nat
      BY <1>11
    <3>6. x \in Nat /\ y \in Nat
      BY <3>1, <3>2
    <3>7. out = w + a + Held
      BY <3>1, <3>2, <3>3
    <3>8. out' = out - a - 1 + b
      BY <3>2, <3>3
    <3>9. out' = w + b + (Held - 1)
      BY <3>2, <3>5, <3>7, <3>8
    <3>4. out' = y + Held'
      BY <3>1, <3>5, <3>9
    <3> QED BY <3>4 DEF y
  <2> QED BY <1>16, <2>5 DEF MessagesAccounted
<1>21. ReferencesConserved'
  <2>1. Owners' = Owners
    BY <1>1, <1>11 DEF Owners
  <2> QED BY <1>1, <1>13, <2>1, References, SameReferences
<1>22. Numbered'
  BY <1>0, <1>1, <1>10, <1>15, QueuedOnce DEF mb, given
<1>23. Attached'
  BY <1>0, <1>1, <1>11 DEF Attached
<1>24. Heard'
  <2>1. Text' # <<>> => to = "want" \/ Text # <<>>
    <3>1. kept # <<>> => backlog_list # <<>>
      BY <1>5, <1>6, <1>7
    <3>2. Text = <<>> <=> write_buffer = <<>> /\ backlog_list = <<>>
      BY <1>0, TextLength
    <3>3. Text' = <<>> <=> write_buffer' = <<>> /\ backlog_list' = <<>>
      <4>1. (TypeOK => (Text = <<>> <=> write_buffer = <<>> /\ backlog_list = <<>>))'
        BY TextLength, PTL
      <4> QED BY <1>19, <4>1
    <3> QED BY <1>1, <1>12, <3>1, <3>2, <3>3
  <2> QED BY <1>0, <1>1, <1>11, <2>1 DEF Heard, LockFree
<1> QED BY <1>19, <1>20, <1>21, <1>22, <1>23, <1>24 DEF IInv

-----------------------------------------------------------------------------
(* The steps of the loop thread in a dispatch *)

LoopPcs == {"poll", "dispatch", "write", "empty", "apply", "read", "recv", "closing", "drop"}

\* A step of the loop thread.
LEMMA Turns ==
  ASSUME TypeOK, NEW pc \in LoopPcs, Turn(pc)
  PROVE  loop' \in LoopType /\ loop'.pc = pc
<1>1. loop \in LoopType
  BY DEF TypeOK
<1>2. PICK r : loop' = [pc |-> pc, revents |-> r] /\ r \in SUBSET {"READ", "WRITE", "TIMER"}
  BY <1>1 DEF Turn, LoopType
<1> QED BY <1>2 DEF LoopType, LoopPcs

\* The event stays watched, and nothing is taken or given back.
LEMMA WorkKeeps ==
  ASSUME IInv, ev.phase = "watched", loop.pc # "drop",
         loop' \in LoopType, loop'.pc # "drop",
         pw' \in WatchType, pw'.mem = pw.mem, pw'.sched = pw.sched,
         ev' \in EventType, ev'.phase = ev.phase, ev'.asked = ev.asked, ev'.modify = ev.modify,
         UNCHANGED <<refs, nc_killed, proc, written>>
  PROVE  /\ ReferencesConserved' /\ Attached'
         /\ Held' = Held /\ Asking' = Asking /\ Pushing' = Pushing
<1>0. TypeOK /\ ReferencesConserved /\ Attached
  BY DEF IInv
<1>1. refs \in Nat \ {0} /\ pw.mem = "live"
  BY BusyLives
<1>2. Held' = Held /\ Busy' = Busy /\ Asking' = Asking /\ Pushing' = Pushing /\ Killing' = Killing
  BY DEF Held, Busy, Asking, Pushing, Killing
<1>3. Owners' = Owners
  <2>1. One(loop'.pc = "drop") = One(loop.pc = "drop")
    BY DEF One
  <2> QED BY <1>2, <2>1 DEF Owners
<1>4. ReferencesConserved'
  BY <1>1, <1>3, References, SameReferences
<1>5. Attached'
  BY <1>0, <1>2 DEF Attached
<1> QED BY <1>2, <1>4, <1>5

\* The buffers stay as they are.
LEMMA CallbackKeeps ==
  ASSUME IInv, ev.phase = "watched", loop.pc # "drop",
         loop' \in LoopType, loop'.pc # "drop",
         pw' \in WatchType, pw'.mem = pw.mem, pw'.sched = pw.sched, pw'.killed = pw.killed,
         ev' \in EventType, ev'.phase = ev.phase, ev'.asked = ev.asked, ev'.modify = ev.modify,
         UNCHANGED <<buffers, refs, nc_killed, proc, given, sent>>, broken' \in BOOLEAN,
         Text # <<>> => ev'.want \/ Asking,
         ev'.want => ev'.io \/ ev.modify > 0 \/ Pushing,
         loop'.pc \in {"empty", "apply"} => Text = <<>>,
         loop'.pc \in {"write", "empty", "apply"} => ~pw.killed
  PROVE  IInv'
<1>0. TypeOK /\ MessagesAccounted /\ Numbered
  BY DEF IInv
<1>1. /\ ReferencesConserved' /\ Attached'
      /\ Held' = Held /\ Asking' = Asking /\ Pushing' = Pushing
  BY WorkKeeps DEF given
<1>2. TypeOK'
  BY <1>0 DEF TypeOK, buffers, given
<1>3. MessagesAccounted' /\ Text' = Text
  BY <1>0, <1>1, SameMessages DEF buffers
<1>4. Numbered'
  BY <1>0, SameNumbers DEF Numbered, buffers, given
<1>5. Heard'
  BY <1>1, <1>3 DEF Heard, LockFree
<1> QED BY <1>1, <1>2, <1>3, <1>4, <1>5 DEF IInv

\* What holds while the event is watched.
LEMMA Watched ==
  ASSUME IInv
  PROVE  /\ TypeOK /\ pw \in WatchType /\ ev \in EventType /\ loop \in LoopType
         /\ broken \in BOOLEAN
         /\ loop.pc \notin {"poll", "drop"} => ev.phase = "watched"
         /\ ev.phase = "watched" =>
              /\ Text # <<>> => ev.want \/ Asking
              /\ ev.want => ev.io \/ ev.modify > 0 \/ Pushing
         /\ loop.pc \in {"empty", "apply"} => Text = <<>>
         /\ loop.pc \in {"write", "empty", "apply"} => ~pw.killed
BY DEF IInv, TypeOK, Attached, Heard, LockFree

\* The event is ready and nothing is running: the callback begins.
LEMMA DispatchKeeps ==
  ASSUME IInv, NEW revents \in SUBSET {"READ", "WRITE", "TIMER"}, Dispatch(revents)
  PROVE  IInv'
<1>1. /\ loop.pc = "poll" /\ ev.phase = "watched"
      /\ loop' = [pc |-> "dispatch", revents |-> revents]
      /\ UNCHANGED <<pw, buffers, ev, refs, nc_killed, proc, broken, given, sent>>
  BY DEF Dispatch, Polls, data
<1>2. loop' \in LoopType /\ loop'.pc = "dispatch"
  BY <1>1 DEF LoopType
<1> QED BY <1>1, <1>2, Watched, CallbackKeeps

\* The callback takes the lock, unless the watch was killed.
LEMMA DispathKeeps ==
  ASSUME IInv, proto_watch_dispath
  PROVE  IInv'
<1>0. /\ loop.pc = "dispatch"
      /\ UNCHANGED <<buffers, ev, refs, nc_killed, proc, broken, given, sent>>
  BY DEF proto_watch_dispath, data
<1>1. \E pc \in LoopPcs \ {"empty", "apply", "drop"} : Turn(pc) /\ (pc = "write" => ~pw.killed)
  BY DEF proto_watch_dispath, AfterWrite, LoopPcs
<1>2. /\ loop' \in LoopType /\ loop'.pc \notin {"empty", "apply", "drop"}
      /\ loop'.pc = "write" => ~pw.killed
  BY <1>1, Watched, Turns
<1>3. pw' = pw \/ pw' = [pw EXCEPT !.connecting = FALSE]
  BY DEF proto_watch_dispath
<1>4. /\ pw' \in WatchType /\ pw'.mem = pw.mem /\ pw'.sched = pw.sched
      /\ pw'.killed = pw.killed
  BY <1>3, Watched DEF WatchType
<1> QED BY <1>0, <1>2, <1>4, Watched, CallbackKeeps

\* Nothing is left to write: the loop goes on to take EV_WRITE off.
LEMMA WriteEmptyKeeps ==
  ASSUME IInv, WriteEmpty
  PROVE  IInv'
<1>0. /\ loop.pc = "write" /\ Text = <<>>
      /\ UNCHANGED <<pw, buffers, ev, refs, nc_killed, proc, broken, given, sent>>
  BY DEF WriteEmpty, data
<1>1. \E pc \in LoopPcs \ {"drop"} : Turn(pc)
  BY DEF WriteEmpty, AfterWrite, LoopPcs
<1>2. loop' \in LoopType /\ loop'.pc # "drop"
  BY <1>1, Watched, Turns
<1> QED BY <1>0, <1>2, Watched, CallbackKeeps

\* EV_WRITE is taken off under the lock, and there is no text.
LEMMA RemoveEventsKeeps ==
  ASSUME IInv, RemoveEventsClear \/ RemoveEventsApply
  PROVE  IInv'
<1>1. CASE RemoveEventsClear
  <2>1. /\ loop.pc = "empty" /\ ev' = [ev EXCEPT !.want = FALSE] /\ Turn("apply")
        /\ UNCHANGED <<pw, buffers, refs, nc_killed, proc, broken, given, sent>>
    BY <1>1 DEF RemoveEventsClear, data
  <2>2. loop' \in LoopType /\ loop'.pc = "apply"
    BY <2>1, Watched, Turns DEF LoopPcs
  <2>3. /\ ev' \in EventType /\ ev'.want = FALSE /\ ev'.phase = ev.phase
        /\ ev'.asked = ev.asked /\ ev'.modify = ev.modify
    BY <2>1, Watched DEF EventType
  <2> QED BY <2>1, <2>2, <2>3, Watched, CallbackKeeps
<1>2. CASE RemoveEventsApply
  <2>1. /\ loop.pc = "apply" /\ ev' = [ev EXCEPT !.io = ev.want] /\ Turn(AfterWrite)
        /\ UNCHANGED <<pw, buffers, refs, nc_killed, proc, broken, given, sent>>
    BY <1>2 DEF RemoveEventsApply, data
  <2>2. loop' \in LoopType /\ loop'.pc \in {"read", "poll"}
    <3>1. AfterWrite \in LoopPcs /\ AfterWrite \in {"read", "poll"}
      BY DEF AfterWrite, LoopPcs
    <3> QED BY <2>1, <3>1, Watched, Turns
  <2>3. /\ ev' \in EventType /\ ev'.want = ev.want /\ ev'.io = ev.want /\ ev'.phase = ev.phase
        /\ ev'.asked = ev.asked /\ ev'.modify = ev.modify
    BY <2>1, Watched DEF EventType
  <2> QED BY <2>1, <2>2, <2>3, Watched, CallbackKeeps
<1> QED BY <1>1, <1>2

\* The socket takes no more, or failed.
LEMMA SendStopsKeeps ==
  ASSUME IInv, SendAgain \/ SendFails
  PROVE  IInv'
<1>1. /\ loop.pc = "write" /\ broken' \in BOOLEAN
      /\ UNCHANGED <<pw, buffers, ev, refs, nc_killed, proc, given, sent>>
  BY Watched DEF SendAgain, SendFails, data
<1>2. \E pc \in {"read", "poll", "closing"} : Turn(pc)
  BY DEF SendAgain, SendFails, AfterWrite
<1>3. loop' \in LoopType /\ loop'.pc \in {"read", "poll", "closing"}
  BY <1>2, Watched, Turns DEF LoopPcs
<1> QED BY <1>1, <1>3, Watched, CallbackKeeps

\* The callbacks of the client, outside the lock.
LEMMA CallbacksKeep ==
  ASSUME IInv, Parse \/ RecvReturns \/ Close
  PROVE  IInv'
<1>1. /\ loop.pc \in {"read", "recv", "closing"}
      /\ pw' = pw \/ pw' = [pw EXCEPT !.fd = "closed"]
      /\ UNCHANGED <<buffers, ev, refs, nc_killed, proc, broken, given, sent>>
  BY DEF Parse, RecvReturns, Close, data
<1>2. \E pc \in {"read", "poll", "recv", "closing"} : Turn(pc)
  BY DEF Parse, RecvReturns, Close
<1>3. loop' \in LoopType /\ loop'.pc \in {"read", "poll", "recv", "closing"}
  BY <1>2, Watched, Turns DEF LoopPcs
<1>4. /\ pw' \in WatchType /\ pw'.mem = pw.mem /\ pw'.sched = pw.sched
      /\ pw'.killed = pw.killed
  BY <1>1, Watched DEF WatchType
<1> QED BY <1>1, <1>3, <1>4, Watched, CallbackKeeps

\* The blocks in use are those of the lists and of the calls.
LEMMA Balance ==
  ASSUME NEW a \in Nat, NEW b \in Nat, NEW c \in Nat, NEW d \in Nat, NEW held \in Nat,
         NEW p \in Int, NEW q \in Int, p = a + b + held, q - c - d = p - a - b
  PROVE  q = c + d + held
OBVIOUS

\* The buffers get shorter, while the loop thread has the lock and text to send.
LEMMA WriteKeeps ==
  ASSUME IInv, loop.pc = "write", Text # <<>>,
         UNCHANGED <<pw, ev, refs, nc_killed, proc, loop, broken, given>>,
         write_buffer' \in Seq(Mb), Len(write_buffer') <= 1, backlog_list' \in Seq(Mb),
         due' \in Seq(MbIds), sent' \in Nat, out' \in Int,
         backlog_size' \in Nat, backlog_size' = SizeOf(backlog_list'),
         backlog_size' <= MaxBacklog,
         ToSet(backlog_list') \subseteq ToSet(backlog_list), IsInjective(backlog_list'),
         out' - Len(write_buffer') - Len(backlog_list')
           = out - Len(write_buffer) - Len(backlog_list)
  PROVE  IInv'
<1>0. TypeOK /\ MessagesAccounted /\ Numbered /\ Heard /\ ev.phase = "watched"
  BY Watched DEF IInv
<1>1. ReferencesConserved' /\ Attached' /\ Held' = Held /\ Asking' = Asking /\ Pushing' = Pushing
  BY <1>0, Watched, WorkKeeps DEF given
<1>2. TypeOK'
  BY <1>0 DEF TypeOK, given
<1>3. MessagesAccounted'
  <2> DEFINE a == Len(write_buffer)
             b == Len(backlog_list)
             c == Len(write_buffer')
             d == Len(backlog_list')
             x == Len(Text)
             y == Len(Text)'
  <2>1. a \in Nat /\ b \in Nat /\ c \in Nat /\ d \in Nat /\ out \in Int
    <3>1. write_buffer \in Seq(Mb) /\ backlog_list \in Seq(Mb) /\ out \in Int
      BY <1>0 DEF TypeOK
    <3> QED BY <3>1
  <2>2. x = a + b
    BY <1>0, TextLength
  <2>3. y = c + d
    <3>1. (TypeOK => Len(Text) = Len(write_buffer) + Len(backlog_list))'
      BY TextLength, PTL
    <3> QED BY <1>2, <3>1
  <2>4. out = x + Held /\ Held \in Nat
    BY <1>0, BusyCounts DEF MessagesAccounted
  <2>5. out' - c - d = out - a - b
    OBVIOUS
  <2> HIDE DEF a, b, c, d, x, y
  <2>6. out = a + b + Held
    BY <2>1, <2>2, <2>4
  <2>8. out' = c + d + Held
    <3> DEFINE p == out
               q == out'
               h == Held
    <3>1. p \in Int /\ q \in Int /\ h \in Nat
      BY <2>1, <2>4
    <3>2. p = a + b + h /\ q - c - d = p - a - b
      BY <2>5, <2>6
    <3> HIDE DEF p, q, h
    <3>3. q = c + d + h
      BY <2>1, <3>1, <3>2, Balance
    <3> QED BY <3>3 DEF q, h
  <2>9. out' = y + Held'
    BY <1>1, <2>1, <2>3, <2>8
  <2> QED BY <2>9 DEF MessagesAccounted, y
<1>4. Numbered'
  BY <1>0, SameNumbers DEF given
<1>5. Heard'
  BY <1>0, <1>1 DEF Heard, LockFree
<1> QED BY <1>1, <1>2, <1>3, <1>4, <1>5 DEF IInv

\* Where the messages of the buffers are, in a dispatch.
LEMMA Buffers ==
  ASSUME IInv, loop.pc = "write"
  PROVE  /\ write_buffer \in Seq(Mb) /\ Len(write_buffer) <= 1 /\ backlog_list \in Seq(Mb)
         /\ out \in Int /\ sent \in Nat /\ due \in Seq(MbIds) /\ IsInjective(backlog_list)
         /\ backlog_size \in Nat /\ backlog_size = SizeOf(backlog_list)
         /\ backlog_size <= MaxBacklog
<1>1. pw.mem = "live"
  BY Watched, BusyLives
<1> QED BY <1>1 DEF IInv, TypeOK, Numbered, MessagesAccounted

\* The head of the backlog becomes the write buffer, after the window dropped what
\* it lets go of.
LEMMA WriteNextKeeps ==
  ASSUME IInv, WriteNext
  PROVE  IInv'
<1>1. /\ loop.pc = "write" /\ write_buffer = <<>> /\ backlog_list # <<>>
      /\ write_buffer' = <<Head(backlog_list)>> /\ backlog_list' = Tail(backlog_list)
      /\ backlog_size' = backlog_size - Head(backlog_list).size
      /\ UNCHANGED <<out, due, pw, ev, refs, nc_killed, proc, loop, broken, given, sent>>
  BY DEF WriteNext, data
<1>2. /\ backlog_list \in Seq(Mb) /\ IsInjective(backlog_list)
      /\ backlog_size = SizeOf(backlog_list) /\ backlog_size \in Nat /\ backlog_size <= MaxBacklog
      /\ due' \in Seq(MbIds) /\ sent' \in Nat /\ out' \in Int
  BY <1>1, Buffers
<1>3. /\ Head(backlog_list) \in Mb /\ SizeOf(Tail(backlog_list)) \in Nat
      /\ backlog_size = Head(backlog_list).size + SizeOf(Tail(backlog_list))
  BY <1>1, <1>2, SizeTail
<1>4. /\ backlog_list' \in Seq(Mb) /\ IsInjective(backlog_list')
      /\ ToSet(backlog_list') \subseteq ToSet(backlog_list)
  BY <1>1, <1>2, TailEntries
<1>5. backlog_size' = SizeOf(backlog_list') /\ backlog_size' \in Nat /\ backlog_size' <= MaxBacklog
  <2> DEFINE x == Head(backlog_list).size
             y == SizeOf(Tail(backlog_list))
  <2>1. x \in Nat /\ y \in Nat /\ backlog_size = x + y /\ backlog_size' = backlog_size - x
    BY <1>1, <1>3, MbSize
  <2> HIDE DEF x, y
  <2>2. backlog_size' = y /\ y <= backlog_size
    BY <2>1
  <2>3. backlog_size' \in Nat /\ backlog_size' <= MaxBacklog
    BY <1>2, <2>1, <2>2, LimitsAssumption
  <2>4. SizeOf(backlog_list') = y
    BY <1>1 DEF y
  <2> QED BY <2>2, <2>3, <2>4
<1>6. /\ write_buffer' \in Seq(Mb) /\ Len(write_buffer') = 1 /\ Len(write_buffer) = 0
      /\ Len(backlog_list') = Len(backlog_list) - 1 /\ Len(backlog_list) \in Nat
  BY <1>1, <1>2, <1>3
<1>7. out' - Len(write_buffer') - Len(backlog_list') = out - Len(write_buffer) - Len(backlog_list)
  BY <1>1, <1>2, <1>6
<1>8. Text # <<>>
  BY <1>1, TextLength DEF IInv
<1> QED BY <1>1, <1>2, <1>4, <1>5, <1>6, <1>7, <1>8, WriteKeeps

\* A part of the write buffer is sent; the block is freed with its last byte.
LEMMA SendKeeps ==
  ASSUME IInv, Send
  PROVE  IInv'
<1>0. /\ loop.pc = "write" /\ write_buffer # <<>>
      /\ UNCHANGED <<pw, backlog_list, backlog_size, ev, refs, nc_killed, proc, loop,
                     broken, given>>
  BY DEF Send
<1>2. /\ write_buffer \in Seq(Mb) /\ Len(write_buffer) <= 1 /\ backlog_list \in Seq(Mb)
      /\ out \in Int /\ sent \in Nat /\ due \in Seq(MbIds) /\ IsInjective(backlog_list)
      /\ backlog_size \in Nat /\ backlog_size = SizeOf(backlog_list)
      /\ backlog_size <= MaxBacklog
  BY <1>0, Buffers
<1> DEFINE mb == write_buffer[1]
<1>3. mb \in Mb /\ Len(write_buffer) = 1
  <2>1. write_buffer # <<>> /\ write_buffer \in Seq(Mb) /\ Len(write_buffer) <= 1
    BY <1>0, <1>2
  <2> QED BY <2>1
<1>4. mb.size \in Nat /\ mb.off \in Nat
  <2> HIDE DEF mb
  <2> QED BY <1>3, SizesAssumption DEF Mb
<1>1. PICK k \in 1..(mb.size - mb.off) :
        /\ sent' = sent + k /\ due' = Rest(due, k)
        /\ write_buffer' = IF mb.off + k = mb.size THEN <<>> ELSE <<[mb EXCEPT !.off = @ + k]>>
        /\ out' = IF mb.off + k = mb.size THEN out - 1 ELSE out
  BY DEF Send, free_memblock
<1> HIDE DEF mb
<1>10. k \in Nat
  BY <1>4
<1>5. sent' \in Nat /\ due' \in Seq(MbIds)
  <2>1. Rest(due, k) \in Seq(MbIds)
    BY <1>2, <1>3, <1>10, BytesType
  <2> QED BY <1>1, <1>2, <1>10, <2>1
<1>6. /\ write_buffer' \in Seq(Mb) /\ Len(write_buffer') <= 1 /\ out' \in Int
      /\ out' - Len(write_buffer') = out - Len(write_buffer)
  <2>1. CASE mb.off + k = mb.size
    <3>1. write_buffer' = <<>> /\ out' = out - 1
      BY <1>1, <2>1
    <3> QED BY <1>2, <1>3, <3>1
  <2>2. CASE mb.off + k # mb.size
    <3> DEFINE m == [mb EXCEPT !.off = @ + k]
    <3>1. m \in Mb
      BY <1>3, <1>4, <1>10 DEF Mb
    <3>2. write_buffer' = <<m>> /\ out' = out
      BY <1>1, <2>2
    <3> HIDE DEF m
    <3>3. write_buffer' \in Seq(Mb) /\ Len(write_buffer') = 1
      BY <3>1, <3>2
    <3> QED BY <1>2, <1>3, <3>2, <3>3
  <2> QED BY <2>1, <2>2
<1>7. out' - Len(write_buffer') - Len(backlog_list') = out - Len(write_buffer) - Len(backlog_list)
  BY <1>0, <1>6
<1>8. Text # <<>>
  BY <1>0, TextLength DEF IInv
<1>9. SizeOf(backlog_list') = SizeOf(backlog_list)
  BY <1>0
<1> QED BY <1>0, <1>2, <1>5, <1>6, <1>7, <1>8, <1>9, WriteKeeps

-----------------------------------------------------------------------------
(* The operations of the loop *)

\* The loop executes the add.
LEMMA EnterKeeps ==
  ASSUME IInv, Enter
  PROVE  IInv'
<1>0. TypeOK /\ MessagesAccounted /\ ReferencesConserved /\ Numbered /\ Attached /\ Heard
  BY DEF IInv
<1>1. /\ loop.pc = "poll" /\ ev.phase = "queued"
      /\ ev' = [ev EXCEPT !.phase = "watched", !.io = ev.want]
      /\ UNCHANGED <<pw, buffers, refs, loop, nc_killed, proc, broken, given, sent>>
  BY DEF Enter, Polls, data
<1>2. refs \in Nat \ {0} /\ pw.mem = "live"
  BY <1>1, BusyLives
<1>3. /\ ev' \in EventType /\ ev'.phase = "watched" /\ ev'.asked = ev.asked
      /\ ev'.want = ev.want /\ ev'.io = ev.want /\ ev'.modify = ev.modify
  BY <1>0, <1>1 DEF TypeOK, EventType
<1>4. Busy' = Busy /\ Held' = Held /\ Asking' = Asking /\ Killing' = Killing
  BY <1>1 DEF Busy, Held, Asking, Killing
<1>5. TypeOK'
  BY <1>0, <1>1, <1>3 DEF TypeOK, buffers, given
<1>6. MessagesAccounted' /\ Text' = Text
  BY <1>0, <1>1, <1>4, SameMessages DEF buffers
<1>7. ReferencesConserved'
  <2>1. Owners' = Owners
    BY <1>1, <1>3, <1>4 DEF Owners, One
  <2> QED BY <1>1, <1>2, <2>1, References, SameReferences
<1>8. Numbered'
  BY <1>0, <1>1, SameNumbers DEF Numbered, buffers, given
<1>9. Attached'
  BY <1>0, <1>1, <1>2, <1>3, <1>4 DEF Attached
<1>10. Heard'
  BY <1>0, <1>1, <1>3, <1>4, <1>6 DEF Heard, LockFree
<1> QED BY <1>5, <1>6, <1>7, <1>8, <1>9, <1>10 DEF IInv

\* The loop executes the remove.
LEMMA LeaveKeeps ==
  ASSUME IInv, Leave
  PROVE  IInv'
<1>0. TypeOK /\ MessagesAccounted /\ ReferencesConserved /\ Numbered /\ Attached /\ Heard
  BY DEF IInv
<1>1. /\ loop.pc = "poll" /\ ev.phase = "watched" /\ ev.asked /\ refs' = refs - 1
      /\ ev' = [ev EXCEPT !.phase = "out", !.asked = FALSE, !.io = FALSE] /\ Turn("drop")
      /\ UNCHANGED <<pw, buffers, nc_killed, proc, broken, given, sent>>
  BY DEF Leave, Polls, data
<1>2. refs \in Nat \ {0} /\ pw.mem = "live" /\ Busy \in Nat /\ ev.modify \in Nat
  BY <1>1, BusyLives, References
<1>3. loop' \in LoopType /\ loop'.pc = "drop"
  BY <1>0, <1>1, Turns DEF LoopPcs
<1>4. /\ ev' \in EventType /\ ev'.phase = "out" /\ ev'.asked = FALSE
      /\ ev'.want = ev.want /\ ev'.modify = ev.modify
  BY <1>0, <1>1 DEF TypeOK, EventType
<1>5. Busy' = Busy /\ Held' = Held /\ Killing' = Killing
  BY <1>1 DEF Busy, Held, Killing
<1>6. refs = Owners /\ Owners' = Owners - 1 /\ Owners' # 0
  <2>1. refs = Owners
    BY References
  <2>2. /\ One(ev.phase \in {"queued", "watched"}) = 1 /\ One(ev.asked) = 1
        /\ One(ev'.phase \in {"queued", "watched"}) = 0 /\ One(ev'.asked) = 0
        /\ One(loop.pc = "drop") = 0 /\ One(loop'.pc = "drop") = 1
        /\ One(~nc_killed) \in Nat /\ One(~nc_killed') = One(~nc_killed)
    BY <1>1, <1>3, <1>4 DEF One
  <2>3. Owners = One(~nc_killed) + Busy + 1 + 1 + ev.modify + 0
    BY <2>2 DEF Owners
  <2>4. Owners' = One(~nc_killed) + Busy + 0 + 0 + ev.modify + 1
    BY <1>4, <1>5, <2>2 DEF Owners
  <2> QED BY <1>2, <2>1, <2>2, <2>3, <2>4
<1>7. TypeOK'
  BY <1>0, <1>1, <1>2, <1>3, <1>4 DEF TypeOK, buffers, given
<1>8. MessagesAccounted'
  BY <1>0, <1>1, <1>5, SameMessages DEF buffers
<1>9. ReferencesConserved'
  BY <1>1, <1>2, <1>6, SameReferences
<1>10. Numbered'
  BY <1>0, <1>1, SameNumbers DEF Numbered, buffers, given
<1>11. Attached'
  BY <1>0, <1>1, <1>2, <1>3, <1>4, <1>5 DEF Attached
<1>12. Heard'
  BY <1>0, <1>1, <1>3, <1>4 DEF Heard, LockFree
<1> QED BY <1>7, <1>8, <1>9, <1>10, <1>11, <1>12 DEF IInv

\* The loop executes a modify operation.
LEMMA ModifyKeeps ==
  ASSUME IInv, Modify
  PROVE  IInv'
<1>0. TypeOK /\ MessagesAccounted /\ ReferencesConserved /\ Numbered /\ Attached /\ Heard
  BY DEF IInv
<1> DEFINE e == [ev EXCEPT !.modify = @ - 1, !.io = IF ev.phase = "watched" THEN ev.want ELSE @]
<1>1. /\ loop.pc = "poll" /\ ev.modify > 0 /\ Release /\ ev' = Finalized(e)
      /\ UNCHANGED <<loop, nc_killed, proc, broken, given, sent>>
  BY DEF Modify, Polls, data
<1>2. /\ e \in EventType /\ e.asked = ev.asked /\ e.want = ev.want /\ e.modify = ev.modify - 1
      /\ e.phase = ev.phase /\ (ev.phase = "watched" => e.io = ev.want) /\ ev.modify \in Nat
  <2> DEFINE i == IF ev.phase = "watched" THEN ev.want ELSE ev.io
             m == ev.modify - 1
  <2>1. ev \in EventType /\ ev.modify > 0
    BY <1>0, <1>1 DEF TypeOK
  <2>2. ev.modify \in Nat /\ m \in Nat
    BY <2>1 DEF EventType
  <2>3. i \in BOOLEAN
    BY <2>1 DEF EventType
  <2>4. ev.phase = "watched" => i = ev.want
    OBVIOUS
  <2> HIDE DEF i, m
  <2>5. e = [ev EXCEPT !.modify = m, !.io = i]
    BY DEF e, i, m
  <2>6. /\ e \in EventType /\ e.asked = ev.asked /\ e.want = ev.want /\ e.modify = m
        /\ e.phase = ev.phase /\ e.io = i
    BY <2>1, <2>2, <2>3, <2>5 DEF EventType
  <2> QED BY <2>2, <2>4, <2>6 DEF m
<1> HIDE DEF e
<1>3. /\ ev' \in EventType /\ ev'.asked = ev.asked /\ ev'.want = ev.want
      /\ ev'.modify = ev.modify - 1
      /\ (ev'.phase = "watched" => ev'.io = ev.want)
      /\ ev'.phase = IF refs > 1 THEN ev.phase ELSE "freed"
  BY <1>1, <1>2 DEF Finalized, EventType
<1>4. /\ refs \in Nat \ {0} /\ refs >= 1 /\ refs = Owners /\ Busy \in Nat
      /\ pw.mem = "live" /\ ev.phase # "freed"
  BY <1>1, <1>2, BusyLives, References
<1>5. Busy' = Busy /\ Held' = Held /\ Asking' = Asking /\ Killing' = Killing
  BY <1>1 DEF Busy, Held, Asking, Killing
<1>6. refs = 1 => nc_killed /\ ev.phase \notin {"queued", "watched"}
  BY <1>1, <1>2, <1>4 DEF Owners, One
<1>7. Owners' = Owners - 1
  <2>1. One(ev'.phase \in {"queued", "watched"}) = One(ev.phase \in {"queued", "watched"})
    BY <1>3, <1>4, <1>6 DEF One
  <2>2. \A b : One(b) \in Nat
    BY DEF One
  <2> QED BY <1>1, <1>2, <1>3, <1>4, <1>5, <2>1, <2>2 DEF Owners
<1>8. /\ pw' \in WatchType /\ pw'.sched = pw.sched /\ pw'.killed = pw.killed
      /\ write_buffer' \in Seq(Mb) /\ Len(write_buffer') <= 1
      /\ backlog_list' \in Seq(Mb) /\ backlog_size' \in Nat /\ refs' \in Nat
      /\ out' \in Int /\ due' \in Seq(MbIds)
      /\ ToSet(backlog_list') \subseteq ToSet(backlog_list) /\ IsInjective(backlog_list')
  BY <1>0, <1>1, <1>4, ReleaseType DEF Numbered
<1>9. TypeOK'
  BY <1>0, <1>1, <1>3, <1>8 DEF TypeOK, given
<1>10. MessagesAccounted' /\ ReferencesConserved'
      /\ (refs > 1 => UNCHANGED <<pw, buffers>>)
      /\ (refs = 1 => Text' = <<>> /\ backlog_list' = <<>> /\ pw'.mem = "freed" /\ Quiet')
  BY <1>1, <1>4, <1>5, <1>7, <1>9, ReleaseKeeps
<1>11. Numbered'
  BY <1>0, <1>1, <1>8, SameNumbers DEF given
<1>12. Attached'
  <2>1. ev'.phase = "freed" <=> pw'.mem = "freed"
    BY <1>3, <1>4, <1>10
  <2> QED BY <1>0, <1>1, <1>3, <1>4, <1>5, <1>6, <1>8, <2>1 DEF Attached
<1>13. Heard'
  <2>1. CASE refs > 1
    <3>1. Text' = Text
      BY <1>10, <2>1 DEF Text, buffers
    <3> QED BY <1>0, <1>1, <1>3, <1>5, <1>8, <2>1, <3>1 DEF Heard, LockFree
  <2>2. CASE refs = 1
    BY <1>1, <1>3, <1>10, <2>2 DEF Heard, LockFree
  <2> QED BY <1>4, <2>1, <2>2
<1> QED BY <1>9, <1>10, <1>11, <1>12, <1>13 DEF IInv

\* The reference of an executed operation is dropped, and maybe the watch freed.
LEMMA DropKeeps ==
  ASSUME IInv, Drop
  PROVE  IInv'
<1>0. TypeOK /\ MessagesAccounted /\ ReferencesConserved /\ Numbered /\ Attached /\ Heard
  BY DEF IInv
<1>1. /\ loop.pc = "drop" /\ Release /\ ev' = Finalized(ev) /\ Turn("poll")
      /\ UNCHANGED <<nc_killed, proc, broken, given, sent>>
  BY DEF Drop, data
<1>2. loop' \in LoopType /\ loop'.pc = "poll"
  BY <1>0, <1>1, Turns DEF LoopPcs
<1>3. /\ ev'.asked = ev.asked /\ ev'.want = ev.want /\ ev'.io = ev.io /\ ev'.modify = ev.modify
      /\ ev'.phase = IF refs > 1 THEN ev.phase ELSE "freed"
      /\ ev' \in EventType /\ ev \in EventType /\ ev.modify \in Nat
  BY <1>0, <1>1 DEF Finalized, TypeOK, EventType
<1>4. /\ refs \in Nat \ {0} /\ refs >= 1 /\ refs = Owners /\ Busy \in Nat
      /\ pw.mem = "live" /\ ev.phase # "freed"
  BY <1>1, BusyLives, References
<1>5. Busy' = Busy /\ Held' = Held /\ Asking' = Asking /\ Pushing' = Pushing /\ Killing' = Killing
  BY <1>1 DEF Busy, Held, Asking, Pushing, Killing
<1>6. refs = 1 => nc_killed /\ ev.phase \notin {"queued", "watched"}
  BY <1>1, <1>3, <1>4 DEF Owners, One
<1>7. Owners' = Owners - 1
  <2>1. One(ev'.phase \in {"queued", "watched"}) = One(ev.phase \in {"queued", "watched"})
    BY <1>3, <1>4, <1>6 DEF One
  <2>2. \A b : One(b) \in Nat
    BY DEF One
  <2>3. One(loop.pc = "drop") = 1 /\ One(loop'.pc = "drop") = 0
    BY <1>1, <1>2 DEF One
  <2> QED BY <1>1, <1>3, <1>4, <1>5, <2>1, <2>2, <2>3 DEF Owners
<1>8. /\ pw' \in WatchType /\ pw'.sched = pw.sched /\ pw'.killed = pw.killed
      /\ write_buffer' \in Seq(Mb) /\ Len(write_buffer') <= 1
      /\ backlog_list' \in Seq(Mb) /\ backlog_size' \in Nat /\ refs' \in Nat
      /\ out' \in Int /\ due' \in Seq(MbIds)
      /\ ToSet(backlog_list') \subseteq ToSet(backlog_list) /\ IsInjective(backlog_list')
  BY <1>0, <1>1, <1>4, ReleaseType DEF Numbered
<1>9. TypeOK'
  BY <1>0, <1>1, <1>2, <1>3, <1>8 DEF TypeOK, given
<1>10. MessagesAccounted' /\ ReferencesConserved'
      /\ (refs > 1 => UNCHANGED <<pw, buffers>>)
      /\ (refs = 1 => Text' = <<>> /\ backlog_list' = <<>> /\ pw'.mem = "freed" /\ Quiet')
  BY <1>1, <1>2, <1>4, <1>5, <1>7, <1>9, ReleaseKeeps
<1>11. Numbered'
  BY <1>0, <1>1, <1>8, SameNumbers DEF given
<1>12. Attached'
  <2>1. ev'.phase = "freed" <=> pw'.mem = "freed"
    BY <1>3, <1>4, <1>10
  <2> QED BY <1>0, <1>1, <1>2, <1>3, <1>4, <1>5, <1>6, <1>8, <2>1 DEF Attached
<1>13. Heard'
  <2>1. CASE refs > 1
    <3>1. Text' = Text
      BY <1>10, <2>1 DEF Text, buffers
    <3> QED BY <1>0, <1>1, <1>2, <1>3, <1>5, <1>8, <2>1, <3>1 DEF Heard, LockFree
  <2>2. CASE refs = 1
    BY <1>2, <1>3, <1>10, <2>2 DEF Heard, LockFree
  <2> QED BY <1>4, <2>1, <2>2
<1> QED BY <1>9, <1>10, <1>11, <1>12, <1>13 DEF IInv

-----------------------------------------------------------------------------
(* The theorems *)

\* Where nothing happens the invariant stays.
LEMMA StutterKeeps ==
  ASSUME IInv, UNCHANGED vars
  PROVE  IInv'
<1>0. TypeOK /\ MessagesAccounted /\ ReferencesConserved /\ Numbered /\ Attached /\ Heard
  BY DEF IInv
<1>1. /\ UNCHANGED <<pw, write_buffer, backlog_list, backlog_size, out, due, ev, refs, nc_killed>>
      /\ UNCHANGED <<proc, loop, broken, seq, written, sent>>
  BY DEF vars, buffers, given
<1>2. TypeOK'
  BY <1>0, <1>1 DEF TypeOK
<1>3. Busy' = Busy /\ Held' = Held /\ Asking' = Asking /\ Pushing' = Pushing /\ Killing' = Killing
  BY <1>1 DEF Busy, Held, Asking, Pushing, Killing
<1>4. MessagesAccounted' /\ Text' = Text
  BY <1>0, <1>1, <1>3, SameMessages
<1>5. ReferencesConserved'
  BY <1>0, <1>1, <1>3 DEF ReferencesConserved, Busy
<1>6. Numbered'
  BY <1>0, <1>1, SameNumbers DEF Numbered
<1>7. Attached'
  BY <1>0, <1>1, <1>3 DEF Attached
<1>8. Heard'
  BY <1>0, <1>1, <1>3, <1>4 DEF Heard, LockFree
<1> QED BY <1>2, <1>4, <1>5, <1>6, <1>7, <1>8 DEF IInv

\* Every step keeps the invariant.
LEMMA StepKeeps == IInv /\ [Next]_vars => IInv'
<1> SUFFICES ASSUME IInv, [Next]_vars PROVE IInv'
  OBVIOUS
<1>1. CASE UNCHANGED vars
  BY <1>1, StutterKeeps
<1>2. ASSUME NEW t \in Procs, Call(t) PROVE IInv'
  BY <1>2, SendMbKeeps, AttachKeeps, ConnectKeeps, ClientKillKeeps DEF Call
<1>3. ASSUME NEW t \in Procs, Continue(t) PROVE IInv'
  BY <1>3, WriteKilledKeeps, DirectlyKeeps, BacklogKeeps, LookKeeps, SetKeeps, PushKeeps,
     UnrefKeeps, KillKeeps DEF Continue
<1>4. CASE LoopOperation
  BY <1>4, EnterKeeps, ModifyKeeps, LeaveKeeps DEF LoopOperation
<1>5. CASE LoopContinues
  BY <1>5, DropKeeps, DispathKeeps, WriteNextKeeps, WriteEmptyKeeps, SendKeeps,
     SendStopsKeeps, RemoveEventsKeeps, CallbacksKeep DEF LoopContinues
<1>6. CASE DispatchIo \/ Dispatch({"TIMER"})
  <2>1. \E revents \in SUBSET {"READ", "WRITE", "TIMER"} : Dispatch(revents)
    BY <1>6 DEF DispatchIo
  <2> QED BY <2>1, DispatchKeeps
<1> QED BY <1>1, <1>2, <1>3, <1>4, <1>5, <1>6 DEF Next

\* IInv is an invariant of every behaviour.
THEOREM InvariantHolds == Spec => []IInv
  BY InitHolds, StepKeeps, PTL DEF Spec

\* The variables have their types, backlog_size above all, which is never negative:
\* what is taken off it was put on it (proto_watch.c 71-146, 501-571).
THEOREM TypeCorrect == Spec => []TypeOK
<1>1. IInv => TypeOK
  BY DEF IInv
<1> QED BY <1>1, InvariantHolds, PTL

\* No message is lost or freed twice, whoever sends and whenever the watch is killed
\* and freed, and the size of the backlog is what is in it and within its limit.
THEOREM MessagesCorrect == Spec => []MessagesAccounted
<1>1. IInv => MessagesAccounted
  BY DEF IInv
<1> QED BY <1>1, InvariantHolds, PTL

\* Text that waits is being watched for, or will be.
THEOREM TextNotStranded == Spec => []NoStrandedText
<1>1. IInv => NoStrandedText
  <2> SUFFICES ASSUME IInv, Text # <<>>, ev.phase \in {"ready", "queued", "watched"}, ~Asking
               PROVE  ev.want /\ (ev.io \/ ev.modify > 0 \/ ev.phase # "watched" \/ Pushing)
    BY DEF NoStrandedText
  <2>1. ev.want
    BY DEF IInv, Heard
  <2>2. ev.phase = "watched" => ev.io \/ ev.modify > 0 \/ Pushing
    BY <2>1 DEF IInv, Heard
  <2> QED BY <2>1, <2>2
<1> QED BY <1>1, InvariantHolds, PTL

\* The references are those of the owners, and the last frees the watch.
THEOREM ReferencesCorrect == Spec => []ReferencesConserved
<1>1. IInv => ReferencesConserved
  BY DEF IInv
<1> QED BY <1>1, InvariantHolds, PTL

\* Nothing is sent after the kill.
THEOREM SilenceAfterKill == Spec => SilentAfterKill
<1>1. IInv /\ [Next]_vars => [pw.killed => sent' = sent]_vars
  <2> SUFFICES ASSUME IInv, Next, pw.killed PROVE sent' = sent
    BY DEF vars
  <2>1. ASSUME NEW t \in Procs, Call(t) PROVE sent' = sent
    BY <2>1 DEF Call, network_client_send_mb, proto_watch_attach, proto_watch_set_dst,
                network_client_self_kill
  <2>2. ASSUME NEW t \in Procs, Continue(t) PROVE sent' = sent
    BY <2>2 DEF Continue, WriteKilled, WriteDirectly, WriteBacklog, AddEventsLook,
                AddEventsSet, AddEventsPush, proto_watch_unref, proto_watch_kill
  <2>3. CASE LoopOperation
    BY <2>3 DEF LoopOperation, Enter, Modify, Leave, data
  <2>4. ~Send
    BY Watched DEF Send
  <2>5. CASE LoopContinues
    BY <2>4, <2>5 DEF LoopContinues, Drop, proto_watch_dispath, WriteNext, WriteEmpty,
                      SendAgain, SendFails, RemoveEventsClear, RemoveEventsApply, Parse,
                      RecvReturns, Close, data
  <2>6. CASE DispatchIo \/ Dispatch({"TIMER"})
    BY <2>6 DEF DispatchIo, Dispatch, data
  <2> QED BY <2>1, <2>2, <2>3, <2>5, <2>6 DEF Next
<1> QED BY <1>1, InvariantHolds, PTL DEF Spec, SilentAfterKill

-----------------------------------------------------------------------------
(* The bytes of a list of messages *)

\* What is left of a message is bytes of it.
LEMMA UnsentType ==
  ASSUME NEW mb \in Mb, NEW S
  PROVE  /\ Unsent(mb) \in Seq(MbIds)
         /\ mb.n \in S => Without(Unsent(mb), S) = <<>>
         /\ mb.n \notin S => Without(Unsent(mb), S) = Unsent(mb)
<1>1. mb.size \in Nat /\ mb.off \in Nat
  BY SizesAssumption DEF Mb
<1> DEFINE k == mb.size - mb.off
<1>2. CASE k \in Nat
  BY <1>2, WithoutBytes DEF Unsent
<1>3. CASE k \notin Nat
  <2>1. 1..k = {}
    BY <1>1, <1>3
  <2>2. Unsent(mb) = <<>>
    <3> HIDE DEF k
    <3>1. Bytes(mb, k) = <<>>
      BY <2>1 DEF Bytes
    <3> QED BY <3>1 DEF Unsent, k
  <2>3. Without(<<>>, S) = <<>>
    BY WithoutNothing
  <2> QED BY <2>2, <2>3
<1> QED BY <1>2, <1>3

\* A message behind some bytes.
Behind(bytes, mb) == bytes \o Unsent(mb)

\* The bytes of a list are those of its entries, one after the other.
LEMMA BytesRun ==
  ASSUME NEW list \in Seq(Mb)
  PROVE  \E f : /\ f \in [0..Len(list) -> Seq(MbIds)]
                /\ f[0] = <<>>
                /\ \A i \in 1..Len(list) : f[i] = Behind(f[i - 1], list[i])
                /\ BytesOf(list) = f[Len(list)]
<1> DEFINE op == [p \in Seq(MbIds) \X Mb |-> Behind(p[1], p[2])]
           W == Seq(MbIds)
           base == <<>>
           Def(f) == f = [i \in 0..Len(list) |->
                            IF i = 0 THEN <<>> ELSE Behind(f[i - 1], list[i])]
<1>1. \A m \in Mb : Unsent(m) \in Seq(MbIds)
  BY UnsentType
<1>2. op \in [W \X Mb -> W] /\ base \in W
  BY <1>1 DEF Behind
<1>3. \A a \in W, m \in Mb : op[<<a, m>>] = Behind(a, m)
  OBVIOUS
<1>4. PICK f : Runs(f, list, W, base, op)
  <2> HIDE DEF W, base, op
  <2> QED BY <1>2, ListRecursion
<1>5. Len(list) \in Nat /\ f \in [0..Len(list) -> W]
  BY <1>4 DEF Runs
<1>6. ASSUME NEW i \in 0..Len(list)
      PROVE  f[i] = IF i = 0 THEN <<>> ELSE Behind(f[i - 1], list[i])
  <2>1. CASE i = 0
    BY <1>4, <2>1 DEF Runs
  <2>2. CASE i # 0
    <3>1. i - 1 \in 0..Len(list) /\ i \in 1..Len(list)
      BY <1>5, <2>2
    <3>2. f[i - 1] \in W /\ list[i] \in Mb
      BY <1>5, <3>1
    <3>3. f[i] = op[<<f[i - 1], list[i]>>]
      BY <1>4, <2>2 DEF Runs
    <3>4. op[<<f[i - 1], list[i]>>] = Behind(f[i - 1], list[i])
      <4> HIDE DEF op, W
      <4> QED BY <1>3, <3>2
    <3> QED BY <2>2, <3>3, <3>4
  <2> QED BY <2>1, <2>2
<1>7. Def(f)
  BY <1>5, <1>6
<1> DEFINE bytes == CHOOSE g : Def(g)
<1>8. Def(bytes)
  <2> HIDE DEF Def
  <2> QED BY <1>7
<1>9. BytesOf(list) = bytes[Len(list)]
  BY DEF BytesOf, Behind
<1>10. ASSUME NEW g, Def(g)
       PROVE  \A i \in 0..Len(list) : g[i] = f[i]
  <2> DEFINE Same == {n \in Nat : n <= Len(list) => g[n] = f[n]}
  <2>1. 0 \in Same
    BY <1>5, <1>6, <1>10
  <2>2. ASSUME NEW n \in Same PROVE n + 1 \in Same
    <3> SUFFICES ASSUME n + 1 <= Len(list) PROVE g[n + 1] = f[n + 1]
      OBVIOUS
    <3>1. n \in Nat /\ g[n] = f[n] /\ n + 1 \in 0..Len(list) /\ n + 1 # 0 /\ n + 1 - 1 = n
      BY <1>5, <2>2
    <3>2. f[n + 1] = Behind(f[n], list[n + 1])
      BY <1>6, <3>1
    <3>3. g[n + 1] = Behind(g[n], list[n + 1])
      BY <1>10, <3>1
    <3> QED BY <3>1, <3>2, <3>3
  <2>3. Same = Nat
    <3>1. Same \in SUBSET Nat
      OBVIOUS
    <3> HIDE DEF Same
    <3> QED BY <2>1, <2>2, <3>1, NatSetInduction
  <2>4. \A i \in 0..Len(list) : i \in Same
    BY <2>3
  <2> QED BY <2>4
<1>11. BytesOf(list) = f[Len(list)]
  <2>1. \A i \in 0..Len(list) : bytes[i] = f[i]
    <3> HIDE DEF bytes, Def
    <3> QED BY <1>8, <1>10
  <2>2. Len(list) \in 0..Len(list)
    BY <1>5
  <2> HIDE DEF bytes
  <2> QED BY <1>9, <2>1, <2>2
<1>12. f[0] = <<>> /\ \A i \in 1..Len(list) : f[i] = Behind(f[i - 1], list[i])
  BY <1>5, <1>6
<1> QED BY <1>5, <1>11, <1>12

\* No message, no bytes.
LEMMA NoBytes == BytesOf(<<>>) = <<>>
<1>1. <<>> \in Seq(Mb) /\ Len(<<>>) = 0
  OBVIOUS
<1> QED BY <1>1, BytesRun

\* A message more at the end.
LEMMA BytesAppend ==
  ASSUME NEW list \in Seq(Mb), NEW x \in Mb
  PROVE  /\ BytesOf(list) \in Seq(MbIds)
         /\ BytesOf(Append(list, x)) = BytesOf(list) \o Unsent(x)
<1> DEFINE longer == Append(list, x)
<1>1. /\ longer \in Seq(Mb) /\ Len(longer) = Len(list) + 1 /\ Len(list) \in Nat
      /\ longer[Len(list) + 1] = x /\ \A i \in 1..Len(list) : longer[i] = list[i]
  OBVIOUS
<1> HIDE DEF longer
<1>2. PICK f : /\ f \in [0..Len(list) -> Seq(MbIds)] /\ f[0] = <<>>
               /\ \A i \in 1..Len(list) : f[i] = Behind(f[i - 1], list[i])
               /\ BytesOf(list) = f[Len(list)]
  BY BytesRun
<1>3. PICK g : /\ g \in [0..Len(longer) -> Seq(MbIds)] /\ g[0] = <<>>
               /\ \A i \in 1..Len(longer) : g[i] = Behind(g[i - 1], longer[i])
               /\ BytesOf(longer) = g[Len(longer)]
  BY <1>1, BytesRun
<1> DEFINE Same == {n \in Nat : n <= Len(list) => f[n] = g[n]}
<1>4. 0 \in Same
  BY <1>2, <1>3
<1>5. ASSUME NEW n \in Same PROVE n + 1 \in Same
  <2> SUFFICES ASSUME n + 1 <= Len(list) PROVE f[n + 1] = g[n + 1]
    OBVIOUS
  <2>1. /\ n \in Nat /\ f[n] = g[n] /\ n + 1 \in 1..Len(list) /\ n + 1 \in 1..Len(longer)
        /\ n + 1 - 1 = n /\ longer[n + 1] = list[n + 1]
    BY <1>1, <1>5
  <2>2. f[n + 1] = Behind(f[n], list[n + 1])
    BY <1>2, <2>1
  <2>3. g[n + 1] = Behind(g[n], longer[n + 1])
    BY <1>3, <2>1
  <2> QED BY <2>1, <2>2, <2>3
<1>6. f[Len(list)] = g[Len(list)]
  <2>1. Same \in SUBSET Nat
    OBVIOUS
  <2>2. Same = Nat
    <3> HIDE DEF Same
    <3> QED BY <1>4, <1>5, <2>1, NatSetInduction
  <2> QED BY <1>1, <2>2
<1>7. g[Len(list) + 1] = Behind(g[Len(list)], x)
  <2>1. Len(list) + 1 \in 1..Len(longer) /\ Len(list) + 1 - 1 = Len(list)
    BY <1>1
  <2> QED BY <1>1, <1>3, <2>1
<1>9. BytesOf(list) \in Seq(MbIds)
  BY <1>1, <1>2
<1> QED BY <1>1, <1>2, <1>3, <1>6, <1>7, <1>9 DEF longer, Behind

\* The byte sequences of three lists in a row.
LEMMA IdsConcat ==
  ASSUME NEW a \in Seq(MbIds), NEW b \in Seq(MbIds), NEW c \in Seq(MbIds)
  PROVE  (a \o b) \o c = a \o (b \o c)
  BY ConcatAssociative

\* Lists that follow each other.
LEMMA BytesConcat ==
  ASSUME NEW s \in Seq(Mb), NEW t \in Seq(Mb)
  PROVE  BytesOf(s \o t) = BytesOf(s) \o BytesOf(t)
<1> DEFINE Ok(r) == BytesOf(s \o r) = BytesOf(s) \o BytesOf(r)
           Good == {r \in Seq(Mb) : Ok(r)}
<1>0. BytesOf(s) \in Seq(MbIds)
  <2>1. PICK f : /\ f \in [0..Len(s) -> Seq(MbIds)] /\ BytesOf(s) = f[Len(s)]
    BY BytesRun
  <2>2. Len(s) \in 0..Len(s)
    OBVIOUS
  <2> QED BY <2>1, <2>2
<1>1. <<>> \in Good
  <2>1. <<>> \in Seq(Mb) /\ s \o <<>> = s
    OBVIOUS
  <2>2. BytesOf(<<>>) = <<>>
    BY NoBytes
  <2>3. BytesOf(s) \o <<>> = BytesOf(s)
    BY <1>0
  <2> QED BY <2>1, <2>2, <2>3
<1>2. ASSUME NEW r \in Good, NEW x \in Mb PROVE Append(r, x) \in Good
  <2> DEFINE sr == s \o r
             a == BytesOf(s)
             b == BytesOf(r)
             u == Unsent(x)
  <2>0. r \in Seq(Mb) /\ BytesOf(sr) = a \o b
    BY <1>2
  <2>1. s \o Append(r, x) = Append(sr, x) /\ sr \in Seq(Mb) /\ Append(r, x) \in Seq(Mb)
    BY <2>0
  <2>2. a \in Seq(MbIds) /\ b \in Seq(MbIds) /\ u \in Seq(MbIds)
    BY <1>0, <2>0, BytesAppend, UnsentType
  <2>3. BytesOf(Append(sr, x)) = BytesOf(sr) \o u
    <3> HIDE DEF sr
    <3> QED BY <2>1, BytesAppend
  <2>4. BytesOf(Append(r, x)) = b \o u
    BY <2>0, BytesAppend
  <2>5. (a \o b) \o u = a \o (b \o u)
    <3> HIDE DEF a, b, u, sr, Ok, Good
    <3> QED BY <2>2, IdsConcat
  <2>6. Ok(Append(r, x))
    BY <2>0, <2>1, <2>3, <2>4, <2>5
  <2> HIDE DEF Ok
  <2> QED BY <2>1, <2>6
<1>3. Good = Seq(Mb)
  <2>1. Good \in SUBSET Seq(Mb)
    OBVIOUS
  <2> HIDE DEF Good
  <2> QED BY <1>1, <1>2, <2>1, ListInduction
<1> QED BY <1>3

\* To take messages out of a list is to take their bytes out of its bytes.
LEMMA BytesWithout ==
  ASSUME NEW list \in Seq(Mb), NEW D, NEW N,
         \A a \in ToSet(list) : a.n \in N <=> a \in D
  PROVE  Without(BytesOf(list), N) = BytesOf(Without(list, D))
<1> DEFINE Splits(s) == \A i \in DOMAIN s : s[i].n \in N <=> s[i] \in D
           Ok(s) == Splits(s) => Without(BytesOf(s), N) = BytesOf(Without(s, D))
           Good == {s \in Seq(Mb) : Ok(s)}
<1>0. \A S : Without(<<>>, S) = <<>>
  BY WithoutNothing
<1>1. <<>> \in Good
  <2>1. <<>> \in Seq(Mb)
    OBVIOUS
  <2>2. BytesOf(<<>>) = <<>>
    BY NoBytes
  <2> QED BY <1>0, <2>1, <2>2
<1>2. ASSUME NEW s \in Good, NEW x \in Mb PROVE Append(s, x) \in Good
  <2> DEFINE l == Append(s, x)
  <2>0. s \in Seq(Mb) /\ Ok(s)
    BY <1>2
  <2>1. /\ l \in Seq(Mb) /\ DOMAIN l = 1..(Len(s) + 1) /\ DOMAIN s = 1..Len(s) /\ Len(s) \in Nat
        /\ l[Len(s) + 1] = x /\ \A i \in 1..Len(s) : l[i] = s[i]
    BY <2>0
  <2> SUFFICES ASSUME Splits(l) PROVE Without(BytesOf(l), N) = BytesOf(Without(l, D))
    BY <2>1
  <2>2. (x.n \in N <=> x \in D) /\ Splits(s)
    <3> HIDE DEF l
    <3>1. Len(s) + 1 \in DOMAIN l /\ \A i \in DOMAIN s : i \in DOMAIN l /\ l[i] = s[i]
      BY <2>1
    <3> QED BY <2>1, <3>1
  <2>3. Without(BytesOf(s), N) = BytesOf(Without(s, D))
    BY <2>0, <2>2
  <2> DEFINE b == BytesOf(s)
             w == Without(s, D)
             u == Unsent(x)
  <2>4. b \in Seq(MbIds) /\ u \in Seq(MbIds) /\ w \in Seq(Mb)
    BY <2>0, BytesAppend, UnsentType, WithoutEntries
  <2>5. BytesOf(l) = b \o u
    BY <2>0, BytesAppend
  <2>6. Without(b \o u, N) = BytesOf(w) \o Without(u, N)
    <3>1. Without(b \o u, N) = Without(b, N) \o Without(u, N)
      <4> HIDE DEF b, u, w, l, Ok, Good, Splits
      <4> QED BY <2>4, WithoutConcat
    <3> QED BY <2>3, <3>1
  <2>7. BytesOf(w) \in Seq(MbIds) /\ BytesOf(Append(w, x)) = BytesOf(w) \o u
    <3> HIDE DEF w
    <3> QED BY <2>4, BytesAppend
  <2>8. CASE x \in D
    <3>1. Without(l, D) = w
      BY <2>0, <2>8, WithoutAppend
    <3>2. Without(u, N) = <<>>
      BY <2>2, <2>8, UnsentType
    <3>3. BytesOf(w) \o <<>> = BytesOf(w)
      BY <2>7
    <3> QED BY <2>5, <2>6, <3>1, <3>2, <3>3
  <2>9. CASE x \notin D
    <3>1. Without(l, D) = Append(w, x)
      BY <2>0, <2>9, WithoutAppend
    <3>2. Without(u, N) = u
      BY <2>2, <2>9, UnsentType
    <3> QED BY <2>5, <2>6, <2>7, <3>1, <3>2
  <2> QED BY <2>8, <2>9
<1>3. Good = Seq(Mb)
  <2>1. Good \in SUBSET Seq(Mb)
    OBVIOUS
  <2> HIDE DEF Good
  <2> QED BY <1>1, <1>2, <2>1, ListInduction
<1>4. Splits(list)
  BY DEF ToSet
<1> QED BY <1>3, <1>4

\* Sent bytes leave from the front.
LEMMA RestBytes ==
  ASSUME NEW mb \in Mb, NEW k \in Nat, NEW j \in 0..k, NEW s \in Seq(MbIds)
  PROVE  Rest(Bytes(mb, k) \o s, j) = Bytes(mb, k - j) \o s
<1> DEFINE b == Bytes(mb, k)
           c == Bytes(mb, k - j)
           l == Rest(b \o s, j)
           r == c \o s
<1>1. k - j \in Nat /\ j \in Nat /\ Len(s) \in Nat
  OBVIOUS
<1>2. /\ b \in Seq(MbIds) /\ Len(b) = k /\ \A i \in 1..k : b[i] = mb.n
      /\ c \in Seq(MbIds) /\ Len(c) = k - j /\ \A i \in 1..(k - j) : c[i] = mb.n
  <2>1. mb.n \in MbIds
    BY DEF Mb
  <2> QED BY <1>1, <2>1 DEF Bytes
<1> HIDE DEF b, c
<1> DEFINE n == k - j + Len(s)
<1>3. l \in Seq(MbIds) /\ Len(l) = n /\ \A i \in 1..n : l[i] = (b \o s)[j + i]
  <2>1. b \o s \in Seq(MbIds) /\ Len(b \o s) = k + Len(s)
    BY <1>2
  <2> DEFINE bs == b \o s
  <2> HIDE DEF bs
  <2>2. bs \in Seq(MbIds) /\ Len(bs) = k + Len(s)
    BY <2>1 DEF bs
  <2>3. /\ SubSeq(bs, j + 1, Len(bs)) \in Seq(MbIds)
        /\ Len(SubSeq(bs, j + 1, Len(bs))) = n
        /\ \A i \in 1..n : SubSeq(bs, j + 1, Len(bs))[i] = bs[j + i]
    BY <1>1, <2>2
  <2>4. l = SubSeq(bs, j + 1, Len(bs))
    BY DEF bs, Rest
  <2> HIDE DEF l
  <2> QED BY <2>3, <2>4 DEF bs
<1> HIDE DEF l
<1>4. r \in Seq(MbIds) /\ Len(r) = n
  BY <1>1, <1>2
<1>5. ASSUME NEW i \in 1..n PROVE l[i] = r[i]
  <2>1. CASE i <= k - j
    <3>1. j + i \in 1..k /\ i \in 1..(k - j)
      BY <1>1, <2>1
    <3>2. (b \o s)[j + i] = b[j + i] /\ r[i] = c[i]
      BY <1>1, <1>2, <3>1
    <3> QED BY <1>2, <1>3, <3>1, <3>2
  <2>2. CASE i > k - j
    <3>1. j + i > k /\ j + i <= k + Len(s) /\ j + i - k = i - (k - j)
      BY <1>1, <2>2
    <3>2. (b \o s)[j + i] = s[j + i - k]
      BY <1>1, <1>2, <3>1
    <3>3. r[i] = s[i - (k - j)]
      BY <1>1, <1>2, <2>2
    <3>4. s[j + i - k] = s[i - (k - j)]
      BY <3>1
    <3>5. l[i] = (b \o s)[j + i]
      BY <1>3
    <3> QED BY <3>2, <3>3, <3>4, <3>5
  <2>3. i <= k - j \/ i > k - j
    BY <1>1
  <2> HIDE DEF r
  <2> QED BY <2>1, <2>2, <2>3
<1> HIDE DEF l, r
<1>6. l = r
  BY <1>1, <1>3, <1>4, <1>5, SeqEqual
<1> QED BY <1>6 DEF l, r, b, c

-----------------------------------------------------------------------------
(* The stream *)

\* Nobody begins to write.
SameWriters == \A u \in Procs : Writing(u)' => Writing(u) /\ MbOf(u)' = MbOf(u)

\* as when one of them leaves the write.
LEMMA WritersStay ==
  ASSUME NEW t \in Procs, proc'[t].pc # "write", \A u \in Procs \ {t} : proc'[u] = proc[u]
  PROVE  SameWriters
BY DEF SameWriters, Writing, MbOf

\* A thread that takes a step of a call that is not its first.
LEMMA CallersStay ==
  ASSUME TypeOK, NEW t \in Procs, NEW from, NEW to \in CalmPcs,
         \/ proc' = [proc EXCEPT ![t] = At(to, <<>>)]
         \/ Step(t, from, to)
         \/ WriteEnds(t, to)
  PROVE  SameWriters
<1>1. proc \in [Procs -> ThreadType] /\ to # "write" /\ At(to, <<>>).pc = to
  BY DEF TypeOK, CalmPcs, At
<1>2. \A p \in ThreadType : [p EXCEPT !.pc = to].pc = to
  BY DEF ThreadType
<1>3. CASE proc' = [proc EXCEPT ![t] = At(to, <<>>)] \/ WriteEnds(t, to)
  <2>1. proc' = [proc EXCEPT ![t] = At(to, <<>>)]
    BY <1>3 DEF WriteEnds
  <2>2. proc'[t].pc # "write" /\ \A u \in Procs \ {t} : proc'[u] = proc[u]
    BY <1>1, <2>1
  <2> QED BY <2>2, WritersStay
<1>4. CASE Step(t, from, to)
  <2>1. proc' = [proc EXCEPT ![t].pc = to]
    BY <1>4 DEF Step
  <2>2. proc'[t] = [proc[t] EXCEPT !.pc = to] /\ proc[t] \in ThreadType
        /\ \A u \in Procs \ {t} : proc'[u] = proc[u]
    BY <1>1, <2>1
  <2>3. proc'[t].pc # "write"
    BY <1>1, <1>2, <2>2
  <2> QED BY <2>2, <2>3, WritersStay
<1> QED BY <1>3, <1>4

\* Where the buffers are left alone they are intact.
LEMMA StreamStays ==
  ASSUME IInv, Apart, StreamIntact, UNCHANGED <<write_buffer, backlog_list, due>>,
         broken => broken', pw'.mem = "live" => pw.mem = "live",
         written' \in Nat, written' >= written,
         \A u \in Procs : Writing(u)' => \/ Writing(u) /\ MbOf(u)' = MbOf(u)
                                         \/ MbOf(u)'.off = 0 /\ MbOf(u)'.n > written
  PROVE  Apart' /\ StreamIntact'
<1>1. written \in Nat /\ write_buffer \in Seq(Mb)
  BY DEF IInv, TypeOK
<1>2. \A a \in ToSet(write_buffer) : a.n \in Nat
  <2>1. \A a \in ToSet(write_buffer) : a \in Mb
    BY <1>1 DEF ToSet
  <2>2. \A a \in Mb : a.n \in Nat
    BY LimitsAssumption DEF Mb, MbIds
  <2> QED BY <2>1, <2>2
<1>3. Apart'
  <2>1. \A u \in Procs : Writing(u)' => MbOf(u)'.off = 0
    BY DEF Apart
  <2>2. ASSUME NEW a \in ToSet(write_buffer) PROVE a.n <= written'
    BY <1>1, <1>2 DEF Apart
  <2>3. ASSUME NEW a \in ToSet(write_buffer), NEW u \in Procs, Writing(u)'
        PROVE  MbOf(u)'.n # a.n
    <3>1. CASE Writing(u) /\ MbOf(u)' = MbOf(u)
      BY <3>1 DEF Apart
    <3>2. CASE MbOf(u)'.n > written
      <4>1. a.n <= written
        BY DEF Apart
      <4>2. ~ (a.n > written)
        BY <1>1, <1>2, <4>1
      <4> QED BY <3>2, <4>2
    <3> QED BY <2>3, <3>1, <3>2
  <2> HIDE DEF ToSet
  <2> QED BY <2>1, <2>2, <2>3 DEF Apart
<1>4. StreamIntact'
  BY DEF StreamIntact, Text
<1> QED BY <1>3, <1>4

\* A step that leaves buffers and writers alone.
LEMMA StreamRests ==
  ASSUME IInv, Apart, StreamIntact, UNCHANGED <<write_buffer, backlog_list, due, written>>,
         broken => broken', pw'.mem = "live" => pw.mem = "live", SameWriters
  PROVE  Apart' /\ StreamIntact'
<1>1. written' \in Nat /\ written' >= written
  BY DEF IInv, TypeOK
<1> QED BY <1>1, StreamStays DEF SameWriters

\* A reference is dropped, the last or not.
LEMMA StreamReleased ==
  ASSUME IInv, Apart, StreamIntact, Release, UNCHANGED <<broken, written>>, SameWriters
  PROVE  Apart' /\ StreamIntact'
<1>1. CASE refs > 1
  BY <1>1, StreamRests DEF Release, buffers
<1>2. CASE ~ (refs > 1)
  <2>1. write_buffer' = <<>> /\ backlog_list' = <<>> /\ due' = <<>>
    BY <1>2 DEF Release
  <2>2. Text' = <<>> /\ ToSet(write_buffer') = {} /\ ToSet(backlog_list') = {}
    BY <2>1 DEF Text, ToSet
  <2>3. BytesOf(<<>>) = <<>>
    BY NoBytes
  <2>4. StreamIntact'
    <3>1. BytesOf(Text)' = BytesOf(Text')
      OBVIOUS
    <3> QED BY <2>1, <2>2, <2>3, <3>1 DEF StreamIntact
  <2>5. Apart'
    <3> HIDE DEF ToSet
    <3> QED BY <2>2 DEF Apart, SameWriters
  <2> QED BY <2>4, <2>5
<1> QED BY <1>1, <1>2

\* A message before others.
LEMMA BytesHead ==
  ASSUME NEW mb \in Mb, NEW list \in Seq(Mb)
  PROVE  /\ BytesOf(<<mb>> \o list) = Unsent(mb) \o BytesOf(list)
         /\ Unsent(mb) \in Seq(MbIds) /\ BytesOf(list) \in Seq(MbIds)
<1>1. <<>> \in Seq(Mb) /\ <<mb>> \in Seq(Mb) /\ Append(<<>>, mb) = <<mb>>
  OBVIOUS
<1>2. Unsent(mb) \in Seq(MbIds) /\ BytesOf(list) \in Seq(MbIds)
  BY UnsentType, BytesAppend
<1>3. BytesOf(<<mb>>) = <<>> \o Unsent(mb)
  BY <1>1, NoBytes, BytesAppend
<1>4. <<>> \o Unsent(mb) = Unsent(mb)
  BY <1>2
<1>5. BytesOf(<<mb>> \o list) = BytesOf(<<mb>>) \o BytesOf(list)
  BY <1>1, BytesConcat
<1> QED BY <1>2, <1>3, <1>4, <1>5

\* What is sent of the write buffer is what leaves the stream.
LEMMA SendStream ==
  ASSUME IInv, Apart, StreamIntact, Send
  PROVE  Apart' /\ StreamIntact'
<1>0. /\ loop.pc = "write" /\ write_buffer # <<>> /\ ~broken
      /\ UNCHANGED <<pw, backlog_list, proc, broken, written>>
  BY DEF Send, given
<1>1. /\ write_buffer \in Seq(Mb) /\ Len(write_buffer) <= 1 /\ backlog_list \in Seq(Mb)
  BY <1>0, Buffers
<1>2. pw.mem = "live"
  BY <1>0, Watched, BusyLives
<1> DEFINE mb == write_buffer[1]
           rest == BytesOf(backlog_list)
<1>3. mb \in Mb /\ write_buffer = <<mb>> /\ mb \in ToSet(write_buffer)
      /\ \A a \in ToSet(write_buffer) : a = mb
  <2>1. ToSet(write_buffer) = {mb} /\ mb \in Mb /\ write_buffer = <<mb>>
    <3> HIDE DEF ToSet
    <3> QED BY <1>0, <1>1, OneEntry
  <2> HIDE DEF mb, ToSet
  <2> QED BY <2>1
<1>4. PICK k \in 1..(mb.size - mb.off) :
        /\ due' = Rest(due, k)
        /\ write_buffer' = IF mb.off + k = mb.size THEN <<>> ELSE <<[mb EXCEPT !.off = @ + k]>>
  BY DEF Send
<1>5. due = Unsent(mb) \o rest /\ rest \in Seq(MbIds)
  <2>1. due = BytesOf(<<mb>> \o backlog_list)
    BY <1>0, <1>2, <1>3 DEF StreamIntact, Text
  <2> HIDE DEF mb
  <2> QED BY <1>1, <1>3, <2>1, BytesHead
<1> HIDE DEF mb, rest
<1> DEFINE left == mb.size - mb.off
           m == [mb EXCEPT !.off = @ + k]
<1>6. mb.size \in Nat /\ mb.off \in Nat /\ mb.off < mb.size /\ left \in Nat /\ k \in 0..left /\ k \in Nat
  <2>1. mb.size \in Nat /\ mb.off \in Nat
    BY <1>3, SizesAssumption DEF Mb
  <2> QED BY <1>4, <2>1
<1>7. due' = Bytes(mb, left - k) \o rest
  <2>1. Rest(Bytes(mb, left) \o rest, k) = Bytes(mb, left - k) \o rest
    <3> HIDE DEF left
    <3> QED BY <1>3, <1>5, <1>6, RestBytes
  <2> QED BY <1>4, <1>5, <2>1 DEF Unsent
<1>8. SameWriters
  BY <1>0 DEF SameWriters, Writing, MbOf
<1>9. CASE mb.off + k = mb.size
  <2>1. write_buffer' = <<>> /\ left - k = 0
    BY <1>4, <1>6, <1>9
  <2>2. due' = rest
    <3>1. Bytes(mb, 0) = <<>>
      BY DEF Bytes
    <3>2. due' = Bytes(mb, 0) \o rest
      BY <1>7, <2>1
    <3> QED BY <1>5, <3>1, <3>2
  <2>3. Text' = backlog_list
    BY <1>0, <1>1, <2>1 DEF Text
  <2>4. StreamIntact'
    <3>1. BytesOf(Text)' = BytesOf(Text')
      OBVIOUS
    <3> QED BY <2>2, <2>3, <3>1 DEF StreamIntact, rest
  <2>5. ToSet(write_buffer') = {}
    BY <2>1 DEF ToSet
  <2>6. Apart'
    <3> HIDE DEF ToSet
    <3> QED BY <1>0, <1>8, <2>5 DEF Apart, SameWriters
  <2> QED BY <2>4, <2>6
<1>10. CASE mb.off + k # mb.size
  <2>1. write_buffer' = <<m>> /\ m \in Mb /\ m.n = mb.n /\ m.size = mb.size
        /\ m.off = mb.off + k /\ m.off < m.size
    <3>1. m \in Mb /\ m.n = mb.n /\ m.size = mb.size /\ m.off = mb.off + k
      BY <1>3, <1>6 DEF Mb
    <3> QED BY <1>4, <1>6, <1>10, <3>1
  <2> HIDE DEF m
  <2>2. Unsent(m) = Bytes(mb, left - k)
    <3>1. m.size - m.off = left - k
      BY <1>6, <2>1
    <3> HIDE DEF left
    <3> QED BY <2>1, <3>1 DEF Unsent, Bytes
  <2>3. Text' = <<m>> \o backlog_list
    BY <1>0, <2>1 DEF Text
  <2>4. BytesOf(<<m>> \o backlog_list) = Unsent(m) \o rest
    BY <1>1, <2>1, BytesHead DEF rest
  <2>5. StreamIntact'
    <3>1. BytesOf(Text)' = BytesOf(Text')
      OBVIOUS
    <3> HIDE DEF left
    <3> QED BY <1>7, <2>2, <2>3, <2>4, <3>1 DEF StreamIntact
  <2>6. \A a \in ToSet(write_buffer') : a = m
    BY <2>1 DEF ToSet
  <2>7. Apart'
    <3> HIDE DEF ToSet
    <3> QED BY <1>0, <1>3, <1>8, <2>1, <2>6 DEF Apart, SameWriters
  <2> QED BY <2>5, <2>7
<1> QED BY <1>9, <1>10

\* What a writing thread has, and what it leaves to the others.
LEMMA WriterEnds ==
  ASSUME IInv, Apart, NEW t \in Procs, Writing(t), NEW to \in {"unref", "want"}, WriteEnds(t, to)
  PROVE  /\ SameWriters
         /\ MbOf(t) \in Mb /\ MbOf(t).size \in Nat \ {0} /\ MbOf(t).off = 0
         /\ MbOf(t).n <= written
         /\ \A b \in ToSet(backlog_list) : b.n # MbOf(t).n
         /\ \A a \in ToSet(write_buffer) : a.n # MbOf(t).n
         /\ \A u \in Procs : Writing(u)' => Writing(u) /\ MbOf(u)' = MbOf(u) /\ MbOf(u).n # MbOf(t).n
         /\ Busy # 0
<1>0. TypeOK /\ Numbered
  BY DEF IInv
<1>1. SameWriters
  BY <1>0, CallersStay DEF CalmPcs
<1>2. proc' = [proc EXCEPT ![t] = At(to, <<>>)] /\ proc \in [Procs -> ThreadType]
  BY <1>0 DEF WriteEnds, TypeOK
<1>3. proc'[t].pc # "write"
  BY <1>2 DEF At
<1>4. \A u \in Procs : Writing(u)' => u # t /\ Writing(u) /\ MbOf(u)' = MbOf(u)
  BY <1>1, <1>3 DEF SameWriters, Writing
<1>5. \A u \in Procs : Writing(u) /\ MbOf(u).n = MbOf(t).n => u = t
  BY <1>0 DEF Numbered
<1>6. MbOf(t) \in Mb /\ proc[t] # Idle
  <2>1. proc[t].pc = "write" /\ Idle.pc = "idle"
    BY DEF Writing, Idle, At
  <2> QED BY <1>0, <2>1, ThreadAt
<1>7. MbOf(t).size \in Nat \ {0}
  BY <1>6, SizesAssumption DEF Mb
<1>8. Busy # 0
  <2>1. ~Quiet
    BY <1>6 DEF Quiet
  <2> QED BY <1>0, <2>1, BusyCounts
<1>9. MbOf(t).n <= written /\ \A b \in ToSet(backlog_list) : b.n # MbOf(t).n
  BY <1>0 DEF Numbered
<1>10. MbOf(t).off = 0 /\ \A a \in ToSet(write_buffer) : a.n # MbOf(t).n
  BY DEF Apart
<1> QED BY <1>1, <1>4, <1>5, <1>6, <1>7, <1>8, <1>9, <1>10

\* What is not sent at once waits.
LEMMA DirectStream ==
  ASSUME IInv, Apart, StreamIntact, NEW t \in Procs, WriteDirectly(t)
  PROVE  Apart' /\ StreamIntact'
<1> DEFINE mb == MbOf(t)
<1>0. /\ UNCHANGED <<pw, backlog_list, written>> /\ Writing(t) /\ Text = <<>> /\ TypeOK
  BY DEF WriteDirectly, Writes, Direct, given, Writing, IInv
<1>1. write_buffer = <<>> /\ backlog_list = <<>>
  BY <1>0, TextLength
<1>2. PICK k \in 0..mb.size, to \in {"unref", "want"} :
        /\ WriteEnds(t, to)
        /\ k > 0 => ~broken
        /\ \/ /\ k = mb.size /\ due' = Rest(due \o Bytes(mb, mb.size), k)
              /\ UNCHANGED <<write_buffer, broken>>
           \/ /\ k < mb.size /\ ~broken
              /\ write_buffer' = <<[mb EXCEPT !.off = k]>>
              /\ due' = Rest(due \o Bytes(mb, mb.size), k)
              /\ UNCHANGED broken
           \/ /\ broken' = TRUE
              /\ UNCHANGED <<write_buffer, due>>
  BY DEF WriteDirectly
<1>3. /\ SameWriters /\ mb \in Mb /\ mb.size \in Nat \ {0} /\ mb.off = 0 /\ mb.n <= written
      /\ \A u \in Procs : Writing(u)' => Writing(u) /\ MbOf(u)' = MbOf(u) /\ MbOf(u).n # mb.n
      /\ Busy # 0
  BY <1>0, <1>2, WriterEnds
<1>4. pw.mem = "live" /\ k \in Nat
  BY <1>2, <1>3, BusyLives
<1> DEFINE size == mb.size
<1>5. ~broken => Rest(due \o Bytes(mb, size), k) = Bytes(mb, size - k)
  <2> SUFFICES ASSUME ~broken PROVE Rest(due \o Bytes(mb, size), k) = Bytes(mb, size - k)
    OBVIOUS
  <2>1. due = <<>>
    <3>2. BytesOf(Text) = <<>>
      BY <1>0, NoBytes
    <3> QED BY <1>4, <3>2 DEF StreamIntact
  <2> DEFINE b == Bytes(mb, size)
             c == Bytes(mb, size - k)
  <2>2. b \in Seq(MbIds) /\ c \in Seq(MbIds) /\ size - k \in Nat
    <3>1. size \in Nat /\ size - k \in Nat
      BY <1>2, <1>3, <1>4
    <3> HIDE DEF mb, size
    <3> QED BY <1>3, <3>1, WithoutBytes
  <2>3. Rest(b \o <<>>, k) = c \o <<>>
    <3>1. <<>> \in Seq(MbIds) /\ size \in Nat
      BY <1>3
    <3> HIDE DEF mb, size
    <3> QED BY <1>2, <1>3, <3>1, RestBytes DEF size
  <2> HIDE DEF b, c
  <2>4. b \o <<>> = b /\ c \o <<>> = c /\ <<>> \o b = b
    BY <2>2
  <2>5. Rest(<<>> \o b, k) = c
    BY <2>3, <2>4
  <2> QED BY <2>1, <2>5 DEF b, c
<1>6. CASE write_buffer' = write_buffer
  <2>1. Text' = <<>> /\ ToSet(write_buffer') = {} /\ ToSet(backlog_list') = {}
    BY <1>0, <1>1, <1>6 DEF Text, ToSet
  <2>2. Apart'
    <3> HIDE DEF ToSet
    <3> QED BY <1>3, <2>1 DEF Apart, SameWriters
  <2>3. ~broken' => due' = <<>>
    <3> SUFFICES ASSUME ~broken' PROVE due' = <<>>
      OBVIOUS
    <3>1. ~broken /\ k = size /\ due' = Rest(due \o Bytes(mb, size), k)
      <4>1. write_buffer' # <<[mb EXCEPT !.off = k]>>
        BY <1>1, <1>6
      <4> HIDE DEF mb
      <4> QED BY <1>2, <4>1
    <3>2. due' = Bytes(mb, size - k) /\ size - k = 0
      BY <1>3, <1>5, <3>1
    <3>3. Bytes(mb, 0) = <<>>
      BY DEF Bytes
    <3> HIDE DEF mb, size
    <3> QED BY <3>2, <3>3
  <2>4. BytesOf(Text') = <<>>
    BY <2>1, NoBytes
  <2>5. BytesOf(Text)' = BytesOf(Text')
    OBVIOUS
  <2> QED BY <2>2, <2>3, <2>4, <2>5 DEF StreamIntact
<1>7. CASE write_buffer' # write_buffer
  <2> DEFINE m == [mb EXCEPT !.off = k]
  <2>1. /\ k < size /\ ~broken /\ write_buffer' = <<m>>
        /\ due' = Rest(due \o Bytes(mb, size), k)
    <3> HIDE DEF mb
    <3> QED BY <1>2, <1>7
  <2>2. m \in Mb /\ m.n = mb.n /\ m.size = size /\ m.off = k
    <3> HIDE DEF mb
    <3> QED BY <1>3, <1>4 DEF Mb
  <2> HIDE DEF m
  <2>3. Text' = <<m>> \o <<>> /\ \A a \in ToSet(write_buffer') : a = m
    BY <1>0, <1>1, <2>1 DEF Text, ToSet
  <2>4. ToSet(backlog_list') = {}
    BY <1>0, <1>1 DEF ToSet
  <2>5. Apart'
    <3> HIDE DEF ToSet, mb
    <3> QED BY <1>0, <1>3, <2>1, <2>2, <2>3, <2>4 DEF Apart, SameWriters
  <2>6. BytesOf(Text') = Unsent(m)
    <3>1. <<>> \in Seq(Mb)
      OBVIOUS
    <3>2. BytesOf(<<>>) = <<>> /\ BytesOf(<<m>> \o <<>>) = Unsent(m) \o BytesOf(<<>>)
          /\ Unsent(m) \in Seq(MbIds)
      BY <2>2, <3>1, NoBytes, BytesHead
    <3>3. Unsent(m) \o <<>> = Unsent(m)
      BY <3>2
    <3> QED BY <2>3, <3>2, <3>3
  <2>7. due' = Unsent(m)
    <3> HIDE DEF mb
    <3> QED BY <1>5, <2>1, <2>2 DEF Unsent, Bytes
  <2>8. BytesOf(Text)' = BytesOf(Text')
    OBVIOUS
  <2> QED BY <2>5, <2>6, <2>7, <2>8 DEF StreamIntact
<1> QED BY <1>6, <1>7

\* What the window drops leaves the stream as a whole, and what is queued is its end.
LEMMA BacklogStream ==
  ASSUME IInv, Apart, StreamIntact, NEW t \in Procs, WriteBacklog(t)
  PROVE  Apart' /\ StreamIntact'
<1> DEFINE mb == MbOf(t)
           dropped == proto_watch_adjust_window(mb.seq)
           kept == Without(backlog_list, dropped)
           numbers == {m.n : m \in dropped}
           left == Without(due, numbers)
<1>0. /\ UNCHANGED <<pw, write_buffer, broken, written>> /\ Writing(t) /\ TypeOK
  BY DEF WriteBacklog, Writes, given, Writing, IInv
<1>1. PICK to \in {"unref", "want"} :
        /\ WriteEnds(t, to)
        /\ \/ backlog_list' = Append(kept, mb) /\ due' = left \o Bytes(mb, mb.size)
           \/ backlog_list' = kept /\ due' = left
  BY DEF WriteBacklog
<1>2. dropped \in SUBSET ToSet(backlog_list)
  BY DEF proto_watch_adjust_window, ToSet
<1>3. /\ SameWriters /\ mb \in Mb /\ mb.size \in Nat \ {0} /\ mb.off = 0 /\ mb.n <= written
      /\ \A b \in ToSet(backlog_list) : b.n # mb.n
      /\ \A a \in ToSet(write_buffer) : a.n # mb.n
      /\ \A u \in Procs : Writing(u)' => Writing(u) /\ MbOf(u)' = MbOf(u) /\ MbOf(u).n # mb.n
      /\ Busy # 0
  BY <1>0, <1>1, WriterEnds
<1> HIDE DEF mb, dropped
<1>4. write_buffer \in Seq(Mb) /\ Len(write_buffer) <= 1 /\ backlog_list \in Seq(Mb)
  BY <1>0 DEF TypeOK
<1>5. kept \in Seq(Mb) /\ ToSet(kept) = ToSet(backlog_list) \ dropped
  BY <1>4, WithoutEntries
<1>6. \A a \in ToSet(write_buffer) : a \notin dropped /\ a.n \notin numbers
  BY <1>2 DEF Apart
<1>7. \A a \in ToSet(backlog_list) : a.n \in numbers <=> a \in dropped
  BY <1>2 DEF Apart
<1>8. ~broken => left = BytesOf(write_buffer \o kept)
  <2> SUFFICES ASSUME ~broken PROVE left = BytesOf(write_buffer \o kept)
    OBVIOUS
  <2>1. due = BytesOf(Text) /\ Text \in Seq(Mb)
    <3>1. pw.mem = "live"
      BY <1>3, BusyLives
    <3> QED BY <1>4, <3>1 DEF StreamIntact, Text
  <2>2. \A a \in ToSet(Text) : a.n \in numbers <=> a \in dropped
    <3>1. \A a \in ToSet(Text) : a \in ToSet(write_buffer) \/ a \in ToSet(backlog_list)
      BY <1>4 DEF Text, ToSet
    <3> HIDE DEF ToSet, numbers
    <3> QED BY <1>6, <1>7, <3>1
  <2>3. left = BytesOf(Without(Text, dropped))
    <3> HIDE DEF numbers
    <3> QED BY <2>1, <2>2, BytesWithout
  <2>4. Without(Text, dropped) = Without(write_buffer, dropped) \o kept
    BY <1>4, WithoutConcat DEF Text
  <2>5. Without(write_buffer, dropped) = write_buffer
    <3>1. CASE write_buffer = <<>>
      BY <3>1, WithoutNothing
    <3>2. CASE write_buffer # <<>>
      <4> DEFINE a == write_buffer[1]
      <4>1. a \in Mb /\ write_buffer = <<a>> /\ a \notin dropped
        <5>1. a \in Mb /\ write_buffer = <<a>> /\ ToSet(write_buffer) = {a}
          <6> HIDE DEF ToSet
          <6> QED BY <1>4, <3>2, OneEntry
        <5> HIDE DEF a, ToSet, numbers
        <5> QED BY <1>6, <5>1
      <4> HIDE DEF a
      <4>2. Append(<<>>, a) = <<a>> /\ <<>> \in Seq(Mb)
        OBVIOUS
      <4>3. Without(Append(<<>>, a), dropped) = Append(Without(<<>>, dropped), a)
        <5> DEFINE e == <<>>
        <5>1. e \in Seq(Mb) /\ a \in Mb /\ a \notin dropped
          BY <4>1, <4>2
        <5> HIDE DEF e
        <5>2. Without(Append(e, a), dropped) = Append(Without(e, dropped), a)
          BY <5>1, WithoutAppend
        <5> QED BY <5>2 DEF e
      <4>4. Without(<<>>, dropped) = <<>>
        BY WithoutNothing
      <4> QED BY <4>1, <4>2, <4>3, <4>4
    <3> QED BY <3>1, <3>2
  <2> QED BY <2>3, <2>4, <2>5
<1> HIDE DEF kept, left, numbers
<1>9. Apart'
  <2>1. ToSet(Append(kept, mb)) = ToSet(kept) \cup {mb}
    BY <1>3, <1>5, AppendEntries
  <2>2. \A b \in ToSet(backlog_list') : b \in ToSet(backlog_list) \/ b = mb
    <3> HIDE DEF ToSet
    <3> QED BY <1>1, <1>5, <2>1
  <2> HIDE DEF ToSet
  <2>3. \A a, b \in ToSet(backlog_list') : a.n = b.n => a = b
    BY <1>3, <2>2 DEF Apart
  <2>4. \A a \in ToSet(backlog_list') : a.off = 0
    BY <1>3, <2>2 DEF Apart
  <2>5. ASSUME NEW a \in ToSet(write_buffer)
        PROVE  /\ a.off < a.size /\ a.n <= written
               /\ \A b \in ToSet(backlog_list') : b.n # a.n
               /\ \A u \in Procs : Writing(u)' => MbOf(u)'.n # a.n
    BY <1>3, <2>2 DEF Apart, SameWriters
  <2>6. \A u \in Procs : Writing(u)' => MbOf(u)'.off = 0
    BY <1>3 DEF Apart, SameWriters
  <2> QED BY <1>0, <2>3, <2>4, <2>5, <2>6 DEF Apart
<1>10. StreamIntact'
  <2> SUFFICES ASSUME ~broken PROVE due' = BytesOf(Text')
    BY <1>0 DEF StreamIntact
  <2> DEFINE wk == write_buffer \o kept
  <2>1. left = BytesOf(wk) /\ wk \in Seq(Mb)
    BY <1>4, <1>5, <1>8
  <2>2. CASE backlog_list' = kept /\ due' = left
    <3>1. Text' = wk
      BY <1>0, <2>2 DEF Text
    <3> QED BY <2>1, <2>2, <3>1
  <2>3. CASE backlog_list' = Append(kept, mb) /\ due' = left \o Bytes(mb, mb.size)
    <3>1. write_buffer \o Append(kept, mb) = Append(wk, mb)
      BY <1>3, <1>4, <1>5
    <3>2. Text' = Append(wk, mb)
      BY <1>0, <2>3, <3>1 DEF Text
    <3>3. BytesOf(Append(wk, mb)) = BytesOf(wk) \o Unsent(mb)
      <4> HIDE DEF wk
      <4> QED BY <1>3, <2>1, BytesAppend
    <3>4. Unsent(mb) = Bytes(mb, mb.size)
      <4>1. mb.size - mb.off = mb.size
        BY <1>3
      <4> QED BY <4>1 DEF Unsent
    <3> HIDE DEF wk
    <3> QED BY <2>1, <2>3, <3>2, <3>3, <3>4
  <2> QED BY <1>1, <2>2, <2>3
<1> QED BY <1>9, <1>10

\* The first of the backlog becomes the write buffer.
LEMMA WriteNextStream ==
  ASSUME IInv, Apart, StreamIntact, WriteNext
  PROVE  Apart' /\ StreamIntact'
<1> DEFINE mb == Head(backlog_list)
<1>0. /\ loop.pc = "write" /\ write_buffer = <<>> /\ backlog_list # <<>>
      /\ write_buffer' = <<mb>> /\ backlog_list' = Tail(backlog_list)
      /\ UNCHANGED <<due, pw, proc, broken, written>>
  BY DEF WriteNext, data, given
<1>1. backlog_list \in Seq(Mb) /\ IsInjective(backlog_list)
  BY <1>0, Buffers
<1>2. /\ mb \in Mb /\ Tail(backlog_list) \in Seq(Mb) /\ mb \in ToSet(backlog_list)
      /\ ToSet(Tail(backlog_list)) = ToSet(backlog_list) \ {mb}
  <2>1. mb \in ToSet(backlog_list) /\ Tail(backlog_list) \in Seq(Mb)
        /\ ToSet(Tail(backlog_list)) = ToSet(backlog_list) \ {mb}
    BY <1>0, <1>1, TailEntries
  <2>2. mb \in Mb
    BY <1>0, <1>1
  <2> QED BY <2>1, <2>2
<1>3. Text' = Text
  <2>1. backlog_list = <<mb>> \o Tail(backlog_list)
    BY <1>0, <1>1
  <2>2. Text = backlog_list
    BY <1>0, <1>1 DEF Text
  <2>3. Text' = <<mb>> \o Tail(backlog_list)
    BY <1>0 DEF Text
  <2> QED BY <2>1, <2>2, <2>3
<1>4. StreamIntact'
  BY <1>0, <1>3 DEF StreamIntact
<1>5. mb.size \in Nat \ {0} /\ mb.n <= written /\ mb.off = 0
  <2> HIDE DEF mb, ToSet
  <2> QED BY <1>2, SizesAssumption DEF Mb, IInv, Numbered, Apart
<1>6. \A a \in ToSet(write_buffer') : a = mb
  <2> HIDE DEF mb
  <2> QED BY <1>0 DEF ToSet
<1>7. \A u \in Procs : Writing(u) => \A b \in ToSet(backlog_list) : b.n # MbOf(u).n
  BY DEF IInv, Numbered
<1>8. SameWriters
  BY <1>0 DEF SameWriters, Writing, MbOf
<1>9. Apart'
  <2> HIDE DEF mb, ToSet
  <2>1. mb.off < mb.size
    BY <1>5
  <2>2. \A b \in ToSet(backlog_list') : b \in ToSet(backlog_list) /\ b # mb
    BY <1>0, <1>2
  <2>3. \A b \in ToSet(backlog_list') : b.n # mb.n
    BY <1>2, <2>2 DEF Apart
  <2>4. \A a, b \in ToSet(backlog_list') : a.n = b.n => a = b
    BY <2>2 DEF Apart
  <2>5. \A a \in ToSet(backlog_list') : a.off = 0
    BY <2>2 DEF Apart
  <2>6. \A u \in Procs : Writing(u)' => MbOf(u)'.n # mb.n /\ MbOf(u)'.off = 0
    BY <1>2, <1>7, <1>8 DEF SameWriters, Apart
  <2> QED BY <1>0, <1>5, <1>6, <2>1, <2>3, <2>4, <2>5, <2>6 DEF Apart
<1> QED BY <1>4, <1>9

\* A thread calls or goes on.
LEMMA CallStream ==
  ASSUME IInv, Apart, StreamIntact, NEW t \in Procs, Call(t)
  PROVE  Apart' /\ StreamIntact'
<1>0. TypeOK /\ written \in Nat
  BY DEF IInv, TypeOK
<1>1. CASE network_client_send_mb(t)
  <2>1. /\ UNCHANGED <<pw, write_buffer, backlog_list, due, broken>> /\ written' = written + 1
        /\ proc \in [Procs -> ThreadType]
    BY <1>0, <1>1 DEF network_client_send_mb, TypeOK
  <2>2. PICK m : /\ m.n = written' /\ m.off = 0
                 /\ proc' = [proc EXCEPT ![t] = At("write", <<m>>)]
    BY <1>1 DEF network_client_send_mb
  <2>3. At("write", <<m>>).mb[1] = m
    BY DEF At
  <2>4. \A u \in Procs : Writing(u)' => \/ Writing(u) /\ MbOf(u)' = MbOf(u)
                                        \/ MbOf(u)'.off = 0 /\ MbOf(u)'.n > written
    <3> SUFFICES ASSUME NEW u \in Procs, Writing(u)'
                 PROVE  \/ Writing(u) /\ MbOf(u)' = MbOf(u)
                        \/ MbOf(u)'.off = 0 /\ MbOf(u)'.n > written
      OBVIOUS
    <3>1. CASE u = t
      <4>1. MbOf(u)' = m
        BY <2>1, <2>2, <2>3, <3>1 DEF MbOf
      <4> QED BY <1>0, <2>1, <2>2, <4>1
    <3>2. CASE u # t
      BY <2>1, <2>2, <3>2 DEF Writing, MbOf
    <3> QED BY <3>1, <3>2
  <2>5. written' \in Nat /\ written' >= written
    BY <1>0, <2>1
  <2> QED BY <2>1, <2>4, <2>5, StreamStays
<1>2. CASE proto_watch_attach(t) \/ proto_watch_set_dst(t)
  <2>1. /\ UNCHANGED <<write_buffer, backlog_list, due, broken, written, proc>>
        /\ pw'.mem = pw.mem
    <3>1. pw \in WatchType
      BY <1>0 DEF TypeOK
    <3> QED BY <1>2, <3>1 DEF proto_watch_attach, proto_watch_set_dst, buffers, given, WatchType
  <2>2. SameWriters
    BY <2>1 DEF SameWriters, Writing, MbOf
  <2> QED BY <2>1, <2>2, StreamRests
<1>3. CASE network_client_self_kill(t)
  <2>1. /\ UNCHANGED <<write_buffer, backlog_list, due, broken, written, pw>>
        /\ proc' = [proc EXCEPT ![t] = At("kill", <<>>)]
    BY <1>3 DEF network_client_self_kill, buffers, given
  <2>2. SameWriters
    BY <1>0, <2>1, CallersStay DEF CalmPcs
  <2> QED BY <2>1, <2>2, StreamRests
<1> QED BY <1>1, <1>2, <1>3 DEF Call

\* A call goes on.
LEMMA ContinueStream ==
  ASSUME IInv, Apart, StreamIntact, NEW t \in Procs, Continue(t)
  PROVE  Apart' /\ StreamIntact'
<1>0. TypeOK
  BY DEF IInv
<1>1. CASE WriteKilled(t)
  <2>1. UNCHANGED <<write_buffer, backlog_list, due, broken, written, pw>> /\ WriteEnds(t, "unref")
    BY <1>1 DEF WriteKilled, given
  <2>2. SameWriters
    BY <1>0, <2>1, CallersStay DEF CalmPcs
  <2> QED BY <2>1, <2>2, StreamRests
<1>2. CASE AddEventsLook(t) \/ AddEventsSet(t) \/ AddEventsPush(t) \/ proto_watch_kill(t)
  <2>1. /\ UNCHANGED <<write_buffer, backlog_list, due, broken, written>>
        /\ pw'.mem = pw.mem
    <3>1. pw \in WatchType
      BY <1>0 DEF TypeOK
    <3> QED BY <1>2, <3>1 DEF AddEventsLook, AddEventsSet, AddEventsPush, proto_watch_kill,
                              buffers, given, WatchType
  <2>2. \E to \in CalmPcs : \E from \in CalmPcs : Step(t, from, to)
    <3>1. {"want", "set", "push", "unref", "kill"} \subseteq CalmPcs
      BY DEF CalmPcs
    <3>2. AddEventsLook(t) => Step(t, "want", "unref") \/ Step(t, "want", "set")
      BY DEF AddEventsLook
    <3>3. /\ AddEventsSet(t) => Step(t, "set", "push")
          /\ AddEventsPush(t) => Step(t, "push", "unref")
          /\ proto_watch_kill(t) => Step(t, "kill", "unref")
      BY DEF AddEventsSet, AddEventsPush, proto_watch_kill
    <3> QED BY <1>2, <3>1, <3>2, <3>3
  <2>3. SameWriters
    BY <1>0, <2>2, CallersStay
  <2> QED BY <2>1, <2>3, StreamRests
<1>3. CASE proto_watch_unref(t)
  <2>1. Release /\ UNCHANGED <<broken, written>> /\ Step(t, "unref", "idle")
    BY <1>3 DEF proto_watch_unref, given
  <2>2. SameWriters
    BY <1>0, <2>1, CallersStay DEF CalmPcs
  <2> QED BY <2>1, <2>2, StreamReleased
<1> QED BY <1>1, <1>2, <1>3, DirectStream, BacklogStream DEF Continue

\* The loop goes on.
LEMMA LoopStream ==
  ASSUME IInv, Apart, StreamIntact,
         LoopOperation \/ LoopContinues \/ DispatchIo \/ Dispatch({"TIMER"}) \/ UNCHANGED vars
  PROVE  Apart' /\ StreamIntact'
<1>1. CASE Modify \/ Drop
  <2>1. Release /\ UNCHANGED <<broken, written, proc>>
    BY <1>1 DEF Modify, Drop, data, given
  <2>2. SameWriters
    BY <2>1 DEF SameWriters, Writing, MbOf
  <2> QED BY <2>1, <2>2, StreamReleased
<1>2. CASE Enter \/ Leave \/ proto_watch_dispath \/ WriteEmpty \/ SendAgain \/ SendFails
           \/ RemoveEventsClear \/ RemoveEventsApply \/ Parse \/ RecvReturns \/ Close
           \/ DispatchIo \/ Dispatch({"TIMER"}) \/ UNCHANGED vars
  <2>1. pw \in WatchType /\ broken \in BOOLEAN
    BY DEF IInv, TypeOK
  <2>2. UNCHANGED <<write_buffer, backlog_list, due, written, proc>>
    BY <1>2 DEF Enter, Leave, proto_watch_dispath, WriteEmpty, SendAgain, SendFails,
                RemoveEventsClear, RemoveEventsApply, Parse, RecvReturns, Close, DispatchIo,
                Dispatch, vars, buffers, data, given
  <2>3. broken => broken'
    BY <1>2 DEF Enter, Leave, proto_watch_dispath, WriteEmpty, SendAgain, SendFails,
                RemoveEventsClear, RemoveEventsApply, Parse, RecvReturns, Close, DispatchIo,
                Dispatch, vars, buffers, data, given
  <2>4. pw'.mem = pw.mem
    <3>1. \/ pw' = pw \/ pw' = [pw EXCEPT !.connecting = FALSE]
          \/ pw' = [pw EXCEPT !.fd = "closed"]
      BY <1>2 DEF Enter, Leave, proto_watch_dispath, WriteEmpty, SendAgain, SendFails,
                  RemoveEventsClear, RemoveEventsApply, Parse, RecvReturns, Close, DispatchIo,
                  Dispatch, vars
    <3> QED BY <2>1, <3>1 DEF WatchType
  <2>5. SameWriters
    BY <2>2 DEF SameWriters, Writing, MbOf
  <2> QED BY <2>2, <2>3, <2>4, <2>5, StreamRests
<1> QED BY <1>1, <1>2, SendStream, WriteNextStream DEF LoopOperation, LoopContinues

\* The buffers hold nothing at the start.
LEMMA StreamBegins == Init => Apart /\ StreamIntact
<1> SUFFICES ASSUME Init PROVE Apart /\ StreamIntact
  OBVIOUS
<1>1. write_buffer = <<>> /\ backlog_list = <<>> /\ due = <<>> /\ \A t \in Procs : ~Writing(t)
  BY DEF Init, Writing, Idle, At
<1>2. ToSet(write_buffer) = {} /\ ToSet(backlog_list) = {} /\ Text = <<>>
  BY <1>1 DEF ToSet, Text
<1>3. BytesOf(<<>>) = <<>>
  BY NoBytes
<1>4. StreamIntact
  BY <1>1, <1>2, <1>3 DEF StreamIntact
<1>5. Apart
  <2> HIDE DEF ToSet
  <2> QED BY <1>1, <1>2 DEF Apart
<1> QED BY <1>4, <1>5

\* While sends succeed, what waits is what was taken and not sent, byte for byte and in
\* order, save the messages that the window dropped whole: for any number of threads
\* that send and kill, all sizes of messages, and a loop thread that takes up the rest
\* of a message between their writes (proto_watch.c 71-146, 501-571).
THEOREM StreamCorrect == Spec => []StreamIntact
<1> DEFINE J == Apart /\ StreamIntact
<1>1. Init => J
  BY StreamBegins
<1>2. IInv /\ J /\ [Next]_vars => J'
  <2> SUFFICES ASSUME IInv, Apart, StreamIntact, [Next]_vars PROVE Apart' /\ StreamIntact'
    OBVIOUS
  <2> QED BY CallStream, ContinueStream, LoopStream DEF Next
<1>3. J => StreamIntact
  OBVIOUS
<1> HIDE DEF J
<1> QED BY <1>1, <1>2, <1>3, InvariantHolds, PTL DEF Spec
=============================================================================

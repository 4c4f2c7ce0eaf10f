----------------------------- MODULE DataLemmas -----------------------------
(***************************************************************************)
(* Lists without repetitions (the entries of a list that is changed as     *)
(* list.h and queue.c change it), sums over finite sets (Total), with      *)
(* which weights and bytes are added up, and recursion along a list.  The  *)
(* library's induction theorems take an operator; here the property is the *)
(* set of the subsets, numbers or lists that have it.                      *)
(***************************************************************************)
EXTENDS Sums, Integers, Sequences, SequencesExt, SequenceTheorems, FiniteSetTheorems,
        WellFoundedInduction, TLAPS

-----------------------------------------------------------------------------
(* The entries of a list *)

\* A list with a new head.
LEMMA ConsType ==
  ASSUME NEW S, NEW s \in Seq(S), NEW x \in S
  PROVE  /\ Cons(x, s) \in Seq(S)
         /\ Len(Cons(x, s)) = Len(s) + 1
         /\ Cons(x, s)[1] = x
         /\ \A i \in 1..Len(s) : Cons(x, s)[i + 1] = s[i]
  BY DEF Cons

\* A new entry at the head: no entry is repeated, and the others stay.
LEMMA ConsEntries ==
  ASSUME NEW S, NEW s \in Seq(S), NEW x \in S
  PROVE  /\ ToSet(Cons(x, s)) = ToSet(s) \cup {x}
         /\ IsInjective(s) /\ x \notin ToSet(s) => IsInjective(Cons(x, s))
<1> DEFINE c == Cons(x, s)
<1>1. /\ c \in Seq(S) /\ Len(c) = Len(s) + 1 /\ c[1] = x
      /\ \A i \in 1..Len(s) : c[i + 1] = s[i]
  BY ConsType
<1>2. DOMAIN c = 1..(Len(s) + 1) /\ DOMAIN s = 1..Len(s) /\ Len(s) \in Nat
  BY <1>1
<1> HIDE DEF c
<1>3. \A j \in DOMAIN c : j = 1 \/ (j - 1 \in DOMAIN s /\ c[j] = s[j - 1])
  BY <1>1, <1>2
<1>4. ToSet(c) = ToSet(s) \cup {x}
  <2>1. \A y \in ToSet(c) : y \in ToSet(s) \cup {x}
    BY <1>1, <1>3 DEF ToSet
  <2>2. x \in ToSet(c)
    BY <1>1, <1>2 DEF ToSet
  <2>3. \A y \in ToSet(s) : y \in ToSet(c)
    BY <1>1, <1>2 DEF ToSet
  <2> QED BY <2>1, <2>2, <2>3
<1>5. ASSUME IsInjective(s), x \notin ToSet(s) PROVE IsInjective(c)
  <2> SUFFICES ASSUME NEW i \in DOMAIN c, NEW j \in DOMAIN c, c[i] = c[j]
               PROVE  i = j
    BY DEF IsInjective
  <2>1. i = 1 => j = 1
    BY <1>1, <1>3, <1>5 DEF ToSet
  <2>2. j = 1 => i = 1
    BY <1>1, <1>3, <1>5 DEF ToSet
  <2>3. CASE i # 1 /\ j # 1
    <3>1. i - 1 = j - 1
      BY <1>3, <1>5, <2>3 DEF IsInjective
    <3> QED BY <3>1, <1>2
  <2> QED BY <2>1, <2>2, <2>3
<1> QED BY <1>4, <1>5 DEF c

\* A new entry at the end.
LEMMA AppendEntries ==
  ASSUME NEW S, NEW s \in Seq(S), NEW x \in S
  PROVE  /\ Append(s, x) \in Seq(S)
         /\ ToSet(Append(s, x)) = ToSet(s) \cup {x}
         /\ IsInjective(s) /\ x \notin ToSet(s) => IsInjective(Append(s, x))
<1> DEFINE a == Append(s, x)
<1>1. /\ a \in Seq(S) /\ DOMAIN a = 1..(Len(s) + 1) /\ DOMAIN s = 1..Len(s) /\ Len(s) \in Nat
      /\ a[Len(s) + 1] = x /\ \A i \in 1..Len(s) : a[i] = s[i]
  OBVIOUS
<1> HIDE DEF a
<1>2. ToSet(a) = ToSet(s) \cup {x}
  <2>1. \A i \in DOMAIN a : a[i] \in ToSet(s) \cup {x}
    BY <1>1 DEF ToSet
  <2>2. \A i \in DOMAIN s : i \in DOMAIN a /\ a[i] = s[i]
    BY <1>1
  <2>3. Len(s) + 1 \in DOMAIN a /\ a[Len(s) + 1] = x
    BY <1>1
  <2> QED BY <2>1, <2>2, <2>3 DEF ToSet
<1>3. IsInjective(s) /\ x \notin ToSet(s) => IsInjective(a)
  <2> SUFFICES ASSUME IsInjective(s), x \notin ToSet(s), NEW i \in DOMAIN a, NEW j \in DOMAIN a,
                      a[i] = a[j]
               PROVE  i = j
    BY DEF IsInjective
  <2>1. \A k \in DOMAIN s : s[k] # x
    BY DEF ToSet
  <2>2. CASE i \in DOMAIN s /\ j \in DOMAIN s
    BY <1>1, <2>2 DEF IsInjective
  <2>3. CASE i = Len(s) + 1 \/ j = Len(s) + 1
    BY <1>1, <2>1, <2>3
  <2> QED BY <1>1, <2>2, <2>3
<1> QED BY <1>1, <1>2, <1>3 DEF a

\* A list without its head.
LEMMA TailEntries ==
  ASSUME NEW S, NEW s \in Seq(S), s # <<>>, IsInjective(s)
  PROVE  /\ Tail(s) \in Seq(S)
         /\ Head(s) \in ToSet(s)
         /\ ToSet(Tail(s)) = ToSet(s) \ {Head(s)}
         /\ IsInjective(Tail(s))
<1>1. /\ Len(s) \in Nat \ {0} /\ DOMAIN s = 1..Len(s) /\ Head(s) = s[1]
      /\ Tail(s) \in Seq(S) /\ Len(Tail(s)) = Len(s) - 1
      /\ DOMAIN Tail(s) = 1..(Len(s) - 1)
      /\ \A i \in 1..(Len(s) - 1) : Tail(s)[i] = s[i + 1]
  OBVIOUS
<1>2. IsInjective(Tail(s))
  BY <1>1 DEF IsInjective
<1>3. ToSet(Tail(s)) = ToSet(s) \ {Head(s)}
  <2>1. ASSUME NEW i \in DOMAIN Tail(s) PROVE Tail(s)[i] \in ToSet(s) \ {Head(s)}
    <3>1. /\ 1 \in DOMAIN s /\ i + 1 \in DOMAIN s /\ i + 1 # 1
          /\ Tail(s)[i] = s[i + 1]
      BY <1>1
    <3> QED BY <1>1, <3>1 DEF ToSet, IsInjective
  <2>2. ASSUME NEW i \in DOMAIN s, s[i] # Head(s) PROVE s[i] \in ToSet(Tail(s))
    <3>1. i - 1 \in DOMAIN Tail(s) /\ Tail(s)[i - 1] = s[i]
      BY <1>1, <2>2
    <3> QED BY <3>1 DEF ToSet
  <2> QED BY <2>1, <2>2 DEF ToSet
<1>4. Head(s) \in ToSet(s)
  BY <1>1 DEF ToSet
<1> QED BY <1>1, <1>2, <1>3, <1>4

\* A list with one entry taken out.
LEMMA RemoveAtType ==
  ASSUME NEW S, NEW s \in Seq(S), NEW i \in 1..Len(s)
  PROVE  /\ RemoveAt(s, i) \in Seq(S)
         /\ Len(RemoveAt(s, i)) = Len(s) - 1
         /\ \A j \in 1..(i - 1) : RemoveAt(s, i)[j] = s[j]
         /\ \A j \in i..(Len(s) - 1) : RemoveAt(s, i)[j] = s[j + 1]
<1> DEFINE a == SubSeq(s, 1, i - 1)
           b == SubSeq(s, i + 1, Len(s))
<1>1. /\ a \in Seq(S) /\ Len(a) = i - 1
      /\ \A j \in 1..(i - 1) : a[j] = s[j]
  OBVIOUS
<1>2. /\ b \in Seq(S) /\ Len(b) = Len(s) - i
      /\ \A j \in 1..(Len(s) - i) : b[j] = s[i + j]
  <2>1. b \in Seq(S)
    BY SubSeqProperties
  <2>2. Len(b) = Len(s) - i
    BY SubSeqProperties
  <2>3. ASSUME NEW j \in 1..(Len(s) - i) PROVE b[j] = s[i + j]
    <3>1. b[j] = s[(i + 1) + j - 1]
      BY <2>2, SubSeqProperties
    <3> QED BY <3>1
  <2> QED BY <2>1, <2>2, <2>3
<1> HIDE DEF a, b
<1>3. a \o b \in Seq(S) /\ Len(a \o b) = Len(s) - 1
  <2>1. a \o b \in Seq(S) /\ Len(a \o b) = Len(a) + Len(b)
    BY <1>1, <1>2, ConcatProperties
  <2> QED BY <1>1, <1>2, <2>1
<1>4. \A j \in 1..(i - 1) : (a \o b)[j] = s[j]
  BY <1>1, <1>2
<1>5. ASSUME NEW j \in i..(Len(s) - 1) PROVE (a \o b)[j] = s[j + 1]
  <2>1. j - (i - 1) \in 1..(Len(s) - i)
    OBVIOUS
  <2>2. (a \o b)[j] = b[j - (i - 1)]
    BY <1>1, <1>2, <2>1
  <2> QED BY <1>2, <2>1, <2>2
<1> QED BY <1>3, <1>4, <1>5 DEF RemoveAt, a, b

\* An entry is taken out of a list: the others stay.
LEMMA RemoveAtEntries ==
  ASSUME NEW S, NEW s \in Seq(S), NEW i \in 1..Len(s), IsInjective(s)
  PROVE  /\ ToSet(RemoveAt(s, i)) = ToSet(s) \ {s[i]}
         /\ IsInjective(RemoveAt(s, i))
<1> DEFINE r == RemoveAt(s, i)
           From(j) == IF j < i THEN j ELSE j + 1
<1>1. DOMAIN s = 1..Len(s) /\ Len(s) \in Nat
  OBVIOUS
<1>2. r \in Seq(S) /\ DOMAIN r = 1..(Len(s) - 1)
  <2>1. r \in Seq(S) /\ Len(r) = Len(s) - 1
    BY RemoveAtType
  <2> HIDE DEF r
  <2> QED BY <2>1
<1>3. ASSUME NEW j \in DOMAIN r
      PROVE  From(j) \in DOMAIN s /\ From(j) # i /\ r[j] = s[From(j)]
  <2>1. j \in 1..(Len(s) - 1)
    BY <1>2
  <2>2. From(j) \in DOMAIN s /\ From(j) # i
    BY <1>1, <2>1
  <2>3. r[j] = s[From(j)]
    <3>1. CASE j < i
      BY <2>1, <3>1, RemoveAtType
    <3>2. CASE ~(j < i)
      BY <2>1, <3>2, RemoveAtType
    <3> QED BY <3>1, <3>2
  <2> QED BY <2>2, <2>3
<1>4. ASSUME NEW k \in DOMAIN s, k # i
      PROVE  \E j \in DOMAIN r : k = From(j)
  <2>1. CASE k < i
    BY <1>1, <1>2, <2>1
  <2>2. CASE k > i
    <3>1. k - 1 \in DOMAIN r /\ k = From(k - 1)
      BY <1>1, <1>2, <2>2
    <3> QED BY <3>1
  <2> QED BY <1>1, <1>4, <2>1, <2>2
<1> HIDE DEF r
<1>5. IsInjective(r)
  <2> SUFFICES ASSUME NEW j \in DOMAIN r, NEW k \in DOMAIN r, r[j] = r[k] PROVE j = k
    BY DEF IsInjective
  <2>1. From(j) = From(k)
    BY <1>3 DEF IsInjective
  <2> QED BY <1>2, <2>1
<1> HIDE DEF From
<1>6. ToSet(r) = ToSet(s) \ {s[i]}
  <2>1. ASSUME NEW j \in DOMAIN r PROVE r[j] \in ToSet(s) \ {s[i]}
    BY <1>1, <1>3 DEF ToSet, IsInjective
  <2>2. ASSUME NEW k \in DOMAIN s, s[k] # s[i] PROVE s[k] \in ToSet(r)
    <3>1. PICK j \in DOMAIN r : k = From(j)
      BY <1>4, <2>2
    <3> QED BY <1>3, <3>1 DEF ToSet
  <2> QED BY <2>1, <2>2 DEF ToSet
<1> QED BY <1>5, <1>6 DEF r

\* list_del_init and list_delete_link of an entry that is there once, if at all.
LEMMA RemoveFirstEntries ==
  ASSUME NEW S, NEW s \in Seq(S), IsInjective(s), NEW x
  PROVE  /\ RemoveFirst(s, x) \in Seq(S)
         /\ ToSet(RemoveFirst(s, x)) = ToSet(s) \ {x}
         /\ IsInjective(RemoveFirst(s, x))
<1> DOMAIN s = 1..Len(s) /\ Len(s) \in Nat
  OBVIOUS
<1>1. CASE x \notin ToSet(s)
  <2>1. RemoveFirst(s, x) = s
    BY <1>1 DEF RemoveFirst, ToSet
  <2> QED BY <1>1, <2>1
<1>2. CASE x \in ToSet(s)
  <2>1. PICK i \in 1..Len(s) : s[i] = x
    BY <1>2 DEF ToSet
  <2>2. {j \in 1..Len(s) : s[j] = x} = {i}
    BY <2>1 DEF IsInjective
  <2>3. Min({i}) = i
    BY <2>1 DEF Min
  <2>4. SelectInSeq(s, LAMBDA v : v = x) = i
    BY <2>2, <2>3 DEF SelectInSeq
  <2>5. RemoveFirst(s, x) = RemoveAt(s, i)
    BY <2>1, <2>4 DEF RemoveFirst
  <2> QED BY <2>1, <2>5, RemoveAtType, RemoveAtEntries
<1> QED BY <1>1, <1>2

\* A list of one entry.
LEMMA OneEntry ==
  ASSUME NEW V, NEW s \in Seq(V), s # <<>>, Len(s) <= 1
  PROVE  Len(s) = 1 /\ s[1] \in V /\ s = <<s[1]>> /\ ToSet(s) = {s[1]}
<1>1. Len(s) \in Nat /\ Len(s) # 0
  BY EmptySeq, LenProperties
<1>2. Len(s) = 1 /\ DOMAIN s = 1..1
  BY <1>1, LenProperties
<1>3. s[1] \in V
  BY <1>2, ElementOfSeq
<1>4. s = <<s[1]>>
  <2>1. <<s[1]>> \in Seq(V) /\ Len(<<s[1]>>) = 1 /\ <<s[1]>>[1] = s[1]
    BY <1>3
  <2> QED BY <1>2, <2>1, SeqEqual
<1>5. ToSet(s) = {s[1]}
  BY <1>2 DEF ToSet
<1> QED BY <1>2, <1>3, <1>4, <1>5

-----------------------------------------------------------------------------
(* Induction *)

\* What holds of a set when it holds of it less any one element, holds of every
\* subset of a finite set.
LEMMA SetInduction ==
  ASSUME NEW S, IsFiniteSet(S), NEW Good \in SUBSET SUBSET S,
         \A T \in SUBSET S : (\A x \in T : T \ {x} \in Good) => T \in Good
  PROVE  Good = SUBSET S
<1> DEFINE R == StrictSubsetOrdering(S)
           Bad == (SUBSET S) \ Good
<1>1. IsWellFoundedOn(R, FiniteSubsetsOf(S))
  BY FS_StrictSubsetOrderingWellFounded
<1>2. Bad \subseteq FiniteSubsetsOf(S)
  BY FS_Subset DEF FiniteSubsetsOf
<1> SUFFICES ASSUME Bad # {} PROVE FALSE
  OBVIOUS
<1>3. PICK T \in Bad : \A U \in Bad : ~ (<<U, T>> \in R)
  <2> HIDE DEF R, Bad
  <2> QED BY <1>1, <1>2, WFMin
<1>4. \A x \in T : T \ {x} \in Good
  <2> SUFFICES ASSUME NEW x \in T, T \ {x} \notin Good PROVE FALSE
    OBVIOUS
  <2>1. T \ {x} \in Bad
    OBVIOUS
  <2>2. <<T \ {x}, T>> \in R
    BY DEF StrictSubsetOrdering
  <2> QED BY <1>3, <2>1, <2>2
<1> QED BY <1>4

\* Induction on the natural numbers.
LEMMA NatSetInduction ==
  ASSUME NEW Good \in SUBSET Nat, 0 \in Good, \A n \in Good : n + 1 \in Good
  PROVE  Good = Nat
<1> DEFINE R == OpToRel(<, Nat)
           Bad == Nat \ Good
<1>1. IsWellFoundedOn(R, Nat)
  BY NatLessThanWellFounded
<1>2. \A i, j \in Nat : <<i, j>> \in R <=> i < j
  BY DEF OpToRel
<1> HIDE DEF R
<1> SUFFICES ASSUME Bad # {} PROVE FALSE
  OBVIOUS
<1>3. PICK n \in Bad : \A m \in Bad : ~ (<<m, n>> \in R)
  <2>1. Bad \subseteq Nat
    OBVIOUS
  <2> HIDE DEF Bad
  <2> QED BY <1>1, <2>1, WFMin
<1>4. n - 1 \in Nat /\ n - 1 < n /\ n - 1 + 1 = n
  OBVIOUS
<1> QED BY <1>2, <1>3, <1>4

\* A set of natural numbers that is not empty has a smallest one.
LEMMA NatMinimum ==
  ASSUME NEW S \in SUBSET Nat, S # {}
  PROVE  \E m \in S : \A y \in S : m <= y
<1> DEFINE R == OpToRel(<, Nat)
<1>1. IsWellFoundedOn(R, Nat)
  BY NatLessThanWellFounded
<1>2. \A i, j \in Nat : <<i, j>> \in R <=> i < j
  BY DEF OpToRel
<1> HIDE DEF R
<1>3. PICK m \in S : \A y \in S : ~ (<<y, m>> \in R)
  BY <1>1, WFMin
<1>4. ASSUME NEW y \in S PROVE m <= y
  <2>1. m \in Nat /\ y \in Nat
    OBVIOUS
  <2>2. ~ (y < m)
    <3>1. ~ (<<y, m>> \in R)
      BY <1>3
    <3> QED BY <1>2, <2>1, <3>1
  <2> QED BY <2>1, <2>2
<1> QED BY <1>4

\* What holds of the empty list, and of a list with an entry more, holds of every list.
LEMMA ListInduction ==
  ASSUME NEW V, NEW Good \in SUBSET Seq(V), <<>> \in Good,
         \A s \in Good : \A x \in V : Append(s, x) \in Good
  PROVE  Good = Seq(V)
<1> DEFINE N == {n \in Nat : \A s \in Seq(V) : Len(s) = n => s \in Good}
<1>1. 0 \in N
  <2>1. \A s \in Seq(V) : Len(s) = 0 => s = <<>>
    OBVIOUS
  <2> QED BY <2>1
<1>2. ASSUME NEW n \in N PROVE n + 1 \in N
  <2> SUFFICES ASSUME NEW s \in Seq(V), Len(s) = n + 1 PROVE s \in Good
    OBVIOUS
  <2>1. s # <<>>
    BY <1>2
  <2>2. PICK r \in Seq(V), x \in V : s = Append(r, x)
    BY <2>1, SequenceEmptyOrAppend
  <2>3. Len(r) = n
    BY <2>2
  <2> QED BY <1>2, <2>2, <2>3
<1>3. N \in SUBSET Nat
  OBVIOUS
<1>4. N = Nat
  <2>1. \A n \in N : n + 1 \in N
    BY <1>2
  <2> HIDE DEF N
  <2> QED BY <1>1, <1>3, <2>1, NatSetInduction
<1>5. \A s \in Seq(V) : Len(s) \in N
  <2> HIDE DEF N
  <2> QED BY <1>4
<1> QED BY <1>5

-----------------------------------------------------------------------------
(* Recursion along a list *)

\* f is what op makes of the first entries of a list.
Runs(f, list, W, base, op) ==
  /\ f \in [0..Len(list) -> W]
  /\ \A i \in 0..Len(list) : f[i] = IF i = 0 THEN base ELSE op[<<f[i - 1], list[i]>>]

\* A recursion along a list has a solution.
LEMMA ListRecursion ==
  ASSUME NEW V, NEW W, NEW list \in Seq(V), NEW base \in W, NEW op \in [W \X V -> W]
  PROVE  \E f : Runs(f, list, W, base, op)
<1> DEFINE Eq(f, i) == f[i] = IF i = 0 THEN base ELSE op[<<f[i - 1], list[i]>>]
           Good == {n \in Nat : n <= Len(list) =>
                      \E f \in [0..n -> W] : \A i \in 0..n : Eq(f, i)}
<1>0. Len(list) \in Nat
  OBVIOUS
<1>1. 0 \in Good
  <2> DEFINE f == [i \in 0..0 |-> base]
  <2>1. f \in [0..0 -> W] /\ \A i \in 0..0 : Eq(f, i)
    OBVIOUS
  <2> QED BY <2>1
<1>2. ASSUME NEW n \in Good, n + 1 <= Len(list)
      PROVE  \E f \in [0..(n + 1) -> W] : \A i \in 0..(n + 1) : Eq(f, i)
  <2>1. PICK f \in [0..n -> W] : \A i \in 0..n : Eq(f, i)
    BY <1>0, <1>2
  <2>2. list[n + 1] \in V /\ f[n] \in W
    BY <1>0, <1>2
  <2> DEFINE x == op[<<f[n], list[n + 1]>>]
             g == [i \in 0..(n + 1) |-> IF i = n + 1 THEN x ELSE f[i]]
  <2>3. x \in W
    BY <2>2
  <2>4. g \in [0..(n + 1) -> W]
    <3> HIDE DEF x
    <3> QED BY <2>3
  <2>5. g[n + 1] = x /\ g[n] = f[n] /\ \A i \in 0..n : g[i] = f[i]
    <3> HIDE DEF x
    <3> QED OBVIOUS
  <2>6. Eq(g, n + 1)
    <3> HIDE DEF g
    <3> QED BY <2>5
  <2>7. ASSUME NEW i \in 0..n PROVE Eq(g, i)
    <3>1. Eq(f, i) /\ g[i] = f[i] /\ (i # 0 => g[i - 1] = f[i - 1])
      BY <2>1, <2>5
    <3> HIDE DEF g
    <3> QED BY <3>1
  <2>8. \A i \in 0..(n + 1) : Eq(g, i)
    <3> SUFFICES ASSUME NEW i \in 0..(n + 1) PROVE Eq(g, i)
      OBVIOUS
    <3> HIDE DEF g
    <3>1. CASE i = n + 1
      BY <2>6, <3>1
    <3>2. CASE i \in 0..n
      BY <2>7, <3>2
    <3>3. n \in Nat
      BY <1>2
    <3> QED BY <3>1, <3>2, <3>3
  <2> QED BY <2>4, <2>8
<1>3. Good = Nat
  <2>1. \A n \in Good : n + 1 \in Good
    <3> SUFFICES ASSUME NEW n \in Good PROVE n + 1 \in Good
      OBVIOUS
    <3>1. n + 1 <= Len(list) => \E f \in [0..(n + 1) -> W] : \A i \in 0..(n + 1) : Eq(f, i)
      BY <1>2
    <3> HIDE DEF Eq
    <3> QED BY <3>1
  <2>2. Good \in SUBSET Nat
    OBVIOUS
  <2> HIDE DEF Good
  <2> QED BY <1>1, <2>1, <2>2, NatSetInduction
<1>4. \E f \in [0..Len(list) -> W] : \A i \in 0..Len(list) : Eq(f, i)
  <2> HIDE DEF Eq
  <2>1. Len(list) \in Good
    BY <1>0, <1>3
  <2> QED BY <1>0, <2>1
<1> QED BY <1>4 DEF Runs

-----------------------------------------------------------------------------
(* Sums *)

\* g is the fold of op over the subsets of S.
Folds(g, S, V, base, pick, op) ==
  /\ g \in [SUBSET S -> V]
  /\ \A s \in SUBSET S : g[s] = IF s = {} THEN base ELSE op[<<pick[s], g[s \ {pick[s]}]>>]

Foldable(S, V, base, pick, op) ==
  /\ IsFiniteSet(S)
  /\ base \in V
  /\ \A s \in SUBSET S : s # {} => pick[s] \in s
  /\ \A x \in S, v \in V : op[<<x, v>>] \in V

\* A function that takes the picked element out of a set first, and goes on with
\* the rest, exists for every finite set (MapThenFoldSet).
LEMMA FoldExists ==
  ASSUME NEW S, NEW V, NEW base, NEW pick, NEW op, Foldable(S, V, base, pick, op)
  PROVE  \E g : Folds(g, S, V, base, pick, op)
<1> DEFINE Rest(s) == s \ {pick[s]}
           Eq(g, s) == g[s] = IF s = {} THEN base ELSE op[<<pick[s], g[Rest(s)]>>]
           Good == {n \in Nat : \E g \in [SUBSET S -> V] :
                      \A s \in SUBSET S : Cardinality(s) <= n => Eq(g, s)}
<1>0. \A s \in SUBSET S : Cardinality(s) \in Nat /\ (Cardinality(s) = 0 <=> s = {})
  BY FS_Subset, FS_EmptySet, FS_CardinalityType DEF Foldable
<1>r. \A s \in SUBSET S : s # {} =>
        /\ Rest(s) \in SUBSET S /\ pick[s] \in S
        /\ Cardinality(Rest(s)) = Cardinality(s) - 1
  BY FS_Subset, FS_RemoveElement DEF Foldable
<1>1. 0 \in Good
  <2> DEFINE g == [s \in SUBSET S |-> base]
  <2>1. g \in [SUBSET S -> V]
    BY DEF Foldable
  <2>2. \A s \in SUBSET S : Cardinality(s) <= 0 => Eq(g, s)
    <3> SUFFICES ASSUME NEW s \in SUBSET S, Cardinality(s) <= 0 PROVE g[s] = base /\ s = {}
      OBVIOUS
    <3>1. s = {}
      <4> HIDE DEF g
      <4> QED BY <1>0
    <3> QED BY <3>1
  <2> HIDE DEF g, Eq
  <2> QED BY <2>1, <2>2
<1>2. ASSUME NEW n \in Good PROVE n + 1 \in Good
  <2>0. n \in Nat
    OBVIOUS
  <2>1. PICK g \in [SUBSET S -> V] : \A s \in SUBSET S : Cardinality(s) <= n => Eq(g, s)
    BY <1>2
  <2> DEFINE h == [s \in SUBSET S |-> IF Cardinality(s) <= n \/ s = {} THEN g[s]
                                      ELSE op[<<pick[s], g[Rest(s)]>>]]
  <2>2. h \in [SUBSET S -> V]
    <3> SUFFICES ASSUME NEW s \in SUBSET S, s # {} PROVE op[<<pick[s], g[Rest(s)]>>] \in V
      OBVIOUS
    <3>1. pick[s] \in S /\ g[Rest(s)] \in V
      BY <1>r
    <3> QED BY <3>1 DEF Foldable
  <2>3. ASSUME NEW s \in SUBSET S, Cardinality(s) <= n + 1 PROVE Eq(h, s)
    <3>1. CASE s = {}
      <4>1. Cardinality(s) <= n
        BY <1>0, <2>0, <3>1
      <4> QED BY <2>1, <3>1, <4>1
    <3>2. CASE s # {}
      <4>1. Cardinality(Rest(s)) <= n /\ Rest(s) \in SUBSET S
        <5> HIDE DEF Rest
        <5> QED BY <1>0, <1>r, <2>0, <2>3, <3>2
      <4>2. h[Rest(s)] = g[Rest(s)]
        BY <4>1
      <4>3. h[s] = op[<<pick[s], g[Rest(s)]>>]
        BY <2>1, <3>2
      <4> QED BY <3>2, <4>2, <4>3
    <3> QED BY <3>1, <3>2
  <2>4. n + 1 \in Nat
    OBVIOUS
  <2> HIDE DEF h, Eq
  <2> QED BY <2>2, <2>3, <2>4
<1>3. Good = Nat
  <2>1. Good \in SUBSET Nat
    OBVIOUS
  <2> HIDE DEF Good
  <2> QED BY <1>1, <1>2, <2>1, NatSetInduction
<1>4. Cardinality(S) \in Nat
  BY <1>0
<1>5. PICK g \in [SUBSET S -> V] : \A s \in SUBSET S : Cardinality(s) <= Cardinality(S) => Eq(g, s)
  <2> HIDE DEF Eq
  <2> QED BY <1>3, <1>4
<1>6. \A s \in SUBSET S : Cardinality(s) <= Cardinality(S)
  BY FS_Subset DEF Foldable
<1> QED BY <1>5, <1>6 DEF Folds

\* and is the same whichever larger set it is taken from.
LEMMA FoldUnique ==
  ASSUME NEW S, NEW V, NEW base, NEW pick, NEW op, Foldable(S, V, base, pick, op),
         NEW T \in SUBSET S, NEW g, NEW h, 
         Folds(g, S, V, base, pick, op), Folds(h, T, V, base, pick, op)
  PROVE  \A s \in SUBSET T : g[s] = h[s]
<1> DEFINE Good == {s \in SUBSET T : g[s] = h[s]}
<1>1. IsFiniteSet(T)
  BY FS_Subset DEF Foldable
<1>2. ASSUME NEW s \in SUBSET T, \A x \in s : s \ {x} \in Good PROVE s \in Good
  <2>1. CASE s = {}
    BY <2>1 DEF Folds
  <2>2. CASE s # {}
    <3>1. pick[s] \in s
      BY <2>2 DEF Foldable
    <3>2. g[s \ {pick[s]}] = h[s \ {pick[s]}]
      BY <1>2, <3>1
    <3> QED BY <2>2, <3>2 DEF Folds
  <2> QED BY <2>1, <2>2
<1>3. Good \in SUBSET SUBSET T
  OBVIOUS
<1>4. Good = SUBSET T
  <2> HIDE DEF Good
  <2> QED BY <1>1, <1>2, <1>3, SetInduction
<1> QED BY <1>4

-----------------------------------------------------------------------------
(* Sums *)

\* g is the sum of f over the subsets of S, where pick says what is added last.
SumsUp(g, pick, f, S) ==
  /\ g \in [SUBSET S -> Nat]
  /\ \A s \in SUBSET S :
       /\ s # {} => pick[s] \in s
       /\ g[s] = IF s = {} THEN 0 ELSE f[pick[s]] + g[s \ {pick[s]}]
       /\ g[s] = Total(f, s)

\* The sum is computed by some such function.
LEMMA TotalSumsUp ==
  ASSUME NEW S, IsFiniteSet(S), NEW f, \A x \in S : f[x] \in Nat
  PROVE  \E g, pick : SumsUp(g, pick, f, S)
<1> DEFINE pick == [s \in SUBSET S |-> CHOOSE x \in s : TRUE]
           op == [p \in S \X Nat |-> f[p[1]] + p[2]]
<1>1. \A s \in SUBSET S : s # {} => pick[s] \in s
  OBVIOUS
<1>2. \A x \in S, v \in Nat : op[<<x, v>>] = f[x] + v /\ f[x] + v \in Nat
  OBVIOUS
<1>p. \A s \in SUBSET S : pick[s] = CHOOSE x \in s : TRUE
  OBVIOUS
<1> HIDE DEF pick, op
<1>3. \A T \in SUBSET S : Foldable(T, Nat, 0, pick, op)
  BY <1>1, <1>2, FS_Subset DEF Foldable
<1>4. ASSUME NEW T \in SUBSET S
      PROVE  \E h : Folds(h, T, Nat, 0, pick, op) /\ h[T] = Total(f, T)
  <2> DEFINE F(g) == [s \in SUBSET T |-> IF s = {} THEN 0
                         ELSE f[CHOOSE x \in s : TRUE] + g[s \ {CHOOSE x \in s : TRUE}]]
             it == CHOOSE g : g = F(g)
  <2>1. Total(f, T) = it[T]
    BY Zenon DEF Total, MapThenSumSet, MapThenFoldSet
  <2>2. PICK h : Folds(h, T, Nat, 0, pick, op)
    BY <1>3, FoldExists
  <2>3. h = F(h)
    <3>1. ASSUME NEW s \in SUBSET T
          PROVE  h[s] = IF s = {} THEN 0 ELSE f[pick[s]] + h[s \ {pick[s]}]
      <4>1. CASE s = {}
        BY <2>2, <4>1 DEF Folds
      <4>2. CASE s # {}
        <5>1. pick[s] \in S /\ h[s \ {pick[s]}] \in Nat
          BY <1>1, <2>2, <4>2 DEF Folds
        <5> QED BY <1>2, <2>2, <4>2, <5>1 DEF Folds
      <4> QED BY <4>1, <4>2
    <3>2. h = [s \in SUBSET T |-> h[s]]
      BY <2>2 DEF Folds
    <3> QED BY <1>p, <3>1, <3>2
  <2>4. it = F(it)
    <3> HIDE DEF F
    <3> QED BY <2>3
  <2>5. it = h
    <3> DEFINE Same == {s \in SUBSET T : it[s] = h[s]}
    <3>1. ASSUME NEW s \in SUBSET T, \A x \in s : s \ {x} \in Same PROVE s \in Same
      <4> HIDE DEF it
      <4>1. it[s] = IF s = {} THEN 0 ELSE f[pick[s]] + it[s \ {pick[s]}]
        BY <2>4, <1>p
      <4>2. h[s] = IF s = {} THEN 0 ELSE f[pick[s]] + h[s \ {pick[s]}]
        BY <2>3, <1>p
      <4>3. s # {} => it[s \ {pick[s]}] = h[s \ {pick[s]}]
        BY <1>1, <3>1
      <4> QED BY <4>1, <4>2, <4>3
    <3>2. Same = SUBSET T
      <4>1. Same \in SUBSET SUBSET T /\ IsFiniteSet(T)
        BY FS_Subset
      <4> HIDE DEF Same
      <4> QED BY <3>1, <4>1, SetInduction
    <3>3. it = [s \in SUBSET T |-> it[s]] /\ h = [s \in SUBSET T |-> h[s]]
      <4> HIDE DEF it
      <4> QED BY <2>3, <2>4
    <3> HIDE DEF it
    <3> QED BY <3>2, <3>3
  <2> QED BY <2>1, <2>2, <2>5
<1>5. PICK g : Folds(g, S, Nat, 0, pick, op)
  BY <1>3, FoldExists
<1>6. ASSUME NEW s \in SUBSET S PROVE g[s] = Total(f, s)
  <2>1. PICK h : Folds(h, s, Nat, 0, pick, op) /\ h[s] = Total(f, s)
    BY <1>4
  <2>2. Foldable(S, Nat, 0, pick, op)
    BY <1>3
  <2> QED BY <1>5, <2>1, <2>2, FoldUnique
<1>7. ASSUME NEW s \in SUBSET S
      PROVE  g[s] = IF s = {} THEN 0 ELSE f[pick[s]] + g[s \ {pick[s]}]
  <2>1. CASE s = {}
    BY <1>5, <2>1 DEF Folds
  <2>2. CASE s # {}
    <3>1. pick[s] \in S /\ g[s \ {pick[s]}] \in Nat
      BY <1>1, <1>5, <2>2 DEF Folds
    <3> QED BY <1>2, <1>5, <2>2, <3>1 DEF Folds
  <2> QED BY <2>1, <2>2
<1>8. g \in [SUBSET S -> Nat]
  BY <1>5 DEF Folds
<1>9. SumsUp(g, pick, f, S)
  BY <1>1, <1>6, <1>7, <1>8 DEF SumsUp
<1> QED BY <1>9

\* A sum of natural numbers is one, and that of nothing is 0.
LEMMA TotalType ==
  ASSUME NEW S, IsFiniteSet(S), NEW f, \A x \in S : f[x] \in Nat
  PROVE  Total(f, S) \in Nat /\ Total(f, {}) = 0
<1>1. PICK g, pick : SumsUp(g, pick, f, S)
  BY TotalSumsUp
<1>2. g[S] = Total(f, S) /\ g[{}] = Total(f, {}) /\ g[{}] = 0 /\ g[S] \in Nat
  BY <1>1 DEF SumsUp
<1> QED BY <1>2

\* Any element may be added last: the order does not matter.
LEMMA TotalSplit ==
  ASSUME NEW S, IsFiniteSet(S), NEW f, \A x \in S : f[x] \in Nat, NEW x \in S
  PROVE  Total(f, S) = f[x] + Total(f, S \ {x})
<1>0. PICK g, pick : SumsUp(g, pick, f, S)
  BY TotalSumsUp
<1>1. /\ g \in [SUBSET S -> Nat]
      /\ \A s \in SUBSET S : /\ s # {} => pick[s] \in s
                             /\ g[s] = IF s = {} THEN 0 ELSE f[pick[s]] + g[s \ {pick[s]}]
                             /\ g[s] = Total(f, s)
  BY <1>0 DEF SumsUp
<1> DEFINE Good == {s \in SUBSET S : \A y \in s : g[s] = f[y] + g[s \ {y}]}
<1>2. ASSUME NEW s \in SUBSET S, \A y \in s : s \ {y} \in Good PROVE s \in Good
  <2> SUFFICES ASSUME NEW y \in s PROVE g[s] = f[y] + g[s \ {y}]
    OBVIOUS
  <2> DEFINE p == pick[s]
  <2>1. p \in s /\ g[s] = f[p] + g[s \ {p}]
    BY <1>1
  <2>2. CASE p = y
    BY <2>1, <2>2
  <2>3. CASE p # y
    <3>1. g[s \ {p}] = f[y] + g[(s \ {p}) \ {y}]
      BY <1>2, <2>1, <2>3
    <3>2. g[s \ {y}] = f[p] + g[(s \ {y}) \ {p}]
      BY <1>2, <2>1, <2>3
    <3>3. (s \ {y}) \ {p} = (s \ {p}) \ {y}
      OBVIOUS
    <3>4. f[p] \in Nat /\ f[y] \in Nat /\ g[(s \ {p}) \ {y}] \in Nat
      BY <1>1, <2>1
    <3>5. \A a, b, c \in Nat : a + (b + c) = b + (a + c)
      OBVIOUS
    <3>6. g[s] = f[p] + (f[y] + g[(s \ {p}) \ {y}])
      BY <2>1, <3>1
    <3>7. g[s \ {y}] = f[p] + g[(s \ {p}) \ {y}]
      BY <3>2, <3>3
    <3> HIDE DEF p
    <3> QED BY <3>4, <3>5, <3>6, <3>7
  <2> QED BY <2>2, <2>3
<1>3. Good = SUBSET S
  <2>1. Good \in SUBSET SUBSET S
    OBVIOUS
  <2> HIDE DEF Good
  <2> QED BY <1>2, <2>1, SetInduction
<1>4. g[S] = f[x] + g[S \ {x}]
  BY <1>3
<1> QED BY <1>1, <1>4

\* The sum only depends on what the function gives, wherever it stands.
LEMMA TotalReindex ==
  ASSUME NEW S, NEW T, IsFiniteSet(S), NEW b \in Bijection(S, T), NEW f, NEW h,
         \A x \in S : f[x] \in Nat /\ h[b[x]] = f[x]
  PROVE  Total(f, S) = Total(h, T)
<1> DEFINE Image(s) == {b[x] : x \in s}
           Good == {s \in SUBSET S : Total(f, s) = Total(h, Image(s))}
<1>0. /\ b \in [S -> T] /\ \A x, y \in S : b[x] = b[y] => x = y
      /\ Image(S) = T
  BY DEF Bijection, Injection, IsInjective, Surjection
<1>1. IsFiniteSet(T) /\ \A y \in T : h[y] \in Nat
  <2>1. IsFiniteSet(T)
    BY FS_Bijection DEF ExistsBijection
  <2> QED BY <1>0, <2>1
<1>2. ASSUME NEW s \in SUBSET S, \A y \in s : s \ {y} \in Good PROVE s \in Good
  <2>1. IsFiniteSet(s) /\ IsFiniteSet(Image(s)) /\ Image(s) \in SUBSET T
    <3>1. Image(s) \in SUBSET T
      BY <1>0
    <3> QED BY <1>1, <3>1, FS_Subset
  <2>2. CASE s = {}
    <3>1. Image(s) = {}
      BY <2>2
    <3>2. Total(f, {}) = 0 /\ Total(h, {}) = 0
      BY <1>1, TotalType
    <3> QED BY <2>2, <3>1, <3>2
  <2>3. CASE s # {}
    <3>1. PICK x \in s : TRUE
      BY <2>3
    <3>2. Image(s \ {x}) = Image(s) \ {b[x]} /\ b[x] \in Image(s)
      BY <1>0
    <3>3. Total(f, s) = f[x] + Total(f, s \ {x})
      BY <2>1, TotalSplit
    <3>4. Total(h, Image(s)) = h[b[x]] + Total(h, Image(s) \ {b[x]})
      <4>1. \A y \in Image(s) : h[y] \in Nat
        BY <1>1, <2>1
      <4> HIDE DEF Image
      <4> QED BY <2>1, <3>2, <4>1, TotalSplit
    <3>5. Total(f, s \ {x}) = Total(h, Image(s \ {x}))
      BY <1>2
    <3> HIDE DEF Image
    <3>6. Total(f, s) = Total(h, Image(s))
      BY <3>2, <3>3, <3>4, <3>5
    <3> QED BY <3>6
  <2> QED BY <2>2, <2>3
<1>3. Good = SUBSET S
  <2>1. Good \in SUBSET SUBSET S
    OBVIOUS
  <2> HIDE DEF Good
  <2> QED BY <1>2, <2>1, SetInduction
<1>4. S \in Good
  BY <1>3
<1> QED BY <1>0, <1>4

\* The sum over a set is that over a part of it and that over the rest.
LEMMA TotalDifference ==
  ASSUME NEW S, IsFiniteSet(S), NEW f, \A x \in S : f[x] \in Nat, NEW T \in SUBSET S
  PROVE  Total(f, S) = Total(f, T) + Total(f, S \ T)
<1> DEFINE Good == {s \in SUBSET T : Total(f, S) = Total(f, s) + Total(f, S \ s)}
<1>1. ASSUME NEW s \in SUBSET T, \A y \in s : s \ {y} \in Good PROVE s \in Good
  <2>1. \A r \in SUBSET S : IsFiniteSet(r) /\ Total(f, r) \in Nat /\ Total(f, {}) = 0
    BY FS_Subset, TotalType
  <2>2. CASE s = {}
    <3>1. S \ s = S
      BY <2>2
    <3> QED BY <2>1, <2>2, <3>1
  <2>3. CASE s # {}
    <3>1. PICK x \in s : TRUE
      BY <2>3
    <3> DEFINE r == s \ {x}
    <3>2. Total(f, S) = Total(f, r) + Total(f, S \ r)
      BY <1>1
    <3>3. Total(f, s) = f[x] + Total(f, r)
      BY <2>1, TotalSplit
    <3>4. Total(f, S \ r) = f[x] + Total(f, (S \ r) \ {x})
      BY <2>1, TotalSplit
    <3>5. (S \ r) \ {x} = S \ s
      BY <3>1
    <3>6. f[x] \in Nat /\ Total(f, r) \in Nat /\ Total(f, S \ s) \in Nat
      BY <2>1
    <3> DEFINE whole == Total(f, S)  part == Total(f, s)  rest == Total(f, S \ s)
               less == Total(f, r)  more == Total(f, S \ r)
    <3>7. whole = less + more /\ part = f[x] + less /\ more = f[x] + rest
      BY <3>2, <3>3, <3>4, <3>5
    <3>8. f[x] \in Nat /\ less \in Nat /\ rest \in Nat
      BY <3>6
    <3> HIDE DEF r, whole, part, rest, less, more
    <3>9. whole = part + rest
      BY <3>7, <3>8
    <3> QED BY <3>9 DEF whole, part, rest
  <2> QED BY <2>2, <2>3
<1>2. IsFiniteSet(T)
  BY FS_Subset
<1>3. Good = SUBSET T
  <2>1. Good \in SUBSET SUBSET T
    OBVIOUS
  <2> HIDE DEF Good
  <2> QED BY <1>1, <1>2, <2>1, SetInduction
<1> QED BY <1>3

\* A set that changes at one element at most.
LEMMA CountChange ==
  ASSUME NEW R, NEW S, IsFiniteSet(S), NEW t, R \ {t} = S \ {t}
  PROVE  /\ IsFiniteSet(R) /\ Cardinality(R) \in Nat /\ Cardinality(S) \in Nat
         /\ Cardinality(R) = Cardinality(S) - (IF t \in S THEN 1 ELSE 0) + (IF t \in R THEN 1 ELSE 0)
<1>0. Cardinality(S) \in Nat
  BY FS_CardinalityType
<1>1. CASE t \in S /\ t \notin R
  <2>1. R = S \ {t}
    BY <1>1
  <2> QED BY <2>1, <1>1, <1>0, FS_RemoveElement, FS_CardinalityType
<1>2. CASE t \notin S /\ t \in R
  <2>1. R = S \cup {t}
    BY <1>2
  <2> QED BY <2>1, <1>2, <1>0, FS_AddElement, FS_CardinalityType
<1>3. CASE (t \in S) = (t \in R)
  <2>1. R = S
    BY <1>3
  <2> QED BY <2>1, <1>0
<1> QED BY <1>1, <1>2, <1>3
=============================================================================

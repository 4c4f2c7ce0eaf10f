---------------------------- MODULE H6QueueProofs ----------------------------
(***************************************************************************)
(* Theorems about H6Queue.tla, for any finite set of nodes, any data and   *)
(* any number of lists: the links of queue.c stay well formed, and the     *)
(* linked nodes are a queue and lists.                                     *)
(*                                                                         *)
(* Linked says which sequence of nodes a pointer starts.  Every operation  *)
(* is shown to turn one such sequence into another; the heap of all of     *)
(* them, Structure, treats the queue as one more list.                     *)
(***************************************************************************)
EXTENDS H6Queue, DataLemmas

-----------------------------------------------------------------------------
(* Walking *)

NodeCount == Cardinality(Nodes)

\* f is the walk from n along the links of h
Walks(f, h, n) ==
  /\ f \in [0..NodeCount -> Pointers]
  /\ f[0] = n
  /\ \A i \in 1..NodeCount : f[i] = NextOf(h, f[i - 1])

\* The nodes can be counted, as they are finitely many.
LEMMA NodeCountType == NodeCount \in Nat
  BY FiniteAssumption, FS_CardinalityType DEF NodeCount

\* The link of a pointer is a pointer.
LEMMA NextType ==
  ASSUME NEW h \in Heaps, NEW n \in Pointers
  PROVE  NextOf(h, n) \in Pointers
<1>1. CASE n = Null
  BY <1>1 DEF NextOf, Pointers
<1>2. CASE n # Null
  BY <1>2 DEF NextOf, Pointers, Heaps
<1> QED BY <1>1, <1>2

\* The recursion that a walk is defined by has a solution.
LEMMA WalkIs ==
  ASSUME NEW h \in Heaps, NEW n \in Pointers
  PROVE  Walks(Walk(h, n), h, n)
<1> DEFINE steps == [i \in 1..NodeCount |-> Null]
           op == [z \in Pointers \X {Null} |-> NextOf(h, z[1])]
           Eq(f) == f = [i \in 0..NodeCount |-> IF i = 0 THEN n ELSE NextOf(h, f[i - 1])]
<1>1. steps \in Seq({Null}) /\ Len(steps) = NodeCount /\ \A i \in 1..NodeCount : steps[i] = Null
  BY NodeCountType
<1>2. op \in [Pointers \X {Null} -> Pointers]
  <2>1. \A z \in Pointers \X {Null} : NextOf(h, z[1]) \in Pointers
    BY NextType
  <2> QED BY <2>1
<1>3. \A m \in Pointers : op[<<m, Null>>] = NextOf(h, m)
  OBVIOUS
<1> HIDE DEF steps, op
<1>4. PICK f : Runs(f, steps, Pointers, n, op)
  BY <1>1, <1>2, ListRecursion
<1>5. Walks(f, h, n)
  <2>1. f \in [0..NodeCount -> Pointers] /\ f[0] = n
    BY <1>1, <1>4, NodeCountType DEF Runs
  <2>2. ASSUME NEW i \in 1..NodeCount PROVE f[i] = NextOf(h, f[i - 1])
    <3>1. f[i] = op[<<f[i - 1], Null>>]
      BY <1>1, <1>4, NodeCountType DEF Runs
    <3>2. f[i - 1] \in Pointers
      BY <2>1, NodeCountType
    <3> QED BY <1>3, <3>1, <3>2
  <2> QED BY <2>1, <2>2 DEF Walks
<1>6. Eq(f)
  <2>1. f \in [0..NodeCount -> Pointers] /\ DOMAIN f = 0..NodeCount
    BY <1>5 DEF Walks
  <2>2. \A i \in 0..NodeCount : f[i] = IF i = 0 THEN n ELSE NextOf(h, f[i - 1])
    BY <1>5, NodeCountType DEF Walks
  <2> QED BY <2>1, <2>2
<1>7. Walk(h, n) = CHOOSE g : Eq(g)
  BY DEF Walk, NodeCount
<1> DEFINE w == Walk(h, n)
<1>8. Eq(w)
  <2> HIDE DEF Eq
  <2> QED BY <1>6, <1>7
<1> HIDE DEF w
<1>9. DOMAIN w = 0..NodeCount /\ \A i \in 0..NodeCount : w[i] = IF i = 0 THEN n ELSE NextOf(h, w[i - 1])
  BY <1>8
<1> HIDE DEF Eq
<1> DEFINE Good == {k \in Nat : k <= NodeCount => w[k] \in Pointers}
<1>10. Good = Nat
  <2>1. 0 \in Good
    BY <1>9, NodeCountType
  <2>2. ASSUME NEW k \in Good PROVE k + 1 \in Good
    <3> SUFFICES ASSUME k + 1 <= NodeCount PROVE w[k + 1] \in Pointers
      OBVIOUS
    <3>1. w[k] \in Pointers /\ w[k + 1] = NextOf(h, w[k])
      BY <1>9, NodeCountType
    <3> QED BY <3>1, NextType
  <2>3. Good \in SUBSET Nat /\ \A k \in Good : k + 1 \in Good
    BY <2>2
  <2> HIDE DEF Good
  <2> QED BY <2>1, <2>3, NatSetInduction
<1>11. w \in [0..NodeCount -> Pointers]
  <2>1. \A k \in 0..NodeCount : w[k] \in Pointers
    BY <1>10, NodeCountType
  <2> QED BY <1>8, <1>9, <2>1 DEF Eq
<1>12. w[0] = n /\ \A i \in 1..NodeCount : w[i] = NextOf(h, w[i - 1])
  BY <1>9, NodeCountType
<1> QED BY <1>11, <1>12 DEF Walks, w

\* p is the chain of nodes that n starts
Chain(h, n, p) ==
  /\ p \in Seq(Nodes) /\ IsInjective(p)
  /\ n = IF Len(p) = 0 THEN Null ELSE p[1]
  /\ \A i \in 1..Len(p) : h[p[i]].next = IF i = Len(p) THEN Null ELSE p[i + 1]

\* A list without repetitions is not longer than there are nodes, and has as many
\* entries as its length says.
LEMMA ListSize ==
  ASSUME NEW p \in Seq(Nodes), IsInjective(p)
  PROVE  /\ Len(p) \in Nat /\ Len(p) <= NodeCount
         /\ IsFiniteSet(ToSet(p)) /\ Cardinality(ToSet(p)) = Len(p)
<1>1. Len(p) \in Nat /\ DOMAIN p = 1..Len(p) /\ p \in [1..Len(p) -> Nodes]
  OBVIOUS
<1>2. IsFiniteSet(1..Len(p)) /\ Cardinality(1..Len(p)) = Len(p)
  BY <1>1, FS_Interval
<1>3. ToSet(p) = {p[i] : i \in 1..Len(p)} /\ ToSet(p) \subseteq Nodes
  BY <1>1 DEF ToSet
<1>4. p \in Bijection(1..Len(p), ToSet(p))
  BY <1>1, <1>3 DEF Bijection, Injection, Surjection, IsInjective
<1>5. IsFiniteSet(ToSet(p)) /\ Cardinality(ToSet(p)) = Len(p)
  <2> DEFINE I == 1..Len(p)
             T == ToSet(p)
  <2>1. IsFiniteSet(I) /\ Cardinality(I) = Len(p) /\ p \in Bijection(I, T)
    BY <1>2, <1>4
  <2> HIDE DEF I, T
  <2>2. IsFiniteSet(T) /\ Cardinality(T) = Cardinality(I)
    BY <2>1, FS_Bijection DEF ExistsBijection
  <2> QED BY <2>1, <2>2 DEF T
<1>6. Cardinality(ToSet(p)) <= NodeCount
  BY <1>3, FiniteAssumption, FS_Subset DEF NodeCount
<1> QED BY <1>1, <1>5, <1>6

\* The path from the first node of a chain is the chain.
LEMMA PathIs ==
  ASSUME NEW h \in Heaps, NEW n \in Pointers, NEW p, Chain(h, n, p)
  PROVE  Path(h, n) = p
<1> DEFINE w == Walk(h, n)
<1>0. NodeCount \in Nat /\ p \in Seq(Nodes) /\ Len(p) \in Nat /\ Len(p) <= NodeCount
  BY NodeCountType, ListSize DEF Chain
<1>1. Walks(w, h, n)
  BY WalkIs
<1> HIDE DEF w
<1>2. \A i \in 1..Len(p) : p[i] \in Nodes /\ p[i] # Null /\ p[i] \in Pointers
  BY <1>0, NullAssumption DEF Pointers
<1> DEFINE At(i) == IF i < Len(p) THEN p[i + 1] ELSE Null
           Good == {k \in Nat : k <= NodeCount => w[k] = At(k)}
<1>3. 0 \in Good
  BY <1>0, <1>1 DEF Walks, Chain
<1>4. ASSUME NEW k \in Good, k + 1 <= NodeCount PROVE w[k + 1] = At(k + 1)
  <2>1. w[k] = At(k) /\ w[k + 1] = NextOf(h, w[k])
    BY <1>0, <1>1, <1>4 DEF Walks
  <2>2. CASE k < Len(p)
    <3>1. k + 1 \in 1..Len(p) /\ w[k] = p[k + 1] /\ p[k + 1] # Null
      BY <1>0, <1>2, <2>1, <2>2
    <3>2. w[k + 1] = h[p[k + 1]].next
      BY <2>1, <3>1 DEF NextOf
    <3>3. h[p[k + 1]].next = IF k + 1 = Len(p) THEN Null ELSE p[(k + 1) + 1]
      BY <3>1 DEF Chain
    <3> QED BY <1>0, <2>2, <3>2, <3>3
  <2>3. CASE ~(k < Len(p))
    BY <1>0, <2>1, <2>3 DEF NextOf
  <2> QED BY <2>2, <2>3
<1>5. Good = Nat
  <2>1. Good \in SUBSET Nat /\ \A k \in Good : k + 1 \in Good
    BY <1>4
  <2> HIDE DEF Good
  <2> QED BY <1>3, <2>1, NatSetInduction
<1>6. \A k \in 0..NodeCount : w[k] = At(k)
  BY <1>0, <1>5
<1>7. {j \in 0..NodeCount : w[j] # Null} = 0..(Len(p) - 1)
  <2>1. \A j \in 0..NodeCount : w[j] # Null <=> j < Len(p)
    BY <1>0, <1>2, <1>6
  <2> QED BY <1>0, <2>1
<1>8. Cardinality(0..(Len(p) - 1)) = Len(p)
  <2>1. CASE Len(p) = 0
    BY <2>1, FS_EmptySet
  <2>2. CASE Len(p) # 0
    <3>1. 0 \in Int /\ Len(p) - 1 \in Int /\ 0 <= Len(p) - 1 /\ (Len(p) - 1) - 0 + 1 = Len(p)
      BY <1>0, <2>2
    <3> QED BY <3>1, FS_Interval
  <2> QED BY <2>1, <2>2
<1>9. Path(h, n) = [i \in 1..Len(p) |-> w[i - 1]]
  BY <1>7, <1>8 DEF Path, w, NodeCount
<1>10. \A i \in 1..Len(p) : w[i - 1] = p[i]
  BY <1>0, <1>6
<1>11. p = [i \in 1..Len(p) |-> p[i]]
  BY <1>0
<1> QED BY <1>9, <1>10, <1>11

-----------------------------------------------------------------------------
(* The fields of nodes *)

\* The fields of a node have their types.
LEMMA HeapFields ==
  ASSUME NEW h \in Heaps, NEW x \in Nodes
  PROVE  /\ h[x].mem \in {"free", "live", "lost"} /\ h[x].data \in Data \cup {Null}
         /\ h[x].next \in Pointers /\ h[x].prev \in Pointers
  BY DEF Heaps

\* Setting the next link of a node changes that field alone, and nothing through NULL.
LEMMA SetNextFields ==
  ASSUME NEW h \in Heaps, NEW n \in Pointers, NEW m \in Pointers
  PROVE  /\ SetNext(h, n, m) \in Heaps
         /\ \A x \in Nodes :
              /\ SetNext(h, n, m)[x].mem = h[x].mem
              /\ SetNext(h, n, m)[x].data = h[x].data
              /\ SetNext(h, n, m)[x].next = IF x = n THEN m ELSE h[x].next
              /\ SetNext(h, n, m)[x].prev = h[x].prev
              /\ x # n => SetNext(h, n, m)[x] = h[x]
<1>1. CASE n = Null
  BY <1>1, NullAssumption DEF SetNext
<1>2. CASE n # Null
  <2>1. n \in Nodes /\ SetNext(h, n, m) = [h EXCEPT ![n].next = m]
    BY <1>2 DEF SetNext, Pointers
  <2> QED BY <2>1 DEF Heaps
<1> QED BY <1>1, <1>2

\* Setting the previous link does, too.
LEMMA SetPrevFields ==
  ASSUME NEW h \in Heaps, NEW n \in Pointers, NEW m \in Pointers
  PROVE  /\ SetPrev(h, n, m) \in Heaps
         /\ \A x \in Nodes :
              /\ SetPrev(h, n, m)[x].mem = h[x].mem
              /\ SetPrev(h, n, m)[x].data = h[x].data
              /\ SetPrev(h, n, m)[x].next = h[x].next
              /\ SetPrev(h, n, m)[x].prev = IF x = n THEN m ELSE h[x].prev
              /\ x # n => SetPrev(h, n, m)[x] = h[x]
<1>1. CASE n = Null
  BY <1>1, NullAssumption DEF SetPrev
<1>2. CASE n # Null
  <2>1. n \in Nodes /\ SetPrev(h, n, m) = [h EXCEPT ![n].prev = m]
    BY <1>2 DEF SetPrev, Pointers
  <2> QED BY <2>1 DEF Heaps
<1> QED BY <1>1, <1>2

\* a node is allocated, or released
LEMMA NodeFields ==
  ASSUME NEW h \in Heaps, NEW n \in Nodes, NEW d \in Data, NEW next \in Pointers,
         NEW prev \in Pointers
  PROVE  /\ [h EXCEPT ![n] = Node(d, next, prev)] \in Heaps
         /\ [h EXCEPT ![n] = Node(d, next, prev)][n] = Node(d, next, prev)
         /\ \A x \in Nodes \ {n} : [h EXCEPT ![n] = Node(d, next, prev)][x] = h[x]
  BY DEF Heaps, Node, Pointers

\* list_free_1 frees one node and leaves the others alone.
LEMMA FreeFields ==
  ASSUME NEW h \in Heaps, NEW n \in Nodes
  PROVE  /\ list_free_1(h, n) \in Heaps
         /\ list_free_1(h, n)[n] = Free
         /\ \A x \in Nodes \ {n} : list_free_1(h, n)[x] = h[x]
  BY DEF Heaps, Free, Pointers, list_free_1

-----------------------------------------------------------------------------
(* Linked lists *)

LinkedAt(h, p, i) ==
  /\ h[p[i]].mem = "live"
  /\ h[p[i]].next = IF i = Len(p) THEN Null ELSE p[i + 1]
  /\ h[p[i]].prev = IF i = 1 THEN Null ELSE p[i - 1]

\* p is the list that n starts
Linked(h, n, p) ==
  /\ p \in Seq(Nodes) /\ IsInjective(p)
  /\ n = IF Len(p) = 0 THEN Null ELSE p[1]
  /\ \A i \in 1..Len(p) : LinkedAt(h, p, i)

\* Between two heaps the nodes of a list p became those of a list q, and no other changed.
Replaces(h, p, g, q) ==
  /\ g \in Heaps
  /\ \A x \in Nodes : x \notin ToSet(p) /\ x \notin ToSet(q) => g[x] = h[x]
  /\ \A x \in ToSet(q) : x \in ToSet(p) \/ h[x].mem # "live"
  /\ \A x \in ToSet(p) : x \in ToSet(q) \/ g[x].mem # "live"

\* A well-linked list is a chain of next links.
LEMMA LinkedIsChain ==
  ASSUME NEW h, NEW n, NEW p, Linked(h, n, p)
  PROVE  Chain(h, n, p)
  BY DEF Linked, LinkedAt, Chain

\* What a list says of the pointer to its first node, and of its last node.
LEMMA LinkedEnds ==
  ASSUME NEW h, NEW n, NEW p, Linked(h, n, p)
  PROVE  /\ p \in Seq(Nodes) /\ Len(p) \in Nat /\ n \in Pointers
         /\ n = Null <=> Len(p) = 0
         /\ n # Null => n = p[1] /\ n \in ToSet(p) /\ n \in Nodes
         /\ \A i \in 1..Len(p) : p[i] \in Nodes /\ p[i] # Null /\ p[i] \in ToSet(p)
         /\ \A x \in ToSet(p) : x \in Nodes /\ h[x].mem = "live"
<1>1. p \in Seq(Nodes) /\ Len(p) \in Nat /\ DOMAIN p = 1..Len(p)
  BY DEF Linked
<1>2. \A i \in 1..Len(p) : p[i] \in Nodes /\ p[i] # Null /\ p[i] \in ToSet(p)
  BY <1>1, NullAssumption DEF ToSet
<1>3. Len(p) # 0 => 1 \in 1..Len(p)
  BY <1>1
<1>4. \A x \in ToSet(p) : x \in Nodes /\ h[x].mem = "live"
  <2>1. \A i \in 1..Len(p) : h[p[i]].mem = "live"
    BY DEF Linked, LinkedAt
  <2> QED BY <1>1, <1>2, <2>1 DEF ToSet
<1> QED BY <1>1, <1>2, <1>3, <1>4 DEF Linked, Pointers

\* A list is not changed by what is done to other nodes.
LEMMA LinkedElsewhere ==
  ASSUME NEW h, NEW g, NEW n, NEW p, Linked(h, n, p), \A x \in ToSet(p) : g[x] = h[x]
  PROVE  Linked(g, n, p)
<1>1. \A i \in 1..Len(p) : g[p[i]] = h[p[i]]
  BY LinkedEnds
<1> QED BY <1>1 DEF Linked, LinkedAt

\* NULL is the empty list.
LEMMA EmptyLinked ==
  ASSUME NEW h
  PROVE  Linked(h, Null, <<>>) /\ ToSet(<<>>) = {} /\ <<>> \in Seq(Nodes) /\ Len(<<>>) = 0
  BY DEF Linked, ToSet, IsInjective

\* A node put in front is the first, and the others move down by one.
LEMMA ConsNodes ==
  ASSUME NEW p \in Seq(Nodes), NEW n \in Nodes
  PROVE  /\ Cons(n, p) \in Seq(Nodes) /\ Len(Cons(n, p)) = Len(p) + 1 /\ Cons(n, p)[1] = n
         /\ \A i \in 1..Len(p) : Cons(n, p)[i + 1] = p[i]
  BY ConsType

\* list_insert_head (queue.c 40-56)
LEMMA InsertHeadLinks ==
  ASSUME NEW h \in Heaps, NEW first, NEW p, Linked(h, first, p),
         NEW n \in Nodes, h[n].mem = "free", NEW d \in Data
  PROVE  /\ Linked(list_insert_head(h, first, n, d), n, Cons(n, p))
         /\ Replaces(h, p, list_insert_head(h, first, n, d), Cons(n, p))
         /\ list_insert_head(h, first, n, d)[n].data = d
         /\ \A x \in ToSet(p) : list_insert_head(h, first, n, d)[x].data = h[x].data
<1> DEFINE g1 == [h EXCEPT ![n] = Node(d, first, Null)]
           g == SetPrev(g1, first, n)
           q == Cons(n, p)
<1>1. /\ p \in Seq(Nodes) /\ Len(p) \in Nat /\ first \in Pointers /\ IsInjective(p)
      /\ \A i \in 1..Len(p) : p[i] \in Nodes /\ p[i] # Null /\ p[i] \in ToSet(p)
      /\ \A x \in ToSet(p) : x \in Nodes /\ h[x].mem = "live"
      /\ DOMAIN p = 1..Len(p)
  BY LinkedEnds DEF Linked
<1>2. n \notin ToSet(p) /\ n \in Pointers /\ Null \in Pointers
  BY <1>1 DEF Pointers
<1>3. /\ g1 \in Heaps /\ g1[n] = Node(d, first, Null)
      /\ \A x \in Nodes \ {n} : g1[x] = h[x]
  BY <1>1, <1>2, NodeFields
<1> HIDE DEF g1
<1>4. /\ g \in Heaps
      /\ \A x \in Nodes : /\ g[x].mem = g1[x].mem /\ g[x].data = g1[x].data
                          /\ g[x].next = g1[x].next
                          /\ g[x].prev = IF x = first THEN n ELSE g1[x].prev
                          /\ x # first => g[x] = g1[x]
  BY <1>1, <1>2, <1>3, SetPrevFields
<1> HIDE DEF g
<1>5. /\ q \in Seq(Nodes) /\ Len(q) = Len(p) + 1 /\ q[1] = n
      /\ \A i \in 1..Len(p) : q[i + 1] = p[i]
      /\ ToSet(q) = ToSet(p) \cup {n} /\ IsInjective(q)
  <2>1. p \in Seq(Nodes) /\ IsInjective(p) /\ n \notin ToSet(p)
    BY <1>1, <1>2
  <2>2. /\ q \in Seq(Nodes) /\ Len(q) = Len(p) + 1 /\ q[1] = n
        /\ \A i \in 1..Len(p) : q[i + 1] = p[i]
    BY <2>1, ConsNodes
  <2>3. ToSet(q) = ToSet(p) \cup {n} /\ IsInjective(q)
    BY <2>1, ConsEntries
  <2> QED BY <2>2, <2>3
<1> HIDE DEF q
<1>6. /\ first = IF Len(p) = 0 THEN Null ELSE p[1]
      /\ \A i \in 1..Len(p) : LinkedAt(h, p, i)
  BY DEF Linked
<1>7. first # n /\ (first # Null => first \in ToSet(p))
  BY <1>1, <1>2, <1>6, NullAssumption
<1>8. LinkedAt(g, q, 1)
  <2>1. g[n] = Node(d, first, Null)
    BY <1>3, <1>4, <1>7
  <2>2. first = IF 1 = Len(q) THEN Null ELSE q[2]
    BY <1>1, <1>5, <1>6
  <2> QED BY <1>5, <2>1, <2>2 DEF LinkedAt, Node
<1>9. ASSUME NEW i \in 1..Len(p) PROVE LinkedAt(g, q, i + 1)
  <2>1. q[i + 1] = p[i] /\ p[i] \in Nodes /\ p[i] # n
    BY <1>1, <1>2, <1>5
  <2>2. /\ g[p[i]].mem = h[p[i]].mem /\ g[p[i]].next = h[p[i]].next
        /\ g[p[i]].prev = IF p[i] = first THEN n ELSE h[p[i]].prev
    BY <1>3, <1>4, <2>1
  <2>3. p[i] = first <=> i = 1
    BY <1>1, <1>6 DEF IsInjective
  <2>4. LinkedAt(h, p, i)
    BY <1>6
  <2>5. (IF i = Len(p) THEN Null ELSE p[i + 1]) = IF i + 1 = Len(q) THEN Null ELSE q[(i + 1) + 1]
    <3>1. Len(p) \in Nat /\ i \in Nat
      BY <1>1
    <3>2. i # Len(p) => i + 1 \in 1..Len(p)
      BY <3>1
    <3> QED BY <1>5, <3>1, <3>2
  <2>6. i # 1 => i - 1 \in 1..Len(p) /\ q[(i + 1) - 1] = p[i - 1]
    BY <1>1, <1>5
  <2>7. i = 1 => q[(i + 1) - 1] = n
    BY <1>5
  <2>8. i + 1 # 1
    OBVIOUS
  <2>9. g[q[i + 1]].mem = "live"
    BY <2>1, <2>2, <2>4 DEF LinkedAt
  <2>10. g[q[i + 1]].next = IF i + 1 = Len(q) THEN Null ELSE q[(i + 1) + 1]
    BY <2>1, <2>2, <2>4, <2>5 DEF LinkedAt
  <2>11. g[q[i + 1]].prev = q[(i + 1) - 1]
    BY <2>1, <2>2, <2>3, <2>4, <2>6, <2>7 DEF LinkedAt
  <2> QED BY <2>8, <2>9, <2>10, <2>11 DEF LinkedAt
<1>10. Linked(g, n, q)
  <2>1. \A j \in 1..Len(q) : j = 1 \/ (j - 1 \in 1..Len(p) /\ (j - 1) + 1 = j)
    BY <1>1, <1>5
  <2>2. \A j \in 1..Len(q) : LinkedAt(g, q, j)
    BY <1>8, <1>9, <2>1
  <2>3. Len(q) # 0
    BY <1>1, <1>5
  <2> QED BY <1>5, <2>2, <2>3 DEF Linked
<1>11. Replaces(h, p, g, q)
  <2>1. \A x \in Nodes : x \notin ToSet(p) /\ x # n => g[x] = h[x]
    BY <1>3, <1>4, <1>7, NullAssumption
  <2> QED BY <1>4, <1>5, <2>1 DEF Replaces
<1>12. g[n].data = d /\ \A x \in ToSet(p) : g[x].data = h[x].data
  <2>1. g[n].data = d
    BY <1>3, <1>4 DEF Node
  <2> QED BY <1>1, <1>2, <1>3, <1>4, <2>1
<1>13. list_insert_head(h, first, n, d) = g
  BY DEF list_insert_head, g, g1
<1> QED BY <1>10, <1>11, <1>12, <1>13 DEF q

\* the last node of a list
LastOf(p) == IF Len(p) = 0 THEN Null ELSE p[Len(p)]

\* list_last finds the last node, from the first or from the last itself.
LEMMA LastIs ==
  ASSUME NEW h \in Heaps, NEW n, NEW p, Linked(h, n, p)
  PROVE  /\ list_last(h, n) = LastOf(p)
         /\ list_last(h, LastOf(p)) = LastOf(p)
<1>1. /\ p \in Seq(Nodes) /\ Len(p) \in Nat /\ n \in Pointers /\ (n = Null <=> Len(p) = 0)
      /\ \A i \in 1..Len(p) : p[i] \in Nodes /\ p[i] # Null
  BY LinkedEnds
<1>2. Path(h, n) = p
  BY <1>1, LinkedIsChain, PathIs
<1>3. list_last(h, n) = LastOf(p)
  BY <1>1, <1>2 DEF list_last, LastOf, Last
<1>4. CASE Len(p) = 0
  BY <1>1, <1>4 DEF list_last, LastOf
<1>5. CASE Len(p) # 0
  <2> DEFINE m == p[Len(p)]
  <2>1. Len(p) \in 1..Len(p)
    BY <1>1, <1>5
  <2>2. m \in Nodes /\ m # Null /\ m \in Pointers /\ h[m].next = Null
    BY <1>1, <2>1 DEF Linked, LinkedAt, Pointers
  <2> HIDE DEF m
  <2>3. <<m>> \in Seq(Nodes) /\ Len(<<m>>) = 1 /\ <<m>>[1] = m /\ IsInjective(<<m>>)
    BY <2>2 DEF IsInjective
  <2>4. Chain(h, m, <<m>>)
    BY <2>2, <2>3 DEF Chain
  <2>5. Path(h, m) = <<m>>
    BY <2>2, <2>4, PathIs
  <2>6. list_last(h, m) = m
    BY <2>2, <2>3, <2>5 DEF list_last, Last
  <2> QED BY <1>3, <1>5, <2>6 DEF LastOf, m
<1> QED BY <1>3, <1>4, <1>5

\* list_insert_tail (queue.c 59-83), by a pointer whose last node is that of the list.
LEMMA InsertTailLinks ==
  ASSUME NEW h \in Heaps, NEW first, NEW p, Linked(h, first, p), NEW from,
         list_last(h, from) = LastOf(p),
         NEW n \in Nodes, h[n].mem = "free", NEW d \in Data
  PROVE  /\ Linked(list_insert_tail(h, from, n, d), IF Len(p) = 0 THEN n ELSE first, Append(p, n))
         /\ Replaces(h, p, list_insert_tail(h, from, n, d), Append(p, n))
         /\ list_insert_tail(h, from, n, d)[n].data = d
         /\ \A x \in ToSet(p) : list_insert_tail(h, from, n, d)[x].data = h[x].data
<1> DEFINE last == LastOf(p)
           g1 == [h EXCEPT ![n] = Node(d, Null, last)]
           g == SetNext(g1, last, n)
           q == Append(p, n)
<1>1. /\ p \in Seq(Nodes) /\ Len(p) \in Nat /\ IsInjective(p)
      /\ \A i \in 1..Len(p) : p[i] \in Nodes /\ p[i] # Null /\ p[i] \in ToSet(p)
      /\ \A x \in ToSet(p) : x \in Nodes /\ h[x].mem = "live"
  BY LinkedEnds DEF Linked
<1>2. n \notin ToSet(p) /\ n \in Pointers /\ Null \in Pointers /\ n # Null
  BY <1>1, NullAssumption DEF Pointers
<1>3. /\ last \in Pointers /\ last # n /\ (last # Null => last \in ToSet(p))
      /\ last = IF Len(p) = 0 THEN Null ELSE p[Len(p)]
  <2>1. Len(p) # 0 => Len(p) \in 1..Len(p)
    BY <1>1
  <2> QED BY <1>1, <1>2, <2>1 DEF LastOf, Pointers
<1> HIDE DEF last
<1>4. /\ g1 \in Heaps /\ g1[n] = Node(d, Null, last)
      /\ \A x \in Nodes \ {n} : g1[x] = h[x]
  BY <1>2, <1>3, NodeFields
<1> HIDE DEF g1
<1>5. /\ g \in Heaps
      /\ \A x \in Nodes : /\ g[x].mem = g1[x].mem /\ g[x].data = g1[x].data
                          /\ g[x].prev = g1[x].prev
                          /\ g[x].next = IF x = last THEN n ELSE g1[x].next
                          /\ x # last => g[x] = g1[x]
  <2>1. g1 \in Heaps /\ last \in Pointers /\ n \in Pointers
    BY <1>2, <1>3, <1>4
  <2> QED BY <2>1, SetNextFields
<1> HIDE DEF g
<1>6. /\ q \in Seq(Nodes) /\ Len(q) = Len(p) + 1 /\ q[Len(p) + 1] = n
      /\ \A i \in 1..Len(p) : q[i] = p[i]
  BY <1>1
<1>7. ToSet(q) = ToSet(p) \cup {n} /\ IsInjective(q)
  <2>1. p \in Seq(Nodes) /\ IsInjective(p) /\ n \notin ToSet(p)
    BY <1>1, <1>2
  <2> QED BY <2>1, AppendEntries
<1> HIDE DEF q
<1>8. /\ first = IF Len(p) = 0 THEN Null ELSE p[1]
      /\ \A i \in 1..Len(p) : LinkedAt(h, p, i)
  BY DEF Linked
<1>9. LinkedAt(g, q, Len(p) + 1)
  <2>1. g[n] = Node(d, Null, last)
    BY <1>3, <1>4, <1>5
  <2>2. last = IF Len(p) + 1 = 1 THEN Null ELSE q[(Len(p) + 1) - 1]
    <3>1. Len(p) # 0 => Len(p) \in 1..Len(p)
      BY <1>1
    <3> QED BY <1>1, <1>3, <1>6, <3>1
  <2> QED BY <1>6, <2>1, <2>2 DEF LinkedAt, Node
<1>10. ASSUME NEW i \in 1..Len(p) PROVE LinkedAt(g, q, i)
  <2>1. q[i] = p[i] /\ p[i] \in Nodes /\ p[i] # n
    BY <1>1, <1>2, <1>6
  <2>2. /\ g[p[i]].mem = h[p[i]].mem /\ g[p[i]].prev = h[p[i]].prev
        /\ g[p[i]].next = IF p[i] = last THEN n ELSE h[p[i]].next
    BY <1>4, <1>5, <2>1
  <2>0. Len(p) \in Nat /\ i \in Nat /\ Len(p) # 0 /\ Len(p) \in 1..Len(p)
    BY <1>1
  <2>3. p[i] = last <=> i = Len(p)
    BY <1>1, <1>3, <2>0 DEF IsInjective
  <2>4. LinkedAt(h, p, i)
    BY <1>8
  <2>5. i # Len(q) /\ (i = Len(p) => q[i + 1] = n) /\ (i # Len(p) => q[i + 1] = p[i + 1])
    BY <1>6, <2>0
  <2>6. i # 1 => q[i - 1] = p[i - 1]
    BY <1>6, <2>0
  <2>7. g[q[i]].mem = "live"
    BY <2>1, <2>2, <2>4 DEF LinkedAt
  <2>8. g[q[i]].next = q[i + 1]
    BY <2>1, <2>2, <2>3, <2>4, <2>5 DEF LinkedAt
  <2>9. g[q[i]].prev = IF i = 1 THEN Null ELSE q[i - 1]
    BY <2>1, <2>2, <2>4, <2>6 DEF LinkedAt
  <2> QED BY <2>5, <2>7, <2>8, <2>9 DEF LinkedAt
<1>11. Linked(g, IF Len(p) = 0 THEN n ELSE first, q)
  <2>1. \A j \in 1..Len(q) : j \in 1..Len(p) \/ j = Len(p) + 1
    BY <1>1, <1>6
  <2>2. \A j \in 1..Len(q) : LinkedAt(g, q, j)
    BY <1>9, <1>10, <2>1
  <2>3. Len(q) # 0 /\ (Len(p) = 0 => q[1] = n) /\ (Len(p) # 0 => q[1] = p[1])
    BY <1>1, <1>6
  <2> QED BY <1>6, <1>7, <1>8, <2>2, <2>3 DEF Linked
<1>12. Replaces(h, p, g, q)
  <2>1. \A x \in Nodes : x \notin ToSet(p) /\ x # n => g[x] = h[x]
    BY <1>3, <1>4, <1>5, NullAssumption
  <2> QED BY <1>5, <1>7, <2>1 DEF Replaces
<1>13. g[n].data = d /\ \A x \in ToSet(p) : g[x].data = h[x].data
  <2>1. g[n].data = d
    BY <1>4, <1>5 DEF Node
  <2> QED BY <1>1, <1>2, <1>4, <1>5, <2>1
<1>14. list_insert_tail(h, from, n, d) = g
  BY DEF list_insert_tail, g, g1, last
<1> QED BY <1>11, <1>12, <1>13, <1>14 DEF q

\* A node is taken out of a list and released: list_remove (queue.c 86-110), and the end
\* of list_remove_link and list_free for it (142-160, 26-38).
Taken(h, n) == list_free_1(Bypass(h, n), n)

\* Taking a node out leaves the list without it, and touches no node of another list.
LEMMA TakenLinks ==
  ASSUME NEW h \in Heaps, NEW first, NEW p, Linked(h, first, p), NEW k \in 1..Len(p)
  PROVE  /\ Linked(Taken(h, p[k]), Without(first, h, p[k]), RemoveAt(p, k))
         /\ Replaces(h, p, Taken(h, p[k]), RemoveAt(p, k))
         /\ \A x \in ToSet(p) \ {p[k]} : Taken(h, p[k])[x].data = h[x].data
<1> DEFINE n == p[k]
           nx == h[n].next
           pv == h[n].prev
           b == SetPrev(h, nx, pv)
           g1 == SetNext(b, pv, nx)
           g == list_free_1(g1, n)
           q == RemoveAt(p, k)
           From(j) == IF j < k THEN j ELSE j + 1
<1>1. /\ p \in Seq(Nodes) /\ Len(p) \in Nat /\ IsInjective(p)
      /\ \A i \in 1..Len(p) : p[i] \in Nodes /\ p[i] # Null /\ p[i] \in ToSet(p)
      /\ \A x \in ToSet(p) : x \in Nodes /\ h[x].mem = "live"
  BY LinkedEnds DEF Linked
<1>2. /\ first = IF Len(p) = 0 THEN Null ELSE p[1]
      /\ \A i \in 1..Len(p) : LinkedAt(h, p, i)
  BY DEF Linked
<1>3. k \in Nat /\ 1 <= k /\ k <= Len(p) /\ Len(p) \in Nat
  BY <1>1
<1>4. /\ n \in Nodes /\ n # Null
      /\ nx = IF k = Len(p) THEN Null ELSE p[k + 1]
      /\ pv = IF k = 1 THEN Null ELSE p[k - 1]
  BY <1>1, <1>2 DEF LinkedAt
<1>5. /\ nx \in Pointers /\ pv \in Pointers /\ nx # n /\ pv # n
      /\ (nx # Null => nx \in ToSet(p)) /\ (pv # Null => pv \in ToSet(p))
  <2>1. k # Len(p) => k + 1 \in 1..Len(p) /\ k + 1 # k
    BY <1>3
  <2>2. k # 1 => k - 1 \in 1..Len(p) /\ k - 1 # k
    BY <1>3
  <2>3. DOMAIN p = 1..Len(p) /\ k \in DOMAIN p
    BY <1>1
  <2>4. \A i \in 1..Len(p) : i # k => p[i] # n
    BY <1>1, <2>3 DEF IsInjective
  <2> QED BY <1>1, <1>4, <2>1, <2>2, <2>4 DEF Pointers
<1> HIDE DEF nx, pv
<1>6. /\ b \in Heaps
      /\ \A x \in Nodes : /\ b[x].mem = h[x].mem /\ b[x].data = h[x].data /\ b[x].next = h[x].next
                          /\ b[x].prev = IF x = nx THEN pv ELSE h[x].prev
                          /\ x # nx => b[x] = h[x]
  BY <1>5, SetPrevFields
<1> HIDE DEF b
<1>7. /\ g1 \in Heaps
      /\ \A x \in Nodes : /\ g1[x].mem = b[x].mem /\ g1[x].data = b[x].data /\ g1[x].prev = b[x].prev
                          /\ g1[x].next = IF x = pv THEN nx ELSE b[x].next
                          /\ x # pv => g1[x] = b[x]
  BY <1>5, <1>6, SetNextFields
<1> HIDE DEF g1
<1>8. g \in Heaps /\ g[n] = Free /\ \A x \in Nodes \ {n} : g[x] = g1[x]
  BY <1>4, <1>7, FreeFields
<1> HIDE DEF g
<1>9. \A x \in Nodes \ {n} :
        /\ g[x].mem = h[x].mem /\ g[x].data = h[x].data
        /\ g[x].next = IF x = pv THEN nx ELSE h[x].next
        /\ g[x].prev = IF x = nx THEN pv ELSE h[x].prev
        /\ x # nx /\ x # pv => g[x] = h[x]
  BY <1>6, <1>7, <1>8
<1>10. /\ q \in Seq(Nodes) /\ Len(q) = Len(p) - 1
       /\ \A j \in 1..(k - 1) : q[j] = p[j]
       /\ \A j \in k..(Len(p) - 1) : q[j] = p[j + 1]
  BY <1>1, RemoveAtType
<1>11. ToSet(q) = ToSet(p) \ {n} /\ IsInjective(q)
  BY <1>1, RemoveAtEntries
<1> HIDE DEF q
<1>12. \A i, j \in 1..Len(p) : p[i] = p[j] => i = j
  <2>1. DOMAIN p = 1..Len(p)
    BY <1>1
  <2> QED BY <1>1, <2>1 DEF IsInjective
<1>13. \A j \in 1..Len(q) : q[j] = p[From(j)] /\ From(j) \in 1..Len(p) /\ From(j) # k
  BY <1>3, <1>10
<1>14. ASSUME NEW j \in 1..Len(q) PROVE LinkedAt(g, q, j)
  <2> DEFINE i == From(j)
             x == p[i]
  <2>1. q[j] = x /\ i \in 1..Len(p) /\ i # k /\ x \in Nodes \ {n}
    BY <1>1, <1>12, <1>13
  <2>2. LinkedAt(h, p, i)
    BY <1>2, <2>1
  <2>3. j \in Nat /\ j # 0 /\ i \in Nat /\ Len(q) \in Nat
    BY <1>10, <1>3
  <2>4. x = pv <=> i = k - 1
    <3>1. k # 1 => k - 1 \in 1..Len(p)
      BY <1>3
    <3>2. CASE k = 1
      BY <1>1, <1>4, <2>1, <3>2
    <3>3. CASE k # 1
      BY <1>4, <1>12, <2>1, <3>1, <3>3
    <3> QED BY <3>2, <3>3
  <2>5. x = nx <=> i = k + 1
    <3>1. k # Len(p) => k + 1 \in 1..Len(p)
      BY <1>3
    <3>2. CASE k = Len(p)
      BY <1>1, <1>3, <1>4, <2>1, <3>2
    <3>3. CASE k # Len(p)
      BY <1>4, <1>12, <2>1, <3>1, <3>3
    <3> QED BY <3>2, <3>3
  <2>6. g[x].mem = "live"
    BY <1>9, <2>1, <2>2 DEF LinkedAt
  <2>7. g[x].next = IF j = Len(q) THEN Null ELSE q[j + 1]
    <3>1. g[x].next = IF i = k - 1 THEN nx ELSE IF i = Len(p) THEN Null ELSE p[i + 1]
      BY <1>9, <2>1, <2>2, <2>4 DEF LinkedAt
    <3>2. CASE i = k - 1
      <4>1. j = k - 1 /\ (j = Len(q) <=> k = Len(p)) /\ (j # Len(q) => k \in k..(Len(p) - 1))
        BY <1>3, <1>10, <2>3, <3>2
      <4>2. j # Len(q) => q[j + 1] = p[k + 1]
        BY <1>3, <1>10, <4>1
      <4> QED BY <1>4, <3>1, <3>2, <4>1, <4>2
    <3>3. CASE i # k - 1
      <4>1. i = Len(p) <=> j = Len(q)
        BY <1>3, <1>10, <2>1, <2>3, <3>3
      <4>2. j # Len(q) => q[j + 1] = p[i + 1]
        BY <1>3, <1>10, <2>1, <2>3, <3>3
      <4> QED BY <3>1, <3>3, <4>1, <4>2
    <3> QED BY <3>2, <3>3
  <2>8. g[x].prev = IF j = 1 THEN Null ELSE q[j - 1]
    <3>1. g[x].prev = IF i = k + 1 THEN pv ELSE IF i = 1 THEN Null ELSE p[i - 1]
      BY <1>9, <2>1, <2>2, <2>5 DEF LinkedAt
    <3>2. CASE i = k + 1
      <4>1. j = k /\ (j # 1 => k - 1 \in 1..(k - 1))
        BY <1>3, <2>3, <3>2
      <4>2. j # 1 => q[j - 1] = p[k - 1]
        BY <1>10, <4>1
      <4> QED BY <1>4, <3>1, <3>2, <4>1, <4>2
    <3>3. CASE i # k + 1
      <4>1. i = 1 <=> j = 1
        BY <1>3, <2>1, <2>3, <3>3
      <4>2. j # 1 => q[j - 1] = p[i - 1]
        BY <1>3, <1>10, <2>1, <2>3, <3>3
      <4> QED BY <3>1, <3>3, <4>1, <4>2
    <3> QED BY <3>2, <3>3
  <2> QED BY <2>1, <2>6, <2>7, <2>8 DEF LinkedAt
<1>15. Linked(g, Without(first, h, n), q)
  <2>1. first = p[1] /\ (first = n <=> k = 1)
    <3>1. Len(p) # 0 /\ 1 \in 1..Len(p)
      BY <1>3
    <3> QED BY <1>2, <1>12, <3>1
  <2>2. Without(first, h, n) = IF k = 1 THEN nx ELSE p[1]
    BY <2>1 DEF Without, nx
  <2>3. CASE k = 1
    <3>1. Len(q) = 0 <=> k = Len(p)
      BY <1>3, <1>10, <2>3
    <3>2. Len(q) # 0 => q[1] = p[k + 1]
      BY <1>3, <1>10, <2>3
    <3>3. Without(first, h, n) = IF Len(q) = 0 THEN Null ELSE q[1]
      BY <1>4, <2>2, <2>3, <3>1, <3>2
    <3> QED BY <1>10, <1>11, <1>14, <3>3 DEF Linked
  <2>4. CASE k # 1
    <3>1. Len(q) # 0 /\ q[1] = p[1]
      BY <1>3, <1>10, <2>4
    <3> QED BY <1>10, <1>11, <1>14, <2>2, <2>4, <3>1 DEF Linked
  <2> QED BY <2>3, <2>4
<1>16. Replaces(h, p, g, q)
  <2>1. \A x \in Nodes : x \notin ToSet(p) => g[x] = h[x]
    BY <1>1, <1>5, <1>9, NullAssumption
  <2>2. g[n].mem # "live"
    BY <1>8 DEF Free
  <2> QED BY <1>8, <1>11, <2>1, <2>2 DEF Replaces
<1>17. \A x \in ToSet(p) \ {n} : g[x].data = h[x].data
  BY <1>1, <1>9
<1>18. Taken(h, n) = g
  BY DEF Taken, Bypass, g, g1, b, nx, pv
<1> QED BY <1>15, <1>16, <1>17, <1>18 DEF q

\* list_free (queue.c 26-38)
LEMMA FreeLinks ==
  ASSUME NEW h \in Heaps, NEW first, NEW p, Linked(h, first, p)
  PROVE  Linked(list_free(h, first), Null, <<>>) /\ Replaces(h, p, list_free(h, first), <<>>)
<1>1. first \in Pointers /\ \A x \in ToSet(p) : x \in Nodes
  BY LinkedEnds
<1>2. Path(h, first) = p
  BY <1>1, LinkedIsChain, PathIs
<1>3. list_free(h, first) \in Heaps
  BY <1>2 DEF list_free, Heaps, Free, Pointers
<1>4. \A x \in Nodes : list_free(h, first)[x] = IF x \in ToSet(p) THEN Free ELSE h[x]
  BY <1>2 DEF list_free
<1>5. \A x \in ToSet(p) : list_free(h, first)[x].mem # "live"
  BY <1>1, <1>4 DEF Free
<1> QED BY <1>3, <1>4, <1>5, EmptyLinked DEF Replaces

\* Linking a node's neighbours to each other keeps the heap's types.
LEMMA BypassType ==
  ASSUME NEW h \in Heaps, NEW n \in Nodes
  PROVE  Bypass(h, n) \in Heaps
<1>1. h[n].next \in Pointers /\ h[n].prev \in Pointers
  BY HeapFields
<1>2. SetPrev(h, h[n].next, h[n].prev) \in Heaps
  BY <1>1, SetPrevFields
<1> QED BY <1>1, <1>2, SetNextFields DEF Bypass

\* After list_remove_link a node is a list of its own, and list_free releases it alone.
LEMMA RemovedLink ==
  ASSUME NEW h \in Heaps, NEW n \in Nodes
  PROVE  list_free(list_remove_link(h, n), n) = Taken(h, n)
<1> DEFINE b == Bypass(h, n)
           e == [b EXCEPT ![n].next = Null, ![n].prev = Null]
<1>1. b \in Heaps
  BY BypassType
<1> HIDE DEF b
<1>2. e \in Heaps /\ e[n].next = Null /\ \A m \in Nodes \ {n} : e[m] = b[m]
  <2> DEFINE r == [b[n] EXCEPT !.next = Null, !.prev = Null]
  <2>1. b[n] \in [mem : {"free", "live", "lost"}, data : Data \cup {Null},
                  next : Pointers, prev : Pointers]
    BY <1>1 DEF Heaps
  <2>2. /\ r \in [mem : {"free", "live", "lost"}, data : Data \cup {Null},
                  next : Pointers, prev : Pointers]
        /\ r.next = Null
    BY <2>1 DEF Pointers
  <2>3. e = [b EXCEPT ![n] = r]
    BY <1>1 DEF Heaps
  <2> HIDE DEF r, e
  <2> QED BY <1>1, <2>2, <2>3 DEF Heaps
<1> HIDE DEF e
<1>3. <<n>> \in Seq(Nodes) /\ Len(<<n>>) = 1 /\ <<n>>[1] = n /\ DOMAIN <<n>> = 1..1
  OBVIOUS
<1>4. Chain(e, n, <<n>>)
  BY <1>2, <1>3 DEF Chain, IsInjective
<1>5. Path(e, n) = <<n>> /\ ToSet(<<n>>) = {n}
  <2>1. n \in Pointers
    BY DEF Pointers
  <2> QED BY <1>2, <1>3, <1>4, <2>1, PathIs DEF ToSet
<1>6. list_free(e, n) = [m \in Nodes |-> IF m = n THEN Free ELSE b[m]]
  BY <1>2, <1>5 DEF list_free
<1>7. list_free_1(b, n) = [m \in Nodes |-> IF m = n THEN Free ELSE b[m]]
  BY <1>1 DEF list_free_1, Heaps
<1> QED BY <1>6, <1>7 DEF list_remove_link, Taken, e, b

\* list_concat (queue.c 172-188)
LEMMA ConcatLinks ==
  ASSUME NEW h \in Heaps, NEW first, NEW p, Linked(h, first, p),
         NEW second, NEW q, Linked(h, second, q), second # Null,
         ToSet(p) \cap ToSet(q) = {}
  PROVE  LET last == list_last(h, first)
             g == SetPrev(SetNext(h, last, second), second, last)
         IN /\ Linked(g, IF first = Null THEN second ELSE first, p \o q)
            /\ g \in Heaps
            /\ \A x \in Nodes : x \notin ToSet(p) \cup ToSet(q) => g[x] = h[x]
            /\ \A x \in Nodes : g[x].data = h[x].data /\ g[x].mem = h[x].mem
            /\ ToSet(p \o q) = ToSet(p) \cup ToSet(q)
<1> DEFINE last == LastOf(p)
           a == SetNext(h, last, second)
           g == SetPrev(a, second, last)
           r == p \o q
<1>1. /\ p \in Seq(Nodes) /\ Len(p) \in Nat /\ IsInjective(p)
      /\ \A i \in 1..Len(p) : p[i] \in Nodes /\ p[i] # Null /\ p[i] \in ToSet(p)
      /\ (first = Null <=> Len(p) = 0)
  BY LinkedEnds DEF Linked
<1>2. /\ q \in Seq(Nodes) /\ Len(q) \in Nat /\ IsInjective(q) /\ second \in Pointers
      /\ \A i \in 1..Len(q) : q[i] \in Nodes /\ q[i] # Null /\ q[i] \in ToSet(q)
      /\ Len(q) # 0 /\ second = q[1] /\ second \in ToSet(q) /\ second \in Nodes
  BY LinkedEnds DEF Linked
<1>3. /\ \A i, j \in 1..Len(p) : p[i] = p[j] => i = j
      /\ \A i, j \in 1..Len(q) : q[i] = q[j] => i = j
      /\ \A i \in 1..Len(p), j \in 1..Len(q) : p[i] # q[j]
  <2>1. DOMAIN p = 1..Len(p) /\ DOMAIN q = 1..Len(q)
    BY <1>1, <1>2
  <2>2. \A i, j \in 1..Len(p) : p[i] = p[j] => i = j
    BY <1>1, <2>1 DEF IsInjective
  <2>3. \A i, j \in 1..Len(q) : q[i] = q[j] => i = j
    BY <1>2, <2>1 DEF IsInjective
  <2>4. \A i \in 1..Len(p), j \in 1..Len(q) : p[i] # q[j]
    BY <1>1, <1>2
  <2> QED BY <2>2, <2>3, <2>4
<1>4. last \in Pointers /\ last = (IF Len(p) = 0 THEN Null ELSE p[Len(p)])
      /\ (last # Null => last \in ToSet(p))
  <2>1. Len(p) # 0 => Len(p) \in 1..Len(p)
    BY <1>1
  <2> QED BY <1>1, <2>1 DEF LastOf, Pointers
<1>5. list_last(h, first) = last
  BY LastIs
<1> HIDE DEF last
<1>6. /\ a \in Heaps
      /\ \A x \in Nodes : /\ a[x].mem = h[x].mem /\ a[x].data = h[x].data /\ a[x].prev = h[x].prev
                          /\ a[x].next = IF x = last THEN second ELSE h[x].next
                          /\ x # last => a[x] = h[x]
  BY <1>2, <1>4, SetNextFields
<1> HIDE DEF a
<1>7. /\ g \in Heaps
      /\ \A x \in Nodes : /\ g[x].mem = a[x].mem /\ g[x].data = a[x].data /\ g[x].next = a[x].next
                          /\ g[x].prev = IF x = second THEN last ELSE a[x].prev
                          /\ x # second => g[x] = a[x]
  <2>1. a \in Heaps /\ second \in Pointers /\ last \in Pointers
    BY <1>2, <1>4, <1>6
  <2> QED BY <2>1, SetPrevFields
<1> HIDE DEF g
<1>8. \A x \in Nodes :
        /\ g[x].mem = h[x].mem /\ g[x].data = h[x].data
        /\ g[x].next = IF x = last THEN second ELSE h[x].next
        /\ g[x].prev = IF x = second THEN last ELSE h[x].prev
        /\ x # second /\ x # last => g[x] = h[x]
  BY <1>6, <1>7
<1>9. /\ r \in Seq(Nodes) /\ Len(r) = Len(p) + Len(q)
      /\ \A i \in 1..Len(p) : r[i] = p[i]
      /\ \A i \in 1..Len(q) : r[Len(p) + i] = q[i]
  <2>1. r \in Seq(Nodes)
    BY <1>1, <1>2
  <2>2. Len(r) = Len(p) + Len(q)
    BY <1>1, <1>2
  <2>3. \A i \in 1..Len(p) : r[i] = p[i]
    BY <1>1, <1>2
  <2>4. \A i \in 1..Len(q) : r[Len(p) + i] = q[i]
    BY <1>1, <1>2
  <2> QED BY <2>1, <2>2, <2>3, <2>4
<1> HIDE DEF r
<1>0. Len(p) \in Nat /\ Len(q) \in Nat /\ Len(q) # 0 /\ 1 \in 1..Len(q)
  BY <1>1, <1>2
<1>10. \A j \in 1..Len(r) : j \in 1..Len(p) \/ \E i \in 1..Len(q) : j = Len(p) + i
  <2> SUFFICES ASSUME NEW j \in 1..Len(r), j \notin 1..Len(p)
               PROVE  \E i \in 1..Len(q) : j = Len(p) + i
    OBVIOUS
  <2>1. j - Len(p) \in 1..Len(q) /\ j = Len(p) + (j - Len(p))
    BY <1>0, <1>9
  <2> QED BY <2>1
<1>11. IsInjective(r)
  <2> SUFFICES ASSUME NEW j \in 1..Len(r), NEW k \in 1..Len(r), r[j] = r[k] PROVE j = k
    BY <1>9 DEF IsInjective
  <2>1. CASE j \in 1..Len(p) /\ k \in 1..Len(p)
    BY <1>3, <1>9, <2>1
  <2>2. CASE j \notin 1..Len(p) /\ k \notin 1..Len(p)
    <3>1. PICK i \in 1..Len(q) : j = Len(p) + i
      BY <1>10, <2>2
    <3>2. PICK m \in 1..Len(q) : k = Len(p) + m
      BY <1>10, <2>2
    <3>3. q[i] = q[m]
      BY <1>9, <3>1, <3>2
    <3> QED BY <1>3, <3>1, <3>2, <3>3
  <2>3. CASE j \in 1..Len(p) /\ k \notin 1..Len(p)
    <3>1. PICK m \in 1..Len(q) : k = Len(p) + m
      BY <1>10, <2>3
    <3> QED BY <1>3, <1>9, <2>3, <3>1
  <2>4. CASE j \notin 1..Len(p) /\ k \in 1..Len(p)
    <3>1. PICK m \in 1..Len(q) : j = Len(p) + m
      BY <1>10, <2>4
    <3> QED BY <1>3, <1>9, <2>4, <3>1
  <2> QED BY <2>1, <2>2, <2>3, <2>4
<1>12. ToSet(r) = ToSet(p) \cup ToSet(q)
  <2>1. DOMAIN r = 1..Len(r) /\ DOMAIN p = 1..Len(p) /\ DOMAIN q = 1..Len(q)
    BY <1>1, <1>2, <1>9
  <2>2. \A i \in 1..Len(p) : i \in 1..Len(r)
    BY <1>0, <1>9
  <2>3. \A i \in 1..Len(q) : Len(p) + i \in 1..Len(r)
    BY <1>0, <1>9
  <2>4. \A j \in 1..Len(r) : r[j] \in ToSet(p) \cup ToSet(q)
    <3> SUFFICES ASSUME NEW j \in 1..Len(r) PROVE r[j] \in ToSet(p) \cup ToSet(q)
      OBVIOUS
    <3>1. CASE j \in 1..Len(p)
      BY <1>9, <2>1, <3>1 DEF ToSet
    <3>2. ASSUME NEW i \in 1..Len(q), j = Len(p) + i PROVE r[j] \in ToSet(q)
      BY <1>9, <2>1, <3>2 DEF ToSet
    <3> QED BY <1>10, <3>1, <3>2
  <2>5. \A i \in 1..Len(p) : p[i] \in ToSet(r)
    BY <1>9, <2>1, <2>2 DEF ToSet
  <2>6. \A i \in 1..Len(q) : q[i] \in ToSet(r)
    <3>1. \A i \in 1..Len(q) : q[i] = r[Len(p) + i] /\ Len(p) + i \in DOMAIN r
      BY <1>9, <2>1, <2>3
    <3> QED BY <3>1 DEF ToSet
  <2>7. ToSet(p) \subseteq ToSet(r) /\ ToSet(q) \subseteq ToSet(r)
    BY <2>1, <2>5, <2>6 DEF ToSet
  <2>8. ToSet(r) \subseteq ToSet(p) \cup ToSet(q)
    BY <2>1, <2>4 DEF ToSet
  <2> QED BY <2>7, <2>8
<1>13. ASSUME NEW i \in 1..Len(p) PROVE LinkedAt(g, r, i)
  <2>0. i \in Nat /\ i # 0 /\ Len(p) # 0 /\ i # Len(r) /\ Len(p) \in 1..Len(p)
    BY <1>0, <1>9
  <2>1. LinkedAt(h, p, i) /\ p[i] \in Nodes /\ r[i] = p[i]
    BY <1>1, <1>9 DEF Linked
  <2>2. p[i] # second
    BY <1>2, <1>0, <1>3
  <2>3. p[i] = last <=> i = Len(p)
    BY <1>3, <1>4, <2>0
  <2>4. i # Len(p) => r[i + 1] = p[i + 1]
    BY <1>9, <2>0, <1>0
  <2>5. i = Len(p) => r[i + 1] = second
    BY <1>0, <1>2, <1>9
  <2>6. i # 1 => r[i - 1] = p[i - 1]
    BY <1>9, <2>0, <1>0
  <2>7. g[r[i]].mem = "live"
    BY <1>8, <2>1 DEF LinkedAt
  <2>8. g[r[i]].next = r[i + 1]
    BY <1>8, <2>1, <2>3, <2>4, <2>5 DEF LinkedAt
  <2>9. g[r[i]].prev = IF i = 1 THEN Null ELSE r[i - 1]
    BY <1>8, <2>1, <2>2, <2>6 DEF LinkedAt
  <2> QED BY <2>0, <2>7, <2>8, <2>9 DEF LinkedAt
<1>14. ASSUME NEW i \in 1..Len(q) PROVE LinkedAt(g, r, Len(p) + i)
  <2> DEFINE j == Len(p) + i
  <2>0. /\ i \in Nat /\ i # 0 /\ j \in Nat /\ (j = Len(r) <=> i = Len(q))
        /\ (j = 1 <=> i = 1 /\ Len(p) = 0)
    <3> DEFINE m == Len(p)
               n == Len(q)
    <3>1. m \in Nat /\ n \in Nat /\ i \in 1..n /\ Len(r) = m + n /\ j = m + i
      BY <1>0, <1>9
    <3> HIDE DEF m, n, j
    <3>2. /\ i \in Nat /\ i # 0 /\ j \in Nat /\ (j = Len(r) <=> i = n)
          /\ (j = 1 <=> i = 1 /\ m = 0)
      BY <3>1
    <3> QED BY <3>2 DEF m, n
  <2>1. LinkedAt(h, q, i) /\ q[i] \in Nodes /\ r[j] = q[i]
    BY <1>2, <1>9 DEF Linked
  <2>2. q[i] = second <=> i = 1
    BY <1>0, <1>2, <1>3
  <2>3. q[i] # last
    <3>1. Len(p) # 0 => Len(p) \in 1..Len(p)
      BY <1>0
    <3> QED BY <1>2, <1>3, <1>4, <3>1
  <2>4. i # Len(q) => r[j + 1] = q[i + 1]
    <3>1. i # Len(q) => i + 1 \in 1..Len(q) /\ j + 1 = Len(p) + (i + 1)
      BY <1>0
    <3> HIDE DEF j
    <3> QED BY <1>9, <3>1
  <2>5. i # 1 => r[j - 1] = q[i - 1]
    <3>1. i # 1 => i - 1 \in 1..Len(q) /\ j - 1 = Len(p) + (i - 1)
      BY <1>0
    <3> HIDE DEF j
    <3> QED BY <1>9, <3>1
  <2>6. i = 1 /\ Len(p) # 0 => r[j - 1] = last
    <3>1. i = 1 /\ Len(p) # 0 => j - 1 = Len(p) /\ Len(p) \in 1..Len(p)
      BY <1>0
    <3> HIDE DEF j
    <3> QED BY <1>4, <1>9, <3>1
  <2> HIDE DEF j
  <2>7. g[r[j]].mem = "live"
    BY <1>8, <2>1 DEF LinkedAt
  <2>8. g[r[j]].next = IF j = Len(r) THEN Null ELSE r[j + 1]
    BY <1>8, <2>0, <2>1, <2>3, <2>4 DEF LinkedAt
  <2>9. g[r[j]].prev = IF j = 1 THEN Null ELSE r[j - 1]
    BY <1>4, <1>8, <2>0, <2>1, <2>2, <2>5, <2>6 DEF LinkedAt
  <2>10. LinkedAt(g, r, j)
    BY <2>7, <2>8, <2>9 DEF LinkedAt
  <2> QED BY <2>10 DEF j
<1>15. Linked(g, IF first = Null THEN second ELSE first, r)
  <2>1. \A j \in 1..Len(r) : LinkedAt(g, r, j)
    BY <1>10, <1>13, <1>14
  <2>2. (IF first = Null THEN second ELSE first) = IF Len(r) = 0 THEN Null ELSE r[1]
    <3>1. CASE Len(p) = 0
      <4>1. Len(r) # 0 /\ r[1] = q[1]
        BY <1>0, <1>9, <3>1
      <4> QED BY <1>1, <1>2, <3>1, <4>1
    <3>2. CASE Len(p) # 0
      <4>1. Len(r) # 0 /\ r[1] = p[1]
        BY <1>0, <1>9, <3>2
      <4>2. first # Null /\ first = p[1]
        BY <1>1, <3>2 DEF Linked
      <4> QED BY <4>1, <4>2
    <3> QED BY <3>1, <3>2
  <2> QED BY <1>9, <1>11, <2>1, <2>2 DEF Linked
<1>16. \A x \in Nodes : x \notin ToSet(p) \cup ToSet(q) => g[x] = h[x]
  BY <1>2, <1>4, <1>8, NullAssumption
<1> QED BY <1>5, <1>7, <1>8, <1>12, <1>15, <1>16 DEF g, a, r

-----------------------------------------------------------------------------
(* list_remove_all *)

Values(h, p) == [i \in 1..Len(p) |-> h[p[i]].data]

Entry == Data \cup {Null}

\* A list of nodes has as many values, in the same order.
LEMMA ValuesType ==
  ASSUME NEW h \in Heaps, NEW p \in Seq(Nodes)
  PROVE  /\ Values(h, p) \in Seq(Entry) /\ Len(Values(h, p)) = Len(p)
         /\ \A i \in 1..Len(p) : Values(h, p)[i] = h[p[i]].data
<1>1. \A i \in 1..Len(p) : p[i] \in Nodes
  OBVIOUS
<1>2. \A i \in 1..Len(p) : h[p[i]].data \in Entry
  BY <1>1, HeapFields DEF Entry
<1>3. Len(p) \in Nat
  OBVIOUS
<1> QED BY <1>2, <1>3 DEF Values

\* The abstract removal, entry by entry.
LEMMA OthersIs ==
  ASSUME NEW D, NEW s \in Seq(D), NEW d
  PROVE  LET kept == Abstract!Others(s, d)
         IN /\ kept \in [0..Len(s) -> Seq(D)]
            /\ kept[0] = <<>>
            /\ \A i \in 1..Len(s) :
                 kept[i] = IF s[i] = d THEN kept[i - 1] ELSE Append(kept[i - 1], s[i])
<1> DEFINE base == <<>>
           After(r, x) == IF x = d THEN r ELSE Append(r, x)
           op == [z \in Seq(D) \X D |-> After(z[1], z[2])]
           Eq(f) == f = [i \in 0..Len(s) |-> IF i = 0 THEN base ELSE After(f[i - 1], s[i])]
<1>0. Len(s) \in Nat /\ base \in Seq(D) /\ \A i \in 1..Len(s) : s[i] \in D
  OBVIOUS
<1>1. ASSUME NEW r \in Seq(D), NEW x \in D PROVE After(r, x) \in Seq(D)
  OBVIOUS
<1>2. op \in [Seq(D) \X D -> Seq(D)] /\ \A r \in Seq(D), x \in D : op[<<r, x>>] = After(r, x)
  <2> HIDE DEF After
  <2>1. \A z \in Seq(D) \X D : After(z[1], z[2]) \in Seq(D)
    BY <1>1
  <2> QED BY <2>1
<1> HIDE DEF op, base, After
<1>3. PICK f : Runs(f, s, Seq(D), base, op)
  BY <1>0, <1>2, ListRecursion
<1>4. f \in [0..Len(s) -> Seq(D)] /\ DOMAIN f = 0..Len(s)
  BY <1>3 DEF Runs
<1>5. \A i \in 0..Len(s) : f[i] = IF i = 0 THEN base ELSE After(f[i - 1], s[i])
  <2> SUFFICES ASSUME NEW i \in 0..Len(s), i # 0 PROVE f[i] = After(f[i - 1], s[i])
    BY <1>0, <1>3 DEF Runs
  <2>1. f[i] = op[<<f[i - 1], s[i]>>]
    BY <1>3 DEF Runs
  <2>2. i \in 1..Len(s) /\ i - 1 \in 0..Len(s)
    BY <1>0
  <2>3. f[i - 1] \in Seq(D) /\ s[i] \in D
    BY <1>0, <1>4, <2>2
  <2> QED BY <1>2, <2>1, <2>3
<1>6. Eq(f)
  BY <1>4, <1>5
<1>7. Abstract!Others(s, d) = CHOOSE g : Eq(g)
  BY DEF Abstract!Others, After, base
<1> DEFINE w == Abstract!Others(s, d)
<1>8. Eq(w)
  <2> HIDE DEF Eq
  <2> QED BY <1>6, <1>7
<1> HIDE DEF w
<1>9. DOMAIN w = 0..Len(s) /\ \A i \in 0..Len(s) : w[i] = IF i = 0 THEN base ELSE After(w[i - 1], s[i])
  BY <1>8
<1> DEFINE Good == {k \in Nat : k <= Len(s) => w[k] \in Seq(D)}
<1>10. Good = Nat
  <2>1. 0 \in Good
    BY <1>0, <1>9
  <2>2. ASSUME NEW k \in Good PROVE k + 1 \in Good
    <3> SUFFICES ASSUME k + 1 <= Len(s) PROVE w[k + 1] \in Seq(D)
      OBVIOUS
    <3>1. k + 1 \in 0..Len(s) /\ k + 1 # 0 /\ (k + 1) - 1 = k /\ s[k + 1] \in D /\ w[k] \in Seq(D)
      BY <1>0
    <3>2. w[k + 1] = After(w[k], s[k + 1])
      BY <1>9, <3>1
    <3> QED BY <1>1, <3>1, <3>2
  <2>3. Good \in SUBSET Nat /\ \A k \in Good : k + 1 \in Good
    BY <2>2
  <2> HIDE DEF Good
  <2> QED BY <2>1, <2>3, NatSetInduction
<1>11. w \in [0..Len(s) -> Seq(D)]
  <2>1. \A k \in 0..Len(s) : w[k] \in Seq(D)
    BY <1>0, <1>10
  <2> QED BY <1>8, <2>1
<1>12. w[0] = base /\ \A i \in 1..Len(s) : w[i] = After(w[i - 1], s[i])
  BY <1>0, <1>9
<1> QED BY <1>11, <1>12 DEF w, base, After

Lefts == [heap : Heaps, first : Pointers]

\* The removal on the heap, node by node.
LEMMA RemovingIs ==
  ASSUME NEW h \in Heaps, NEW first \in Pointers, NEW p \in Seq(Nodes), NEW d
  PROVE  LET left == Removing(h, first, p, d)
         IN /\ left[0] = [heap |-> h, first |-> first]
            /\ \A i \in 1..Len(p) :
                 /\ left[i - 1] \in Lefts
                 /\ left[i] = IF left[i - 1].heap[p[i]].data # d THEN left[i - 1]
                              ELSE [heap |-> Taken(left[i - 1].heap, p[i]),
                                    first |-> Beyond(left[i - 1].first, left[i - 1].heap, p[i])]
            /\ left[Len(p)] \in Lefts
<1> DEFINE After(r, x) == IF r.heap[x].data # d THEN r
                          ELSE [heap |-> Taken(r.heap, x),
                                first |-> Beyond(r.first, r.heap, x)]
           op == [z \in Lefts \X Nodes |-> After(z[1], z[2])]
           base == [heap |-> h, first |-> first]
           Eq(f) == f = [i \in 0..Len(p) |-> IF i = 0 THEN base ELSE After(f[i - 1], p[i])]
<1>0. Len(p) \in Nat /\ base \in Lefts /\ \A i \in 1..Len(p) : p[i] \in Nodes
  BY DEF Lefts
<1>1. ASSUME NEW r \in Lefts, NEW x \in Nodes PROVE After(r, x) \in Lefts
  <2>1. r.heap \in Heaps /\ r.first \in Pointers
    BY DEF Lefts
  <2>2. Taken(r.heap, x) \in Heaps
    <3>1. Bypass(r.heap, x) \in Heaps
      BY <2>1, BypassType
    <3> QED BY <3>1, FreeFields DEF Taken
  <2>3. Beyond(r.first, r.heap, x) \in Pointers
    BY <2>1, HeapFields DEF Beyond
  <2> QED BY <2>2, <2>3 DEF Lefts
<1>2. op \in [Lefts \X Nodes -> Lefts] /\ \A r \in Lefts, x \in Nodes : op[<<r, x>>] = After(r, x)
  <2> HIDE DEF After
  <2>1. \A z \in Lefts \X Nodes : After(z[1], z[2]) \in Lefts
    BY <1>1
  <2> QED BY <2>1
<1> HIDE DEF op, base, After
<1>3. PICK f : Runs(f, p, Lefts, base, op)
  BY <1>0, <1>2, ListRecursion
<1>4. f \in [0..Len(p) -> Lefts] /\ DOMAIN f = 0..Len(p)
  BY <1>3 DEF Runs
<1>5. \A i \in 0..Len(p) : f[i] = IF i = 0 THEN base ELSE After(f[i - 1], p[i])
  <2> SUFFICES ASSUME NEW i \in 0..Len(p), i # 0 PROVE f[i] = After(f[i - 1], p[i])
    BY <1>0, <1>3 DEF Runs
  <2>1. f[i] = op[<<f[i - 1], p[i]>>]
    BY <1>3 DEF Runs
  <2>2. i \in 1..Len(p) /\ i - 1 \in 0..Len(p)
    BY <1>0
  <2>3. f[i - 1] \in Lefts /\ p[i] \in Nodes
    BY <1>0, <1>4, <2>2
  <2> QED BY <1>2, <2>1, <2>3
<1>6. Eq(f)
  BY <1>4, <1>5
<1>7. Removing(h, first, p, d) = CHOOSE g : Eq(g)
  BY DEF Removing, After, base, Taken
<1> DEFINE w == Removing(h, first, p, d)
<1>8. Eq(w)
  <2> HIDE DEF Eq
  <2> QED BY <1>6, <1>7
<1> HIDE DEF w
<1>9. DOMAIN w = 0..Len(p) /\ \A i \in 0..Len(p) : w[i] = IF i = 0 THEN base ELSE After(w[i - 1], p[i])
  BY <1>8
<1> DEFINE Good == {k \in Nat : k <= Len(p) => w[k] \in Lefts}
<1>10. Good = Nat
  <2>1. 0 \in Good
    BY <1>0, <1>9
  <2>2. ASSUME NEW k \in Good PROVE k + 1 \in Good
    <3> SUFFICES ASSUME k + 1 <= Len(p) PROVE w[k + 1] \in Lefts
      OBVIOUS
    <3>1. k + 1 \in 0..Len(p) /\ k + 1 # 0 /\ (k + 1) - 1 = k /\ p[k + 1] \in Nodes /\ w[k] \in Lefts
      BY <1>0
    <3>2. w[k + 1] = After(w[k], p[k + 1])
      BY <1>9, <3>1
    <3> QED BY <1>1, <3>1, <3>2
  <2>3. Good \in SUBSET Nat /\ \A k \in Good : k + 1 \in Good
    BY <2>2
  <2> HIDE DEF Good
  <2> QED BY <2>1, <2>3, NatSetInduction
<1>11. \A k \in 0..Len(p) : w[k] \in Lefts
  BY <1>0, <1>10
<1>12. w[0] = base /\ \A i \in 1..Len(p) : w[i - 1] \in Lefts /\ w[i] = After(w[i - 1], p[i])
  BY <1>0, <1>9, <1>11
<1>13. w[Len(p)] \in Lefts
  BY <1>0, <1>11
<1> QED BY <1>12, <1>13 DEF w, base, After

\* The first node of a list is the one that has no prev.
LEMMA FirstKnown ==
  ASSUME NEW h, NEW first, NEW p, Linked(h, first, p), NEW k \in 1..Len(p)
  PROVE  Beyond(first, h, p[k]) = Without(first, h, p[k])
<1>1. /\ p \in Seq(Nodes) /\ Len(p) \in Nat /\ IsInjective(p) /\ DOMAIN p = 1..Len(p)
      /\ \A i \in 1..Len(p) : p[i] # Null
  BY LinkedEnds DEF Linked
<1>2. h[p[k]].prev = (IF k = 1 THEN Null ELSE p[k - 1]) /\ first = p[1] /\ 1 \in 1..Len(p)
  <2>1. LinkedAt(h, p, k) /\ Len(p) # 0
    BY <1>1 DEF Linked
  <2>2. first = p[1] /\ 1 \in 1..Len(p)
    BY <1>1, <2>1 DEF Linked
  <2> QED BY <2>1, <2>2 DEF LinkedAt
<1>3. k # 1 => k - 1 \in 1..Len(p)
  BY <1>1
<1>4. first = p[k] <=> k = 1
  BY <1>1, <1>2 DEF IsInjective
<1>5. h[p[k]].prev = Null <=> k = 1
  BY <1>1, <1>2, <1>3
<1> QED BY <1>4, <1>5 DEF Beyond, Without

\* A list behind another.
LEMMA ConcatEntries ==
  ASSUME NEW S, NEW s \in Seq(S), NEW t \in Seq(S)
  PROVE  /\ s \o t \in Seq(S) /\ Len(s \o t) = Len(s) + Len(t)
         /\ \A j \in 1..Len(s) : (s \o t)[j] = s[j]
         /\ \A j \in 1..Len(t) : (s \o t)[Len(s) + j] = t[j]
<1>0. Len(s) \in Nat /\ Len(t) \in Nat
  OBVIOUS
<1> DEFINE c == s \o t
<1>1. /\ c \in Seq(S) /\ Len(c) = Len(s) + Len(t)
      /\ \A i \in 1..(Len(s) + Len(t)) : c[i] = IF i <= Len(s) THEN s[i] ELSE t[i - Len(s)]
  BY ConcatProperties
<1> HIDE DEF c
<1>2. \A j \in 1..Len(s) : c[j] = s[j]
  BY <1>0, <1>1
<1>3. ASSUME NEW j \in 1..Len(t) PROVE c[Len(s) + j] = t[j]
  <2>1. /\ Len(s) + j \in 1..(Len(s) + Len(t)) /\ ~(Len(s) + j <= Len(s))
        /\ (Len(s) + j) - Len(s) = j
    BY <1>0
  <2> QED BY <1>1, <2>1
<1> QED BY <1>1, <1>2, <1>3 DEF c

\* What is left of a list when its first i nodes were passed: those kept, and the rest.
Rest(p, i) == SubSeq(p, i + 1, Len(p))

\* What is left of a walk after k nodes starts behind the k-th.
LEMMA RestEntries ==
  ASSUME NEW p \in Seq(Nodes), NEW k \in 0..Len(p)
  PROVE  /\ Rest(p, k) \in Seq(Nodes) /\ Len(Rest(p, k)) = Len(p) - k
         /\ \A j \in 1..(Len(p) - k) : Rest(p, k)[j] = p[k + j]
<1>1. k + 1 \in Nat /\ k + 1 >= 1 /\ k <= Len(p) /\ k \in Nat /\ Len(p) \in Nat
  OBVIOUS
<1>2. \A j \in (k + 1)..Len(p) : p[j] \in Nodes
  BY <1>1
<1>3. /\ SubSeq(p, k + 1, Len(p)) \in Seq(Nodes)
      /\ Len(SubSeq(p, k + 1, Len(p))) = IF k + 1 <= Len(p) THEN Len(p) - (k + 1) + 1 ELSE 0
      /\ \A j \in 1..(Len(p) - (k + 1) + 1) : SubSeq(p, k + 1, Len(p))[j] = p[(k + 1) + j - 1]
  BY <1>1, <1>2, SubSeqProperties
<1>4. /\ Len(p) - (k + 1) + 1 = Len(p) - k
      /\ \A j \in 1..(Len(p) - k) : (k + 1) + j - 1 = k + j
      /\ ~(k + 1 <= Len(p)) => Len(p) - k = 0
  BY <1>1
<1> QED BY <1>3, <1>4 DEF Rest

\* At the start all is left, and at the end nothing.
LEMMA RestEnds ==
  ASSUME NEW p \in Seq(Nodes)
  PROVE  Rest(p, 0) = p /\ Rest(p, Len(p)) = <<>>
<1>0. Len(p) \in Nat /\ 0 \in 0..Len(p) /\ Len(p) \in 0..Len(p)
  OBVIOUS
<1>1. /\ Rest(p, 0) \in Seq(Nodes) /\ Len(Rest(p, 0)) = Len(p)
      /\ \A j \in 1..Len(p) : Rest(p, 0)[j] = p[j]
  BY <1>0, RestEntries
<1>2. Rest(p, Len(p)) \in Seq(Nodes) /\ Len(Rest(p, Len(p))) = 0
  BY <1>0, RestEntries
<1> QED BY <1>1, <1>2, SeqEqual

\* The walk of list_remove_all is at the first node of what is left, behind those that were
\* kept.
LEMMA RestIs ==
  ASSUME NEW p \in Seq(Nodes), NEW q \in Seq(Nodes), NEW i \in 1..Len(p)
  PROVE  /\ q \o Rest(p, i - 1) \in Seq(Nodes)
         /\ Len(q) + 1 \in 1..Len(q \o Rest(p, i - 1))
         /\ (q \o Rest(p, i - 1))[Len(q) + 1] = p[i]
         /\ q \o Rest(p, i - 1) = Append(q, p[i]) \o Rest(p, i)
         /\ RemoveAt(q \o Rest(p, i - 1), Len(q) + 1) = q \o Rest(p, i)
<1>0. Len(p) \in Nat /\ Len(q) \in Nat /\ i \in Nat /\ 1 <= i /\ i <= Len(p)
  OBVIOUS
<1>2. i \in 0..Len(p) /\ i - 1 \in 0..Len(p)
  BY <1>0
<1> DEFINE a == Rest(p, i - 1)
           b == Rest(p, i)
           c == q \o a
           e == Append(q, p[i])
<1>4. /\ a \in Seq(Nodes) /\ Len(a) = Len(p) - (i - 1)
      /\ \A j \in 1..(Len(p) - (i - 1)) : a[j] = p[(i - 1) + j]
  BY <1>2, RestEntries
<1>5. /\ b \in Seq(Nodes) /\ Len(b) = Len(p) - i
      /\ \A j \in 1..(Len(p) - i) : b[j] = p[i + j]
  BY <1>2, RestEntries
<1> HIDE DEF a, b
<1>6. /\ c \in Seq(Nodes) /\ Len(c) = Len(q) + Len(a)
      /\ \A j \in 1..Len(q) : c[j] = q[j]
      /\ \A j \in 1..Len(a) : c[Len(q) + j] = a[j]
  <2>1. q \in Seq(Nodes) /\ a \in Seq(Nodes)
    BY <1>4
  <2> QED BY <2>1, ConcatEntries
<1>7. p[i] \in Nodes
  BY <1>0
<1>8. /\ e \in Seq(Nodes) /\ Len(e) = Len(q) + 1 /\ e[Len(q) + 1] = p[i]
      /\ \A j \in 1..Len(q) : e[j] = q[j]
  BY <1>7
<1> HIDE DEF c, e
<1>9. Len(q) + 1 \in 1..Len(c) /\ c[Len(q) + 1] = p[i]
  <2>1. 1 \in 1..Len(a) /\ 1 \in 1..(Len(p) - (i - 1)) /\ (i - 1) + 1 = i
    BY <1>0, <1>4
  <2>2. Len(q) + 1 \in 1..Len(c)
    BY <1>0, <1>6, <2>1
  <2> QED BY <1>4, <1>6, <2>1, <2>2
<1>10. \A j \in 1..Len(b) : b[j] = a[j + 1] /\ j + 1 \in 1..Len(a)
  <2> SUFFICES ASSUME NEW j \in 1..Len(b) PROVE b[j] = a[j + 1] /\ j + 1 \in 1..Len(a)
    OBVIOUS
  <2>1. /\ j \in 1..(Len(p) - i) /\ j + 1 \in 1..(Len(p) - (i - 1)) /\ (i - 1) + (j + 1) = i + j
        /\ j + 1 \in 1..Len(a)
    BY <1>0, <1>4, <1>5
  <2> QED BY <1>4, <1>5, <2>1
<1>11. c = e \o b
  <2> DEFINE f == e \o b
  <2>1. /\ f \in Seq(Nodes) /\ Len(f) = Len(e) + Len(b)
        /\ \A j \in 1..Len(e) : f[j] = e[j]
        /\ \A j \in 1..Len(b) : f[Len(e) + j] = b[j]
    <3>1. e \in Seq(Nodes) /\ b \in Seq(Nodes)
      BY <1>5, <1>8
    <3> QED BY <3>1, ConcatEntries
  <2> HIDE DEF f
  <2>2. Len(f) = Len(c) /\ Len(b) \in Nat /\ Len(a) = Len(b) + 1
    BY <1>0, <1>4, <1>5, <1>6, <1>8, <2>1
  <2>3. ASSUME NEW j \in 1..Len(c) PROVE f[j] = c[j]
    <3>1. CASE j \in 1..Len(q)
      <4>1. j \in 1..Len(e)
        BY <1>0, <1>8, <3>1
      <4> QED BY <1>6, <1>8, <2>1, <3>1, <4>1
    <3>2. CASE j = Len(q) + 1
      <4>1. j \in 1..Len(e)
        BY <1>0, <1>8, <3>2
      <4> QED BY <1>8, <1>9, <2>1, <3>2, <4>1
    <3>3. CASE j \notin 1..Len(q) /\ j # Len(q) + 1
      <4> DEFINE k == j - Len(e)
      <4>1. k \in 1..Len(b) /\ j = Len(e) + k /\ j = Len(q) + (k + 1)
        BY <1>0, <1>6, <1>8, <2>2, <3>3
      <4> HIDE DEF k
      <4>2. f[j] = b[k] /\ b[k] = a[k + 1] /\ k + 1 \in 1..Len(a)
        BY <1>10, <2>1, <4>1
      <4> QED BY <1>6, <4>1, <4>2
    <3> QED BY <3>1, <3>2, <3>3
  <2>4. c = f
    BY <1>6, <2>1, <2>2, <2>3, SeqEqual
  <2> QED BY <2>4 DEF f
<1>12. RemoveAt(c, Len(q) + 1) = q \o b
  <2> DEFINE f == q \o b
             r == RemoveAt(c, Len(q) + 1)
  <2>1. /\ f \in Seq(Nodes) /\ Len(f) = Len(q) + Len(b)
        /\ \A j \in 1..Len(q) : f[j] = q[j]
        /\ \A j \in 1..Len(b) : f[Len(q) + j] = b[j]
    <3>1. q \in Seq(Nodes) /\ b \in Seq(Nodes)
      BY <1>5
    <3> QED BY <3>1, ConcatEntries
  <2>2. /\ r \in Seq(Nodes) /\ Len(r) = Len(c) - 1
        /\ \A j \in 1..((Len(q) + 1) - 1) : r[j] = c[j]
        /\ \A j \in (Len(q) + 1)..(Len(c) - 1) : r[j] = c[j + 1]
    BY <1>6, <1>9, RemoveAtType
  <2> HIDE DEF f, r
  <2>3. Len(f) = Len(r) /\ Len(b) \in Nat /\ Len(a) = Len(b) + 1 /\ Len(c) = Len(q) + Len(b) + 1
    BY <1>0, <1>4, <1>5, <1>6, <2>1, <2>2
  <2>4. ASSUME NEW j \in 1..Len(r) PROVE r[j] = f[j]
    <3>1. CASE j \in 1..Len(q)
      <4>1. j \in 1..((Len(q) + 1) - 1)
        BY <1>0, <3>1
      <4> QED BY <1>6, <2>1, <2>2, <3>1, <4>1
    <3>2. CASE j \notin 1..Len(q)
      <4> DEFINE k == j - Len(q)
      <4>1. /\ k \in 1..Len(b) /\ j = Len(q) + k /\ j + 1 = Len(q) + (k + 1)
            /\ j \in (Len(q) + 1)..(Len(c) - 1)
        BY <1>0, <2>2, <2>3, <3>2
      <4> HIDE DEF k
      <4>2. r[j] = c[Len(q) + (k + 1)]
        BY <2>2, <4>1
      <4>3. b[k] = a[k + 1] /\ k + 1 \in 1..Len(a)
        BY <1>10, <4>1
      <4>4. f[j] = b[k]
        BY <2>1, <4>1
      <4> QED BY <1>6, <4>2, <4>3, <4>4
    <3> QED BY <3>1, <3>2
  <2>5. r = f
    BY <2>1, <2>2, <2>3, <2>4, SeqEqual
  <2> QED BY <2>5 DEF r, f
<1>13. c = q \o Rest(p, i - 1)
  BY DEF c, a
<1> QED BY <1>6, <1>9, <1>11, <1>12, <1>13 DEF b, e

\* list_remove_all (queue.c 113-139): the entries d go, and the others stay in order.
LEMMA RemoveAllLinks ==
  ASSUME NEW h \in Heaps, NEW first, NEW p, Linked(h, first, p), NEW d
  PROVE  LET r == list_remove_all(h, first, d)
         IN \E q : /\ Linked(r.heap, r.first, q)
                   /\ Replaces(h, p, r.heap, q)
                   /\ Values(r.heap, q) = Abstract!Others(Values(h, p), d)[Len(p)]
<1> DEFINE left == Removing(h, first, p, d)
           kept == Abstract!Others(Values(h, p), d)
           Still(g, f, q, c) ==
             /\ Linked(g, f, c) /\ Replaces(h, p, g, c) /\ ToSet(c) \subseteq ToSet(p)
             /\ \A x \in ToSet(c) : g[x].data = h[x].data
           At(i) == \E q \in Seq(Nodes) :
                      /\ Still(left[i].heap, left[i].first, q, q \o Rest(p, i))
                      /\ Values(h, q) = kept[i]
           Good == {k \in Nat : k <= Len(p) => At(k)}
<1>0. /\ p \in Seq(Nodes) /\ Len(p) \in Nat /\ first \in Pointers
      /\ \A i \in 1..Len(p) : p[i] \in Nodes
  BY LinkedEnds
<1>1. /\ left[0] = [heap |-> h, first |-> first]
      /\ \A i \in 1..Len(p) :
           /\ left[i - 1] \in Lefts
           /\ left[i] = IF left[i - 1].heap[p[i]].data # d THEN left[i - 1]
                        ELSE [heap |-> Taken(left[i - 1].heap, p[i]),
                              first |-> Beyond(left[i - 1].first, left[i - 1].heap, p[i])]
      /\ left[Len(p)] \in Lefts
  BY <1>0, RemovingIs
<1>2. /\ Values(h, p) \in Seq(Entry) /\ Len(Values(h, p)) = Len(p)
      /\ \A i \in 1..Len(p) : Values(h, p)[i] = h[p[i]].data
  BY <1>0, ValuesType
<1>3. /\ kept[0] = <<>>
      /\ \A i \in 1..Len(p) :
           /\ kept[i - 1] \in Seq(Entry)
           /\ kept[i] = IF h[p[i]].data = d THEN kept[i - 1] ELSE Append(kept[i - 1], h[p[i]].data)
  <2>1. /\ kept \in [0..Len(p) -> Seq(Entry)] /\ kept[0] = <<>>
        /\ \A i \in 1..Len(p) :
             kept[i] = IF Values(h, p)[i] = d THEN kept[i - 1]
                       ELSE Append(kept[i - 1], Values(h, p)[i])
    BY <1>2, OthersIs
  <2>2. \A i \in 1..Len(p) : i - 1 \in 0..Len(p)
    BY <1>0
  <2> QED BY <1>2, <2>1, <2>2
<1> HIDE DEF left, kept
<1>4. 0 \in Good
  <2>1. <<>> \o Rest(p, 0) = p /\ <<>> \in Seq(Nodes)
    BY <1>0, RestEnds
  <2>2. Still(h, first, <<>>, p)
    BY DEF Replaces
  <2>3. Values(h, <<>>) = <<>>
    BY DEF Values
  <2>4. left[0].heap = h /\ left[0].first = first
    BY <1>1
  <2>5. At(0)
    <3> HIDE DEF Still
    <3> QED BY <1>3, <2>1, <2>2, <2>3, <2>4
  <2> HIDE DEF At
  <2> QED BY <2>5
<1>5. ASSUME NEW i \in 1..Len(p), At(i - 1) PROVE At(i)
  <2>1. PICK q \in Seq(Nodes) :
          /\ Still(left[i - 1].heap, left[i - 1].first, q, q \o Rest(p, i - 1))
          /\ Values(h, q) = kept[i - 1]
    <3> HIDE DEF Still
    <3> QED BY <1>5
  <2> DEFINE g == left[i - 1].heap
             f == left[i - 1].first
             c == q \o Rest(p, i - 1)
  <2>2. g \in Heaps /\ f \in Pointers
    BY <1>1 DEF Lefts
  <2>3. /\ c \in Seq(Nodes) /\ Len(q) + 1 \in 1..Len(c) /\ c[Len(q) + 1] = p[i]
        /\ c = Append(q, p[i]) \o Rest(p, i)
        /\ RemoveAt(c, Len(q) + 1) = q \o Rest(p, i)
    BY <1>0, RestIs
  <2>4. Still(g, f, q, c)
    BY <2>1
  <2>5. p[i] \in ToSet(c)
    <3>1. DOMAIN c = 1..Len(c)
      BY <2>3
    <3> HIDE DEF c
    <3> QED BY <2>3, <3>1 DEF ToSet
  <2>6. left[i] = IF g[p[i]].data # d THEN left[i - 1]
                  ELSE [heap |-> Taken(g, p[i]), first |-> Beyond(f, g, p[i])]
    BY <1>1
  <2>7. kept[i] = IF h[p[i]].data = d THEN kept[i - 1] ELSE Append(kept[i - 1], h[p[i]].data)
    BY <1>3
  <2>8. Values(h, q) = kept[i - 1]
    BY <2>1
  <2> HIDE DEF g, f, c
  <2>9. g[p[i]].data = h[p[i]].data
    BY <2>4, <2>5
  <2>10. CASE h[p[i]].data # d
    <3>1. left[i].heap = g /\ left[i].first = f
      BY <2>6, <2>9, <2>10 DEF g, f
    <3> DEFINE r == Append(q, p[i])
    <3>2. r \in Seq(Nodes)
      BY <1>0
    <3>3. Values(h, r) = kept[i]
      <4>1. kept[i] = Append(Values(h, q), h[p[i]].data)
        BY <2>7, <2>8, <2>10
      <4>2. /\ Values(h, q) \in Seq(Entry) /\ Len(Values(h, q)) = Len(q)
            /\ \A j \in 1..Len(q) : Values(h, q)[j] = h[q[j]].data
        BY ValuesType
      <4>3. /\ Len(r) = Len(q) + 1 /\ r[Len(q) + 1] = p[i] /\ \A j \in 1..Len(q) : r[j] = q[j]
            /\ Len(q) \in Nat
        BY <1>0
      <4>4. /\ Values(h, r) \in Seq(Entry) /\ Len(Values(h, r)) = Len(r)
            /\ \A j \in 1..Len(r) : Values(h, r)[j] = h[r[j]].data
        BY <3>2, ValuesType
      <4> HIDE DEF r
      <4> DEFINE v == Values(h, q)
                 w == Values(h, r)
                 x == h[p[i]].data
      <4>5. x \in Entry
        BY <1>0, HeapFields DEF Entry
      <4> HIDE DEF v, w, x
      <4>6. /\ Append(v, x) \in Seq(Entry) /\ Len(Append(v, x)) = Len(q) + 1
            /\ Append(v, x)[Len(q) + 1] = x /\ \A j \in 1..Len(q) : Append(v, x)[j] = v[j]
        BY <4>2, <4>5 DEF v
      <4>7. \A j \in 1..Len(w) : w[j] = Append(v, x)[j]
        <5> SUFFICES ASSUME NEW j \in 1..Len(w) PROVE w[j] = Append(v, x)[j]
          OBVIOUS
        <5>1. j \in 1..Len(q) \/ j = Len(q) + 1
          BY <4>3, <4>4 DEF w
        <5>2. w[j] = h[r[j]].data
          BY <4>4 DEF w
        <5> QED BY <4>2, <4>3, <4>6, <5>1, <5>2 DEF v, x
      <4>8. w = Append(v, x)
        <5>1. w \in Seq(Entry) /\ Len(w) = Len(q) + 1
          BY <4>3, <4>4 DEF w
        <5> QED BY <4>6, <4>7, <5>1, SeqEqual
      <4> QED BY <4>1, <4>8 DEF v, w, x
    <3>4. r \o Rest(p, i) = c
      BY <2>3
    <3> HIDE DEF r
    <3>5. Still(left[i].heap, left[i].first, r, r \o Rest(p, i))
      BY <2>4, <3>1, <3>4
    <3> HIDE DEF Still
    <3> QED BY <3>2, <3>3, <3>5
  <2>11. CASE h[p[i]].data = d
    <3> DEFINE e == q \o Rest(p, i)
               m == Taken(g, p[i])
    <3>1. left[i].heap = m /\ left[i].first = Without(f, g, p[i])
      <4>1. Beyond(f, g, p[i]) = Without(f, g, p[i])
        <5> DEFINE k == Len(q) + 1
        <5>1. k \in 1..Len(c) /\ c[k] = p[i] /\ Linked(g, f, c)
          BY <2>3, <2>4
        <5> HIDE DEF k, c, f, g
        <5> QED BY <5>1, FirstKnown
      <4> QED BY <2>6, <2>9, <2>11, <4>1
    <3>2. Values(h, q) = kept[i]
      BY <2>7, <2>8, <2>11
    <3>3. /\ Linked(m, Without(f, g, p[i]), e) /\ Replaces(g, c, m, e)
          /\ \A x \in ToSet(c) \ {p[i]} : m[x].data = g[x].data
      <4>1. Linked(g, f, c)
        BY <2>4
      <4> DEFINE k == Len(q) + 1
      <4>2. k \in 1..Len(c) /\ c[k] = p[i] /\ RemoveAt(c, k) = e
        BY <2>3
      <4> HIDE DEF k, e, m
      <4>3. /\ Linked(Taken(g, c[k]), Without(f, g, c[k]), RemoveAt(c, k))
            /\ Replaces(g, c, Taken(g, c[k]), RemoveAt(c, k))
            /\ \A x \in ToSet(c) \ {c[k]} : Taken(g, c[k])[x].data = g[x].data
        BY <2>2, <4>1, <4>2, TakenLinks
      <4> QED BY <4>2, <4>3 DEF m
    <3>4. ToSet(e) = ToSet(c) \ {p[i]}
      <4>1. IsInjective(c)
        BY <2>4 DEF Linked
      <4> QED BY <2>3, <4>1, RemoveAtEntries
    <3> HIDE DEF e, m
    <3>5. ToSet(e) \subseteq ToSet(p) /\ \A x \in ToSet(e) : m[x].data = h[x].data
      BY <2>4, <3>3, <3>4
    <3>6. Replaces(h, p, m, e)
      <4>1. Replaces(h, p, g, c) /\ ToSet(c) \subseteq ToSet(p)
        BY <2>4
      <4>2. \A x \in ToSet(p) : x \in Nodes
        BY LinkedEnds
      <4>3. m \in Heaps
        BY <3>3 DEF Replaces
      <4>4. \A x \in Nodes : x \notin ToSet(p) => m[x] = h[x]
        BY <3>3, <3>5, <4>1 DEF Replaces
      <4>5. ASSUME NEW x \in ToSet(p), x \notin ToSet(e) PROVE m[x].mem # "live"
        <5>1. CASE x \in ToSet(c)
          BY <3>3, <4>5, <5>1 DEF Replaces
        <5>2. CASE x \notin ToSet(c)
          <6>1. g[x].mem # "live"
            BY <4>1, <5>2 DEF Replaces
          <6>2. m[x] = g[x]
            BY <3>3, <4>2, <4>5, <5>2 DEF Replaces
          <6> QED BY <6>1, <6>2
        <5> QED BY <5>1, <5>2
      <4> QED BY <3>5, <4>3, <4>4, <4>5 DEF Replaces
    <3>7. Still(left[i].heap, left[i].first, q, e)
      BY <3>1, <3>3, <3>5, <3>6
    <3> HIDE DEF Still
    <3> QED BY <3>2, <3>7 DEF e
  <2> QED BY <2>10, <2>11
<1>6. Good = Nat
  <2>1. ASSUME NEW k \in Good PROVE k + 1 \in Good
    <3> SUFFICES ASSUME k + 1 <= Len(p) PROVE At(k + 1)
      BY DEF Good
    <3> HIDE DEF At
    <3>1. k + 1 \in 1..Len(p) /\ (k + 1) - 1 = k /\ At(k)
      BY <1>0
    <3>2. At((k + 1) - 1)
      BY <3>1
    <3> QED BY <1>5, <3>1, <3>2
  <2>2. Good \in SUBSET Nat /\ \A k \in Good : k + 1 \in Good
    BY <2>1
  <2> HIDE DEF Good
  <2> QED BY <1>4, <2>2, NatSetInduction
<1>7. At(Len(p))
  <2> HIDE DEF At
  <2>1. Len(p) \in Good
    BY <1>0, <1>6
  <2> QED BY <1>0, <2>1
<1>8. PICK q \in Seq(Nodes) :
        /\ Still(left[Len(p)].heap, left[Len(p)].first, q, q \o Rest(p, Len(p)))
        /\ Values(h, q) = kept[Len(p)]
  <2> HIDE DEF Still
  <2> QED BY <1>7
<1>9. q \o Rest(p, Len(p)) = q
  BY <1>0, RestEnds
<1> DEFINE g == left[Len(p)].heap
<1>10. Linked(g, left[Len(p)].first, q) /\ Replaces(h, p, g, q) /\ \A x \in ToSet(q) : g[x].data = h[x].data
  BY <1>8, <1>9
<1>11. Values(g, q) = Values(h, q)
  <2>1. \A i \in 1..Len(q) : q[i] \in ToSet(q)
    BY <1>10, LinkedEnds
  <2> QED BY <1>10, <2>1 DEF Values
<1>12. list_remove_all(h, first, d) = left[Len(p)]
  <2>1. Path(h, first) = p
    BY <1>0, LinkedIsChain, PathIs
  <2> QED BY <2>1 DEF list_remove_all, left
<1> QED BY <1>8, <1>10, <1>11, <1>12 DEF kept

-----------------------------------------------------------------------------
(* The heap of all lists *)

QueueId == CHOOSE x : x \notin ListIds

\* the queue is one more list
Owners == ListIds \cup {QueueId}

FirstOf(qu, li, o) == IF o = QueueId THEN qu.head ELSE li[o]

\* ps is the list of each owner: no node has two, and the allocated nodes are theirs
Structure(h, qu, li, ps) ==
  /\ h \in Heaps
  /\ ps \in [Owners -> Seq(Nodes)]
  /\ \A o \in Owners : Linked(h, FirstOf(qu, li, o), ps[o])
  /\ \A o, u \in Owners : o # u => ToSet(ps[o]) \cap ToSet(ps[u]) = {}
  /\ \A x \in Nodes : h[x].mem = "live" <=> \E o \in Owners : x \in ToSet(ps[o])

Queues == [head : Pointers, tail : Pointers, count : Nat]

Represents(h, qu, li, fo, ps) ==
  /\ Structure(h, qu, li, ps)
  /\ qu \in Queues /\ li \in [ListIds -> Pointers] /\ fo \in Nat
  /\ qu.tail = LastOf(ps[QueueId])
  /\ qu.count = Len(ps[QueueId]) + fo

\* The inductive invariant.
Inv == /\ \E ps : Represents(heap, queue, list, forgotten, ps)
       /\ got \in Data \cup {Null}

\* The queue is an owner next to the lists, and none of them.
LEMMA QueueIdIsNew == QueueId \notin ListIds /\ QueueId \in Owners /\ ListIds \subseteq Owners
<1>1. \E x : x \notin ListIds
  BY NoSetContainsEverything
<1> QED BY <1>1 DEF QueueId, Owners

\* The list of o becomes q, and the other lists keep their first node.
OwnerGets(h, qu, li, ps, o, g, qu2, li2, q) ==
  /\ Structure(h, qu, li, ps) /\ o \in Owners
  /\ Linked(g, FirstOf(qu2, li2, o), q) /\ Replaces(h, ps[o], g, q)
  /\ \A u \in Owners \ {o} : FirstOf(qu2, li2, u) = FirstOf(qu, li, u)

\* One owner gets another list; what the others have stays.
LEMMA OwnerChanges ==
  ASSUME NEW h, NEW qu, NEW li, NEW ps, NEW o, NEW g, NEW qu2, NEW li2, NEW q,
         OwnerGets(h, qu, li, ps, o, g, qu2, li2, q)
  PROVE  /\ Structure(g, qu2, li2, [ps EXCEPT ![o] = q])
         /\ \A u \in Owners \ {o} : \A x \in ToSet(ps[u]) : g[x] = h[x]
<1> USE DEF OwnerGets
<1> DEFINE qs == [ps EXCEPT ![o] = q]
<1>1. /\ ps \in [Owners -> Seq(Nodes)] /\ q \in Seq(Nodes)
      /\ qs[o] = q /\ \A u \in Owners \ {o} : qs[u] = ps[u]
      /\ qs \in [Owners -> Seq(Nodes)]
  BY LinkedEnds DEF Structure
<1> HIDE DEF qs
<1>2. \A u \in Owners : \A x \in ToSet(ps[u]) : x \in Nodes /\ h[x].mem = "live"
  BY LinkedEnds DEF Structure
<1>3. \A x \in ToSet(q) : x \in Nodes
  BY LinkedEnds
<1>4. \A u \in Owners \ {o} : \A x \in ToSet(ps[u]) : x \notin ToSet(ps[o]) /\ x \notin ToSet(q)
  <2> SUFFICES ASSUME NEW u \in Owners \ {o}, NEW x \in ToSet(ps[u])
               PROVE  x \notin ToSet(ps[o]) /\ x \notin ToSet(q)
    OBVIOUS
  <2>1. x \notin ToSet(ps[o])
    BY DEF Structure
  <2>2. h[x].mem = "live"
    BY <1>2
  <2> QED BY <2>1, <2>2 DEF Replaces
<1>5. \A u \in Owners \ {o} : \A x \in ToSet(ps[u]) : g[x] = h[x]
  BY <1>2, <1>4 DEF Replaces
<1>6. \A u \in Owners : Linked(g, FirstOf(qu2, li2, u), qs[u])
  <2> SUFFICES ASSUME NEW u \in Owners \ {o} PROVE Linked(g, FirstOf(qu2, li2, u), qs[u])
    BY <1>1
  <2>1. Linked(h, FirstOf(qu, li, u), ps[u])
    BY DEF Structure
  <2>2. \A x \in ToSet(ps[u]) : g[x] = h[x]
    BY <1>5
  <2>3. Linked(g, FirstOf(qu, li, u), ps[u])
    BY <2>1, <2>2, LinkedElsewhere
  <2> QED BY <1>1, <2>3
<1>7. \A u, v \in Owners : u # v => ToSet(qs[u]) \cap ToSet(qs[v]) = {}
  <2> SUFFICES ASSUME NEW u \in Owners, NEW v \in Owners, u # v
               PROVE  ToSet(qs[u]) \cap ToSet(qs[v]) = {}
    OBVIOUS
  <2>1. CASE u = o
    BY <1>1, <1>4, <2>1
  <2>2. CASE v = o
    BY <1>1, <1>4, <2>2
  <2>3. CASE u # o /\ v # o
    BY <1>1, <2>3 DEF Structure
  <2> QED BY <2>1, <2>2, <2>3
<1>8. ASSUME NEW x \in Nodes
      PROVE  g[x].mem = "live" <=> \E u \in Owners : x \in ToSet(qs[u])
  <2>1. CASE x \in ToSet(q)
    <3>1. g[x].mem = "live"
      BY <2>1, LinkedEnds
    <3> QED BY <1>1, <2>1, <3>1
  <2>2. CASE x \notin ToSet(q) /\ x \in ToSet(ps[o])
    <3>1. g[x].mem # "live"
      BY <2>2 DEF Replaces
    <3>2. \A u \in Owners : x \notin ToSet(qs[u])
      BY <1>1, <1>4, <2>2
    <3> QED BY <3>1, <3>2
  <2>3. CASE x \notin ToSet(q) /\ x \notin ToSet(ps[o])
    <3>1. g[x] = h[x]
      BY <2>3 DEF Replaces
    <3>2. h[x].mem = "live" <=> \E u \in Owners : x \in ToSet(ps[u])
      BY DEF Structure
    <3>3. \A u \in Owners : x \in ToSet(qs[u]) <=> x \in ToSet(ps[u])
      BY <1>1, <2>3
    <3> QED BY <3>1, <3>2, <3>3
  <2> QED BY <2>1, <2>2, <2>3
<1>9. g \in Heaps
  BY DEF Replaces
<1> QED BY <1>1, <1>5, <1>6, <1>7, <1>8, <1>9 DEF Structure, qs

\* What a reader finds along the links is what the nodes of the list point to.
LEMMA DataIs ==
  ASSUME NEW h \in Heaps, NEW n, NEW p, Linked(h, n, p)
  PROVE  DataOf(h, n) = Values(h, p) /\ Path(h, n) = p
<1>1. n \in Pointers /\ p \in Seq(Nodes)
  BY LinkedEnds
<1>2. Path(h, n) = p /\ DOMAIN p = 1..Len(p)
  BY <1>1, LinkedIsChain, PathIs
<1> QED BY <1>2 DEF DataOf, Values

\* What the lists of a represented heap hold.
LEMMA AbstractState ==
  ASSUME NEW h, NEW qu, NEW li, NEW ps, Structure(h, qu, li, ps)
  PROVE  /\ DataOf(h, qu.head) = Values(h, ps[QueueId]) /\ Path(h, qu.head) = ps[QueueId]
         /\ \A l \in ListIds : DataOf(h, li[l]) = Values(h, ps[l]) /\ Path(h, li[l]) = ps[l]
<1>1. Linked(h, qu.head, ps[QueueId])
  BY QueueIdIsNew DEF Structure, FirstOf
<1>2. \A l \in ListIds : Linked(h, li[l], ps[l])
  BY QueueIdIsNew DEF Structure, FirstOf
<1>3. h \in Heaps
  BY DEF Structure
<1> QED BY <1>1, <1>2, <1>3, DataIs

\* A list has the same values in two heaps that agree about its data.
LEMMA SameValues ==
  ASSUME NEW h, NEW g, NEW p \in Seq(Nodes), \A x \in ToSet(p) : g[x].data = h[x].data
  PROVE  Values(g, p) = Values(h, p)
<1>1. DOMAIN p = 1..Len(p)
  OBVIOUS
<1>2. \A i \in 1..Len(p) : p[i] \in ToSet(p)
  BY <1>1 DEF ToSet
<1> QED BY <1>2 DEF Values

\* An operation on the queue, whose list becomes q.
QueueGets(ps, q) ==
  /\ Represents(heap, queue, list, forgotten, ps) /\ list' = list
  /\ queue' \in Queues /\ forgotten' \in Nat /\ got' \in Data \cup {Null}
  /\ Linked(heap', queue'.head, q) /\ Replaces(heap, ps[QueueId], heap', q)
  /\ queue'.tail = LastOf(q) /\ queue'.count = Len(q) + forgotten'

\* When the queue's list changes and no other, the invariant holds and the lists keep their
\* data.
LEMMA QueueBecomes ==
  ASSUME NEW ps, NEW q, QueueGets(ps, q)
  PROVE  /\ Inv'
         /\ DataOf(heap', queue'.head) = Values(heap', q)
         /\ \A l \in ListIds : DataOf(heap', list'[l]) = DataOf(heap, list[l])
<1> USE DEF QueueGets
<1> DEFINE qs == [ps EXCEPT ![QueueId] = q]
<1>0. Structure(heap, queue, list, ps) /\ QueueId \in Owners /\ heap \in Heaps
      /\ list \in [ListIds -> Pointers]
  BY QueueIdIsNew DEF Represents, Structure
<1>1. /\ Structure(heap', queue', list', qs)
      /\ \A u \in Owners \ {QueueId} : \A x \in ToSet(ps[u]) : heap'[x] = heap[x]
  <2>1. FirstOf(queue', list', QueueId) = queue'.head
    BY DEF FirstOf
  <2>2. \A u \in Owners \ {QueueId} : FirstOf(queue', list', u) = FirstOf(queue, list, u)
    BY DEF FirstOf
  <2>3. OwnerGets(heap, queue, list, ps, QueueId, heap', queue', list', q)
    BY <1>0, <2>1, <2>2 DEF OwnerGets
  <2> QED BY <2>3, OwnerChanges
<1>2. /\ qs[QueueId] = q /\ \A l \in ListIds : qs[l] = ps[l] /\ ps[l] \in Seq(Nodes)
  BY <1>0, QueueIdIsNew DEF Structure
<1> HIDE DEF qs
<1>3. Inv'
  <2>1. Represents(heap', queue', list', forgotten', qs)
    BY <1>0, <1>1, <1>2 DEF Represents
  <2> QED BY <2>1 DEF Inv
<1>4. DataOf(heap', queue'.head) = Values(heap', q)
  BY <1>1, <1>2, AbstractState
<1>5. ASSUME NEW l \in ListIds PROVE DataOf(heap', list'[l]) = DataOf(heap, list[l])
  <2>1. DataOf(heap', list'[l]) = Values(heap', ps[l]) /\ DataOf(heap, list[l]) = Values(heap, ps[l])
    BY <1>0, <1>1, <1>2, AbstractState
  <2>2. l \in Owners \ {QueueId}
    BY QueueIdIsNew
  <2>3. \A x \in ToSet(ps[l]) : heap'[x].data = heap[x].data
    BY <1>1, <2>2
  <2> QED BY <1>2, <2>1, <2>3, SameValues
<1> QED BY <1>3, <1>4, <1>5

\* An operation on a list, which becomes q.
ListGets(ps, l, h, f, q) ==
  /\ Represents(heap, queue, list, forgotten, ps) /\ l \in ListIds /\ got \in Data \cup {Null}
  /\ Becomes(l, h, f) /\ Linked(h, f, q) /\ Replaces(heap, ps[l], h, q)

\* When one list changes and no other, the invariant holds and the abstract list becomes its
\* values.
LEMMA ListBecomes ==
  ASSUME NEW ps, NEW l, NEW h, NEW f, NEW q, ListGets(ps, l, h, f, q)
  PROVE  Inv' /\ Abstract!Becomes(l, Values(h, q))
<1> USE DEF ListGets
<1> DEFINE qs == [ps EXCEPT ![l] = q]
<1>0. /\ Structure(heap, queue, list, ps) /\ l \in Owners /\ heap \in Heaps /\ l # QueueId
      /\ QueueId \in Owners /\ list \in [ListIds -> Pointers]
      /\ heap' = h /\ list' = [list EXCEPT ![l] = f]
      /\ queue' = queue /\ forgotten' = forgotten /\ got' = got
  BY QueueIdIsNew DEF Represents, Structure, Becomes
<1>1. /\ Structure(heap', queue', list', qs)
      /\ \A u \in Owners \ {l} : \A x \in ToSet(ps[u]) : heap'[x] = heap[x]
  <2>1. FirstOf(queue', list', l) = f
    BY <1>0 DEF FirstOf
  <2>2. \A u \in Owners \ {l} : FirstOf(queue', list', u) = FirstOf(queue, list, u)
    BY <1>0 DEF FirstOf, Owners
  <2>3. Linked(heap', FirstOf(queue', list', l), q) /\ Replaces(heap, ps[l], heap', q)
    BY <1>0, <2>1
  <2>4. OwnerGets(heap, queue, list, ps, l, heap', queue', list', q)
    BY <1>0, <2>2, <2>3 DEF OwnerGets
  <2> QED BY <2>4, OwnerChanges
<1>2. /\ qs[l] = q /\ \A u \in Owners \ {l} : qs[u] = ps[u] /\ ps[u] \in Seq(Nodes)
  BY <1>0 DEF Structure
<1> HIDE DEF qs
<1>3. Inv'
  <2>1. list' \in [ListIds -> Pointers]
    BY <1>0, LinkedEnds
  <2>2. Represents(heap', queue', list', forgotten', qs)
    BY <1>0, <1>1, <1>2, <2>1 DEF Represents
  <2> QED BY <1>0, <2>2 DEF Inv
<1>4. ASSUME NEW u \in Owners \ {l} PROVE Values(heap', qs[u]) = Values(heap, ps[u])
  <2>1. \A x \in ToSet(ps[u]) : heap'[x].data = heap[x].data
    BY <1>1
  <2> QED BY <1>2, <2>1, SameValues
<1>5. DataOf(heap', queue'.head) = DataOf(heap, queue.head)
  <2>1. DataOf(heap', queue'.head) = Values(heap', qs[QueueId])
    BY <1>1, AbstractState
  <2>2. DataOf(heap, queue.head) = Values(heap, ps[QueueId])
    BY <1>0, AbstractState
  <2> QED BY <1>0, <1>4, <2>1, <2>2
<1>6. ASSUME NEW m \in ListIds
      PROVE  DataOf(heap', list'[m]) = IF m = l THEN Values(h, q) ELSE DataOf(heap, list[m])
  <2>1. DataOf(heap', list'[m]) = Values(heap', qs[m]) /\ DataOf(heap, list[m]) = Values(heap, ps[m])
    <3>1. Structure(heap', queue', list', qs)
      BY <1>1
    <3>2. Structure(heap, queue, list, ps)
      BY <1>0
    <3>3. DataOf(heap', list'[m]) = Values(heap', qs[m])
      BY <3>1, AbstractState
    <3>4. DataOf(heap, list[m]) = Values(heap, ps[m])
      BY <3>2, AbstractState
    <3> QED BY <3>3, <3>4
  <2>2. m \in Owners
    BY QueueIdIsNew
  <2>3. CASE m = l
    BY <1>0, <1>2, <2>1, <2>3
  <2>4. CASE m # l
    BY <1>4, <2>1, <2>2, <2>4
  <2> QED BY <2>3, <2>4
<1>7. Abstract!Becomes(l, Values(h, q))
  BY <1>0, <1>5, <1>6 DEF Abstract!Becomes
<1> QED BY <1>3, <1>7

-----------------------------------------------------------------------------
(* What lists hold after an operation *)

\* The value of a node put in front comes first.
LEMMA ValuesCons ==
  ASSUME NEW h \in Heaps, NEW g \in Heaps, NEW p \in Seq(Nodes), NEW n \in Nodes,
         NEW d \in Data, g[n].data = d, \A x \in ToSet(p) : g[x].data = h[x].data
  PROVE  Values(g, Cons(n, p)) = Cons(d, Values(h, p))
<1> DEFINE v == Values(h, p)
           q == Cons(n, p)
           w == Values(g, q)
           c == Cons(d, v)
<1>1. v \in Seq(Entry) /\ Len(v) = Len(p) /\ \A i \in 1..Len(p) : v[i] = h[p[i]].data
  BY ValuesType
<1>2. q \in Seq(Nodes) /\ Len(q) = Len(p) + 1 /\ q[1] = n /\ \A i \in 1..Len(p) : q[i + 1] = p[i]
  BY ConsNodes
<1> HIDE DEF v, q
<1>3. w \in Seq(Entry) /\ Len(w) = Len(q) /\ \A i \in 1..Len(q) : w[i] = g[q[i]].data
  BY <1>2, ValuesType
<1>4. c \in Seq(Entry) /\ Len(c) = Len(v) + 1 /\ c[1] = d /\ \A i \in 1..Len(v) : c[i + 1] = v[i]
  <2>1. d \in Entry /\ v \in Seq(Entry)
    BY <1>1 DEF Entry
  <2> HIDE DEF c
  <2>2. /\ Cons(d, v) \in Seq(Entry) /\ Len(Cons(d, v)) = Len(v) + 1 /\ Cons(d, v)[1] = d
        /\ \A i \in 1..Len(v) : Cons(d, v)[i + 1] = v[i]
    BY <2>1, ConsType
  <2> QED BY <2>2 DEF c
<1> HIDE DEF w, c
<1>5. Len(p) \in Nat /\ \A i \in 1..Len(p) : p[i] \in ToSet(p)
  BY DEF ToSet
<1>6. ASSUME NEW i \in 1..Len(w) PROVE w[i] = c[i]
  <2>1. CASE i = 1
    BY <1>2, <1>3, <1>4, <2>1
  <2>2. CASE i # 1
    <3>1. i - 1 \in 1..Len(p) /\ (i - 1) + 1 = i
      BY <1>2, <1>3, <1>5, <2>2
    <3>2. c[i] = h[p[i - 1]].data
      BY <1>1, <1>4, <3>1
    <3>3. w[i] = g[p[i - 1]].data
      BY <1>2, <1>3, <3>1
    <3> QED BY <1>5, <3>1, <3>2, <3>3
  <2> QED BY <2>1, <2>2
<1>7. w = c
  BY <1>1, <1>2, <1>3, <1>4, <1>6, SeqEqual
<1> QED BY <1>7 DEF w, c, q, v

\* The value of a node put at the end comes last.
LEMMA ValuesAppend ==
  ASSUME NEW h \in Heaps, NEW g \in Heaps, NEW p \in Seq(Nodes), NEW n \in Nodes,
         NEW d \in Data, g[n].data = d, \A x \in ToSet(p) : g[x].data = h[x].data
  PROVE  Values(g, Append(p, n)) = Append(Values(h, p), d)
<1> DEFINE v == Values(h, p)
           q == Append(p, n)
           w == Values(g, q)
           c == Append(v, d)
<1>1. v \in Seq(Entry) /\ Len(v) = Len(p) /\ \A i \in 1..Len(p) : v[i] = h[p[i]].data
  BY ValuesType
<1>2. q \in Seq(Nodes) /\ Len(q) = Len(p) + 1 /\ q[Len(p) + 1] = n
      /\ \A i \in 1..Len(p) : q[i] = p[i]
  OBVIOUS
<1> HIDE DEF v, q
<1>3. w \in Seq(Entry) /\ Len(w) = Len(q) /\ \A i \in 1..Len(q) : w[i] = g[q[i]].data
  BY <1>2, ValuesType
<1>4. c \in Seq(Entry) /\ Len(c) = Len(v) + 1 /\ c[Len(v) + 1] = d
      /\ \A i \in 1..Len(v) : c[i] = v[i]
  BY <1>1 DEF Entry
<1> HIDE DEF w, c
<1>5. Len(p) \in Nat /\ \A i \in 1..Len(p) : p[i] \in ToSet(p)
  BY DEF ToSet
<1>6. ASSUME NEW i \in 1..Len(w) PROVE w[i] = c[i]
  <2>1. CASE i = Len(p) + 1
    BY <1>1, <1>2, <1>3, <1>4, <2>1
  <2>2. CASE i # Len(p) + 1
    <3>1. i \in 1..Len(p)
      BY <1>2, <1>3, <1>5, <2>2
    <3>2. c[i] = h[p[i]].data
      BY <1>1, <1>4, <3>1
    <3>3. w[i] = g[p[i]].data
      BY <1>2, <1>3, <3>1
    <3> QED BY <1>5, <3>1, <3>2, <3>3
  <2> QED BY <2>1, <2>2
<1>7. w = c
  BY <1>1, <1>2, <1>3, <1>4, <1>6, SeqEqual
<1> QED BY <1>7 DEF w, c, q, v

\* Taking a node out takes out its value.
LEMMA ValuesRemoveAt ==
  ASSUME NEW h \in Heaps, NEW g \in Heaps, NEW p \in Seq(Nodes), NEW k \in 1..Len(p),
         \A x \in ToSet(RemoveAt(p, k)) : g[x].data = h[x].data
  PROVE  Values(g, RemoveAt(p, k)) = RemoveAt(Values(h, p), k)
<1> DEFINE v == Values(h, p)
           q == RemoveAt(p, k)
           w == Values(g, q)
           c == RemoveAt(v, k)
<1>1. v \in Seq(Entry) /\ Len(v) = Len(p) /\ \A i \in 1..Len(p) : v[i] = h[p[i]].data
  BY ValuesType
<1>2. /\ q \in Seq(Nodes) /\ Len(q) = Len(p) - 1
      /\ \A j \in 1..(k - 1) : q[j] = p[j]
      /\ \A j \in k..(Len(p) - 1) : q[j] = p[j + 1]
  BY RemoveAtType
<1>3. \A x \in ToSet(q) : g[x].data = h[x].data
  OBVIOUS
<1> HIDE DEF v, q
<1>4. w \in Seq(Entry) /\ Len(w) = Len(q) /\ \A i \in 1..Len(q) : w[i] = g[q[i]].data
  BY <1>2, ValuesType
<1>5. /\ c \in Seq(Entry) /\ Len(c) = Len(v) - 1
      /\ \A j \in 1..(k - 1) : c[j] = v[j]
      /\ \A j \in k..(Len(v) - 1) : c[j] = v[j + 1]
  BY <1>1, RemoveAtType
<1> HIDE DEF w, c
<1>6. Len(p) \in Nat /\ Len(q) \in Nat
  BY <1>2
<1>7. \A i \in 1..Len(q) : q[i] \in ToSet(q)
  BY <1>2 DEF ToSet
<1>8. ASSUME NEW i \in 1..Len(w) PROVE w[i] = c[i]
  <2>1. w[i] = h[q[i]].data
    BY <1>3, <1>4, <1>7
  <2>2. CASE i < k
    <3>1. i \in 1..(k - 1) /\ i \in 1..Len(p)
      BY <1>2, <1>4, <1>6, <2>2
    <3> QED BY <1>1, <1>2, <1>5, <2>1, <3>1
  <2>3. CASE ~(i < k)
    <3>1. i \in k..(Len(p) - 1) /\ i + 1 \in 1..Len(p)
      BY <1>2, <1>4, <1>6, <2>3
    <3> QED BY <1>1, <1>2, <1>5, <2>1, <3>1
  <2> QED BY <2>2, <2>3
<1>9. w = c
  BY <1>1, <1>2, <1>4, <1>5, <1>8, SeqEqual
<1> QED BY <1>9 DEF w, c, q, v

\* The values of two lists joined are those of the first and then the second.
LEMMA ValuesConcat ==
  ASSUME NEW h \in Heaps, NEW g \in Heaps, NEW p \in Seq(Nodes), NEW q \in Seq(Nodes),
         \A x \in Nodes : g[x].data = h[x].data
  PROVE  Values(g, p \o q) = Values(h, p) \o Values(h, q)
<1> DEFINE r == p \o q
           v == Values(h, p)
           u == Values(h, q)
           w == Values(g, r)
           c == v \o u
<1>1. /\ v \in Seq(Entry) /\ Len(v) = Len(p) /\ \A i \in 1..Len(p) : v[i] = h[p[i]].data
      /\ u \in Seq(Entry) /\ Len(u) = Len(q) /\ \A i \in 1..Len(q) : u[i] = h[q[i]].data
  BY ValuesType
<1>2. /\ r \in Seq(Nodes) /\ Len(r) = Len(p) + Len(q)
      /\ \A j \in 1..Len(p) : r[j] = p[j]
      /\ \A j \in 1..Len(q) : r[Len(p) + j] = q[j]
  BY ConcatEntries
<1> HIDE DEF v, u, r
<1>3. w \in Seq(Entry) /\ Len(w) = Len(r) /\ \A i \in 1..Len(r) : w[i] = g[r[i]].data
  BY <1>2, ValuesType
<1>4. /\ c \in Seq(Entry) /\ Len(c) = Len(v) + Len(u)
      /\ \A j \in 1..Len(v) : c[j] = v[j]
      /\ \A j \in 1..Len(u) : c[Len(v) + j] = u[j]
  <2>1. v \in Seq(Entry) /\ u \in Seq(Entry)
    BY <1>1
  <2> QED BY <2>1, ConcatEntries
<1> HIDE DEF w, c
<1>5. /\ Len(p) \in Nat /\ Len(q) \in Nat
      /\ \A i \in 1..Len(p) : p[i] \in Nodes
      /\ \A i \in 1..Len(q) : q[i] \in Nodes
  OBVIOUS
<1>6. ASSUME NEW i \in 1..Len(w) PROVE w[i] = c[i]
  <2>1. CASE i \in 1..Len(p)
    <3>1. w[i] = g[p[i]].data /\ c[i] = h[p[i]].data
      BY <1>1, <1>2, <1>3, <1>4, <2>1
    <3> QED BY <1>5, <2>1, <3>1
  <2>2. CASE i \notin 1..Len(p)
    <3>1. i - Len(p) \in 1..Len(q) /\ Len(p) + (i - Len(p)) = i
      BY <1>2, <1>3, <1>5, <2>2
    <3>2. c[i] = h[q[i - Len(p)]].data
      <4>1. c[Len(v) + (i - Len(p))] = u[i - Len(p)]
        BY <1>1, <1>4, <3>1
      <4> QED BY <1>1, <3>1, <4>1
    <3>3. w[i] = g[q[i - Len(p)]].data
      <4>1. r[i] = q[i - Len(p)]
        <5>1. r[Len(p) + (i - Len(p))] = q[i - Len(p)]
          BY <1>2, <3>1
        <5> QED BY <3>1, <5>1
      <4> QED BY <1>3, <4>1
    <3>4. q[i - Len(p)] \in Nodes
      BY <1>5, <3>1
    <3> QED BY <3>2, <3>3, <3>4
  <2> QED BY <2>1, <2>2
<1>7. w = c
  BY <1>1, <1>2, <1>3, <1>4, <1>6, SeqEqual
<1> QED BY <1>7 DEF w, c, r, v, u

\* Removing the first entry leaves the tail.
LEMMA RemoveAtHead ==
  ASSUME NEW S, NEW s \in Seq(S), s # <<>>
  PROVE  RemoveAt(s, 1) = Tail(s)
<1> DEFINE r == RemoveAt(s, 1)
<1>1. Len(s) \in Nat \ {0}
  OBVIOUS
<1>2. 1 \in 1..Len(s)
  BY <1>1
<1>3. r \in Seq(S) /\ Len(r) = Len(s) - 1 /\ \A j \in 1..(Len(s) - 1) : r[j] = s[j + 1]
  BY <1>2, RemoveAtType
<1> HIDE DEF r
<1>4. /\ Tail(s) \in Seq(S) /\ Len(Tail(s)) = Len(s) - 1
      /\ \A j \in 1..(Len(s) - 1) : Tail(s)[j] = s[j + 1]
  BY <1>1
<1>5. r = Tail(s)
  BY <1>3, <1>4, SeqEqual
<1> QED BY <1>5 DEF r

\* list_find (queue.c 191-203): the first node that has d.
LEMMA FindIs ==
  ASSUME NEW h \in Heaps, NEW n, NEW p, Linked(h, n, p), NEW d,
         list_find(h, n, d) # Null
  PROVE  \E k \in 1..Len(p) :
           /\ list_find(h, n, d) = p[k]
           /\ RemoveFirst(Values(h, p), d) = RemoveAt(Values(h, p), k)
<1> DEFINE v == Values(h, p)
           I == {i \in 1..Len(p) : h[p[i]].data = d}
           k == SelectInSeq(p, LAMBDA m : h[m].data = d)
<1>0. p \in Seq(Nodes) /\ Path(h, n) = p /\ Len(p) \in Nat
  BY LinkedEnds, DataIs
<1>1. v \in Seq(Entry) /\ Len(v) = Len(p) /\ \A i \in 1..Len(p) : v[i] = h[p[i]].data
  BY <1>0, ValuesType
<1> HIDE DEF v
<1>2. k = IF I # {} THEN Min(I) ELSE 0
  BY DEF SelectInSeq
<1>3. list_find(h, n, d) = IF k = 0 THEN Null ELSE p[k]
  BY <1>0 DEF list_find
<1> HIDE DEF k
<1>4. k # 0
  BY <1>3
<1>5. I # {} /\ k = Min(I)
  BY <1>2, <1>4
<1>6. k \in I
  <2>1. I \in SUBSET Nat
    BY <1>0
  <2>2. \E m \in I : \A y \in I : m <= y
    <3> HIDE DEF I
    <3> QED BY <1>5, <2>1, NatMinimum
  <2> HIDE DEF I
  <2> QED BY <1>5, <2>2 DEF Min
<1>7. SelectInSeq(v, LAMBDA m : m = d) = k
  <2>1. {i \in 1..Len(v) : v[i] = d} = I
    BY <1>1
  <2> QED BY <1>5, <2>1 DEF SelectInSeq
<1>8. RemoveFirst(v, d) = RemoveAt(v, k)
  BY <1>1, <1>6, <1>7 DEF RemoveFirst
<1> QED BY <1>3, <1>4, <1>6, <1>8 DEF v

-----------------------------------------------------------------------------
(* The operations on the queue *)

\* Lists.tla takes its operators from the same module.
LEMMA SameOperators ==
  ASSUME NEW s, NEW d
  PROVE  /\ Abstract!Cons(d, s) = Cons(d, s)
         /\ Abstract!RemoveFirst(s, d) = RemoveFirst(s, d)
         /\ Abstract!Last(s) = Last(s)
<1>1. Abstract!Cons(d, s) = Cons(d, s)
  BY DEF Cons, Abstract!Cons
<1>2. Abstract!RemoveFirst(s, d) = RemoveFirst(s, d)
  BY DEF RemoveFirst, SelectInSeq, RemoveAt, Min, Abstract!RemoveFirst, Abstract!SelectInSeq,
         Abstract!RemoveAt, Abstract!Min
<1>3. Abstract!Last(s) = Last(s)
  BY DEF Last, Abstract!Last
<1> QED BY <1>1, <1>2, <1>3

\* What the invariant says of the queue: its list, its types, its count and its tail.
LEMMA QueueFacts ==
  ASSUME NEW ps, Represents(heap, queue, list, forgotten, ps)
  PROVE  LET p == ps[QueueId]
         IN /\ Linked(heap, queue.head, p) /\ p \in Seq(Nodes) /\ Len(p) \in Nat
            /\ heap \in Heaps /\ queue \in Queues
            /\ queue.head \in Pointers /\ queue.tail \in Pointers /\ queue.count \in Nat
            /\ forgotten \in Nat /\ queue.count = Len(p) + forgotten
            /\ queue.tail = LastOf(p)
            /\ queue.head = Null <=> Len(p) = 0
            /\ DataOf(heap, queue.head) = Values(heap, p)
            /\ Path(heap, queue.head) = p
<1>1. Structure(heap, queue, list, ps)
  BY DEF Represents
<1>2. Linked(heap, queue.head, ps[QueueId]) /\ heap \in Heaps
  BY <1>1, QueueIdIsNew DEF Structure, FirstOf
<1> QED BY <1>1, <1>2, LinkedEnds, AbstractState DEF Represents, Queues

\* queue_push_tail appends to the abstract queue.
LEMMA PushTail ==
  ASSUME Inv, NEW d \in Data, queue_push_tail(d)
  PROVE  Inv' /\ Abstract!PushTail(d)
<1>1. PICK ps : Represents(heap, queue, list, forgotten, ps)
  BY DEF Inv
<1> DEFINE p == ps[QueueId]
<1>2. /\ Linked(heap, queue.head, p) /\ p \in Seq(Nodes) /\ Len(p) \in Nat
      /\ heap \in Heaps /\ queue \in Queues /\ queue.head \in Pointers
      /\ forgotten \in Nat /\ queue.count = Len(p) + forgotten
      /\ queue.tail = LastOf(p) /\ (queue.head = Null <=> Len(p) = 0)
      /\ DataOf(heap, queue.head) = Values(heap, p)
  BY <1>1, QueueFacts
<1>3. PICK n \in list_alloc :
        /\ heap' = list_insert_tail(heap, queue.tail, n, d)
        /\ queue' = [head |-> IF queue.tail = Null THEN n ELSE queue.head,
                     tail |-> n, count |-> queue.count + 1]
        /\ list' = list /\ forgotten' = forgotten /\ got' = got
  BY DEF queue_push_tail
<1>4. n \in Nodes /\ heap[n].mem = "free" /\ n \in Pointers
  BY <1>3 DEF list_alloc, Pointers
<1> DEFINE q == Append(p, n)
<1> HIDE DEF p
<1>5. list_last(heap, queue.tail) = LastOf(p)
  BY <1>2, LastIs
<1>6. /\ Linked(heap', IF Len(p) = 0 THEN n ELSE queue.head, q)
      /\ Replaces(heap, p, heap', q)
      /\ heap'[n].data = d
      /\ \A x \in ToSet(p) : heap'[x].data = heap[x].data
  BY <1>2, <1>3, <1>4, <1>5, InsertTailLinks
<1>7. queue.tail = Null <=> Len(p) = 0
  BY <1>2, LinkedEnds DEF LastOf
<1>8. q \in Seq(Nodes) /\ Len(q) = Len(p) + 1 /\ q[Len(p) + 1] = n
  BY <1>2, <1>4
<1> HIDE DEF q
<1>9. QueueGets(ps, q)
  <2>1. queue' \in Queues /\ queue'.count = Len(q) + forgotten' /\ queue'.tail = n
    <3>1. queue.count = Len(p) + forgotten /\ Len(p) \in Nat /\ forgotten \in Nat
      BY <1>2
    <3>2. /\ queue'.head \in Pointers /\ queue'.tail = n
          /\ queue'.count = queue.count + 1 /\ forgotten' = forgotten
          /\ queue' = [head |-> queue'.head, tail |-> n, count |-> queue.count + 1]
      BY <1>2, <1>3, <1>4
    <3>3. queue.count + 1 \in Nat /\ queue'.count = Len(q) + forgotten'
      BY <1>8, <3>1, <3>2
    <3> QED BY <1>4, <3>2, <3>3 DEF Queues
  <2>2. n = LastOf(q)
    BY <1>2, <1>8 DEF LastOf
  <2>3. queue'.head = IF Len(p) = 0 THEN n ELSE queue.head
    BY <1>3, <1>7
  <2>4. got' \in Data \cup {Null} /\ forgotten' \in Nat
    BY <1>2, <1>3 DEF Inv
  <2> QED BY <1>1, <1>3, <1>6, <2>1, <2>2, <2>3, <2>4 DEF QueueGets, p
<1>10. Values(heap', q) = Append(Values(heap, p), d)
  <2>1. heap' \in Heaps
    BY <1>6 DEF Replaces
  <2> QED BY <1>2, <1>4, <1>6, <2>1, ValuesAppend DEF q
<1>11. /\ Inv' /\ DataOf(heap', queue'.head) = Values(heap', q)
       /\ \A l \in ListIds : DataOf(heap', list'[l]) = DataOf(heap, list[l])
  BY <1>9, QueueBecomes
<1> QED BY <1>2, <1>3, <1>10, <1>11 DEF Abstract!PushTail

\* queue_push_head puts the data in front of it.
LEMMA PushHead ==
  ASSUME Inv, NEW d \in Data, queue_push_head(d)
  PROVE  Inv' /\ Abstract!PushHead(d)
<1>1. PICK ps : Represents(heap, queue, list, forgotten, ps)
  BY DEF Inv
<1> DEFINE p == ps[QueueId]
<1>2. /\ Linked(heap, queue.head, p) /\ p \in Seq(Nodes) /\ Len(p) \in Nat
      /\ heap \in Heaps /\ queue \in Queues /\ queue.head \in Pointers
      /\ forgotten \in Nat /\ queue.count = Len(p) + forgotten
      /\ queue.tail = LastOf(p) /\ (queue.head = Null <=> Len(p) = 0)
      /\ DataOf(heap, queue.head) = Values(heap, p) /\ queue.tail \in Pointers
  BY <1>1, QueueFacts
<1>3. PICK n \in list_alloc :
        /\ heap' = list_insert_head(heap, queue.head, n, d)
        /\ queue' = [head |-> n, tail |-> IF queue.head = Null THEN n ELSE queue.tail,
                     count |-> queue.count + 1]
        /\ list' = list /\ forgotten' = forgotten /\ got' = got
  BY DEF queue_push_head
<1>4. n \in Nodes /\ heap[n].mem = "free" /\ n \in Pointers
  BY <1>3 DEF list_alloc, Pointers
<1> DEFINE q == Cons(n, p)
<1> HIDE DEF p
<1>5. /\ Linked(heap', n, q) /\ Replaces(heap, p, heap', q)
      /\ heap'[n].data = d
      /\ \A x \in ToSet(p) : heap'[x].data = heap[x].data
  BY <1>2, <1>3, <1>4, InsertHeadLinks
<1>6. q \in Seq(Nodes) /\ Len(q) = Len(p) + 1 /\ q[1] = n
      /\ \A i \in 1..Len(p) : q[i + 1] = p[i]
  <2>1. p \in Seq(Nodes) /\ n \in Nodes
    BY <1>2, <1>4
  <2> HIDE DEF q
  <2>2. /\ Cons(n, p) \in Seq(Nodes) /\ Len(Cons(n, p)) = Len(p) + 1 /\ Cons(n, p)[1] = n
        /\ \A i \in 1..Len(p) : Cons(n, p)[i + 1] = p[i]
    BY <2>1, ConsNodes
  <2> QED BY <2>2 DEF q
<1> HIDE DEF q
<1>7. QueueGets(ps, q)
  <2>1. /\ queue' \in Queues /\ queue'.count = Len(q) + forgotten' /\ queue'.head = n
        /\ queue'.tail = IF Len(p) = 0 THEN n ELSE queue.tail
    BY <1>2, <1>3, <1>4, <1>6 DEF Queues
  <2>2. LastOf(q) = IF Len(p) = 0 THEN n ELSE LastOf(p)
    <3>1. Len(p) # 0 => Len(p) \in 1..Len(p)
      BY <1>2
    <3> QED BY <1>2, <1>6, <3>1 DEF LastOf
  <2>3. got' \in Data \cup {Null} /\ forgotten' \in Nat
    BY <1>2, <1>3 DEF Inv
  <2>4. queue'.tail = LastOf(q)
    BY <1>2, <2>1, <2>2
  <2> QED BY <1>1, <1>3, <1>5, <2>1, <2>3, <2>4 DEF QueueGets, p
<1>8. Values(heap', q) = Cons(d, Values(heap, p))
  <2>1. heap' \in Heaps
    BY <1>5 DEF Replaces
  <2> QED BY <1>2, <1>4, <1>5, <2>1, ValuesCons DEF q
<1>9. /\ Inv' /\ DataOf(heap', queue'.head) = Values(heap', q)
      /\ \A l \in ListIds : DataOf(heap', list'[l]) = DataOf(heap, list[l])
  BY <1>7, QueueBecomes
<1>10. Abstract!Cons(d, Values(heap, p)) = Cons(d, Values(heap, p))
  BY SameOperators
<1> QED BY <1>2, <1>3, <1>8, <1>9, <1>10 DEF Abstract!PushHead

\* queue_pop_head releases its first node as list_remove does.
LEMMA HeadTaken ==
  ASSUME NEW h \in Heaps, NEW first, NEW p, Linked(h, first, p), first # Null
  PROVE  /\ SetPrev(list_free_1(h, first), h[first].next, Null) = Taken(h, first)
         /\ Without(first, h, first) = h[first].next
<1> DEFINE nx == h[first].next
           a == list_free_1(h, first)
           b == SetPrev(h, nx, Null)
<1>1. first \in Nodes /\ Len(p) \in Nat /\ Len(p) # 0 /\ first = p[1]
      /\ \A i \in 1..Len(p) : p[i] \in Nodes /\ p[i] # Null
      /\ p \in Seq(Nodes) /\ IsInjective(p)
  BY LinkedEnds DEF Linked
<1>2. 1 \in 1..Len(p)
  BY <1>1
<1>3. h[first].prev = Null /\ nx = IF 1 = Len(p) THEN Null ELSE p[2]
  <2>1. LinkedAt(h, p, 1)
    BY <1>2 DEF Linked
  <2> QED BY <1>1, <2>1 DEF LinkedAt
<1>4. nx \in Pointers /\ nx # first
  <2>1. CASE Len(p) = 1
    BY <1>1, <1>3, <2>1 DEF Pointers
  <2>2. CASE Len(p) # 1
    <3>1. 2 \in 1..Len(p) /\ DOMAIN p = 1..Len(p)
      BY <1>1, <2>2
    <3> QED BY <1>1, <1>2, <1>3, <2>2, <3>1 DEF IsInjective, Pointers
  <2> QED BY <2>1, <2>2
<1> HIDE DEF nx
<1>5. SetNext(b, h[first].prev, nx) = b
  BY <1>3 DEF SetNext
<1>6. SetPrev(a, nx, Null) = list_free_1(b, first)
  <2>1. CASE nx = Null
    BY <2>1 DEF SetPrev
  <2>2. CASE nx # Null
    <3>1. nx \in Nodes
      BY <1>4, <2>2 DEF Pointers
    <3>2. SetPrev(a, nx, Null) = [[h EXCEPT ![first] = Free] EXCEPT ![nx].prev = Null]
      BY <2>2 DEF SetPrev, list_free_1
    <3>3. list_free_1(b, first) = [[h EXCEPT ![nx].prev = Null] EXCEPT ![first] = Free]
      BY <2>2 DEF SetPrev, list_free_1
    <3>4. [[h EXCEPT ![first] = Free] EXCEPT ![nx].prev = Null]
          = [[h EXCEPT ![nx].prev = Null] EXCEPT ![first] = Free]
      BY <1>1, <1>4, <3>1 DEF Heaps
    <3> QED BY <3>2, <3>3, <3>4
  <2> QED BY <2>1, <2>2
<1>7. Taken(h, first) = list_free_1(b, first)
  BY <1>3, <1>5 DEF Taken, Bypass, nx
<1> QED BY <1>6, <1>7 DEF Without, nx

\* queue_pop_head takes the first entry.
LEMMA PopHead ==
  ASSUME Inv, queue_pop_head
  PROVE  Inv' /\ Abstract!PopHead
<1>1. PICK ps : Represents(heap, queue, list, forgotten, ps)
  BY DEF Inv
<1> DEFINE p == ps[QueueId]
           n == queue.head
           v == Values(heap, p)
<1>2. /\ Linked(heap, n, p) /\ p \in Seq(Nodes) /\ Len(p) \in Nat
      /\ heap \in Heaps /\ queue \in Queues /\ n \in Pointers /\ queue.tail \in Pointers
      /\ forgotten \in Nat /\ queue.count = Len(p) + forgotten
      /\ queue.tail = LastOf(p) /\ (n = Null <=> Len(p) = 0)
      /\ DataOf(heap, n) = Values(heap, p)
  BY <1>1, QueueFacts
<1>3. /\ n # Null
      /\ heap' = SetPrev(list_free_1(heap, n), heap[n].next, Null)
      /\ queue' = [head |-> heap[n].next,
                   tail |-> IF heap[n].next = Null THEN Null ELSE queue.tail,
                   count |-> queue.count - 1]
      /\ got' = heap[n].data /\ list' = list /\ forgotten' = forgotten
  BY DEF queue_pop_head
<1> DEFINE q == RemoveAt(p, 1)
<1> HIDE DEF p, n
<1>4. n = p[1] /\ n \in Nodes /\ Len(p) # 0 /\ 1 \in 1..Len(p) /\ p # <<>>
  BY <1>2, <1>3, LinkedEnds
<1>5. heap' = Taken(heap, n) /\ heap[n].next = Without(n, heap, n)
  BY <1>2, <1>3, HeadTaken
<1>6. /\ Linked(heap', heap[n].next, q) /\ Replaces(heap, p, heap', q)
      /\ \A x \in ToSet(p) \ {p[1]} : heap'[x].data = heap[x].data
  BY <1>2, <1>4, <1>5, TakenLinks
<1>7. /\ q \in Seq(Nodes) /\ Len(q) = Len(p) - 1
      /\ \A j \in 1..(Len(p) - 1) : q[j] = p[j + 1]
  BY <1>2, <1>4, RemoveAtType
<1>8. ToSet(q) = ToSet(p) \ {p[1]}
  BY <1>2, <1>4, RemoveAtEntries DEF Linked
<1> HIDE DEF q
<1>9. heap[n].next \in Pointers /\ heap[n].data \in Data \cup {Null}
  BY <1>2, <1>4, HeapFields
<1>10. QueueGets(ps, q)
  <2>1. /\ queue' \in Queues /\ queue'.count = Len(q) + forgotten' /\ queue'.head = heap[n].next
        /\ queue'.tail = IF heap[n].next = Null THEN Null ELSE queue.tail
    BY <1>2, <1>3, <1>4, <1>7, <1>9 DEF Queues, Pointers
  <2>2. heap[n].next = Null <=> Len(q) = 0
    BY <1>6, LinkedEnds
  <2>3. LastOf(q) = IF Len(q) = 0 THEN Null ELSE LastOf(p)
    <3>1. Len(q) # 0 => Len(q) \in 1..(Len(p) - 1) /\ Len(q) + 1 = Len(p)
      BY <1>2, <1>4, <1>7
    <3> QED BY <1>2, <1>4, <1>7, <3>1 DEF LastOf
  <2>4. queue'.tail = LastOf(q)
    BY <1>2, <2>1, <2>2, <2>3
  <2>5. got' \in Data \cup {Null} /\ forgotten' \in Nat
    BY <1>2, <1>3, <1>9
  <2> QED BY <1>1, <1>3, <1>6, <2>1, <2>4, <2>5 DEF QueueGets, p
<1>11. /\ v \in Seq(Entry) /\ Len(v) = Len(p) /\ \A i \in 1..Len(p) : v[i] = heap[p[i]].data
  BY <1>2, ValuesType
<1>12. Values(heap', q) = RemoveAt(v, 1)
  <2>1. heap' \in Heaps
    BY <1>6 DEF Replaces
  <2> QED BY <1>2, <1>4, <1>6, <1>8, <2>1, ValuesRemoveAt DEF q
<1> HIDE DEF v
<1>13. v # <<>> /\ Head(v) = heap[n].data /\ RemoveAt(v, 1) = Tail(v)
  <2>1. v # <<>> /\ Head(v) = v[1]
    BY <1>4, <1>11
  <2> QED BY <1>4, <1>11, <2>1, RemoveAtHead
<1>14. /\ Inv' /\ DataOf(heap', queue'.head) = Values(heap', q)
       /\ \A l \in ListIds : DataOf(heap', list'[l]) = DataOf(heap, list[l])
  BY <1>10, QueueBecomes
<1>15. DataOf(heap, queue.head) = v
  BY <1>2 DEF n, v
<1> QED BY <1>3, <1>12, <1>13, <1>14, <1>15 DEF Abstract!PopHead

\* queue_pop_tail leaves the abstract queue empty, with the rest of the nodes lost.
LEMMA PopTail ==
  ASSUME Inv, queue_pop_tail
  PROVE  Inv' /\ Abstract!PopTail
<1>1. PICK ps : Represents(heap, queue, list, forgotten, ps)
  BY DEF Inv
<1> DEFINE p == ps[QueueId]
           v == Values(heap, p)
           others == ToSet(p) \ {queue.tail}
<1>2. /\ Linked(heap, queue.head, p) /\ p \in Seq(Nodes) /\ Len(p) \in Nat
      /\ heap \in Heaps /\ forgotten \in Nat /\ queue.count = Len(p) + forgotten
      /\ queue.tail = LastOf(p) /\ DataOf(heap, queue.head) = Values(heap, p)
      /\ Path(heap, queue.head) = p
  BY <1>1, QueueFacts
<1>3. /\ queue.tail # Null
      /\ heap' = [n \in Nodes |->
                    IF n = queue.tail THEN Free
                    ELSE IF n \in others THEN [Free EXCEPT !.mem = "lost"] ELSE heap[n]]
      /\ forgotten' = forgotten + Cardinality(others)
      /\ queue' = [head |-> Null, tail |-> Null, count |-> queue.count - 1]
      /\ got' = heap[queue.tail].data /\ list' = list
  BY <1>2 DEF queue_pop_tail
<1> HIDE DEF p
<1>4. /\ Len(p) # 0 /\ Len(p) \in 1..Len(p) /\ queue.tail = p[Len(p)]
      /\ queue.tail \in ToSet(p) /\ queue.tail \in Nodes
  <2>1. Len(p) # 0 /\ Len(p) \in 1..Len(p) /\ queue.tail = p[Len(p)]
    BY <1>2, <1>3 DEF LastOf
  <2> QED BY <1>2, <2>1, LinkedEnds
<1>5. IsFiniteSet(ToSet(p)) /\ Cardinality(ToSet(p)) = Len(p)
  BY <1>2, ListSize DEF Linked
<1>6. Cardinality(others) = Len(p) - 1
  BY <1>4, <1>5, FS_RemoveElement
<1> HIDE DEF others
<1>7. Replaces(heap, p, heap', <<>>)
  <2>1. heap' \in Heaps
    <3>1. [Free EXCEPT !.mem = "lost"] = [mem |-> "lost", data |-> Null, next |-> Null, prev |-> Null]
      BY DEF Free
    <3> QED BY <1>2, <1>3, <3>1 DEF Heaps, Free, Pointers
  <2>2. \A x \in Nodes : x \notin ToSet(p) => heap'[x] = heap[x]
    BY <1>3, <1>4 DEF others
  <2>3. ASSUME NEW x \in ToSet(p) PROVE heap'[x].mem # "live"
    <3>1. x \in Nodes
      BY <1>2, LinkedEnds
    <3>2. CASE x = queue.tail
      BY <1>3, <3>1, <3>2 DEF Free
    <3>3. CASE x # queue.tail
      BY <1>3, <3>1, <3>3 DEF Free, others
    <3> QED BY <3>2, <3>3
  <2> QED BY <2>1, <2>2, <2>3, EmptyLinked DEF Replaces
<1>8. QueueGets(ps, <<>>)
  <2>1. /\ queue' \in Queues /\ queue'.count = Len(<<>>) + forgotten' /\ queue'.head = Null
        /\ queue'.tail = LastOf(<<>>) /\ forgotten' \in Nat
    BY <1>2, <1>3, <1>4, <1>6 DEF Queues, Pointers, LastOf
  <2>2. got' \in Data \cup {Null}
    BY <1>2, <1>3, <1>4, HeapFields
  <2>3. Linked(heap', queue'.head, <<>>)
    BY <2>1, EmptyLinked
  <2> QED BY <1>1, <1>3, <1>7, <2>1, <2>2, <2>3 DEF QueueGets, p
<1>9. /\ v \in Seq(Entry) /\ Len(v) = Len(p) /\ \A i \in 1..Len(p) : v[i] = heap[p[i]].data
  BY <1>2, ValuesType
<1> HIDE DEF v
<1>10. v # <<>> /\ Abstract!Last(v) = heap[queue.tail].data
  BY <1>4, <1>9 DEF Abstract!Last
<1>11. /\ Inv' /\ DataOf(heap', queue'.head) = Values(heap', <<>>)
       /\ \A l \in ListIds : DataOf(heap', list'[l]) = DataOf(heap, list[l])
  BY <1>8, QueueBecomes
<1>12. Values(heap', <<>>) = <<>>
  BY DEF Values
<1>13. DataOf(heap, queue.head) = v
  BY <1>2 DEF v
<1> QED BY <1>3, <1>10, <1>11, <1>12, <1>13 DEF Abstract!PopTail

\* queue_clear empties it.
LEMMA Clear ==
  ASSUME Inv, queue_clear
  PROVE  Inv' /\ Abstract!Clear
<1>1. PICK ps : Represents(heap, queue, list, forgotten, ps)
  BY DEF Inv
<1> DEFINE p == ps[QueueId]
<1>2. Linked(heap, queue.head, p) /\ heap \in Heaps
  BY <1>1, QueueFacts
<1>3. /\ heap' = list_free(heap, queue.head) /\ queue' = EmptyQueue
      /\ forgotten' = 0 /\ list' = list /\ got' = got
  BY DEF queue_clear
<1>4. Linked(heap', Null, <<>>) /\ Replaces(heap, p, heap', <<>>)
  BY <1>2, <1>3, FreeLinks
<1>5. QueueGets(ps, <<>>)
  <2>1. /\ queue' \in Queues /\ queue'.count = Len(<<>>) + forgotten' /\ queue'.head = Null
        /\ queue'.tail = LastOf(<<>>) /\ forgotten' \in Nat
    BY <1>3 DEF Queues, Pointers, LastOf, EmptyQueue
  <2>2. got' \in Data \cup {Null}
    BY <1>3 DEF Inv
  <2> QED BY <1>1, <1>3, <1>4, <2>1, <2>2 DEF QueueGets
<1>6. /\ Inv' /\ DataOf(heap', queue'.head) = Values(heap', <<>>)
      /\ \A l \in ListIds : DataOf(heap', list'[l]) = DataOf(heap, list[l])
  BY <1>5, QueueBecomes
<1>7. Values(heap', <<>>) = <<>>
  BY DEF Values
<1> QED BY <1>3, <1>6, <1>7 DEF Abstract!Clear

-----------------------------------------------------------------------------
(* The operations on a list *)

\* What the invariant says of one list: its nodes, its types and its data.
LEMMA ListFacts ==
  ASSUME NEW ps, Represents(heap, queue, list, forgotten, ps), NEW l \in ListIds
  PROVE  /\ Linked(heap, list[l], ps[l]) /\ ps[l] \in Seq(Nodes) /\ Len(ps[l]) \in Nat
         /\ heap \in Heaps /\ list[l] \in Pointers
         /\ list[l] = Null <=> Len(ps[l]) = 0
         /\ DataOf(heap, list[l]) = Values(heap, ps[l])
<1>1. Structure(heap, queue, list, ps)
  BY DEF Represents
<1>2. Linked(heap, list[l], ps[l]) /\ heap \in Heaps
  BY <1>1, QueueIdIsNew DEF Structure, FirstOf
<1> QED BY <1>1, <1>2, LinkedEnds, AbstractState

\* An insertion at the head is an abstract insertion.
LEMMA HeadInserted ==
  ASSUME Inv, NEW l \in ListIds, NEW d \in Data, InsertHead(l, d)
  PROVE  Inv' /\ Abstract!Insert(l, d)
<1>1. PICK ps : Represents(heap, queue, list, forgotten, ps)
  BY DEF Inv
<1> DEFINE p == ps[l]
<1>2. /\ Linked(heap, list[l], p) /\ p \in Seq(Nodes) /\ heap \in Heaps
      /\ DataOf(heap, list[l]) = Values(heap, p)
  BY <1>1, ListFacts
<1>3. PICK n \in list_alloc : Becomes(l, list_insert_head(heap, list[l], n, d), n)
  BY DEF InsertHead
<1>4. n \in Nodes /\ heap[n].mem = "free"
  BY <1>3 DEF list_alloc
<1> DEFINE h == list_insert_head(heap, list[l], n, d)
           q == Cons(n, p)
<1> HIDE DEF p
<1>5. /\ Linked(h, n, q) /\ Replaces(heap, p, h, q) /\ h[n].data = d
      /\ \A x \in ToSet(p) : h[x].data = heap[x].data
  BY <1>2, <1>4, InsertHeadLinks
<1> HIDE DEF h
<1>6. Values(h, q) = Cons(d, Values(heap, p))
  <2>1. h \in Heaps
    BY <1>5 DEF Replaces
  <2> QED BY <1>2, <1>4, <1>5, <2>1, ValuesCons
<1> HIDE DEF q
<1>7. ListGets(ps, l, h, n, q)
  BY <1>1, <1>3, <1>5 DEF ListGets, p, h, Inv
<1>8. Inv' /\ Abstract!Becomes(l, Values(h, q))
  BY <1>7, ListBecomes
<1>9. Abstract!Cons(d, Values(heap, p)) = Cons(d, Values(heap, p))
  BY SameOperators
<1> QED BY <1>2, <1>6, <1>8, <1>9 DEF Abstract!Insert

\* So is one at the tail.
LEMMA TailInserted ==
  ASSUME Inv, NEW l \in ListIds, NEW d \in Data, InsertTail(l, d)
  PROVE  Inv' /\ Abstract!Insert(l, d)
<1>1. PICK ps : Represents(heap, queue, list, forgotten, ps)
  BY DEF Inv
<1> DEFINE p == ps[l]
<1>2. /\ Linked(heap, list[l], p) /\ p \in Seq(Nodes) /\ heap \in Heaps
      /\ DataOf(heap, list[l]) = Values(heap, p) /\ (list[l] = Null <=> Len(p) = 0)
  BY <1>1, ListFacts
<1>3. PICK n \in list_alloc : Becomes(l, list_insert_tail(heap, list[l], n, d),
                                      IF list[l] = Null THEN n ELSE list[l])
  BY DEF InsertTail
<1>4. n \in Nodes /\ heap[n].mem = "free"
  BY <1>3 DEF list_alloc
<1> DEFINE h == list_insert_tail(heap, list[l], n, d)
           q == Append(p, n)
           f == IF list[l] = Null THEN n ELSE list[l]
<1> HIDE DEF p
<1>5. list_last(heap, list[l]) = LastOf(p)
  BY <1>2, LastIs
<1>6. /\ Linked(h, IF Len(p) = 0 THEN n ELSE list[l], q) /\ Replaces(heap, p, h, q)
      /\ h[n].data = d /\ \A x \in ToSet(p) : h[x].data = heap[x].data
  BY <1>2, <1>4, <1>5, InsertTailLinks
<1> HIDE DEF h
<1>7. Values(h, q) = Append(Values(heap, p), d)
  <2>1. h \in Heaps
    BY <1>6 DEF Replaces
  <2> QED BY <1>2, <1>4, <1>6, <2>1, ValuesAppend
<1> HIDE DEF q
<1>8. Linked(h, f, q)
  BY <1>2, <1>6
<1>9. Becomes(l, h, f)
  BY <1>3 DEF h
<1> HIDE DEF f
<1>10. ListGets(ps, l, h, f, q)
  BY <1>1, <1>6, <1>8, <1>9 DEF ListGets, p, Inv
<1>11. Inv' /\ Abstract!Becomes(l, Values(h, q))
  BY <1>10, ListBecomes
<1> QED BY <1>2, <1>7, <1>11 DEF Abstract!Insert

\* The first entry d is taken out, whichever operation does it.
LEMMA EntryRemoved ==
  ASSUME Inv, NEW l \in ListIds, NEW d \in Data,
         list_find(heap, list[l], d) # Null,
         Becomes(l, Taken(heap, list_find(heap, list[l], d)),
                 Without(list[l], heap, list_find(heap, list[l], d)))
  PROVE  Inv' /\ Abstract!Delete(l, d)
<1>1. PICK ps : Represents(heap, queue, list, forgotten, ps)
  BY DEF Inv
<1> DEFINE p == ps[l]
           n == list_find(heap, list[l], d)
           h == Taken(heap, n)
           f == Without(list[l], heap, n)
<1>2. /\ Linked(heap, list[l], p) /\ p \in Seq(Nodes) /\ heap \in Heaps
      /\ DataOf(heap, list[l]) = Values(heap, p)
  BY <1>1, ListFacts
<1> HIDE DEF p
<1>3. PICK k \in 1..Len(p) :
        n = p[k] /\ RemoveFirst(Values(heap, p), d) = RemoveAt(Values(heap, p), k)
  BY <1>2, FindIs
<1> DEFINE q == RemoveAt(p, k)
<1> HIDE DEF n
<1>4. /\ Linked(h, f, q) /\ Replaces(heap, p, h, q)
      /\ \A x \in ToSet(p) \ {p[k]} : h[x].data = heap[x].data
  BY <1>2, <1>3, TakenLinks
<1>5. ToSet(q) = ToSet(p) \ {p[k]}
  BY <1>2, <1>3, RemoveAtEntries DEF Linked
<1> HIDE DEF h
<1>6. Values(h, q) = RemoveAt(Values(heap, p), k)
  <2>1. h \in Heaps
    BY <1>4 DEF Replaces
  <2> QED BY <1>2, <1>3, <1>4, <1>5, <2>1, ValuesRemoveAt
<1> HIDE DEF q, f
<1>7. ListGets(ps, l, h, f, q)
  BY <1>1, <1>4 DEF ListGets, p, h, f, n, Inv
<1>8. Inv' /\ Abstract!Becomes(l, Values(h, q))
  BY <1>7, ListBecomes
<1>9. Abstract!RemoveFirst(Values(heap, p), d) = RemoveFirst(Values(heap, p), d)
  BY SameOperators
<1> QED BY <1>2, <1>3, <1>6, <1>8, <1>9 DEF Abstract!Delete

\* Removing the first node with some data is the abstract deletion, and nothing when there is
\* none.
LEMMA Removed ==
  ASSUME Inv, NEW l \in ListIds, NEW d \in Data, RemoveLink(l, d) \/ list_remove(l, d)
  PROVE  Inv' /\ Abstract!Delete(l, d)
<1> DEFINE n == list_find(heap, list[l], d)
<1>1. n # Null
  BY DEF RemoveLink, list_remove
<1>2. n \in Nodes /\ heap \in Heaps
  <2>1. PICK ps : Represents(heap, queue, list, forgotten, ps)
    BY DEF Inv
  <2>2. Linked(heap, list[l], ps[l]) /\ heap \in Heaps /\ ps[l] \in Seq(Nodes)
    BY <2>1, ListFacts
  <2>3. PICK k \in 1..Len(ps[l]) : n = ps[l][k]
    BY <1>1, <2>2, FindIs
  <2> QED BY <2>2, <2>3
<1> HIDE DEF n
<1>3. list_free(list_remove_link(heap, n), n) = Taken(heap, n)
  BY <1>2, RemovedLink
<1>4. Becomes(l, Taken(heap, n), Without(list[l], heap, n))
  <2>1. CASE RemoveLink(l, d)
    BY <1>3, <2>1 DEF RemoveLink, n
  <2>2. CASE list_remove(l, d)
    BY <2>2 DEF list_remove, Taken, n
  <2> QED BY <2>1, <2>2
<1> QED BY <1>1, <1>4, EntryRemoved DEF n

\* Removing all nodes with some data is the abstract deletion of all.
LEMMA AllRemoved ==
  ASSUME Inv, NEW l \in ListIds, NEW d \in Data, RemoveAll(l, d)
  PROVE  Inv' /\ Abstract!DeleteAll(l, d)
<1>1. PICK ps : Represents(heap, queue, list, forgotten, ps)
  BY DEF Inv
<1> DEFINE p == ps[l]
           r == list_remove_all(heap, list[l], d)
           v == Values(heap, p)
<1>2. /\ Linked(heap, list[l], p) /\ p \in Seq(Nodes) /\ heap \in Heaps
      /\ DataOf(heap, list[l]) = v
  BY <1>1, ListFacts
<1> HIDE DEF p
<1>3. PICK q : /\ Linked(r.heap, r.first, q) /\ Replaces(heap, p, r.heap, q)
               /\ Values(r.heap, q) = Abstract!Others(v, d)[Len(p)]
  BY <1>2, RemoveAllLinks
<1>4. Len(v) = Len(p)
  BY <1>2, ValuesType
<1>5. Becomes(l, r.heap, r.first)
  BY DEF RemoveAll
<1> HIDE DEF r, v
<1>6. ListGets(ps, l, r.heap, r.first, q)
  BY <1>1, <1>3, <1>5 DEF ListGets, p, Inv
<1>7. Inv' /\ Abstract!Becomes(l, Values(r.heap, q))
  BY <1>6, ListBecomes
<1> QED BY <1>2, <1>3, <1>4, <1>7 DEF Abstract!DeleteAll

\* Freeing a list empties it.
LEMMA AllFreed ==
  ASSUME Inv, NEW l \in ListIds, FreeAll(l)
  PROVE  Inv' /\ Abstract!FreeAll(l)
<1>1. PICK ps : Represents(heap, queue, list, forgotten, ps)
  BY DEF Inv
<1> DEFINE h == list_free(heap, list[l])
<1>2. Linked(heap, list[l], ps[l]) /\ heap \in Heaps
  BY <1>1, ListFacts
<1>3. Linked(h, Null, <<>>) /\ Replaces(heap, ps[l], h, <<>>)
  BY <1>2, FreeLinks
<1>4. Becomes(l, h, Null)
  BY DEF FreeAll
<1> HIDE DEF h
<1>5. ListGets(ps, l, h, Null, <<>>)
  BY <1>1, <1>3, <1>4 DEF ListGets, Inv
<1>6. Inv' /\ Abstract!Becomes(l, Values(h, <<>>))
  BY <1>5, ListBecomes
<1>7. Values(h, <<>>) = <<>>
  BY DEF Values
<1> QED BY <1>6, <1>7 DEF Abstract!FreeAll

\* The second list is appended to the first: two owners change at once.
LEMMA Concatenated ==
  ASSUME Inv, NEW l \in ListIds, NEW m \in ListIds \ {l}, list_concat(l, m)
  PROVE  Inv' /\ Abstract!Concat(l, m)
<1>1. PICK ps : Represents(heap, queue, list, forgotten, ps)
  BY DEF Inv
<1> DEFINE p == ps[l]
           q == ps[m]
           r == p \o q
           qs == [ps EXCEPT ![l] = r, ![m] = <<>>]
           first == IF list[l] = Null THEN list[m] ELSE list[l]
           last == list_last(heap, list[l])
<1>2. Structure(heap, queue, list, ps) /\ heap \in Heaps /\ ps \in [Owners -> Seq(Nodes)]
      /\ list \in [ListIds -> Pointers]
  BY <1>1 DEF Represents, Structure
<1>3. /\ Linked(heap, list[l], p) /\ p \in Seq(Nodes) /\ list[l] \in Pointers
      /\ Linked(heap, list[m], q) /\ q \in Seq(Nodes) /\ list[m] \in Pointers
  BY <1>1, ListFacts
<1>4. l \in Owners /\ m \in Owners /\ l # m /\ l # QueueId /\ m # QueueId /\ QueueId \in Owners
  BY QueueIdIsNew
<1>5. \A u, w \in Owners : u # w => ToSet(ps[u]) \cap ToSet(ps[w]) = {}
  BY <1>2 DEF Structure
<1>6. /\ list[m] # Null
      /\ heap' = SetPrev(SetNext(heap, last, list[m]), list[m], last)
      /\ list' = [list EXCEPT ![l] = first, ![m] = Null]
      /\ queue' = queue /\ forgotten' = forgotten /\ got' = got
  <2>1. [list EXCEPT ![l] = IF @ = Null THEN list[m] ELSE @, ![m] = Null]
        = [list EXCEPT ![l] = first, ![m] = Null]
    BY <1>2
  <2> QED BY <2>1 DEF list_concat
<1>7. /\ list'[l] = first /\ list'[m] = Null
      /\ \A u \in ListIds \ {l, m} : list'[u] = list[u]
      /\ list' \in [ListIds -> Pointers]
  <2>1. first \in Pointers /\ Null \in Pointers
    BY <1>3 DEF Pointers
  <2> HIDE DEF first
  <2> QED BY <1>2, <1>4, <1>6, <2>1
<1>8. r \in Seq(Nodes) /\ <<>> \in Seq(Nodes)
  BY <1>3, EmptyLinked
<1> HIDE DEF p, q, r
<1>9. /\ Linked(heap', first, r) /\ heap' \in Heaps
      /\ \A x \in Nodes : x \notin ToSet(p) \cup ToSet(q) => heap'[x] = heap[x]
      /\ \A x \in Nodes : heap'[x].data = heap[x].data /\ heap'[x].mem = heap[x].mem
      /\ ToSet(r) = ToSet(p) \cup ToSet(q)
  <2>1. ToSet(p) \cap ToSet(q) = {}
    BY <1>4, <1>5 DEF p, q
  <2> QED BY <1>2, <1>3, <1>6, <2>1, ConcatLinks DEF r
<1> HIDE DEF first, last
<1>10. /\ qs \in [Owners -> Seq(Nodes)] /\ qs[l] = r /\ qs[m] = <<>>
       /\ \A u \in Owners \ {l, m} : qs[u] = ps[u]
  BY <1>2, <1>4, <1>8
<1> HIDE DEF qs
<1>11. \A u \in Owners \ {l, m} : \A x \in ToSet(ps[u]) : heap'[x] = heap[x]
  <2> SUFFICES ASSUME NEW u \in Owners \ {l, m}, NEW x \in ToSet(ps[u]) PROVE heap'[x] = heap[x]
    OBVIOUS
  <2>1. Linked(heap, FirstOf(queue, list, u), ps[u])
    BY <1>2 DEF Structure
  <2>2. x \in Nodes
    BY <2>1, LinkedEnds
  <2>3. x \notin ToSet(p) \cup ToSet(q)
    BY <1>4, <1>5 DEF p, q
  <2> QED BY <1>9, <2>2, <2>3
<1>12. \A u \in Owners : Linked(heap', FirstOf(queue', list', u), qs[u])
  <2> SUFFICES ASSUME NEW u \in Owners PROVE Linked(heap', FirstOf(queue', list', u), qs[u])
    OBVIOUS
  <2>1. CASE u = l
    BY <1>4, <1>7, <1>9, <1>10, <2>1 DEF FirstOf
  <2>2. CASE u = m
    <3>1. Linked(heap', Null, <<>>)
      BY EmptyLinked
    <3> QED BY <1>4, <1>7, <1>10, <2>2, <3>1 DEF FirstOf
  <2>3. CASE u # l /\ u # m
    <3>1. FirstOf(queue', list', u) = FirstOf(queue, list, u)
      BY <1>6, <1>7, <2>3 DEF FirstOf, Owners
    <3>2. Linked(heap, FirstOf(queue, list, u), ps[u])
      BY <1>2 DEF Structure
    <3>3. \A x \in ToSet(ps[u]) : heap'[x] = heap[x]
      BY <1>11, <2>3
    <3>4. Linked(heap', FirstOf(queue, list, u), ps[u])
      BY <3>2, <3>3, LinkedElsewhere
    <3> QED BY <1>10, <2>3, <3>1, <3>4
  <2> QED BY <2>1, <2>2, <2>3
<1>13. \A u, w \in Owners : u # w => ToSet(qs[u]) \cap ToSet(qs[w]) = {}
  <2> DEFINE Former(u) == IF u = l THEN ToSet(ps[l]) \cup ToSet(ps[m])
                          ELSE IF u = m THEN {} ELSE ToSet(ps[u])
  <2>1. \A u \in Owners : ToSet(qs[u]) = Former(u)
    BY <1>9, <1>10, EmptyLinked DEF p, q
  <2>2. \A u, w \in Owners : u # w => Former(u) \cap Former(w) = {}
    BY <1>4, <1>5
  <2> HIDE DEF Former
  <2> QED BY <2>1, <2>2
<1>14. ASSUME NEW x \in Nodes
       PROVE  heap'[x].mem = "live" <=> \E u \in Owners : x \in ToSet(qs[u])
  <2>1. heap[x].mem = "live" <=> \E u \in Owners : x \in ToSet(ps[u])
    BY <1>2 DEF Structure
  <2>2. (\E u \in Owners : x \in ToSet(qs[u])) <=> \E u \in Owners : x \in ToSet(ps[u])
    <3>1. x \in ToSet(qs[l]) <=> x \in ToSet(ps[l]) \/ x \in ToSet(ps[m])
      BY <1>9, <1>10 DEF p, q
    <3>2. x \notin ToSet(qs[m])
      BY <1>10, EmptyLinked
    <3>3. \A u \in Owners \ {l, m} : x \in ToSet(qs[u]) <=> x \in ToSet(ps[u])
      BY <1>10
    <3> QED BY <1>4, <3>1, <3>2, <3>3
  <2> QED BY <1>9, <2>1, <2>2
<1>15. Structure(heap', queue', list', qs)
  BY <1>9, <1>10, <1>12, <1>13, <1>14 DEF Structure
<1>16. Inv'
  <2>1. Represents(heap', queue', list', forgotten', qs)
    BY <1>1, <1>4, <1>6, <1>7, <1>10, <1>15 DEF Represents
  <2> QED BY <1>6, <2>1 DEF Inv
<1>17. ASSUME NEW u \in Owners \ {l, m} PROVE Values(heap', qs[u]) = Values(heap, ps[u])
  <2>1. \A x \in ToSet(ps[u]) : heap'[x].data = heap[x].data
    BY <1>11
  <2> QED BY <1>2, <1>10, <2>1, SameValues
<1>18. DataOf(heap', queue'.head) = DataOf(heap, queue.head)
  <2>1. DataOf(heap', queue'.head) = Values(heap', qs[QueueId])
    BY <1>15, AbstractState
  <2>2. DataOf(heap, queue.head) = Values(heap, ps[QueueId])
    BY <1>2, AbstractState
  <2> QED BY <1>4, <1>17, <2>1, <2>2
<1>19. ASSUME NEW u \in ListIds
       PROVE  DataOf(heap', list'[u]) =
                IF u = l THEN DataOf(heap, list[l]) \o DataOf(heap, list[m])
                ELSE IF u = m THEN <<>> ELSE DataOf(heap, list[u])
  <2>1. DataOf(heap', list'[u]) = Values(heap', qs[u])
    BY <1>15, AbstractState
  <2>2. /\ DataOf(heap, list[u]) = Values(heap, ps[u])
        /\ DataOf(heap, list[l]) = Values(heap, p) /\ DataOf(heap, list[m]) = Values(heap, q)
    BY <1>2, AbstractState DEF p, q
  <2>3. CASE u = l
    <3>1. Values(heap', r) = Values(heap, p) \o Values(heap, q)
      BY <1>2, <1>3, <1>9, ValuesConcat DEF r
    <3> QED BY <1>10, <2>1, <2>2, <2>3, <3>1
  <2>4. CASE u = m
    <3>1. Values(heap', <<>>) = <<>>
      BY DEF Values
    <3> QED BY <1>4, <1>10, <2>1, <2>4, <3>1
  <2>5. CASE u # l /\ u # m
    <3>1. u \in Owners \ {l, m}
      BY <2>5, QueueIdIsNew
    <3> QED BY <1>17, <2>1, <2>2, <2>5, <3>1
  <2> QED BY <2>3, <2>4, <2>5
<1>20. Abstract!Concat(l, m)
  <2> DEFINE old == [u \in ListIds |-> DataOf(heap, list[u])]
             new == [u \in ListIds |-> DataOf(heap', list'[u])]
  <2>1. new = [old EXCEPT ![l] = old[l] \o old[m], ![m] = <<>>]
    BY <1>4, <1>19
  <2> QED BY <1>6, <1>18, <2>1 DEF Abstract!Concat
<1> QED BY <1>16, <1>20

-----------------------------------------------------------------------------
(* The theorems *)

\* At first all lists are empty, here and in the abstract module.
LEMMA InvInit == Init => Inv /\ Abstract!Init
<1> SUFFICES ASSUME Init PROVE Inv /\ Abstract!Init
  OBVIOUS
<1> DEFINE ps == [o \in Owners |-> <<>>]
<1>1. /\ heap \in Heaps /\ \A n \in Nodes : heap[n].mem # "live"
      /\ queue \in Queues /\ queue.head = Null /\ queue.tail = Null /\ queue.count = 0
      /\ list \in [ListIds -> Pointers] /\ \A l \in ListIds : list[l] = Null
      /\ forgotten = 0 /\ got = Null
  BY DEF Init, Free, EmptyQueue, Heaps, Queues, Pointers
<1>2. /\ ps \in [Owners -> Seq(Nodes)] /\ \A o \in Owners : ps[o] = <<>>
      /\ QueueId \in Owners
  BY EmptyLinked, QueueIdIsNew
<1> HIDE DEF ps
<1>3. \A o \in Owners : FirstOf(queue, list, o) = Null
  BY <1>1 DEF FirstOf, Owners
<1>4. Structure(heap, queue, list, ps)
  BY <1>1, <1>2, <1>3, EmptyLinked DEF Structure
<1>5. Represents(heap, queue, list, forgotten, ps)
  BY <1>1, <1>2, <1>4, EmptyLinked DEF Represents, LastOf
<1>6. Inv
  BY <1>1, <1>5 DEF Inv
<1>7. DataOf(heap, queue.head) = <<>> /\ \A l \in ListIds : DataOf(heap, list[l]) = <<>>
  <2>1. Values(heap, <<>>) = <<>>
    BY DEF Values
  <2> QED BY <1>2, <1>4, <2>1, AbstractState, QueueIdIsNew
<1> QED BY <1>1, <1>6, <1>7 DEF Abstract!Init

\* Every operation on a list is a step of the abstract module.
LEMMA ListStep ==
  ASSUME Inv, NEW l \in ListIds, ListOperation(l)
  PROVE  Inv' /\ Abstract!Next
<1>1. CASE FreeAll(l)
  BY <1>1, AllFreed DEF Abstract!Next
<1>2. ASSUME NEW d \in Data, InsertHead(l, d) \/ InsertTail(l, d)
      PROVE  Inv' /\ Abstract!Next
  BY <1>2, HeadInserted, TailInserted DEF Abstract!Next
<1>3. ASSUME NEW d \in Data, RemoveLink(l, d) \/ list_remove(l, d)
      PROVE  Inv' /\ Abstract!Next
  BY <1>3, Removed DEF Abstract!Next
<1>4. ASSUME NEW d \in Data, RemoveAll(l, d)
      PROVE  Inv' /\ Abstract!Next
  BY <1>4, AllRemoved DEF Abstract!Next
<1>5. ASSUME NEW m \in ListIds \ {l}, list_concat(l, m)
      PROVE  Inv' /\ Abstract!Next
  BY <1>5, Concatenated DEF Abstract!Next
<1> QED BY <1>1, <1>2, <1>3, <1>4, <1>5 DEF ListOperation

\* Every step keeps the invariant and is an abstract step or a stutter.
LEMMA InvNext ==
  ASSUME Inv, [Next]_vars
  PROVE  Inv' /\ [Abstract!Next]_(Abstract!vars)
<1>1. ASSUME NEW d \in Data, queue_push_tail(d) \/ queue_push_head(d)
      PROVE  Inv' /\ Abstract!Next
  BY <1>1, PushTail, PushHead DEF Abstract!Next
<1>2. CASE queue_pop_head
  BY <1>2, PopHead DEF Abstract!Next
<1>3. CASE queue_pop_tail
  BY <1>3, PopTail DEF Abstract!Next
<1>4. CASE queue_clear
  BY <1>4, Clear DEF Abstract!Next
<1>5. CASE \E l \in ListIds : ListOperation(l)
  BY <1>5, ListStep
<1>6. CASE UNCHANGED vars
  BY <1>6 DEF vars, Inv, DataOf, Abstract!vars
<1> QED BY <1>1, <1>2, <1>3, <1>4, <1>5, <1>6 DEF Next, QueueOperation

\* A walk from the first node of a list visits the nodes of that list.
LEMMA StartIs ==
  ASSUME NEW n, NEW p, Linked(heap, n, p), heap \in Heaps
  PROVE  LinkedFrom(n) /\ NodesFrom(n) = ToSet(p)
<1>1. Path(heap, n) = p
  BY DataIs
<1>2. /\ p \in Seq(Nodes) /\ Len(p) \in Nat /\ IsInjective(p) /\ DOMAIN p = 1..Len(p)
      /\ \A i \in 1..Len(p) : LinkedAt(heap, p, i)
      /\ n = IF Len(p) = 0 THEN Null ELSE p[1]
  BY DEF Linked
<1>3. n # Null => heap[n].prev = Null
  <2> SUFFICES ASSUME n # Null PROVE heap[n].prev = Null
    OBVIOUS
  <2>1. n = p[1] /\ 1 \in 1..Len(p)
    BY <1>2
  <2> QED BY <1>2, <2>1 DEF LinkedAt
<1>4. \A i \in DOMAIN p : heap[p[i]].mem = "live"
  BY <1>2 DEF LinkedAt
<1>5. ASSUME NEW i \in 1..(Len(p) - 1) PROVE heap[p[i + 1]].prev = p[i]
  <2>1. i + 1 \in 1..Len(p) /\ i + 1 # 1 /\ (i + 1) - 1 = i
    BY <1>2
  <2>2. heap[p[i + 1]].prev = p[(i + 1) - 1]
    BY <1>2, <2>1 DEF LinkedAt
  <2> QED BY <2>1, <2>2
<1> QED BY <1>1, <1>2, <1>3, <1>4, <1>5 DEF LinkedFrom, NodesFrom

\* The invariant implies what the runs check about the links.
LEMMA InvWellLinked == Inv => WellLinked
<1> SUFFICES ASSUME Inv PROVE WellLinked
  OBVIOUS
<1>1. PICK ps : Represents(heap, queue, list, forgotten, ps)
  BY DEF Inv
<1> DEFINE p == ps[QueueId]
<1>2. /\ Linked(heap, queue.head, p) /\ heap \in Heaps
      /\ queue.count = Len(p) + forgotten /\ queue.tail = LastOf(p)
      /\ Path(heap, queue.head) = p
  BY <1>1, QueueFacts
<1>3. \A l \in ListIds : Linked(heap, list[l], ps[l])
  BY <1>1, ListFacts
<1>4. /\ LinkedFrom(queue.head) /\ NodesFrom(queue.head) = ToSet(p)
      /\ \A l \in ListIds : LinkedFrom(list[l]) /\ NodesFrom(list[l]) = ToSet(ps[l])
  BY <1>2, <1>3, StartIs
<1>5. TypeOK
  <2>1. queue \in Queues /\ list \in [ListIds -> Pointers] /\ forgotten \in Nat
    BY <1>1 DEF Represents
  <2> QED BY <1>2, <2>1 DEF TypeOK, Inv, Queues
<1>6. \A n \in Starts : LinkedFrom(n)
  BY <1>4 DEF Starts
<1>7. queue.tail = list_last(heap, queue.head)
  BY <1>2, LastIs
<1>8. Structure(heap, queue, list, ps)
  BY <1>1 DEF Represents
<1>9. {n \in Nodes : heap[n].mem = "live"} = UNION {NodesFrom(n) : n \in Starts}
  <2>1. \A x \in Nodes : heap[x].mem = "live" <=> \E o \in Owners : x \in ToSet(ps[o])
    BY <1>8 DEF Structure
  <2>2. \A x : (\E o \in Owners : x \in ToSet(ps[o])) <=> \E n \in Starts : x \in NodesFrom(n)
    BY <1>4 DEF Starts, Owners
  <2>3. \A n \in Starts : \A x \in NodesFrom(n) : x \in Nodes
    BY <1>2, <1>3, <1>4, LinkedEnds DEF Starts
  <2> QED BY <2>1, <2>2, <2>3
<1>10. ASSUME NEW l \in ListIds
       PROVE  /\ NodesFrom(list[l]) \cap NodesFrom(queue.head) = {}
              /\ \A m \in ListIds \ {l} : NodesFrom(list[l]) \cap NodesFrom(list[m]) = {}
  <2>1. \A o, u \in Owners : o # u => ToSet(ps[o]) \cap ToSet(ps[u]) = {}
    BY <1>8 DEF Structure
  <2>2. l \in Owners /\ QueueId \in Owners /\ l # QueueId /\ ListIds \subseteq Owners
    BY QueueIdIsNew
  <2> HIDE DEF p
  <2>3. NodesFrom(list[l]) \cap NodesFrom(queue.head) = {}
    BY <1>4, <2>1, <2>2 DEF p
  <2>4. \A m \in ListIds \ {l} : NodesFrom(list[l]) \cap NodesFrom(list[m]) = {}
    BY <1>4, <2>1, <2>2
  <2> QED BY <2>3, <2>4
<1> QED BY <1>2, <1>5, <1>6, <1>7, <1>9, <1>10 DEF WellLinked

\* Whatever is pushed, popped, inserted, removed and concatenated, on any number of nodes
\* and lists: the links agree in both directions, the tail is the last node, and every
\* allocated node is in exactly one list.
THEOREM LinksCorrect == Spec => []WellLinked
<1>1. Inv /\ [Next]_vars => Inv'
  BY InvNext
<1> QED BY <1>1, InvInit, InvWellLinked, PTL DEF Spec

\* The linked nodes are a queue and lists: every operation on the links is the operation
\* on the sequences that Lists.tla states, or changes none of them.
THEOREM ListsCorrect == Spec => ImplementsLists
<1>1. Init => Inv /\ Abstract!Init
  BY InvInit
<1>2. Inv /\ [Next]_vars => Inv' /\ [Abstract!Next]_(Abstract!vars)
  BY InvNext
<1> QED BY <1>1, <1>2, PTL DEF Spec, ImplementsLists, Abstract!Spec
=============================================================================

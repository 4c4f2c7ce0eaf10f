-------------------------------- MODULE H6Queue --------------------------------
(***************************************************************************)
(* src/src/queue.c: doubly linked nodes on the heap, the queue over them   *)
(* with its head, tail and count, and bare lists, which are a pointer to   *)
(* their first node.  The loop (h6_ev.c) pushes and pops operations and    *)
(* keeps its events in a list, the scheduler its placements; each call is  *)
(* made under their locks and is one action.                               *)
(*                                                                         *)
(* The operators named after the list functions are the heap after the     *)
(* call, given the heap before it.  Allocation does not fail.              *)
(***************************************************************************)
EXTENDS Integers, Sequences, FiniteSets, SequencesExt

CONSTANTS Nodes,    \* addresses
          Data,     \* what the entries point to
          ListIds,  \* the bare lists
          Null

ASSUME NullAssumption == Null \notin Nodes /\ Null \notin Data
ASSUME FiniteAssumption == IsFiniteSet(Nodes)

VARIABLES heap,       \* per address: [mem, data, next, prev]
          queue,      \* [head, tail, count]
          list,       \* per list, its first node or Null
          forgotten,  \* nodes queue_pop_tail forgot since the queue was empty (ghost)
          got         \* what the last pop returned

vars == <<heap, queue, list, forgotten, got>>

Pointers == Nodes \cup {Null}
Free == [mem |-> "free", data |-> Null, next |-> Null, prev |-> Null]
EmptyQueue == [head |-> Null, tail |-> Null, count |-> 0]

\* "lost": allocated, and nothing points to it any more
Heaps == [Nodes -> [mem : {"free", "live", "lost"}, data : Data \cup {Null},
                    next : Pointers, prev : Pointers]]

TypeOK ==
  /\ heap \in Heaps
  /\ queue \in [head : Pointers, tail : Pointers, count : Nat]
  /\ list \in [ListIds -> Pointers]
  /\ forgotten \in Nat /\ got \in Data \cup {Null}

Init ==
  /\ heap = [n \in Nodes |-> Free]
  /\ queue = EmptyQueue
  /\ list = [l \in ListIds |-> Null]
  /\ forgotten = 0 /\ got = Null

-----------------------------------------------------------------------------
(* Walking and linking *)

NextOf(h, n) == IF n = Null THEN Null ELSE h[n].next

Walk(h, n) ==
  LET at[i \in 0..Cardinality(Nodes)] == IF i = 0 THEN n ELSE NextOf(h, at[i - 1])
  IN at

\* the nodes met from n along next, at most one more than there are
Path(h, n) ==
  [i \in 1..Cardinality({j \in 0..Cardinality(Nodes) : Walk(h, n)[j] # Null})
     |-> Walk(h, n)[i - 1]]

DataOf(h, n) == [i \in DOMAIN Path(h, n) |-> h[Path(h, n)[i]].data]

list_last(h, n) == IF n = Null THEN Null ELSE Last(Path(h, n))

list_find(h, n, d) ==
  LET i == SelectInSeq(Path(h, n), LAMBDA m : h[m].data = d)
  IN IF i = 0 THEN Null ELSE Path(h, n)[i]

SetNext(h, n, m) == IF n = Null THEN h ELSE [h EXCEPT ![n].next = m]
SetPrev(h, n, m) == IF n = Null THEN h ELSE [h EXCEPT ![n].prev = m]

list_alloc == {n \in Nodes : heap[n].mem = "free"}

Node(d, next, prev) == [mem |-> "live", data |-> d, next |-> next, prev |-> prev]

\* [mutant] the old head keeps its NULL link
list_insert_head_oneway(h, first, n, d) == [h EXCEPT ![n] = Node(d, first, Null)]

list_insert_head(h, first, n, d) == SetPrev([h EXCEPT ![n] = Node(d, first, Null)], first, n)

list_insert_tail(h, first, n, d) ==
  LET last == list_last(h, first) IN SetNext([h EXCEPT ![n] = Node(d, Null, last)], last, n)

list_free_1(h, n) == [h EXCEPT ![n] = Free]

list_free(h, n) == [m \in Nodes |-> IF m \in ToSet(Path(h, n)) THEN Free ELSE h[m]]

\* the neighbours of a node are linked to each other
Bypass(h, n) == SetNext(SetPrev(h, h[n].next, h[n].prev), h[n].prev, h[n].next)

\* [mutant] the node keeps its link to the rest
list_remove_link_kept(h, n) == Bypass(h, n)

list_remove_link(h, n) == [Bypass(h, n) EXCEPT ![n].next = Null, ![n].prev = Null]

\* the first node of a list after n was removed from it
Without(first, h, n) == IF first = n THEN h[n].next ELSE first

\* the same in list_remove_all, which knows the first node by its prev
Beyond(first, h, n) == IF h[n].prev = Null THEN h[n].next ELSE first

\* heap and first node after each node of p, in turn, was passed or removed
Removing(h, first, p, d) ==
  LET left[i \in 0..Len(p)] ==
        IF i = 0 THEN [heap |-> h, first |-> first]
        ELSE LET r == left[i - 1] IN
             IF r.heap[p[i]].data # d THEN r
             ELSE [heap |-> list_free_1(Bypass(r.heap, p[i]), p[i]),
                   first |-> Beyond(r.first, r.heap, p[i])]
  IN left

list_remove_all(h, first, d) ==
  LET p == Path(h, first) IN Removing(h, first, p, d)[Len(p)]

-----------------------------------------------------------------------------
(* The queue *)

queue_push_tail(d) ==
  /\ \E n \in list_alloc :
       /\ heap' = list_insert_tail(heap, queue.tail, n, d)
       /\ queue' = [head |-> IF queue.tail = Null THEN n ELSE queue.head,
                    tail |-> n, count |-> queue.count + 1]
  /\ UNCHANGED <<list, forgotten, got>>

queue_push_head(d) ==
  /\ \E n \in list_alloc :
       /\ heap' = list_insert_head(heap, queue.head, n, d)
       /\ queue' = [head |-> n, tail |-> IF queue.head = Null THEN n ELSE queue.tail,
                    count |-> queue.count + 1]
  /\ UNCHANGED <<list, forgotten, got>>

queue_pop_head ==
  /\ queue.head # Null
  /\ LET next == heap[queue.head].next
     IN /\ heap' = SetPrev(list_free_1(heap, queue.head), next, Null)
        /\ queue' = [head |-> next, tail |-> IF next = Null THEN Null ELSE queue.tail,
                     count |-> queue.count - 1]
  /\ got' = heap[queue.head].data
  /\ UNCHANGED <<list, forgotten>>

\* queue->tail == queue->tail: the other nodes are forgotten, not freed
queue_pop_tail ==
  /\ queue.tail # Null
  /\ LET others == ToSet(Path(heap, queue.head)) \ {queue.tail}
     IN /\ heap' = [n \in Nodes |->
                      IF n = queue.tail THEN Free
                      ELSE IF n \in others THEN [Free EXCEPT !.mem = "lost"] ELSE heap[n]]
        /\ forgotten' = forgotten + Cardinality(others)
  /\ queue' = [head |-> Null, tail |-> Null, count |-> queue.count - 1]
  /\ got' = heap[queue.tail].data
  /\ UNCHANGED list

queue_clear ==
  /\ heap' = list_free(heap, queue.head)
  /\ queue' = EmptyQueue
  /\ forgotten' = 0
  /\ UNCHANGED <<list, got>>

-----------------------------------------------------------------------------
(* The lists *)

Becomes(l, h, first) ==
  /\ heap' = h
  /\ list' = [list EXCEPT ![l] = first]
  /\ UNCHANGED <<queue, forgotten, got>>

InsertHead(l, d) == \E n \in list_alloc : Becomes(l, list_insert_head(heap, list[l], n, d), n)

InsertTail(l, d) ==
  \E n \in list_alloc : Becomes(l, list_insert_tail(heap, list[l], n, d),
                                IF list[l] = Null THEN n ELSE list[l])

\* h6_ev_loop_ops_remove: list_find, list_remove_link, and list_free of the link,
\* which frees what is still linked to it; list_delete_link frees the link alone
RemoveLink(l, d) ==
  LET n == list_find(heap, list[l], d)
  IN n # Null /\ Becomes(l, list_free(list_remove_link(heap, n), n), Without(list[l], heap, n))

list_remove(l, d) ==
  LET n == list_find(heap, list[l], d)
  IN n # Null /\ Becomes(l, list_free_1(Bypass(heap, n), n), Without(list[l], heap, n))

RemoveAll(l, d) ==
  LET r == list_remove_all(heap, list[l], d) IN Becomes(l, r.heap, r.first)

FreeAll(l) == Becomes(l, list_free(heap, list[l]), Null)

\* the second list is the caller's no more
list_concat(l, m) ==
  /\ list[m] # Null
  /\ LET last == list_last(heap, list[l])
     IN heap' = SetPrev(SetNext(heap, last, list[m]), list[m], last)
  /\ list' = [list EXCEPT ![l] = IF @ = Null THEN list[m] ELSE @, ![m] = Null]
  /\ UNCHANGED <<queue, forgotten, got>>

-----------------------------------------------------------------------------
QueueOperation ==
  \/ \E d \in Data : queue_push_tail(d) \/ queue_push_head(d)
  \/ queue_pop_head \/ queue_pop_tail \/ queue_clear

ListOperation(l) ==
  \/ FreeAll(l)
  \/ \E d \in Data : \/ InsertHead(l, d) \/ InsertTail(l, d)
                     \/ RemoveLink(l, d) \/ list_remove(l, d) \/ RemoveAll(l, d)
  \/ \E m \in ListIds \ {l} : list_concat(l, m)

Next == QueueOperation \/ \E l \in ListIds : ListOperation(l)

Spec == Init /\ [][Next]_vars

-----------------------------------------------------------------------------
(* Safety *)

NodesFrom(n) == ToSet(Path(heap, n))

LinkedFrom(n) ==
  LET p == Path(heap, n)
  IN /\ IsInjective(p)
     /\ n # Null => heap[n].prev = Null
     /\ \A i \in DOMAIN p : heap[p[i]].mem = "live"
     /\ \A i \in 1..(Len(p) - 1) : heap[p[i + 1]].prev = p[i]

Starts == {queue.head} \cup {list[l] : l \in ListIds}

\* After any sequence of calls the links of every list agree in both directions, end,
\* and stay within allocated nodes; the tail is the last node; every allocated node
\* is in exactly one list, but for those that queue_pop_tail forgot, which the count
\* still counts (the pointer updates of queue.c 26-188 and 285-381).
WellLinked ==
  /\ TypeOK
  /\ \A n \in Starts : LinkedFrom(n)
  /\ queue.tail = list_last(heap, queue.head)
  /\ queue.count = Len(Path(heap, queue.head)) + forgotten
  /\ {n \in Nodes : heap[n].mem = "live"} = UNION {NodesFrom(n) : n \in Starts}
  /\ \A l \in ListIds :
       /\ NodesFrom(list[l]) \cap NodesFrom(queue.head) = {}
       /\ \A m \in ListIds \ {l} : NodesFrom(list[l]) \cap NodesFrom(list[m]) = {}

Abstract == INSTANCE Lists WITH
              items <- DataOf(heap, queue.head),
              entries <- [l \in ListIds |-> DataOf(heap, list[l])]

\* The linked nodes implement a queue and lists: a pop returns the oldest item or
\* the newest, an entry is removed from its own list alone and the order of the others
\* stays, which the order of operations and the removal of events in h6_ev.c rest on
\* (309, 440-444, 547).
ImplementsLists == Abstract!Spec
=============================================================================

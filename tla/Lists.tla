--------------------------------- MODULE Lists ---------------------------------
(***************************************************************************)
(* What queue.c promises its users: a queue of pointers, which the loop    *)
(* keeps its operations in, and lists of pointers, which the loop keeps    *)
(* its events in and the scheduler its placements, first entry first.      *)
(***************************************************************************)
EXTENDS Sequences, SequencesExt

CONSTANTS Data, ListIds, Null

VARIABLES items,   \* the queue
          entries, \* per list, its entries
          got      \* what the last pop returned

vars == <<items, entries, got>>

Init ==
  /\ items = <<>>
  /\ entries = [l \in ListIds |-> <<>>]
  /\ got = Null

PushTail(d) == items' = Append(items, d) /\ UNCHANGED <<entries, got>>

PushHead(d) == items' = Cons(d, items) /\ UNCHANGED <<entries, got>>

PopHead ==
  /\ items # <<>>
  /\ got' = Head(items)
  /\ items' = Tail(items)
  /\ UNCHANGED entries

\* queue_pop_tail returns the last item and forgets the others with it
PopTail ==
  /\ items # <<>>
  /\ got' = Last(items)
  /\ items' = <<>>
  /\ UNCHANGED entries

Clear == items' = <<>> /\ UNCHANGED <<entries, got>>

Becomes(l, list) == entries' = [entries EXCEPT ![l] = list] /\ UNCHANGED <<items, got>>

Insert(l, d) == Becomes(l, Cons(d, entries[l])) \/ Becomes(l, Append(entries[l], d))

Delete(l, d) == Becomes(l, RemoveFirst(entries[l], d))

\* a list without those of its first i entries that are d
Others(list, d) ==
  LET kept[i \in 0..Len(list)] ==
        IF i = 0 THEN <<>>
        ELSE IF list[i] = d THEN kept[i - 1] ELSE Append(kept[i - 1], list[i])
  IN kept

DeleteAll(l, d) == Becomes(l, Others(entries[l], d)[Len(entries[l])])

FreeAll(l) == Becomes(l, <<>>)

Concat(l, m) ==
  /\ entries' = [entries EXCEPT ![l] = @ \o entries[m], ![m] = <<>>]
  /\ UNCHANGED <<items, got>>

Next ==
  \/ \E d \in Data : PushTail(d) \/ PushHead(d)
  \/ PopHead \/ PopTail \/ Clear
  \/ \E l \in ListIds : \/ FreeAll(l)
                        \/ \E d \in Data : Insert(l, d) \/ Delete(l, d) \/ DeleteAll(l, d)
                        \/ \E m \in ListIds \ {l} : Concat(l, m)

Spec == Init /\ [][Next]_vars
=============================================================================

-------------------------- MODULE LocalProxyProofs --------------------------
(***************************************************************************)
(* Proofs about LocalProxy, for every set of listeners and of ports and    *)
(* every number of loops.                                                  *)
(***************************************************************************)
EXTENDS LocalProxy, DataLemmas

-----------------------------------------------------------------------------
(* The list of the scheduler and its weights *)

Entry == [w : Nat, src : Events, loop : Loops]
Weights(list) == [i \in DOMAIN list |-> list[i].w]
On(list, K) == {i \in DOMAIN list : list[i].loop \in K}

\* The sum of the weights in some loops.
LEMMA WeightsType ==
  ASSUME NEW list \in Seq(Entry), NEW K
  PROVE  /\ IsFiniteSet(On(list, K))
         /\ \A i \in On(list, K) : Weights(list)[i] \in Nat
         /\ Total(Weights(list), On(list, K)) \in Nat
<1>1. DOMAIN list = 1..Len(list) /\ Len(list) \in Nat
  OBVIOUS
<1>2. IsFiniteSet(On(list, K))
  <2>1. IsFiniteSet(1..Len(list))
    BY <1>1, FS_Interval
  <2> QED BY <1>1, <2>1, FS_Subset DEF On
<1>3. \A i \in On(list, K) : Weights(list)[i] \in Nat
  <2> SUFFICES ASSUME NEW i \in DOMAIN list PROVE list[i].w \in Nat
    BY DEF On, Weights
  <2>1. list[i] \in Entry
    OBVIOUS
  <2> QED BY <2>1 DEF Entry
<1> QED BY <1>2, <1>3, TotalType

\* An entry is put at the head, and the others move by one.
LEMMA ConsEntry ==
  ASSUME NEW e \in Entry, NEW list \in Seq(Entry)
  PROVE  /\ Cons(e, list) \in Seq(Entry) /\ Len(Cons(e, list)) = Len(list) + 1
         /\ Cons(e, list)[1] = e
         /\ \A i \in 1..Len(list) : Cons(e, list)[i + 1] = list[i]
<1> HIDE DEF Entry
<1> QED BY ConsType

\* list_insert_head adds the weight of the entry to the sum of its loop.
LEMMA WeightsCons ==
  ASSUME NEW list \in Seq(Entry), NEW v \in Entry, NEW K
  PROVE  Total(Weights(Cons(v, list)), On(Cons(v, list), K))
           = (IF v.loop \in K THEN v.w ELSE 0) + Total(Weights(list), On(list, K))
<1>0. /\ Cons(v, list) \in Seq(Entry) /\ Len(Cons(v, list)) = Len(list) + 1
      /\ Cons(v, list)[1] = v /\ \A i \in 1..Len(list) : Cons(v, list)[i + 1] = list[i]
  BY DEF Cons
<1> DEFINE c == Cons(v, list)
           S == On(list, K)
           T == On(c, K) \ {1}
           b == [i \in S |-> i + 1]
<1>1. /\ c \in Seq(Entry) /\ Len(c) = Len(list) + 1 /\ c[1] = v
      /\ \A i \in 1..Len(list) : c[i + 1] = list[i]
  BY <1>0
<1>2. DOMAIN c = 1..(Len(list) + 1) /\ DOMAIN list = 1..Len(list) /\ Len(list) \in Nat
  BY <1>1
<1> HIDE DEF c
<1>3. b \in Bijection(S, T)
  <2>1. \A i \in S : i + 1 \in T /\ i \in Nat
    BY <1>1, <1>2 DEF On
  <2>2. \A j \in T : j - 1 \in S /\ b[j - 1] = j
    BY <1>1, <1>2 DEF On
  <2>3. \A i, j \in S : b[i] = b[j] => i = j
    BY <2>1
  <2>4. b \in [S -> T]
    BY <2>1
  <2> HIDE DEF b, S, T
  <2> QED BY <2>2, <2>3, <2>4 DEF Bijection, Injection, Surjection, IsInjective
<1>4. \A i \in S : Weights(list)[i] \in Nat /\ Weights(c)[b[i]] = Weights(list)[i]
  <2> SUFFICES ASSUME NEW i \in S PROVE Weights(c)[i + 1] = Weights(list)[i]
    BY WeightsType
  <2> QED BY <1>1, <1>2 DEF On, Weights
<1>5. Total(Weights(list), S) = Total(Weights(c), T)
  <2> HIDE DEF b, S, T
  <2>1. IsFiniteSet(S)
    BY WeightsType DEF S
  <2> QED BY <1>3, <1>4, <2>1, TotalReindex
<1>6. CASE v.loop \in K
  <2>1. 1 \in On(c, K) /\ Weights(c)[1] = v.w
    BY <1>1, <1>2, <1>6 DEF On, Weights
  <2>2. Total(Weights(c), On(c, K)) = v.w + Total(Weights(c), T)
    BY <1>1, <2>1, WeightsType, TotalSplit
  <2> HIDE DEF S, T
  <2>3. Total(Weights(c), On(c, K)) = v.w + Total(Weights(list), S)
    BY <1>5, <2>2
  <2> QED BY <1>6, <2>3 DEF c, S
<1>7. CASE v.loop \notin K
  <2>1. On(c, K) = T
    BY <1>1, <1>7 DEF On
  <2>2. Total(Weights(list), S) \in Nat
    BY WeightsType
  <2> HIDE DEF S, T
  <2>3. Total(Weights(c), On(c, K)) = 0 + Total(Weights(list), S)
    BY <1>5, <2>1, <2>2
  <2> QED BY <1>7, <2>3 DEF c, S
<1> QED BY <1>6, <1>7

\* list_delete_link takes the weight of the entry off the sum of its loop.
LEMMA WeightsRemove ==
  ASSUME NEW list \in Seq(Entry), NEW i \in 1..Len(list), NEW K
  PROVE  Total(Weights(list), On(list, K))
           = (IF list[i].loop \in K THEN list[i].w ELSE 0)
               + Total(Weights(RemoveAt(list, i)), On(RemoveAt(list, i), K))
<1> DEFINE r == RemoveAt(list, i)
           From(j) == IF j < i THEN j ELSE j + 1
           S == On(r, K)
           T == On(list, K) \ {i}
           b == [j \in S |-> From(j)]
<1>1. /\ r \in Seq(Entry) /\ Len(r) = Len(list) - 1
      /\ \A j \in 1..(i - 1) : r[j] = list[j]
      /\ \A j \in i..(Len(list) - 1) : r[j] = list[j + 1]
  BY RemoveAtType
<1>2. DOMAIN r = 1..(Len(list) - 1) /\ DOMAIN list = 1..Len(list) /\ Len(list) \in Nat /\ i \in Nat
  BY <1>1
<1> HIDE DEF r
<1>3. \A j \in DOMAIN r : From(j) \in DOMAIN list /\ From(j) # i /\ r[j] = list[From(j)]
  BY <1>1, <1>2
<1>4. b \in Bijection(S, T)
  <2>1. \A j \in S : From(j) \in T /\ j \in Nat
    BY <1>2, <1>3 DEF On
  <2>2. ASSUME NEW k \in T PROVE \E j \in S : b[j] = k
    <3>1. k \in DOMAIN list /\ k # i /\ list[k].loop \in K
      BY DEF On
    <3>2. CASE k < i
      <4>1. k \in DOMAIN r /\ From(k) = k
        BY <1>2, <3>1, <3>2
      <4>2. k \in S
        BY <1>3, <3>1, <4>1 DEF On
      <4> QED BY <4>1, <4>2
    <3>3. CASE k > i
      <4>1. k - 1 \in DOMAIN r /\ From(k - 1) = k
        BY <1>2, <3>1, <3>3
      <4>2. k - 1 \in S
        BY <1>3, <3>1, <4>1 DEF On
      <4> QED BY <4>1, <4>2
    <3> QED BY <1>2, <3>1, <3>2, <3>3
  <2>3. \A j, k \in S : b[j] = b[k] => j = k
    BY <1>2, <2>1
  <2> HIDE DEF From
  <2>4. b \in [S -> T]
    BY <2>1
  <2> QED BY <2>2, <2>3, <2>4 DEF Bijection, Injection, Surjection, IsInjective
<1>5. \A j \in S : Weights(r)[j] \in Nat /\ Weights(list)[b[j]] = Weights(r)[j]
  <2> SUFFICES ASSUME NEW j \in S PROVE Weights(list)[From(j)] = Weights(r)[j]
    BY <1>1, WeightsType
  <2> HIDE DEF From
  <2> QED BY <1>3 DEF On, Weights
<1>6. Total(Weights(r), S) = Total(Weights(list), T)
  <2> HIDE DEF b, S, T
  <2>1. IsFiniteSet(S)
    BY <1>1, WeightsType DEF S
  <2> QED BY <1>4, <1>5, <2>1, TotalReindex
<1>7. CASE list[i].loop \in K
  <2>1. i \in On(list, K) /\ Weights(list)[i] = list[i].w
    BY <1>2, <1>7 DEF On, Weights
  <2>2. Total(Weights(list), On(list, K)) = list[i].w + Total(Weights(list), T)
    <3>1. IsFiniteSet(On(list, K)) /\ \A j \in On(list, K) : Weights(list)[j] \in Nat
      BY WeightsType
    <3>2. T = On(list, K) \ {i}
      OBVIOUS
    <3> HIDE DEF T
    <3>3. Total(Weights(list), On(list, K)) = Weights(list)[i] + Total(Weights(list), T)
      BY <2>1, <3>1, <3>2, TotalSplit
    <3> QED BY <2>1, <3>3
  <2>3. Total(Weights(list), T) = Total(Weights(r), On(r, K))
    BY <1>6
  <2> HIDE DEF T
  <2> QED BY <1>7, <2>2, <2>3 DEF r
<1>8. CASE list[i].loop \notin K
  <2>1. On(list, K) = T
    BY <1>8 DEF On
  <2>2. Total(Weights(list), On(list, K)) \in Nat
    BY WeightsType
  <2>3. Total(Weights(list), On(list, K)) = Total(Weights(r), On(r, K))
    BY <1>6, <2>1
  <2> HIDE DEF T
  <2> QED BY <1>8, <2>2, <2>3 DEF r
<1> QED BY <1>7, <1>8

-----------------------------------------------------------------------------
(* The initial state, and steps that leave parts of the invariant alone *)

AllLife == \A l \in Listeners : Life(l)
AllEvents == \A e \in Events : EventPlaced(e)
AllLoops == \A k \in Loops : LoopPlaced(k)
InLoops == {e \in Events : phase[e] \in {"queued", "watched"}} \ asked

\* The invariant holds at the start.
LEMMA InitHolds == Init => IInv
<1> SUFFICES ASSUME Init PROVE IInv
  OBVIOUS
<1> USE AmountAssumption, NoEventAssumption DEF Init, SchedInit, Listeners
<1>0. w_list = <<>> /\ lsn_list = <<>> /\ Sources = {} /\ ToSet(lsn_list) = {}
  BY DEF Sources, ToSet
<1>1. TypeOK
  BY DEF TypeOK, SchedTypeOK, Mem, Loops, At
<1>2. WeightsAddUp
  <2>1. DOMAIN w_list = {} /\ \A k \in Loops : PlacedOn(k) = {}
    BY DEF PlacedOn
  <2>2. Total(WeightAt, {}) = 0
    BY FS_EmptySet, TotalType
  <2> QED BY <2>1, <2>2 DEF WeightsAddUp
<1>3. PlacedWhereListed
  BY <1>0 DEF PlacedWhereListed
<1>4. ListenerOwned
  BY <1>0 DEF ListenerOwned, InList, Binding
<1>5. MainPlaced
  BY DEF MainPlaced, IsInjective
<1>6. \A l \in Listeners : Life(l)
  BY <1>0 DEF Life, InList, Binding, Finalizing
<1>7. Entries
  BY <1>0 DEF Entries, InList
<1>8. \A e \in Events : EventPlaced(e)
  BY DEF EventPlaced
<1>9. \A k \in Loops : LoopPlaced(k)
  BY DEF LoopPlaced, Loops, At
<1>10. Joined
  BY DEF Joined
<1> QED BY <1>1, <1>2, <1>3, <1>4, <1>5, <1>6, <1>7, <1>8, <1>9, <1>10 DEF IInv, PlacementAccounted

\* The main thread between calls of the scheduler.
LEMMA SchedFrame ==
  ASSUME IInv, UNCHANGED schedVars
  PROVE  SchedTypeOK' /\ PlacementAccounted' /\ AllLoops' /\ Joined'
<1>1. SchedTypeOK'
  BY DEF IInv, TypeOK, SchedTypeOK, schedVars, placement
<1>2. PlacementAccounted'
  BY DEF IInv, PlacementAccounted, WeightsAddUp, PlacedWhereListed, schedVars, placement,
         WeightAt, PlacedOn, Sources
<1>3. AllLoops' /\ Joined'
  BY DEF IInv, AllLoops, LoopPlaced, Joined, schedVars, placement
<1> QED BY <1>1, <1>2, <1>3

\* A step of a loop's thread, which changes phases, what is asked and where it is.
LEMMA LoopFrame ==
  ASSUME IInv, UNCHANGED <<elsewhere, listener, lsn_list, svr, main>>,
         SchedTypeOK', InLoops' = InLoops, AllEvents', AllLoops',
         \A e \in Events : phase'[e] = "unborn" <=> phase[e] = "unborn"
  PROVE  IInv'
<1> USE DEF elsewhere, placement
<1>1. TypeOK'
  BY DEF IInv, TypeOK
<1>2. PlacementAccounted'
  <2>1. WeightsAddUp'
    BY DEF IInv, PlacementAccounted, WeightsAddUp, WeightAt, PlacedOn
  <2>2. PlacedWhereListed'
    BY DEF IInv, PlacementAccounted, PlacedWhereListed, Sources, InLoops
  <2> QED BY <2>1, <2>2 DEF PlacementAccounted
<1>3. ListenerOwned'
  BY DEF IInv, ListenerOwned, InList, Binding, Running
<1>4. MainPlaced'
  BY DEF IInv, MainPlaced
<1>5. AllLife'
  BY DEF IInv, AllLife, Life, InList, Binding, Finalizing, Running, Listeners
<1>6. Entries'
  BY DEF IInv, Entries, InList, Sources, Running
<1>7. Joined'
  BY DEF IInv, Joined
<1> QED BY <1>1, <1>2, <1>3, <1>4, <1>5, <1>6, <1>7 DEF IInv, AllLife, AllEvents, AllLoops

-----------------------------------------------------------------------------
(* The threads of the loops *)

\* What a listener is, as TypeOK has it.
ListenerRecords == [mem : Mem, refs : 0..2, port : Ports \cup {0},
                    sock : {"none", "open", "closed"}, node : {"self", "linked", "null"}]

\* What the invariant says of loops and events, one by one.
LEMMA LoopTypes ==
  ASSUME IInv
  PROVE  /\ SchedTypeOK
         /\ \A k \in Loops : LoopPlaced(k) /\ k # NoLoop
         /\ \A e \in Events : EventPlaced(e) /\ e # NoEvent
  BY AmountAssumption, NoEventAssumption DEF IInv, TypeOK, Loops, NoLoop

\* A thread begins, or finds its loop told to quit.
LEMMA ThreadFunKeeps ==
  ASSUME IInv, NEW k \in Loops, h6_loop_thread_fun(k), UNCHANGED <<listener, lsn_list, svr, main>>
  PROVE  IInv'
<1> USE LoopTypes DEF h6_loop_thread_fun, Go, At, elsewhere, placement
<1>1. SchedTypeOK'
  BY DEF SchedTypeOK
<1>2. AllEvents'
  BY DEF SchedTypeOK, AllEvents, EventPlaced
<1>3. AllLoops'
  BY DEF SchedTypeOK, AllLoops, LoopPlaced
<1>4. InLoops' = InLoops
  BY DEF InLoops
<1> QED BY <1>1, <1>2, <1>3, <1>4, LoopFrame

\* A queued event enters its loop.
LEMMA EnterKeeps ==
  ASSUME IInv, NEW k \in Loops, NEW e \in Events, Enter(k, e),
         UNCHANGED <<listener, lsn_list, svr, main>>
  PROVE  IInv'
<1> USE LoopTypes DEF Enter, Idle, elsewhere, placement
<1>1. SchedTypeOK'
  BY DEF SchedTypeOK
<1>2. AllEvents'
  BY DEF SchedTypeOK, AllEvents, EventPlaced
<1>3. AllLoops'
  BY DEF SchedTypeOK, AllLoops, LoopPlaced
<1>4. InLoops' = InLoops
  BY DEF SchedTypeOK, InLoops
<1>5. \A f \in Events : phase'[f] = "unborn" <=> phase[f] = "unborn"
  BY DEF SchedTypeOK
<1> QED BY <1>1, <1>2, <1>3, <1>4, <1>5, LoopFrame

\* An event that was asked to leave does.
LEMMA LeaveKeeps ==
  ASSUME IInv, NEW k \in Loops, NEW e \in Events, Leave(k, e),
         UNCHANGED <<listener, lsn_list, svr, main>>
  PROVE  IInv'
<1> USE LoopTypes DEF Leave, Idle, Go, At, elsewhere, placement
<1>1. SchedTypeOK'
  BY DEF SchedTypeOK
<1>2. AllEvents'
  BY DEF SchedTypeOK, AllEvents, EventPlaced
<1>3. AllLoops'
  BY DEF SchedTypeOK, AllLoops, LoopPlaced
<1>4. InLoops' = InLoops
  BY DEF SchedTypeOK, InLoops
<1>5. \A f \in Events : phase'[f] = "unborn" <=> phase[f] = "unborn"
  BY DEF SchedTypeOK
<1> QED BY <1>1, <1>2, <1>3, <1>4, <1>5, LoopFrame

\* The reference of the executed operation is dropped.
LEMMA DropKeeps ==
  ASSUME IInv, NEW k \in Loops, Drop(k), UNCHANGED <<listener, lsn_list, svr, main>>
  PROVE  IInv'
<1> USE LoopTypes DEF elsewhere, placement
<1>0. PICK e \in Events, f \in Events \cup {NoEvent}, pc \in {"poll", "notify"} :
        /\ thread[k].pc = "drop" /\ thread[k].ev = e
        /\ phase[e] = "out" /\ home[e] = k
        /\ thread' = [thread EXCEPT ![k] = [pc |-> pc, ev |-> f]]
        /\ (owned[e] /\ pc = "poll" /\ f = NoEvent) \/ (~owned[e] /\ pc = "notify" /\ f = e)
        /\ UNCHANGED <<elsewhere, phase, asked>>
  <2>1. LoopPlaced(k)
    OBVIOUS
  <2>2. thread[k].ev \in Events
    BY <2>1 DEF SchedTypeOK, LoopPlaced, Drop
  <2>3. CASE owned[thread[k].ev]
    BY <2>1, <2>2, <2>3 DEF Drop, Go, At, LoopPlaced
  <2>4. CASE ~owned[thread[k].ev]
    BY <2>1, <2>2, <2>4 DEF Drop, Go, At, LoopPlaced
  <2> QED BY <2>3, <2>4
<1>1. SchedTypeOK'
  BY <1>0 DEF SchedTypeOK
<1>2. AllEvents'
  BY <1>0 DEF SchedTypeOK, AllEvents, EventPlaced, LoopPlaced
<1>3. AllLoops'
  BY <1>0 DEF SchedTypeOK, AllLoops, LoopPlaced
<1>4. InLoops' = InLoops
  BY <1>0 DEF InLoops
<1> QED BY <1>1, <1>2, <1>3, <1>4, <1>0, LoopFrame

\* The destroy notification returns, and the event is gone.
LEMMA NotifiedKeeps ==
  ASSUME IInv, NEW k \in Loops, Notified(k), UNCHANGED <<listener, lsn_list, svr, main>>
  PROVE  IInv'
<1> USE LoopTypes DEF elsewhere, placement
<1>0. PICK e \in Events :
        /\ thread[k].pc = "notify" /\ thread[k].ev = e
        /\ phase[e] = "out" /\ home[e] = k
        /\ phase' = [phase EXCEPT ![e] = "freed"]
        /\ thread' = [thread EXCEPT ![k] = [pc |-> "poll", ev |-> NoEvent]]
        /\ UNCHANGED <<elsewhere, asked>>
  <2> DEFINE e == thread[k].ev
  <2>1. /\ thread[k].pc = "notify" /\ phase' = [phase EXCEPT ![e] = "freed"]
        /\ thread' = [thread EXCEPT ![k] = [pc |-> "poll", ev |-> NoEvent]]
        /\ UNCHANGED <<elsewhere, asked>>
    BY DEF Notified, Go, At
  <2>2. e \in Events \cup {NoEvent}
    BY DEF SchedTypeOK
  <2>3. e # NoEvent /\ phase[e] = "out" /\ home[e] = k
    BY <2>1 DEF LoopPlaced
  <2> QED BY <2>1, <2>2, <2>3
<1>1. SchedTypeOK'
  <2>1. phase' \in [Events -> {"unborn", "ready", "queued", "watched", "out", "freed"}]
    BY <1>0 DEF SchedTypeOK
  <2>2. thread' \in [Loops -> [pc : {"created", "poll", "accept", "timer", "drop", "notify",
                                    "ended", "skipped"}, ev : Events \cup {NoEvent}]]
    BY <1>0 DEF SchedTypeOK
  <2> QED BY <1>0, <2>1, <2>2 DEF SchedTypeOK
<1>2. AllEvents'
  BY <1>0 DEF SchedTypeOK, AllEvents, EventPlaced, LoopPlaced
<1>3. AllLoops'
  BY <1>0 DEF SchedTypeOK, AllLoops, LoopPlaced
<1>4. InLoops' = InLoops
  BY <1>0 DEF SchedTypeOK, InLoops
<1>5. \A f \in Events : phase'[f] = "unborn" <=> phase[f] = "unborn"
  BY <1>0 DEF SchedTypeOK
<1> QED BY <1>1, <1>2, <1>3, <1>4, <1>5, <1>0, LoopFrame

\* A callback begins.
LEMMA ServeKeeps ==
  ASSUME IInv, NEW k \in Loops, NEW e \in Events, Serve(k, e),
         UNCHANGED <<listener, lsn_list, svr, main>>
  PROVE  IInv'
<1> USE LoopTypes DEF elsewhere, placement
<1>0. PICK pc \in {"accept", "timer"} :
        /\ thread[k].pc = "poll" /\ home[e] = k /\ phase[e] = "watched"
        /\ thread' = [thread EXCEPT ![k] = [pc |-> pc, ev |-> e]]
        /\ UNCHANGED <<elsewhere, phase, asked>>
  BY DEF Serve, Idle, Go, At
<1>1. SchedTypeOK'
  BY <1>0 DEF SchedTypeOK
<1>2. AllEvents'
  BY <1>0 DEF SchedTypeOK, AllEvents, EventPlaced
<1>3. AllLoops'
  BY <1>0 DEF SchedTypeOK, AllLoops, LoopPlaced
<1>4. InLoops' = InLoops
  BY <1>0 DEF InLoops
<1> QED BY <1>1, <1>2, <1>3, <1>4, <1>0, LoopFrame

\* A callback returns.
LEMMA ServedKeeps ==
  ASSUME IInv, NEW k \in Loops, Served(k), UNCHANGED <<listener, lsn_list, svr, main>>
  PROVE  IInv'
<1> USE LoopTypes DEF Served, Go, At, elsewhere, placement
<1>1. SchedTypeOK'
  BY DEF SchedTypeOK
<1>2. AllEvents'
  BY DEF SchedTypeOK, AllEvents, EventPlaced
<1>3. AllLoops'
  BY DEF SchedTypeOK, AllLoops, LoopPlaced
<1>4. InLoops' = InLoops
  BY DEF InLoops
<1> QED BY <1>1, <1>2, <1>3, <1>4, LoopFrame

\* When a loop ends, the finalizers have removed all events from it.
LEMMA QuitsEmpty ==
  ASSUME IInv, NEW k \in Loops, LoopQuits(k)
  PROVE  UNCHANGED phase
<1>1. sched # "up" /\ sched # "none" /\ sched # "freed"
  <2>1. LoopPlaced(k) /\ Joined /\ SchedTypeOK
    BY LoopTypes DEF IInv
  <2>2. ~open[k] /\ thread[k].pc = "poll"
    BY DEF LoopQuits, Idle
  <2>3. sched # "up" /\ sched # "none"
    BY <2>1, <2>2 DEF LoopPlaced
  <2>4. k < Amount
    BY AmountAssumption DEF Loops
  <2>5. ~(k < idx)
    BY <2>1, <2>2 DEF LoopPlaced
  <2> QED BY <2>1, <2>3, <2>4, <2>5 DEF Joined
<1>2. Sources = {}
  BY <1>1 DEF IInv, Entries, Sources
<1>3. InLoops = {}
  BY <1>1, <1>2 DEF IInv, PlacementAccounted, PlacedWhereListed, InLoops
<1>4. \A e \in Events : ~(home[e] = k /\ phase[e] = "watched")
  BY <1>3 DEF LoopQuits, InLoops
<1> QED BY <1>4, LoopTypes DEF LoopQuits, SchedTypeOK

\* The loop lets go of its events, and its thread ends.
LEMMA QuitsKeeps ==
  ASSUME IInv, NEW k \in Loops, LoopQuits(k), UNCHANGED <<listener, lsn_list, svr, main>>
  PROVE  IInv'
<1> USE LoopTypes, QuitsEmpty DEF LoopQuits, Idle, Go, At, elsewhere, placement
<1>1. SchedTypeOK'
  BY DEF SchedTypeOK
<1>2. AllEvents'
  BY DEF SchedTypeOK, AllEvents, EventPlaced
<1>3. AllLoops'
  BY DEF SchedTypeOK, AllLoops, LoopPlaced
<1>4. InLoops' = InLoops
  BY DEF InLoops
<1> QED BY <1>1, <1>2, <1>3, <1>4, LoopFrame

-----------------------------------------------------------------------------
(* The calls of the scheduler *)

\* Every set of numbers that is not empty has a least one.
LEMMA MinIn ==
  ASSUME NEW S \in SUBSET Nat, S # {}
  PROVE  \E m \in S : \A n \in S : m <= n
<1> DEFINE R == OpToRel(<, Nat)
<1>1. IsWellFoundedOn(R, Nat)
  BY NatLessThanWellFounded
<1>2. \A i, j \in Nat : <<i, j>> \in R <=> i < j
  BY DEF OpToRel
<1> HIDE DEF R
<1>3. PICK m \in S : \A n \in S : ~ (<<n, m>> \in R)
  BY <1>1, WFMin
<1>4. \A n \in S : ~ (n < m)
  BY <1>2, <1>3
<1>5. \A n \in S : m <= n
  BY <1>4
<1> QED BY <1>5

\* The loops that h6_find_best_loop compares, and what it looks for among them.
Lighter == {k \in Loops : weight[k] < total_weight}
BestOf(k, S) == \A j \in S : weight[k] < weight[j] \/ (weight[k] = weight[j] /\ k <= j)

\* It finds the first of the lightest.
LEMMA BestOfLighter ==
  ASSUME SchedTypeOK, Lighter # {}
  PROVE  h6_find_best_loop \in Lighter /\ BestOf(h6_find_best_loop, Lighter)
<1>1. \A k \in Lighter : k \in Nat /\ weight[k] \in Nat
  BY AmountAssumption DEF SchedTypeOK, Loops, Lighter
<1> DEFINE W == {weight[k] : k \in Lighter}
<1>2. PICK w \in W : \A v \in W : w <= v
  BY <1>1, MinIn
<1> DEFINE L == {k \in Lighter : weight[k] = w}
<1>3. PICK k \in L : \A j \in L : k <= j
  <2>1. L # {} /\ L \in SUBSET Nat
    BY <1>1
  <2> HIDE DEF L
  <2> QED BY <2>1, MinIn
<1>4. k \in Lighter /\ BestOf(k, Lighter)
  <2> SUFFICES ASSUME NEW j \in Lighter
               PROVE  weight[k] < weight[j] \/ (weight[k] = weight[j] /\ k <= j)
    BY DEF BestOf
  <2>1. weight[k] = w /\ w <= weight[j] /\ w \in Nat /\ weight[j] \in Nat
    BY <1>1, <1>2
  <2>2. weight[j] = w => k <= j
    BY <1>3
  <2> QED BY <2>1, <2>2
<1>5. h6_find_best_loop = CHOOSE j \in Lighter : BestOf(j, Lighter)
  BY DEF h6_find_best_loop, Lighter, BestOf
<1> QED BY <1>4, <1>5

\* There is a loop to choose.
LEMMA BestLoop ==
  ASSUME SchedTypeOK
  PROVE  h6_find_best_loop \in Loops
<1>1. CASE Lighter = {}
  <2>1. 0 \in Loops
    BY AmountAssumption DEF Loops
  <2> QED BY <1>1, <2>1 DEF h6_find_best_loop, Lighter
<1>2. CASE Lighter # {}
  BY <1>2, BestOfLighter DEF Lighter
<1> QED BY <1>1, <1>2

\* The weights of the scheduler in terms of the entries of its list.
WeightsMatch ==
  w_list \in Seq(Entry) =>
    /\ Total(WeightAt, DOMAIN w_list) = Total(Weights(w_list), On(w_list, Loops))
    /\ \A k \in Loops : Total(WeightAt, PlacedOn(k)) = Total(Weights(w_list), On(w_list, {k}))

\* The sums of the weights over the loop's entries, under the names of the proof.
LEMMA WeightsAre == WeightsMatch
<1> SUFFICES ASSUME w_list \in Seq(Entry)
             PROVE  /\ Total(WeightAt, DOMAIN w_list) = Total(Weights(w_list), On(w_list, Loops))
                    /\ \A k \in Loops : Total(WeightAt, PlacedOn(k))
                                           = Total(Weights(w_list), On(w_list, {k}))
  BY DEF WeightsMatch
<1>1. DOMAIN w_list = On(w_list, Loops)
  <2>1. \A i \in DOMAIN w_list : w_list[i] \in Entry
    OBVIOUS
  <2> QED BY <2>1 DEF On, Entry
<1>2. \A k \in Loops : PlacedOn(k) = On(w_list, {k})
  BY DEF PlacedOn, On
<1> QED BY <1>1, <1>2 DEF WeightAt, Weights

\* The same after a step.
LEMMA WeightsAreNext == WeightsMatch'
  BY WeightsAre, PTL

\* The entries of the list have a weight, an event and a loop.
LEMMA EntryType == IInv => w_list \in Seq(Entry)
  BY DEF IInv, TypeOK, SchedTypeOK, Entry

\* The event is placed: list, weights and home change together.
LEMMA SetPortKeeps ==
  ASSUME IInv, h6_listener_set_port
  PROVE  IInv'
<1> DEFINE e == main.lsn
           b == h6_find_best_loop
           v == [w |-> 1, src |-> e, loop |-> b]
<1>1. /\ e \in Events /\ e # NoEvent /\ sched = "up" /\ main.pc = "h6_sched_add"
      /\ phase[e] = "ready" /\ home[e] = NoLoop /\ e \notin asked
      /\ SchedTypeOK /\ Running
  <2>1. main.pc = "h6_sched_add" /\ Running
    BY DEF h6_listener_set_port, Running
  <2>2. e \in Events /\ e # NoEvent /\ sched = "up" /\ SchedTypeOK
    BY <2>1 DEF IInv, TypeOK, MainPlaced, Listeners
  <2>3. EventPlaced(e)
    BY <2>2 DEF IInv
  <2> QED BY <2>1, <2>2, <2>3 DEF EventPlaced
<1>2. b \in Loops /\ b # NoLoop /\ open[b]
  BY <1>1, BestLoop, LoopTypes DEF LoopPlaced
<1>3. v \in Entry /\ w_list \in Seq(Entry)
  BY <1>1, <1>2, EntryType DEF Entry
<1>4. /\ phase' = [phase EXCEPT ![e] = "queued"] /\ home' = [home EXCEPT ![e] = b]
      /\ weight' = [weight EXCEPT ![b] = @ + 1] /\ total_weight' = total_weight + 1
      /\ w_list' = Cons(v, w_list)
      /\ main' = [main EXCEPT !.pc = "lsn_set_add"]
      /\ UNCHANGED <<sched, idx, owned, asked, open, thread, listener, lsn_list, svr>>
  BY <1>2 DEF h6_listener_set_port, h6_sched_add, h6_loop_add_source, Weight, Goto
<1> HIDE DEF b, e, v
<1>5. SchedTypeOK'
  <2>1. Cons(v, w_list) \in Seq(Entry)
    BY <1>3, ConsType
  <2>2. /\ phase' \in [Events -> {"unborn", "ready", "queued", "watched", "out", "freed"}]
        /\ home' \in [Events -> Loops \cup {NoLoop}]
    BY <1>1, <1>2, <1>4 DEF SchedTypeOK
  <2>3. weight' \in [Loops -> Nat] /\ total_weight' \in Nat
    BY <1>1, <1>2, <1>4 DEF SchedTypeOK
  <2>4. w_list' \in Seq([w : Nat, src : Events, loop : Loops])
    BY <1>4, <2>1 DEF Entry
  <2> QED BY <1>1, <1>4, <2>2, <2>3, <2>4 DEF SchedTypeOK
<1>6. TypeOK'
  BY <1>4, <1>5 DEF IInv, TypeOK
<1>7. /\ \A i \in DOMAIN w_list' :
           (i = 1 /\ w_list'[i] = v) \/ (i - 1 \in DOMAIN w_list /\ w_list'[i] = w_list[i - 1])
      /\ 1 \in DOMAIN w_list' /\ w_list'[1] = v
      /\ \A i \in DOMAIN w_list : i + 1 \in DOMAIN w_list' /\ w_list'[i + 1] = w_list[i]
      /\ DOMAIN w_list' \subseteq Nat
  <2>1. /\ w_list' \in Seq(Entry) /\ Len(w_list') = Len(w_list) + 1 /\ w_list'[1] = v
        /\ \A i \in 1..Len(w_list) : w_list'[i + 1] = w_list[i]
    <3>1. /\ Cons(v, w_list) \in Seq(Entry) /\ Len(Cons(v, w_list)) = Len(w_list) + 1
          /\ Cons(v, w_list)[1] = v
          /\ \A i \in 1..Len(w_list) : Cons(v, w_list)[i + 1] = w_list[i]
      <4> HIDE DEF Entry
      <4> QED BY <1>3, ConsEntry
    <3>2. w_list' = Cons(v, w_list)
      BY <1>4
    <3> QED BY <3>1, <3>2, Zenon
  <2>2. DOMAIN w_list' = 1..(Len(w_list) + 1) /\ DOMAIN w_list = 1..Len(w_list) /\ Len(w_list) \in Nat
    BY <1>3, <2>1
  <2> DEFINE n == Len(w_list)
  <2>3. /\ n \in Nat /\ DOMAIN w_list = 1..n /\ DOMAIN w_list' = 1..(n + 1) /\ w_list'[1] = v
        /\ \A i \in 1..n : w_list'[i + 1] = w_list[i]
    BY <2>1, <2>2
  <2> HIDE DEF n
  <2>4. ASSUME NEW i \in DOMAIN w_list', i # 1
        PROVE  i - 1 \in DOMAIN w_list /\ w_list'[i] = w_list[i - 1]
    <3>1. i - 1 \in 1..n /\ (i - 1) + 1 = i
      BY <2>3, <2>4
    <3> QED BY <2>3, <3>1
  <2>5. 1 \in 1..(n + 1) /\ \A i \in 1..n : i + 1 \in 1..(n + 1)
    BY <2>3
  <2>6. DOMAIN w_list' \subseteq Nat
    BY <2>3
  <2> QED BY <2>3, <2>4, <2>5, <2>6
<1>8. Sources' = Sources \cup {e} /\ e \notin Sources
  <2>1. Sources' = Sources \cup {e}
    BY <1>7 DEF Sources, v
  <2>2. e \notin Sources
    BY <1>1 DEF IInv, PlacementAccounted, PlacedWhereListed
  <2> QED BY <2>1, <2>2
<1>9. PlacementAccounted'
  <2>1. WeightsAddUp'
    <3>1. w_list' \in Seq(Entry)
      BY <1>5 DEF SchedTypeOK, Entry
    <3>2. Total(Weights(w_list'), On(w_list', Loops)) = 1 + Total(Weights(w_list), On(w_list, Loops))
      BY <1>2, <1>3, <1>4, WeightsCons DEF v
    <3>3. \A k \in Loops : Total(Weights(w_list'), On(w_list', {k}))
                             = (IF b = k THEN 1 ELSE 0) + Total(Weights(w_list), On(w_list, {k}))
      BY <1>2, <1>3, <1>4, WeightsCons DEF v
    <3>4. /\ total_weight = Total(Weights(w_list), On(w_list, Loops))
          /\ \A k \in Loops : weight[k] = Total(Weights(w_list), On(w_list, {k}))
      BY <1>1, <1>3, WeightsAre DEF WeightsMatch, IInv, PlacementAccounted, WeightsAddUp
    <3>5. /\ total_weight' = Total(Weights(w_list'), On(w_list', Loops))
          /\ \A k \in Loops : weight'[k] = Total(Weights(w_list'), On(w_list', {k}))
      <4>1. total_weight' = Total(Weights(w_list'), On(w_list', Loops))
        BY <1>1, <1>4, <3>2, <3>4 DEF SchedTypeOK
      <4>2. ASSUME NEW k \in Loops
            PROVE  weight'[k] = Total(Weights(w_list'), On(w_list', {k}))
        <5>1. weight'[k] = IF b = k THEN weight[k] + 1 ELSE weight[k]
          BY <1>1, <1>2, <1>4 DEF SchedTypeOK
        <5>2. weight[k] \in Nat
          BY <1>1 DEF SchedTypeOK
        <5> QED BY <3>3, <3>4, <5>1, <5>2
      <4> QED BY <4>1, <4>2
    <3> QED BY <3>1, <3>5, WeightsAreNext DEF WeightsAddUp, WeightsMatch
  <2>2. PlacedWhereListed'
    <3>1. \A i, j \in DOMAIN w_list' : w_list'[i].src = w_list'[j].src => i = j
      BY <1>1, <1>7, <1>8 DEF IInv, PlacementAccounted, PlacedWhereListed, Sources, v
    <3>2. \A i \in DOMAIN w_list' : w_list'[i].loop = home'[w_list'[i].src]
      <4> SUFFICES ASSUME NEW i \in DOMAIN w_list' PROVE w_list'[i].loop = home'[w_list'[i].src]
        OBVIOUS
      <4>1. CASE w_list'[i] = v
        BY <1>1, <1>4, <4>1 DEF v, SchedTypeOK
      <4>2. CASE i - 1 \in DOMAIN w_list /\ w_list'[i] = w_list[i - 1]
        <5>1. w_list[i - 1].src # e /\ w_list[i - 1].loop = home[w_list[i - 1].src]
              /\ w_list[i - 1].src \in Events
          BY <1>1, <1>3, <1>8, <4>2 DEF IInv, PlacementAccounted, PlacedWhereListed, Sources, Entry
        <5> QED BY <1>1, <1>4, <4>2, <5>1 DEF SchedTypeOK
      <4> QED BY <1>7, <4>1, <4>2
    <3>3. Sources' = {f \in Events : phase'[f] \in {"queued", "watched"}} \ asked'
      BY <1>1, <1>4, <1>8 DEF IInv, PlacementAccounted, PlacedWhereListed, SchedTypeOK
    <3> QED BY <3>1, <3>2, <3>3 DEF PlacedWhereListed
  <2> QED BY <2>1, <2>2 DEF PlacementAccounted
<1>10. ListenerOwned'
  BY <1>1, <1>4 DEF IInv, TypeOK, ListenerOwned, InList, Binding, Running, e
<1>11. MainPlaced'
  BY <1>1, <1>4 DEF IInv, TypeOK, MainPlaced, e
<1>12. AllLife'
  BY <1>1, <1>4 DEF IInv, TypeOK, AllLife, Life, InList, Binding, Finalizing, Running, Listeners, SchedTypeOK, e
<1>13. Entries'
  <2>1. Sources' = {l \in Listeners : InList(l) \/ l = e}
    BY <1>1, <1>8 DEF IInv, Entries, Listeners, e
  <2>2. \A l \in Listeners : InList(l)' <=> InList(l)
    BY <1>4 DEF InList
  <2>3. main'.lsn = e /\ main'.pc = "lsn_set_add"
    BY <1>4 DEF IInv, TypeOK, e
  <2>4. sched' = "up"
    BY <1>1, <1>4
  <2>5. Sources' = {l \in Listeners : InList(l)'
                       \/ /\ main'.lsn = l
                          /\ main'.pc \in {"lsn_set_add", "obj_unref", "h6_sched_remove"}}
    BY <2>1, <2>2, <2>3
  <2> QED BY <2>4, <2>5 DEF Entries
<1>14. AllEvents'
  <2>0. main'.pc = "lsn_set_add" /\ main'.lsn = e /\ e = main.lsn
    BY <1>4 DEF IInv, TypeOK, e
  <2> SUFFICES ASSUME NEW f \in Events PROVE EventPlaced(f)'
    BY DEF AllEvents
  <2>1. EventPlaced(f) /\ LoopPlaced(b)
    BY <1>2, LoopTypes
  <2>2. CASE f = e
    <3>1. phase'[f] = "queued" /\ home'[f] = b
      BY <1>1, <1>4, <2>2 DEF SchedTypeOK
    <3> QED BY <1>1, <1>2, <1>4, <2>0, <2>1, <2>2, <3>1 DEF EventPlaced, LoopPlaced
  <2>3. CASE f # e
    <3>1. phase'[f] = phase[f] /\ home'[f] = home[f]
      BY <1>4, <2>3 DEF SchedTypeOK
    <3>2. phase[f] # "ready"
      BY <1>1, <2>0, <2>1, <2>3 DEF EventPlaced
    <3> QED BY <1>1, <1>4, <2>0, <2>1, <2>3, <3>1, <3>2 DEF EventPlaced
  <2> QED BY <2>2, <2>3
<1>15. AllLoops'
  BY <1>1, <1>4, LoopTypes DEF AllLoops, LoopPlaced, SchedTypeOK
<1>16. Joined'
  BY <1>4 DEF IInv, Joined
<1> QED BY <1>6, <1>9, <1>10, <1>11, <1>12, <1>13, <1>14, <1>15, <1>16
        DEF IInv, AllLife, AllEvents, AllLoops

\* A placed event is found in the list.
LEMMA FindSource ==
  ASSUME IInv, NEW e \in Sources
  PROVE  LET i == SelectInSeq(w_list, LAMBDA sw : sw.src = e)
         IN i \in 1..Len(w_list) /\ w_list[i].src = e
<1> DEFINE I == {i \in 1..Len(w_list) : w_list[i].src = e}
<1>1. w_list \in Seq(Entry) /\ DOMAIN w_list = 1..Len(w_list) /\ I \in SUBSET Nat
  BY EntryType
<1>2. I # {}
  BY <1>1 DEF Sources
<1>3. PICK m \in I : \A n \in I : m <= n
  BY <1>1, <1>2, MinIn
<1>4. Min(I) \in I
  <2> HIDE DEF I
  <2> QED BY <1>3 DEF Min
<1>5. SelectInSeq(w_list, LAMBDA sw : sw.src = e) = Min(I)
  BY <1>2 DEF SelectInSeq
<1> QED BY <1>4, <1>5

\* The event is taken out of the list, with its weight, and its loop asked to remove it.
LEMMA FinSchedKeeps ==
  ASSUME IInv, h6_listener_fin_sched
  PROVE  IInv'
<1> DEFINE e == main.lsn
           i == SelectInSeq(w_list, LAMBDA sw : sw.src = e)
           v == w_list[i]
           b == v.loop
<1>1. /\ main.pc = "h6_sched_remove" /\ Running
      /\ e \in Events /\ e # NoEvent /\ sched = "up" /\ SchedTypeOK
  BY DEF h6_listener_fin_sched, IInv, TypeOK, MainPlaced, Listeners, Running
<1>2. e \in Sources
  BY <1>1 DEF IInv, Entries, Listeners
<1>3. i \in 1..Len(w_list) /\ v.src = e
  BY <1>2, FindSource
<1>4. w_list \in Seq(Entry) /\ v \in Entry /\ DOMAIN w_list = 1..Len(w_list) /\ Len(w_list) \in Nat
  <2>1. w_list \in Seq(Entry)
    BY EntryType
  <2> HIDE DEF i
  <2> QED BY <1>3, <2>1
<1>5. b \in Loops /\ open[b] /\ v.w \in Nat
  BY <1>1, <1>4, LoopTypes DEF Entry, LoopPlaced
<1>6. /\ asked' = asked \cup {e}
      /\ weight' = [weight EXCEPT ![b] = @ - v.w] /\ total_weight' = total_weight - v.w
      /\ w_list' = RemoveAt(w_list, i)
      /\ main' = [main EXCEPT !.pc = "h6_ev_unref"]
      /\ UNCHANGED <<sched, idx, phase, home, owned, open, thread, listener, lsn_list, svr>>
  <2>1. i # 0
    <3> HIDE DEF i
    <3> QED BY <1>3, <1>4
  <2> QED BY <1>5, <2>1 DEF h6_listener_fin_sched, h6_sched_remove, Goto
<1>7. /\ \A j, k \in DOMAIN w_list : w_list[j].src = w_list[k].src => j = k
      /\ \A j \in DOMAIN w_list : w_list[j].loop = home[w_list[j].src]
      /\ Sources = {f \in Events : phase[f] \in {"queued", "watched"}} \ asked
  BY <1>1 DEF IInv, PlacementAccounted, PlacedWhereListed
<1> HIDE DEF i, b, e, v
<1>8. w_list' \in Seq(Entry) /\ Len(w_list') = Len(w_list) - 1
      /\ DOMAIN w_list' = 1..(Len(w_list) - 1)
  <2>1. w_list' \in Seq(Entry) /\ Len(w_list') = Len(w_list) - 1
    BY <1>3, <1>4, <1>6, RemoveAtType
  <2> QED BY <2>1
<1> DEFINE From(j) == IF j < i THEN j ELSE j + 1
<1>9. \A j \in DOMAIN w_list' : /\ From(j) \in DOMAIN w_list /\ From(j) # i
                                /\ w_list'[j] = w_list[From(j)]
  <2> SUFFICES ASSUME NEW j \in 1..(Len(w_list) - 1)
               PROVE  /\ From(j) \in 1..Len(w_list) /\ From(j) # i
                      /\ w_list'[j] = w_list[From(j)]
    BY <1>4, <1>8
  <2>1. CASE j < i
    <3>1. RemoveAt(w_list, i)[j] = w_list[j]
      BY <1>3, <1>4, <2>1, RemoveAtType
    <3> QED BY <1>3, <1>4, <1>6, <2>1, <3>1
  <2>2. CASE ~(j < i)
    <3>1. RemoveAt(w_list, i)[j] = w_list[j + 1]
      BY <1>3, <1>4, <2>2, RemoveAtType
    <3> QED BY <1>3, <1>4, <1>6, <2>2, <3>1
  <2> QED BY <2>1, <2>2
<1>10. \A k \in DOMAIN w_list : k # i => \E j \in DOMAIN w_list' : From(j) = k
  <2> SUFFICES ASSUME NEW k \in 1..Len(w_list), k # i
               PROVE  \E j \in 1..(Len(w_list) - 1) : From(j) = k
    BY <1>4, <1>8
  <2>1. CASE k < i
    BY <1>3, <1>4, <2>1
  <2>2. CASE k > i
    <3>1. k - 1 \in 1..(Len(w_list) - 1) /\ From(k - 1) = k
      BY <1>3, <1>4, <2>2
    <3> QED BY <3>1
  <2> QED BY <1>3, <1>4, <2>1, <2>2
<1>11. Sources' = Sources \ {e}
  <2>1. \A j \in DOMAIN w_list' : w_list'[j].src \in Sources /\ w_list'[j].src # e
    <3> SUFFICES ASSUME NEW j \in DOMAIN w_list'
                 PROVE  w_list'[j].src \in Sources /\ w_list'[j].src # e
      OBVIOUS
    <3>1. PICK k \in DOMAIN w_list : k # i /\ w_list'[j] = w_list[k]
      BY <1>9
    <3>2. w_list[k].src # w_list[i].src /\ w_list[i].src = e
      BY <1>3, <1>4, <1>7, <3>1 DEF v
    <3> QED BY <3>1, <3>2 DEF Sources
  <2>2. ASSUME NEW f \in Sources, f # e PROVE f \in Sources'
    <3>1. PICK k \in DOMAIN w_list : w_list[k].src = f
      BY DEF Sources
    <3>2. PICK j \in DOMAIN w_list' : From(j) = k
      BY <1>3, <1>10, <2>2, <3>1 DEF v
    <3> QED BY <1>9, <3>1, <3>2 DEF Sources
  <2> QED BY <2>1, <2>2 DEF Sources
<1>12. WeightsAddUp'
  <2>1. Total(Weights(w_list), On(w_list, Loops)) = v.w + Total(Weights(w_list'), On(w_list', Loops))
    BY <1>3, <1>4, <1>5, <1>6, WeightsRemove DEF v, b
  <2>2. \A k \in Loops : Total(Weights(w_list), On(w_list, {k}))
                           = (IF b = k THEN v.w ELSE 0) + Total(Weights(w_list'), On(w_list', {k}))
    BY <1>3, <1>4, <1>5, <1>6, WeightsRemove DEF v, b
  <2>3. /\ total_weight = Total(Weights(w_list), On(w_list, Loops))
        /\ \A k \in Loops : weight[k] = Total(Weights(w_list), On(w_list, {k}))
    BY <1>1, <1>4, WeightsAre DEF WeightsMatch, IInv, PlacementAccounted, WeightsAddUp
  <2>4. total_weight' = Total(Weights(w_list'), On(w_list', Loops))
    <3>1. Total(Weights(w_list'), On(w_list', Loops)) \in Nat
      BY <1>8, WeightsType
    <3> QED BY <1>5, <1>6, <2>1, <2>3, <3>1
  <2>5. ASSUME NEW k \in Loops
        PROVE  weight'[k] = Total(Weights(w_list'), On(w_list', {k}))
    <3>1. weight'[k] = IF b = k THEN weight[k] - v.w ELSE weight[k]
      BY <1>1, <1>5, <1>6 DEF SchedTypeOK
    <3>2. Total(Weights(w_list'), On(w_list', {k})) \in Nat
      BY <1>8, WeightsType
    <3>3. weight[k] = (IF b = k THEN v.w ELSE 0) + Total(Weights(w_list'), On(w_list', {k}))
      BY <2>2, <2>3
    <3> QED BY <1>5, <3>1, <3>2, <3>3
  <2> QED BY <1>8, <2>4, <2>5, WeightsAreNext DEF WeightsAddUp, WeightsMatch
<1>13. SchedTypeOK'
  <2>1. total_weight' \in Nat /\ weight' \in [Loops -> Nat]
    <3>1. /\ total_weight' = Total(WeightAt, DOMAIN w_list)'
          /\ \A k \in Loops : weight'[k] = Total(WeightAt, PlacedOn(k))'
      BY <1>1, <1>6, <1>12 DEF WeightsAddUp
    <3>2. total_weight' \in Nat /\ \A k \in Loops : weight'[k] \in Nat
      BY <1>8, <3>1, WeightsAreNext, WeightsType DEF WeightsMatch
    <3> QED BY <1>1, <1>6, <3>2 DEF SchedTypeOK
  <2> QED BY <1>1, <1>6, <1>8, <2>1 DEF SchedTypeOK, Entry
<1>14. PlacedWhereListed'
  <2>1. \A j, k \in DOMAIN w_list' : w_list'[j].src = w_list'[k].src => j = k
    <3> SUFFICES ASSUME NEW j \in DOMAIN w_list', NEW k \in DOMAIN w_list',
                        w_list'[j].src = w_list'[k].src
                 PROVE  j = k
      OBVIOUS
    <3>1. From(j) = From(k)
      <4> HIDE DEF From
      <4> QED BY <1>7, <1>9
    <3>2. j \in Nat /\ k \in Nat /\ i \in Nat
      BY <1>3, <1>4, <1>8
    <3> QED BY <3>1, <3>2
  <2>2. \A j \in DOMAIN w_list' : w_list'[j].loop = home'[w_list'[j].src]
    <3> HIDE DEF From
    <3> QED BY <1>6, <1>7, <1>9
  <2>3. Sources' = {f \in Events : phase'[f] \in {"queued", "watched"}} \ asked'
    BY <1>1, <1>6, <1>7, <1>11
  <2> QED BY <2>1, <2>2, <2>3 DEF PlacedWhereListed
<1>15. TypeOK'
  BY <1>6, <1>13 DEF IInv, TypeOK
<1>16. ListenerOwned'
  BY <1>1, <1>6 DEF IInv, TypeOK, ListenerOwned, InList, Binding, Running, e
<1>17. MainPlaced'
  BY <1>1, <1>6 DEF IInv, TypeOK, MainPlaced, e
<1>18. AllLife'
  BY <1>1, <1>6 DEF IInv, TypeOK, AllLife, Life, InList, Binding, Finalizing, Running, Listeners, e
<1>19. Entries'
  <2>1. ~InList(e)
    BY <1>1 DEF IInv, Life, Finalizing, Listeners, e
  <2>2. Sources = {l \in Listeners : InList(l) \/ l = e}
    BY <1>1 DEF IInv, Entries, Listeners, e
  <2>3. Sources' = {l \in Listeners : InList(l)}
    BY <1>11, <2>1, <2>2
  <2> QED BY <1>1, <1>6, <2>3 DEF IInv, TypeOK, Entries, InList, Running, e
<1>20. AllEvents'
  <2>1. phase[e] \in {"queued", "watched"}
    BY <1>2, <1>7
  <2> QED BY <1>1, <1>6, <2>1, LoopTypes DEF IInv, TypeOK, AllEvents, EventPlaced, SchedTypeOK, e
<1>21. AllLoops'
  BY <1>6, LoopTypes DEF AllLoops, LoopPlaced
<1>22. Joined'
  BY <1>6 DEF IInv, Joined
<1> QED BY <1>12, <1>14, <1>15, <1>16, <1>17, <1>18, <1>19, <1>20, <1>21, <1>22
        DEF IInv, AllLife, AllEvents, AllLoops, PlacementAccounted

\* The server runs: the scheduler has its loops.
LEMMA RunKeeps ==
  ASSUME IInv, h6_local_proxy_server_run
  PROVE  IInv'
<1>1. /\ sched = "none" /\ sched' = "up" /\ main.pc = "idle"
      /\ svr' = [svr EXCEPT !.run = TRUE]
      /\ UNCHANGED <<idx, placement, phase, home, owned, asked, open, thread, listener, lsn_list, main>>
  BY DEF h6_local_proxy_server_run, h6_sched_new
<1> USE DEF placement
<1>2. TypeOK'
  BY <1>1 DEF IInv, TypeOK, SchedTypeOK
<1>3. PlacementAccounted'
  BY <1>1 DEF IInv, PlacementAccounted, WeightsAddUp, PlacedWhereListed, WeightAt, PlacedOn, Sources
<1>4. ListenerOwned'
  BY <1>1 DEF IInv, TypeOK, ListenerOwned, InList, Binding, Running
<1>5. MainPlaced'
  BY <1>1 DEF IInv, TypeOK, MainPlaced
<1>6. AllLife'
  BY <1>1 DEF IInv, AllLife, Life, InList, Binding, Finalizing, Running, Listeners
<1>7. Entries'
  BY <1>1 DEF IInv, Entries, Sources, InList, Running
<1>8. AllEvents'
  BY <1>1, LoopTypes DEF AllEvents, EventPlaced
<1>9. AllLoops'
  BY <1>1, LoopTypes DEF AllLoops, LoopPlaced
<1>10. Joined'
  BY <1>1 DEF IInv, Joined
<1> QED BY <1>2, <1>3, <1>4, <1>5, <1>6, <1>7, <1>8, <1>9, <1>10 DEF IInv, AllLife, AllEvents, AllLoops

\* The finalizer drops the listener's reference to its event.
LEMMA FinUnrefKeeps ==
  ASSUME IInv, h6_listener_fin_unref
  PROVE  IInv'
<1> DEFINE e == main.lsn
<1>1. /\ main.pc = "h6_ev_unref" /\ Running /\ sched = "up"
      /\ e \in Events /\ e # NoEvent /\ SchedTypeOK /\ owned[e]
      /\ owned' = [owned EXCEPT ![e] = FALSE]
      /\ phase' = IF Unused(e) THEN [phase EXCEPT ![e] = "freed"] ELSE phase
      /\ main' = [main EXCEPT !.pc = "listener_fin_this"]
      /\ UNCHANGED <<sched, idx, placement, home, asked, open, thread, listener, lsn_list, svr>>
  BY DEF h6_listener_fin_unref, h6_ev_unref, Goto, IInv, TypeOK, MainPlaced, Listeners, Running
<1>2. Finalizing(e) /\ ~InList(e) /\ Life(e) /\ EventPlaced(e)
  BY <1>1 DEF IInv, Life, Finalizing, Listeners
<1>3. \A k \in Loops : thread[k].ev = e /\ thread[k].pc # "drop" => phase[e] = "watched"
  BY <1>1, LoopTypes DEF LoopPlaced, SchedTypeOK
<1>4. Unused(e) => /\ phase[e] = "out" /\ e \notin asked
                   /\ \A k \in Loops : thread[k].ev # e
  <2>1. phase[e] # "ready"
    BY <1>1, <1>2 DEF EventPlaced
  <2> SUFFICES ASSUME Unused(e) PROVE \A k \in Loops : thread[k].ev # e
    BY <2>1 DEF Unused
  <2>2. ASSUME NEW k \in Loops, thread[k].ev = e PROVE FALSE
    <3>1. phase[e] = "out" /\ thread[k] # [pc |-> "drop", ev |-> e]
      BY <2>1 DEF Unused, At
    <3>2. thread[k].pc = "drop"
      BY <1>3, <2>2, <3>1
    <3> QED BY <1>1, <2>2, <3>1, <3>2 DEF SchedTypeOK
  <2> QED BY <2>2
<1>5. ~Unused(e) /\ phase[e] = "out" => thread[home[e]].ev = e /\ thread[home[e]].pc \in {"drop", "notify"}
  <2> SUFFICES ASSUME phase[e] = "out", ~Unused(e)
               PROVE  \E k \in Loops : thread[k] = [pc |-> "drop", ev |-> e]
    BY LoopTypes DEF LoopPlaced
  <2> QED BY <1>2 DEF Unused, At, EventPlaced
<1> USE DEF placement
<1> HIDE DEF e
<1>6. SchedTypeOK'
  BY <1>1 DEF SchedTypeOK
<1>7. TypeOK'
  BY <1>1, <1>6 DEF IInv, TypeOK
<1>8. PlacementAccounted'
  <2>1. WeightsAddUp'
    BY <1>1 DEF IInv, PlacementAccounted, WeightsAddUp, WeightAt, PlacedOn
  <2>2. InLoops' = InLoops
    BY <1>1, <1>4 DEF InLoops, SchedTypeOK
  <2>3. PlacedWhereListed'
    BY <1>1, <2>2 DEF IInv, PlacementAccounted, PlacedWhereListed, Sources, InLoops
  <2> QED BY <2>1, <2>3 DEF PlacementAccounted
<1>9. ListenerOwned'
  BY <1>1, <1>2 DEF IInv, TypeOK, ListenerOwned, InList, Binding, Running, Listeners, SchedTypeOK
<1>10. MainPlaced'
  BY <1>1 DEF IInv, TypeOK, MainPlaced, e
<1>11. AllLife'
  BY <1>1, <1>4 DEF IInv, TypeOK, AllLife, Life, InList, Binding, Finalizing, Running, Listeners, SchedTypeOK, e
<1>12. Entries'
  BY <1>1 DEF IInv, TypeOK, Entries, InList, Sources, Running
<1>13. AllEvents'
  <2> SUFFICES ASSUME NEW d \in Events PROVE EventPlaced(d)'
    BY DEF AllEvents
  <2>1. EventPlaced(d)
    BY DEF IInv
  <2>2. CASE d = e
    BY <1>1, <1>2, <1>4, <1>5, <2>2, LoopTypes DEF EventPlaced, SchedTypeOK
  <2>3. CASE d # e
    <3>1. phase'[d] = phase[d] /\ owned'[d] = owned[d]
      BY <1>1, <2>3 DEF IInv, TypeOK, SchedTypeOK
    <3> QED BY <1>1, <2>1, <2>3, <3>1 DEF EventPlaced, e
  <2> QED BY <2>2, <2>3
<1>14. AllLoops'
  BY <1>1, <1>4, LoopTypes DEF AllLoops, LoopPlaced, SchedTypeOK
<1>15. Joined'
  BY <1>1 DEF IInv, Joined
<1> QED BY <1>7, <1>8, <1>9, <1>10, <1>11, <1>12, <1>13, <1>14, <1>15
        DEF IInv, AllLife, AllEvents, AllLoops

-----------------------------------------------------------------------------
(* The calls of the server *)

\* A listener and its event are created.
LEMMA BindPortKeeps ==
  ASSUME IInv, NEW l \in Listeners, NEW p \in Ports, h6_local_proxy_server_bind_port(l, p)
  PROVE  IInv'
<1> USE DEF placement
<1> DEFINE NewListener == [mem : {"live"}, refs : {1}, port : Ports \cup {0},
                           sock : {"open"}, node : {"self"}]
<1>1. PICK new \in NewListener :
      /\ main.pc = "idle" /\ svr.run /\ sched = "up" /\ svr.lsn_set = "live"
      /\ listener[l].mem = "unborn" /\ phase[l] = "unborn"
      /\ listener' = [listener EXCEPT ![l] = new]
      /\ phase' = [phase EXCEPT ![l] = "ready"]
      /\ owned' = [owned EXCEPT ![l] = TRUE]
      /\ main' = [main EXCEPT !.pc = "h6_sched_add", !.lsn = l]
      /\ UNCHANGED <<sched, idx, placement, home, asked, open, thread, lsn_list, svr>>
  <2>1. /\ main.pc = "idle" /\ svr.run /\ listener[l].mem = "unborn" /\ phase[l] = "unborn"
        /\ listener' = [listener EXCEPT ![l] = Listening(listener_alloc, p)]
        /\ phase' = [phase EXCEPT ![l] = "ready"]
        /\ owned' = [owned EXCEPT ![l] = TRUE]
        /\ main' = [main EXCEPT !.pc = "h6_sched_add", !.lsn = l]
        /\ UNCHANGED <<sched, idx, placement, home, asked, open, thread, lsn_list, svr>>
    BY DEF h6_local_proxy_server_bind_port, h6_ev_new
  <2>2. sched = "up" /\ svr.lsn_set = "live"
    BY <2>1 DEF IInv, MainPlaced
  <2>3. Listening(listener_alloc, p) \in NewListener
    BY DEF Listening, listener_alloc
  <2> QED BY <2>1, <2>2, <2>3
<1>2. /\ l \in Events /\ l # NoEvent /\ Life(l) /\ EventPlaced(l) /\ TypeOK /\ SchedTypeOK
      /\ Running /\ ~InList(l) /\ home[l] = NoLoop /\ l \notin asked
  <2>1. /\ l \in Events /\ l # NoEvent /\ Life(l) /\ EventPlaced(l) /\ TypeOK /\ SchedTypeOK /\ Running
    BY <1>1, LoopTypes DEF IInv, Listeners, Running
  <2> QED BY <1>1, <2>1 DEF Life, EventPlaced
<1>3. SchedTypeOK'
  BY <1>1, <1>2 DEF SchedTypeOK
<1>4. TypeOK'
  <2>1. listener' \in [Listeners -> [mem : Mem, refs : 0..2, port : Ports \cup {0},
                                     sock : {"none", "open", "closed"},
                                     node : {"self", "linked", "null"}]]
    BY <1>1, <1>2 DEF TypeOK, Mem
  <2> QED BY <1>1, <1>2, <1>3, <2>1 DEF TypeOK
<1>5. PlacementAccounted'
  <2>1. WeightsAddUp'
    BY <1>1 DEF IInv, PlacementAccounted, WeightsAddUp, WeightAt, PlacedOn
  <2>2. InLoops' = InLoops
    BY <1>1, <1>2 DEF InLoops, SchedTypeOK
  <2>3. PlacedWhereListed'
    BY <1>1, <2>2 DEF IInv, PlacementAccounted, PlacedWhereListed, Sources, InLoops
  <2> QED BY <2>1, <2>3 DEF PlacementAccounted
<1>6. ListenerOwned'
  BY <1>1, <1>2 DEF IInv, TypeOK, ListenerOwned, InList, Binding, Running, Listeners, SchedTypeOK
<1>7. MainPlaced'
  BY <1>1, <1>2 DEF IInv, TypeOK, MainPlaced
<1>8. AllLife'
  BY <1>1, <1>2 DEF IInv, TypeOK, AllLife, Life, InList, Binding, Finalizing, Running, Listeners, SchedTypeOK
<1>9. Entries'
  BY <1>1, <1>2 DEF IInv, TypeOK, Entries, InList, Sources, Running
<1>10. AllEvents'
  BY <1>1, <1>2, LoopTypes DEF AllEvents, EventPlaced, SchedTypeOK, TypeOK
<1>11. AllLoops'
  BY <1>1, <1>2, LoopTypes DEF AllLoops, LoopPlaced, SchedTypeOK
<1>12. Joined'
  BY <1>1 DEF IInv, Joined
<1> QED BY <1>4, <1>5, <1>6, <1>7, <1>8, <1>9, <1>10, <1>11, <1>12 DEF IInv, AllLife, AllEvents, AllLoops

\* The kill begins.
LEMMA KillUnrefKeeps ==
  ASSUME IInv, h6_local_proxy_server_kill_unref
  PROVE  IInv'
<1>1. /\ main.pc = "idle" /\ main' = [main EXCEPT !.pc = "lsn_set_kill"]
      /\ UNCHANGED schedVars /\ UNCHANGED <<listener, lsn_list, svr>>
  BY DEF h6_local_proxy_server_kill_unref, Goto
<1>2. UNCHANGED <<sched, w_list, phase, home, owned, asked, thread>>
  BY <1>1 DEF schedVars, placement
<1>3. SchedTypeOK' /\ PlacementAccounted' /\ AllLoops' /\ Joined'
  BY <1>1, SchedFrame
<1>4. TypeOK'
  BY <1>1, <1>3 DEF IInv, TypeOK
<1>5. ListenerOwned'
  BY <1>1, <1>2 DEF IInv, TypeOK, ListenerOwned, InList, Binding, Running
<1>6. MainPlaced'
  BY <1>1, <1>2 DEF IInv, TypeOK, MainPlaced
<1>7. AllLife'
  BY <1>1, <1>2 DEF IInv, TypeOK, AllLife, Life, InList, Binding, Finalizing, Running, Listeners
<1>8. Entries'
  BY <1>1, <1>2 DEF IInv, TypeOK, Entries, InList, Sources, Running
<1>9. AllEvents'
  BY <1>1, <1>2, LoopTypes DEF IInv, TypeOK, AllEvents, EventPlaced
<1> QED BY <1>3, <1>4, <1>5, <1>6, <1>7, <1>8, <1>9 DEF IInv, AllLife, AllEvents, AllLoops

\* The listener enters the set's list, with the set's reference.
LEMMA SetAddKeeps ==
  ASSUME IInv, lsn_set_add
  PROVE  IInv'
<1> DEFINE e == main.lsn
<1>1. /\ main.pc = "lsn_set_add" /\ main' = [main EXCEPT !.pc = "obj_unref"]
      /\ listener' = [listener EXCEPT ![e].node = "linked", ![e].refs = @ + 1]
      /\ lsn_list' = Cons(e, lsn_list)
      /\ UNCHANGED schedVars /\ UNCHANGED svr
  BY DEF lsn_set_add, Goto
<1>2. /\ e \in Listeners /\ e # NoEvent /\ Running /\ sched = "up" /\ Binding(e) /\ TypeOK
      /\ svr.lsn_set = "live"
  BY <1>1 DEF IInv, TypeOK, MainPlaced, Running, Binding
<1>3. /\ Life(e) /\ ~InList(e) /\ listener[e].mem = "live" /\ owned[e] /\ listener[e].sock = "open"
      /\ listener[e].refs = 1
  <2>1. Life(e)
    BY <1>2 DEF IInv
  <2>2. ~InList(e) /\ listener[e].mem = "live" /\ owned[e] /\ listener[e].sock = "open"
    BY <1>1, <1>2, <2>1 DEF Life
  <2>3. listener[e].refs = 1
    BY <1>2, <2>2 DEF IInv, ListenerOwned
  <2> QED BY <2>1, <2>2, <2>3
<1>4. UNCHANGED <<sched, w_list, phase, home, owned, asked, thread>>
  BY <1>1 DEF schedVars, placement
<1>5. /\ lsn_list' \in Seq(Listeners) /\ lsn_list' # <<>>
      /\ ToSet(lsn_list') = ToSet(lsn_list) \cup {e}
      /\ IsInjective(lsn_list')
  <2>1. lsn_list \in Seq(Listeners) /\ IsInjective(lsn_list) /\ e \notin ToSet(lsn_list)
    BY <1>2, <1>3 DEF IInv, TypeOK, MainPlaced, InList
  <2>2. lsn_list' \in Seq(Listeners) /\ Len(lsn_list') = Len(lsn_list) + 1
    BY <1>1, <1>2, <2>1, ConsType
  <2>3. ToSet(lsn_list') = ToSet(lsn_list) \cup {e} /\ IsInjective(lsn_list')
    BY <1>1, <1>2, <2>1, ConsEntries
  <2>4. lsn_list' # <<>>
    BY <2>1, <2>2
  <2> QED BY <2>2, <2>3, <2>4
<1> HIDE DEF e
<1>6. listener' = [listener EXCEPT ![e] = [mem |-> "live", refs |-> 2, port |-> listener[e].port,
                                           sock |-> "open", node |-> "linked"]]
  BY <1>1, <1>2, <1>3 DEF TypeOK
<1>7. SchedTypeOK' /\ PlacementAccounted' /\ AllLoops' /\ Joined'
  BY <1>1, SchedFrame
<1>8. TypeOK'
  BY <1>1, <1>2, <1>5, <1>6, <1>7 DEF TypeOK, Mem
<1>9. ListenerOwned'
  BY <1>1, <1>2, <1>3, <1>4, <1>5, <1>6 DEF IInv, TypeOK, ListenerOwned, InList, Binding, Running, e
<1>10. MainPlaced'
  BY <1>1, <1>2, <1>4, <1>5 DEF IInv, TypeOK, MainPlaced, e
<1>11. AllLife'
  BY <1>1, <1>2, <1>3, <1>4, <1>5, <1>6
     DEF IInv, TypeOK, AllLife, Life, InList, Binding, Finalizing, Running, e
<1>12. Entries'
  <2>1. Sources' = Sources
    BY <1>4 DEF Sources
  <2> QED BY <1>1, <1>2, <1>4, <1>5, <2>1 DEF IInv, TypeOK, Entries, InList, Running, e
<1>13. AllEvents'
  BY <1>1, <1>2, <1>4, LoopTypes DEF TypeOK, AllEvents, EventPlaced
<1> QED BY <1>7, <1>8, <1>9, <1>10, <1>11, <1>12, <1>13 DEF IInv, AllLife, AllEvents, AllLoops

\* bind_port lets go of the listener, which the set holds or the finalizer takes.
LEMMA BindPortUnrefKeeps ==
  ASSUME IInv, BindPortUnref
  PROVE  IInv'
<1> DEFINE l == main.lsn
<1>1. /\ main.pc = "obj_unref"
      /\ listener' = [listener EXCEPT ![l].refs = @ - 1]
      /\ main' = [pc |-> IF listener[l].refs = 1 THEN "h6_sched_remove" ELSE "idle",
                  lsn |-> l, then |-> "idle"]
      /\ UNCHANGED schedVars /\ UNCHANGED <<lsn_list, svr>>
  BY DEF BindPortUnref, ObjUnref
<1>2. UNCHANGED <<sched, w_list, phase, home, owned, asked, thread>>
  BY <1>1 DEF schedVars, placement
<1>3. l \in Listeners /\ l # NoEvent /\ Binding(l) /\ sched = "up" /\ TypeOK /\ Running /\ Life(l)
  BY <1>1 DEF IInv, TypeOK, MainPlaced, Binding, Running
<1>4. listener[l].mem = "live" /\ owned[l] /\ listener[l].refs = (IF InList(l) THEN 1 ELSE 0) + 1
  BY <1>1, <1>3 DEF IInv, ListenerOwned, Life
<1> HIDE DEF l
<1>5. PICK pc \in {"h6_sched_remove", "idle"} :
        /\ main' = [pc |-> pc, lsn |-> l, then |-> "idle"]
        /\ InList(l) <=> pc = "idle"
  BY <1>1, <1>4
<1>6. SchedTypeOK' /\ PlacementAccounted' /\ AllLoops' /\ Joined'
  BY <1>1, SchedFrame
<1>7. TypeOK'
  <2>1. listener[l].refs - 1 \in 0..2
    BY <1>4
  <2>2. listener' \in [Listeners -> ListenerRecords]
    <3> DEFINE r == [listener[l] EXCEPT !.refs = @ - 1]
    <3>1. listener \in [Listeners -> ListenerRecords]
      BY <1>3 DEF TypeOK, ListenerRecords
    <3>2. listener[l] \in ListenerRecords
      BY <1>3, <3>1
    <3>3. r \in ListenerRecords
      BY <2>1, <3>2 DEF ListenerRecords
    <3>4. listener' = [listener EXCEPT ![l] = r]
      BY <1>1, <1>3, <3>1
    <3> HIDE DEF r
    <3> QED BY <3>1, <3>3, <3>4
  <2>3. lsn_list' \in Seq(Listeners) /\ svr' = svr
    BY <1>1, <1>3 DEF TypeOK
  <2>4. /\ main'.pc = "idle" \/ main'.pc = "h6_sched_remove"
        /\ main' = [pc |-> main'.pc, lsn |-> l, then |-> "idle"]
    BY <1>5
  <2>5. main'.pc \in {"idle", "h6_sched_remove"}
    BY <2>4
  <2> QED BY <1>3, <1>6, <2>2, <2>3, <2>4, <2>5 DEF TypeOK, ListenerRecords
<1>8. ListenerOwned'
  BY <1>1, <1>2, <1>3, <1>4, <1>5 DEF IInv, TypeOK, ListenerOwned, InList, Binding, Running, l
<1>9. MainPlaced'
  BY <1>1, <1>2, <1>3, <1>5 DEF IInv, TypeOK, MainPlaced
<1>10. AllLife'
  BY <1>1, <1>2, <1>3, <1>4, <1>5
     DEF IInv, TypeOK, AllLife, Life, InList, Binding, Finalizing, Running, l
<1>11. Entries'
  <2>1. Sources' = Sources
    BY <1>2 DEF Sources
  <2>2. Sources = {m \in Listeners : InList(m) \/ m = l}
    BY <1>1, <1>3 DEF IInv, Entries, l
  <2>3. \A m \in Listeners : InList(m)' <=> InList(m)
    BY <1>1 DEF InList
  <2>4. Sources' = {m \in Listeners : InList(m)' \/ (m = l /\ main'.pc = "h6_sched_remove")}
    BY <1>3, <1>5, <2>1, <2>2, <2>3
  <2> QED BY <1>1, <1>2, <1>3, <1>5, <2>4 DEF Entries, InList
<1>12. AllEvents'
  BY <1>1, <1>2, <1>5, LoopTypes DEF TypeOK, AllEvents, EventPlaced
<1> QED BY <1>6, <1>7, <1>8, <1>9, <1>10, <1>11, <1>12 DEF IInv, AllLife, AllEvents, AllLoops

\* A listener that leaves the list of the set loses its last reference.
LEMMA UnlinkKeeps ==
  ASSUME IInv, NEW l \in Listeners, InList(l), NEW n \in {"self", "null"},
         main.pc \in {"idle", "lsn_set_kill"},
         listener' = [listener EXCEPT ![l].node = n, ![l].refs = @ - 1],
         main' = [pc |-> "h6_sched_remove", lsn |-> l, then |-> main.pc],
         lsn_list' \in Seq(Listeners), IsInjective(lsn_list'),
         ToSet(lsn_list') = ToSet(lsn_list) \ {l},
         UNCHANGED schedVars, UNCHANGED svr
  PROVE  IInv'
<1>2. UNCHANGED <<sched, w_list, phase, home, owned, asked, thread>>
  BY DEF schedVars, placement
<1>3. l # NoEvent /\ TypeOK /\ Running /\ Life(l) /\ listener[l].mem = "live" /\ owned[l]
      /\ listener[l].refs = 1 /\ svr.lsn_set = "live" /\ MainPlaced
  BY LoopTypes DEF IInv, Listeners, ListenerOwned, Life, Running, Binding, MainPlaced
<1>4. Sources = {m \in Listeners : InList(m)}
  BY <1>3 DEF IInv, Entries
<1>5. sched = "up"
  <2>1. l \in Sources
    BY <1>4
  <2> QED BY <2>1 DEF IInv, Entries, Sources
<1>6. SchedTypeOK' /\ PlacementAccounted' /\ AllLoops' /\ Joined'
  BY SchedFrame
<1>7. TypeOK'
  BY <1>3, <1>6 DEF TypeOK
<1>8. ListenerOwned'
  BY <1>2, <1>3 DEF IInv, TypeOK, ListenerOwned, InList, Binding, Running
<1>9. MainPlaced'
  BY <1>2, <1>3, <1>5 DEF TypeOK, MainPlaced
<1>10. AllLife'
  BY <1>2, <1>3 DEF IInv, TypeOK, AllLife, Life, InList, Binding, Finalizing, Running
<1>11. Entries'
  <2>1. Sources' = Sources
    BY <1>2 DEF Sources
  <2>2. \A m \in Listeners : InList(m)' <=> InList(m) /\ m # l
    BY DEF InList
  <2>3. Sources' = {m \in Listeners : InList(m)' \/ m = l}
    BY <1>4, <2>1, <2>2
  <2> QED BY <1>2, <1>5, <2>3 DEF Entries, InList
<1>12. AllEvents'
  BY <1>2, LoopTypes DEF TypeOK, AllEvents, EventPlaced
<1> QED BY <1>6, <1>7, <1>8, <1>9, <1>10, <1>11, <1>12 DEF IInv, AllLife, AllEvents, AllLoops

\* A listener that is found is in the list.
LEMMA FindListener ==
  ASSUME lsn_list \in Seq(Listeners), NEW p, find_listener_by_port(p) # 0
  PROVE  find_listener_by_port(p) \in 1..Len(lsn_list)
<1> DEFINE I == {i \in 1..Len(lsn_list) : listener[lsn_list[i]].port = p}
<1>1. I # {} /\ find_listener_by_port(p) = Min(I)
  BY DEF find_listener_by_port, SelectInSeq
<1>2. PICK m \in I : \A n \in I : m <= n
  <2>1. I \in SUBSET Nat
    OBVIOUS
  <2> HIDE DEF I
  <2> QED BY <1>1, <2>1, MinIn
<1>3. Min(I) \in I
  <2> HIDE DEF I
  <2> QED BY <1>2 DEF Min
<1> QED BY <1>1, <1>3

\* The listener leaves the list, and the set's reference goes.
LEMMA RemovePortKeeps ==
  ASSUME IInv, NEW p \in Ports, h6_local_proxy_server_remove_port(p)
  PROVE  IInv'
<1> DEFINE i == find_listener_by_port(p)
           l == lsn_list[i]
<1>1. /\ main.pc = "idle" /\ i # 0 /\ UNCHANGED schedVars /\ UNCHANGED svr
      /\ lsn_list' = RemoveAt(lsn_list, i)
      /\ listener' = [[listener EXCEPT ![l].node = "self"] EXCEPT ![l].refs = @ - 1]
      /\ main' = [pc |-> IF [listener EXCEPT ![l].node = "self"][l].refs = 1
                         THEN "h6_sched_remove" ELSE "idle",
                  lsn |-> l, then |-> "idle"]
  BY DEF h6_local_proxy_server_remove_port, lsn_set_del, ObjUnref
<1>2. lsn_list \in Seq(Listeners) /\ IsInjective(lsn_list) /\ TypeOK /\ Running
  BY <1>1 DEF IInv, TypeOK, MainPlaced, Running
<1>3. i \in 1..Len(lsn_list)
  BY <1>1, <1>2, FindListener
<1> HIDE DEF i
<1>4. l \in Listeners /\ InList(l)
  BY <1>2, <1>3 DEF InList, ToSet
<1>5. listener[l].refs = 1
  BY <1>1, <1>2, <1>4 DEF IInv, ListenerOwned, Binding
<1>6. lsn_list' \in Seq(Listeners) /\ IsInjective(lsn_list')
      /\ ToSet(lsn_list') = ToSet(lsn_list) \ {l}
  BY <1>1, <1>2, <1>3, RemoveAtType, RemoveAtEntries
<1> HIDE DEF l
<1>7. main' = [pc |-> "h6_sched_remove", lsn |-> l, then |-> main.pc]
  BY <1>1, <1>2, <1>4, <1>5 DEF TypeOK
<1>8. listener' = [listener EXCEPT ![l].node = "self", ![l].refs = @ - 1]
  BY <1>1, <1>2, <1>4 DEF TypeOK
<1> QED BY <1>1, <1>4, <1>6, <1>7, <1>8, UnlinkKeeps

\* The kill of the set meets an assertion.
LEMMA AbortKeeps ==
  ASSUME IInv, NEW l \in Listeners, InList(l), main.pc = "lsn_set_kill",
         listener' = [listener EXCEPT ![l].node = "null"],
         main' = [main EXCEPT !.pc = "aborted"],
         lsn_list' \in Seq(Listeners), IsInjective(lsn_list'),
         UNCHANGED schedVars, UNCHANGED svr
  PROVE  IInv'
<1>2. UNCHANGED <<sched, w_list, phase, home, owned, asked, thread>>
  BY DEF schedVars, placement
<1>3. TypeOK /\ MainPlaced
  BY DEF IInv
<1>6. SchedTypeOK' /\ PlacementAccounted' /\ AllLoops' /\ Joined'
  BY SchedFrame
<1>7. TypeOK'
  <2>1. listener' \in [Listeners -> ListenerRecords]
    <3> DEFINE r == [listener[l] EXCEPT !.node = "null"]
    <3>1. listener \in [Listeners -> ListenerRecords] /\ listener[l] \in ListenerRecords
      BY <1>3 DEF TypeOK, ListenerRecords
    <3>2. r \in ListenerRecords
      BY <3>1 DEF ListenerRecords
    <3>3. listener' = [listener EXCEPT ![l] = r]
      BY <3>1
    <3> HIDE DEF r
    <3> QED BY <3>1, <3>2, <3>3
  <2>2. main.lsn \in Listeners \cup {NoEvent} /\ main.then \in {"idle", "lsn_set_kill"}
        /\ main' = [pc |-> "aborted", lsn |-> main.lsn, then |-> main.then]
    BY <1>3 DEF TypeOK
  <2> QED BY <1>3, <1>6, <2>1, <2>2 DEF TypeOK, ListenerRecords
<1>4. ~Running'
  BY <1>3 DEF Running, TypeOK
<1>8. ListenerOwned'
  BY <1>4 DEF ListenerOwned
<1>9. MainPlaced'
  BY <1>2, <1>3 DEF TypeOK, MainPlaced
<1>10. AllLife'
  BY <1>2, <1>3, <1>4 DEF IInv, TypeOK, AllLife, Life
<1>11. Entries'
  BY <1>2, <1>4 DEF IInv, Entries
<1>12. AllEvents'
  BY <1>2, <1>3, LoopTypes DEF TypeOK, AllEvents, EventPlaced
<1> QED BY <1>6, <1>7, <1>8, <1>9, <1>10, <1>11, <1>12 DEF IInv, AllLife, AllEvents, AllLoops

\* The kill of the set takes the listeners one by one.
LEMMA SetKillKeeps ==
  ASSUME IInv, lsn_set_self_kill
  PROVE  IInv'
<1> DEFINE l == Head(lsn_list)
           u == [listener EXCEPT ![l].node = "null"]
<1>1. /\ main.pc = "lsn_set_kill" /\ lsn_list # <<>>
      /\ UNCHANGED schedVars /\ UNCHANGED svr
      /\ lsn_list' = Tail(lsn_list)
      /\ \/ /\ listener' = [u EXCEPT ![l].refs = @ - 1]
            /\ main' = [pc |-> IF u[l].refs = 1 THEN "h6_sched_remove" ELSE "lsn_set_kill",
                        lsn |-> l, then |-> "lsn_set_kill"]
         \/ /\ main' = [main EXCEPT !.pc = "aborted"]
            /\ listener' = u
  BY DEF lsn_set_self_kill, ObjUnref, Goto
<1>2. lsn_list \in Seq(Listeners) /\ IsInjective(lsn_list) /\ TypeOK /\ Running
  BY <1>1 DEF IInv, TypeOK, MainPlaced, Running
<1>3. /\ l \in Listeners /\ InList(l)
      /\ lsn_list' \in Seq(Listeners) /\ IsInjective(lsn_list')
      /\ ToSet(lsn_list') = ToSet(lsn_list) \ {l}
  BY <1>1, <1>2, TailEntries DEF InList
<1>4. listener[l].refs = 1
  BY <1>1, <1>2, <1>3 DEF IInv, ListenerOwned, Binding
<1> HIDE DEF l
<1>5. CASE main' = [main EXCEPT !.pc = "aborted"] /\ listener' = u
  BY <1>1, <1>3, <1>5, AbortKeeps
<1>6. CASE /\ listener' = [u EXCEPT ![l].refs = @ - 1]
           /\ main' = [pc |-> IF u[l].refs = 1 THEN "h6_sched_remove" ELSE "lsn_set_kill",
                       lsn |-> l, then |-> "lsn_set_kill"]
  <2>1. main' = [pc |-> "h6_sched_remove", lsn |-> l, then |-> main.pc]
    BY <1>1, <1>2, <1>3, <1>4, <1>6 DEF TypeOK
  <2>2. listener' = [listener EXCEPT ![l].node = "null", ![l].refs = @ - 1]
    BY <1>2, <1>3, <1>6 DEF TypeOK
  <2> QED BY <1>1, <1>3, <2>1, <2>2, UnlinkKeeps
<1> QED BY <1>1, <1>5, <1>6

\* The listener is freed after its socket was closed.
LEMMA FinThisKeeps ==
  ASSUME IInv, listener_fin_this
  PROVE  IInv'
<1> DEFINE l == main.lsn
<1>1. main.pc = "listener_fin_this" /\ UNCHANGED schedVars /\ UNCHANGED <<lsn_list, svr>>
  BY DEF listener_fin_this
<1>2. UNCHANGED <<sched, w_list, phase, home, owned, asked, thread>>
  BY <1>1 DEF schedVars, placement
<1>3. l \in Listeners /\ l # NoEvent /\ Finalizing(l) /\ sched = "up" /\ TypeOK /\ Running /\ Life(l)
  BY <1>1 DEF IInv, TypeOK, MainPlaced, Finalizing, Running
<1>4. listener[l].mem = "live" /\ ~owned[l] /\ ~InList(l) /\ listener[l].refs = 0
  BY <1>1, <1>3 DEF IInv, ListenerOwned, Life, Binding
<1>5. PICK pc \in {"idle", "lsn_set_kill", "aborted"} :
        /\ main' = [main EXCEPT !.pc = pc]
        /\ pc # "aborted" =>
             listener' = [listener EXCEPT ![l].sock = "closed", ![l].mem = "freed"]
        /\ pc = "aborted" => listener' = listener
  <2>1. main.then \in {"idle", "lsn_set_kill"}
    BY <1>3 DEF TypeOK
  <2> QED BY <2>1 DEF listener_fin_this, Goto
<1> HIDE DEF l
<1>6. SchedTypeOK' /\ PlacementAccounted' /\ AllLoops' /\ Joined'
  BY <1>1, SchedFrame
<1>7. TypeOK'
  <2>1. listener' \in [Listeners -> [mem : Mem, refs : 0..2, port : Ports \cup {0},
                                     sock : {"none", "open", "closed"},
                                     node : {"self", "linked", "null"}]]
    <3>1. CASE pc = "aborted"
      BY <1>3, <1>5, <3>1 DEF TypeOK
    <3>2. CASE pc # "aborted"
      <4>1. listener' = [listener EXCEPT ![l] = [mem |-> "freed", refs |-> listener[l].refs,
                                                 port |-> listener[l].port, sock |-> "closed",
                                                 node |-> listener[l].node]]
        BY <1>3, <1>5, <3>2 DEF TypeOK
      <4> QED BY <1>3, <4>1 DEF TypeOK, Mem
    <3> QED BY <3>1, <3>2
  <2> QED BY <1>1, <1>3, <1>5, <1>6, <2>1 DEF TypeOK
<1>8. ListenerOwned'
  BY <1>1, <1>2, <1>3, <1>4, <1>5 DEF IInv, TypeOK, ListenerOwned, InList, Binding, Running
<1>9. MainPlaced'
  BY <1>1, <1>2, <1>3, <1>5 DEF IInv, TypeOK, MainPlaced
<1>10. AllLife'
  <2> SUFFICES ASSUME NEW m \in Listeners PROVE Life(m)'
    BY DEF AllLife
  <2>1. Life(m)
    BY DEF IInv
  <2>2. CASE m = l
    <3>1. CASE pc = "aborted"
      BY <1>2, <1>3, <1>4, <1>5, <2>1, <2>2, <3>1 DEF TypeOK, Life, Running
    <3>2. CASE pc # "aborted"
      <4>1. listener'[m].mem = "freed" /\ listener'[m].sock = "closed"
        BY <1>3, <1>5, <2>2, <3>2 DEF TypeOK
      <4>2. main'.pc \in {"idle", "lsn_set_kill"} /\ ~InList(m)' /\ phase'[m] # "unborn" /\ ~owned'[m]
        BY <1>1, <1>2, <1>3, <1>4, <1>5, <2>1, <2>2, <3>2 DEF TypeOK, Life, InList
      <4> QED BY <4>1, <4>2 DEF Life, Binding, Finalizing
    <3> QED BY <3>1, <3>2
  <2>3. CASE m # l
    <3>1. listener'[m] = listener[m]
      BY <1>3, <1>5, <2>3 DEF TypeOK
    <3>2. main'.pc \in {"idle", "lsn_set_kill", "aborted"} /\ main'.lsn = l /\ main.lsn = l
      BY <1>3, <1>5 DEF TypeOK, l
    <3> QED BY <1>1, <1>2, <1>3, <2>1, <2>3, <3>1, <3>2
            DEF Life, InList, Binding, Finalizing, Running
  <2> QED BY <2>2, <2>3
<1>11. Entries'
  <2>1. Sources' = Sources
    BY <1>2 DEF Sources
  <2>2. Sources = {m \in Listeners : InList(m)}
    BY <1>1, <1>3 DEF IInv, Entries
  <2> QED BY <1>1, <1>2, <1>3, <1>5, <2>1, <2>2 DEF TypeOK, Entries, InList
<1>12. AllEvents'
  BY <1>1, <1>2, <1>3, <1>5, LoopTypes DEF TypeOK, AllEvents, EventPlaced
<1> QED BY <1>6, <1>7, <1>8, <1>9, <1>10, <1>11, <1>12 DEF IInv, AllLife, AllEvents, AllLoops

\* With the list of the set empty, the scheduler has no entries.
LEMMA NothingListed ==
  ASSUME IInv, Running, lsn_list = <<>>,
         main.pc \notin {"lsn_set_add", "obj_unref", "h6_sched_remove"}
  PROVE  w_list = <<>> /\ \A l \in Listeners : ~InList(l)
<1>1. \A l \in Listeners : ~InList(l)
  BY DEF InList, ToSet
<1>2. Sources = {}
  BY <1>1 DEF IInv, Entries
<1>3. w_list \in Seq(Entry)
  BY EntryType
<1>4. DOMAIN w_list = {}
  BY <1>2 DEF Sources
<1> QED BY <1>1, <1>3, <1>4

\* The kill goes on to the scheduler.
LEMMA SvrKillKeeps ==
  ASSUME IInv, h6_local_proxy_svr_kill
  PROVE  IInv'
<1> USE DEF placement
<1>1. /\ main.pc = "lsn_set_kill" /\ lsn_list = <<>> /\ UNCHANGED <<listener, lsn_list>>
      /\ svr' = [svr EXCEPT !.lsn_set = "freed", !.cli_set = "freed"]
      /\ UNCHANGED <<placement, phase, home, owned, asked, open, thread>>
  BY DEF h6_local_proxy_svr_kill, h6_sched_free, schedVars
<1>2. PICK pc \in {"h6_sched_free", "svr_fin"} :
        /\ main' = [main EXCEPT !.pc = pc]
        /\ pc = "h6_sched_free" => sched = "up" /\ sched' = "quit" /\ idx' = 0
        /\ pc = "svr_fin" => sched = "none" /\ UNCHANGED <<sched, idx>>
  <2>1. sched \in {"none", "up"}
    BY <1>1 DEF IInv, MainPlaced
  <2> QED BY <2>1 DEF h6_local_proxy_svr_kill, h6_sched_free, schedVars, Goto
<1>3. TypeOK /\ SchedTypeOK /\ Running /\ MainPlaced
  BY <1>1 DEF IInv, TypeOK, Running
<1>4. w_list = <<>> /\ \A l \in Listeners : ~InList(l)
  BY <1>1, <1>3, NothingListed
<1>5. SchedTypeOK'
  BY <1>1, <1>2, <1>3, AmountAssumption DEF SchedTypeOK
<1>6. TypeOK'
  BY <1>1, <1>2, <1>3, <1>5 DEF TypeOK, Mem
<1>7. PlacementAccounted'
  <2>1. WeightsAddUp'
    BY <1>1, <1>2 DEF IInv, PlacementAccounted, WeightsAddUp, WeightAt, PlacedOn
  <2>2. PlacedWhereListed'
    BY <1>1, <1>2 DEF IInv, PlacementAccounted, PlacedWhereListed, Sources
  <2> QED BY <2>1, <2>2 DEF PlacementAccounted
<1>8. ListenerOwned'
  BY <1>1, <1>2, <1>3, <1>4 DEF IInv, TypeOK, ListenerOwned, InList, Binding, Running
<1>9. MainPlaced'
  BY <1>1, <1>2, <1>3 DEF TypeOK, MainPlaced
<1>10. AllLife'
  BY <1>1, <1>2, <1>3 DEF IInv, TypeOK, AllLife, Life, InList, Binding, Finalizing, Running
<1>11. Entries'
  <2>1. Sources' = Sources
    BY <1>1 DEF Sources
  <2> QED BY <1>1, <1>2, <1>3, <1>4, <2>1 DEF IInv, TypeOK, Entries, InList
<1>12. AllEvents'
  BY <1>1, <1>2, <1>3, LoopTypes DEF TypeOK, AllEvents, EventPlaced
<1>13. AllLoops'
  <2> SUFFICES ASSUME NEW k \in Loops PROVE LoopPlaced(k)'
    BY DEF AllLoops
  <2>1. LoopPlaced(k) /\ k \in Nat /\ k < Amount
    BY LoopTypes, AmountAssumption DEF Loops
  <2> QED BY <1>1, <1>2, <2>1 DEF LoopPlaced
<1>14. Joined'
  BY <1>1, <1>2, AmountAssumption DEF IInv, Joined
<1> QED BY <1>6, <1>7, <1>8, <1>9, <1>10, <1>11, <1>12, <1>13, <1>14 DEF IInv, AllLife, AllEvents, AllLoops

\* Each loop in turn is told to quit, and joined.
LEMMA SchedFreeKeeps ==
  ASSUME IInv, h6_svr_sched_free
  PROVE  IInv'
<1> USE DEF placement
<1>1. /\ main.pc = "h6_sched_free"
      /\ UNCHANGED <<listener, lsn_list, svr, weight, total_weight, phase, home, owned, asked, thread>>
      /\ main' = [main EXCEPT !.pc = IF sched' = "freed" THEN "svr_fin" ELSE "h6_sched_free"]
  BY DEF h6_svr_sched_free, QuitLoop, JoinLoop, Goto
<1>2. /\ TypeOK /\ SchedTypeOK /\ Running /\ MainPlaced /\ w_list = <<>>
      /\ sched \in {"quit", "join"} /\ idx \in Nat /\ idx < Amount /\ Amount \in Nat
  BY <1>1, AmountAssumption DEF IInv, TypeOK, SchedTypeOK, Running, MainPlaced, Entries, Joined
<1>3. /\ w_list' = w_list
      /\ \/ /\ sched = "quit" /\ sched' = "join" /\ idx' = idx
            /\ open' = [open EXCEPT ![idx] = FALSE]
         \/ /\ sched = "join" /\ idx' = idx + 1 /\ open' = open
            /\ thread[idx].pc \in {"ended", "skipped"}
            /\ sched' = IF idx + 1 < Amount THEN "quit" ELSE "freed"
  BY <1>2 DEF h6_svr_sched_free, QuitLoop, JoinLoop
<1>4. sched' \in {"quit", "join", "freed"} /\ idx' \in 0..Amount /\ open' \in [Loops -> BOOLEAN]
  <2>1. open \in [Loops -> BOOLEAN] /\ idx + 1 \in 0..Amount
    BY <1>2 DEF SchedTypeOK
  <2>2. sched' \in {"quit", "join", "freed"}
    BY <1>3
  <2>3. idx' \in 0..Amount
    BY <1>2, <1>3, <2>1
  <2>4. open' \in [Loops -> BOOLEAN]
    BY <1>3, <2>1
  <2> QED BY <2>2, <2>3, <2>4
<1>5. SchedTypeOK'
  BY <1>1, <1>2, <1>3, <1>4 DEF SchedTypeOK
<1>6. TypeOK'
  BY <1>1, <1>2, <1>5 DEF TypeOK
<1>7. PlacementAccounted'
  <2>1. WeightsAddUp'
    BY <1>4 DEF WeightsAddUp
  <2>2. PlacedWhereListed'
    BY <1>1, <1>2, <1>3 DEF IInv, PlacementAccounted, PlacedWhereListed, Sources
  <2> QED BY <2>1, <2>2 DEF PlacementAccounted
<1>8. ListenerOwned'
  BY <1>1, <1>2 DEF IInv, TypeOK, ListenerOwned, InList, Binding, Running
<1>9. MainPlaced'
  BY <1>1, <1>2, <1>4 DEF TypeOK, MainPlaced
<1>10. AllLife'
  BY <1>1, <1>2 DEF IInv, TypeOK, AllLife, Life, InList, Binding, Finalizing, Running
<1>11. Entries'
  <2>1. Sources' = Sources
    BY <1>3 DEF Sources
  <2> QED BY <1>1, <1>2, <1>3, <2>1 DEF IInv, TypeOK, Entries, InList, Running
<1>12. AllEvents'
  BY <1>1, <1>2, <1>4, LoopTypes DEF TypeOK, AllEvents, EventPlaced
<1>13. AllLoops'
  <2> SUFFICES ASSUME NEW k \in Loops PROVE LoopPlaced(k)'
    BY DEF AllLoops
  <2>1. LoopPlaced(k) /\ k \in Nat /\ k < Amount
    BY LoopTypes, AmountAssumption DEF Loops
  <2>2. thread'[k] = thread[k] /\ home' = home /\ phase' = phase /\ owned' = owned
    BY <1>1
  <2>3. CASE sched = "quit"
    BY <1>2, <1>3, <2>1, <2>2, <2>3 DEF LoopPlaced, SchedTypeOK
  <2>4. CASE sched = "join"
    <3>1. idx' = idx + 1 /\ open' = open /\ sched' \in {"quit", "freed"}
          /\ (sched' = "quit" <=> idx + 1 < Amount)
          /\ thread[idx].pc \in {"ended", "skipped"}
      BY <1>3, <2>4
    <3>2. open[k] <=> k > idx
      BY <2>1, <2>4 DEF LoopPlaced
    <3>3. open'[k] <=> k > idx' \/ (k = idx' /\ sched' = "quit")
      BY <1>2, <2>1, <3>1, <3>2
    <3>4. k < idx' => thread'[k].pc \in {"ended", "skipped"}
      BY <1>2, <2>1, <2>2, <3>1 DEF LoopPlaced
    <3> QED BY <1>2, <2>1, <2>2, <2>4, <3>1, <3>3, <3>4 DEF LoopPlaced
  <2> QED BY <1>2, <2>3, <2>4
<1>14. Joined'
  BY <1>2, <1>3 DEF Joined
<1> QED BY <1>6, <1>7, <1>8, <1>9, <1>10, <1>11, <1>12, <1>13, <1>14 DEF IInv, AllLife, AllEvents, AllLoops

\* The server is freed last.
LEMMA SvrFinKeeps ==
  ASSUME IInv, h6_local_proxy_svr_fin_this
  PROVE  IInv'
<1>1. main.pc = "svr_fin" /\ UNCHANGED schedVars /\ UNCHANGED <<listener, lsn_list>>
  BY DEF h6_local_proxy_svr_fin_this
<1>2. UNCHANGED <<sched, w_list, phase, home, owned, asked, thread>>
  BY <1>1 DEF schedVars, placement
<1>3. TypeOK /\ Running /\ MainPlaced /\ \A l \in Listeners : ~InList(l)
  <2>1. TypeOK /\ Running /\ MainPlaced
    BY <1>1 DEF IInv, Running
  <2>2. lsn_list = <<>>
    BY <1>1, <2>1 DEF MainPlaced
  <2> QED BY <1>1, <2>1, <2>2, NothingListed
<1>4. PICK pc \in {"done", "aborted"} :
        /\ main' = [main EXCEPT !.pc = pc]
        /\ pc = "done" => svr' = [svr EXCEPT !.mem = "freed"]
        /\ pc = "aborted" => svr' = svr
  BY DEF h6_local_proxy_svr_fin_this, Goto
<1>5. SchedTypeOK' /\ PlacementAccounted' /\ AllLoops' /\ Joined'
  BY <1>1, SchedFrame
<1>6. TypeOK'
  BY <1>1, <1>3, <1>4, <1>5 DEF TypeOK, Mem
<1>7. ListenerOwned'
  BY <1>1, <1>2, <1>3, <1>4 DEF IInv, TypeOK, ListenerOwned, InList, Binding, Running
<1>8. MainPlaced'
  BY <1>1, <1>2, <1>3, <1>4 DEF TypeOK, MainPlaced
<1>9. AllLife'
  BY <1>1, <1>2, <1>3, <1>4 DEF IInv, TypeOK, AllLife, Life, InList, Binding, Finalizing, Running
<1>10. Entries'
  <2>1. Sources' = Sources
    BY <1>2 DEF Sources
  <2> QED BY <1>1, <1>2, <1>3, <1>4, <2>1 DEF IInv, TypeOK, Entries, InList, Running
<1>11. AllEvents'
  BY <1>1, <1>2, <1>3, <1>4, LoopTypes DEF TypeOK, AllEvents, EventPlaced
<1> QED BY <1>5, <1>6, <1>7, <1>8, <1>9, <1>10, <1>11 DEF IInv, AllLife, AllEvents, AllLoops

\* Where nothing happens the invariant stays.
LEMMA StutterKeeps ==
  ASSUME IInv, UNCHANGED vars
  PROVE  IInv'
<1>1. UNCHANGED schedVars /\ UNCHANGED <<listener, lsn_list, svr, main>>
  BY DEF vars
<1>2. UNCHANGED <<elsewhere, phase, asked, thread>>
  BY <1>1 DEF schedVars, elsewhere, placement
<1>3. SchedTypeOK' /\ AllLoops'
  BY <1>1, SchedFrame
<1>4. AllEvents'
  BY <1>1, <1>2, LoopTypes DEF AllEvents, EventPlaced, elsewhere
<1>5. InLoops' = InLoops
  BY <1>2 DEF InLoops
<1> QED BY <1>1, <1>2, <1>3, <1>4, <1>5, LoopFrame

-----------------------------------------------------------------------------
(* The theorems *)

\* Every step of a loop's thread keeps the invariant.
LEMMA LoopKeeps ==
  ASSUME IInv, NEW k \in Loops, LoopStep(k), UNCHANGED <<listener, lsn_list, svr, main>>
  PROVE  IInv'
<1>1. CASE LoopQuits(k)
  BY <1>1, QuitsKeeps
<1>2. CASE \E e \in Events : Enter(k, e) \/ Leave(k, e) \/ Serve(k, e)
  BY <1>2, EnterKeeps, LeaveKeeps, ServeKeeps
<1>3. CASE LoopContinues(k)
  BY <1>3, ThreadFunKeeps, DropKeeps, NotifiedKeeps, ServedKeeps DEF LoopContinues
<1> QED BY <1>1, <1>2, <1>3 DEF LoopStep, LoopOperation

\* Every step keeps the invariant.
LEMMA NextKeeps == IInv /\ [Next]_vars => IInv'
<1> SUFFICES ASSUME IInv, [Next]_vars PROVE IInv'
  OBVIOUS
<1>1. CASE MainCalls
  BY <1>1, RunKeeps, RemovePortKeeps, BindPortKeeps, KillUnrefKeeps DEF MainCalls
<1>2. CASE MainContinues
  BY <1>2, SetPortKeeps, SetAddKeeps, BindPortUnrefKeeps, FinSchedKeeps, FinUnrefKeeps,
     FinThisKeeps, SetKillKeeps, SvrKillKeeps, SchedFreeKeeps, SvrFinKeeps DEF MainContinues
<1>3. CASE Loop
  BY <1>3, LoopKeeps DEF Loop
<1>4. CASE UNCHANGED vars
  BY <1>4, StutterKeeps
<1> QED BY <1>1, <1>2, <1>3, <1>4 DEF Next

\* The invariant holds always.
LEMMA Invariance == Spec => []IInv
<1> QED BY InitHolds, NextKeeps, PTL DEF Spec

\* The state of server, listeners, scheduler and loops has its type; a listener's
\* reference count stays within 0..2.
THEOREM TypeCorrect == Spec => []TypeOK
<1>1. IInv => TypeOK
  BY DEF IInv
<1> QED BY <1>1, Invariance, PTL

\* The scheduler's list, its sums of weights and its loops agree about the events that
\* are there (h6_sched_add, h6_sched_remove), however adds and removes interleave with
\* the threads of the loops.
THEOREM PlacementCorrect == Spec => []PlacementAccounted
<1>1. IInv => PlacementAccounted
  BY DEF IInv
<1> QED BY <1>1, Invariance, PTL

\* A listener is counted by the set and by a bind_port in progress and linked exactly
\* while the list holds it (obj.c, lsn_set_add, lsn_set_del, lsn_set_self_kill).
THEOREM OwnershipCorrect == Spec => []ListenerOwned
<1>1. IInv => ListenerOwned
  BY DEF IInv
<1> QED BY <1>1, Invariance, PTL

\* No loop is released while its thread runs, and the server outlives all of them
\* (h6_sched_free inside h6_local_proxy_svr_kill).
THEOREM ShutdownOrdered == Spec => []ServerOutlivesThreads
<1>1. IInv => ServerOutlivesThreads
  <2> SUFFICES ASSUME IInv, NEW k \in Loops, k < idx \/ svr.mem = "freed"
               PROVE  thread[k].pc \in {"created", "ended", "skipped"}
                      /\ (thread[k].pc = "created" => sched = "none")
    BY DEF ServerOutlivesThreads
  <2>1. LoopPlaced(k) /\ k < Amount
    BY LoopTypes, AmountAssumption DEF Loops
  <2>2. CASE k < idx
    BY <2>1, <2>2 DEF LoopPlaced
  <2>3. CASE svr.mem = "freed"
    <3>1. sched \in {"none", "freed"}
      BY <2>3 DEF IInv, MainPlaced
    <3>2. sched = "freed" => k < idx
      BY <2>1 DEF IInv, Joined
    <3> QED BY <2>1, <3>1, <3>2 DEF LoopPlaced
  <2> QED BY <2>2, <2>3
<1> QED BY <1>1, Invariance, PTL

\* When the server is gone, no listener, no open socket and no event is left, save what
\* is queued in a loop that was told to quit before its thread ran (h6_ev.c 246).
THEOREM NothingLeft == Spec => []NothingLeftBehind
<1>1. IInv => NothingLeftBehind
  <2> SUFFICES ASSUME IInv, main.pc = "done", NEW l \in Listeners
               PROVE  /\ listener[l].mem \in {"unborn", "freed"} /\ listener[l].sock # "open"
                      /\ \/ phase[l] \in {"unborn", "freed"}
                         \/ phase[l] = "queued" /\ NeverRan(home[l])
    BY DEF NothingLeftBehind
  <2>1. /\ Running /\ lsn_list = <<>> /\ sched \in {"none", "freed"}
        /\ TypeOK /\ SchedTypeOK /\ l \in Events /\ Life(l) /\ EventPlaced(l)
    BY DEF Running, IInv, MainPlaced, TypeOK, Listeners
  <2>2. ~InList(l) /\ ~Binding(l) /\ ~Finalizing(l)
    BY <2>1, NothingListed DEF Binding, Finalizing
  <2>3. listener[l].mem \in {"unborn", "freed"} /\ ~owned[l]
    BY <2>1, <2>2 DEF Life, TypeOK, Mem
  <2>4. listener[l].sock # "open"
    BY <2>1, <2>3 DEF Life
  <2>5. CASE home[l] = NoLoop
    BY <2>1, <2>4, <2>3, <2>5 DEF EventPlaced
  <2>6. CASE home[l] # NoLoop /\ sched = "freed"
    <3> DEFINE k == home[l]
    <3>1. k \in Loops /\ k < Amount
      BY <2>1, <2>6, AmountAssumption DEF SchedTypeOK, Loops
    <3>2. thread[k].pc \in {"ended", "skipped"}
      BY <2>6, <3>1, LoopTypes DEF LoopPlaced, IInv, Joined
    <3>3. CASE thread[k].pc = "skipped"
      BY <2>1, <2>3, <2>4, <2>6, <3>1, <3>3 DEF EventPlaced, NeverRan
    <3>4. CASE thread[k].pc = "ended"
      BY <2>1, <2>3, <2>4, <2>6, <3>1, <3>4 DEF EventPlaced, SchedTypeOK
    <3> QED BY <3>2, <3>3, <3>4
  <2> QED BY <2>1, <2>3, <2>4, <2>5, <2>6 DEF EventPlaced
<1> QED BY <1>1, Invariance, PTL

\* The loop that the next event goes to is the first of the lightest ones.
\* h6_find_best_loop starts from the total weight and loop 0, and passes over every loop
\* that is as heavy as all of them together (165-182).
BestIsLightest == sched = "up" => h6_find_best_loop \in Loops /\ BestOf(h6_find_best_loop, Loops)

\* No two loops have more than the total weight.
LEMMA LoopsShare ==
  ASSUME SchedTypeOK, WeightsAddUp, sched = "up", NEW j \in Loops, NEW k \in Loops
  PROVE  weight[j] <= total_weight /\ (j # k => weight[j] + weight[k] <= total_weight)
<1> DEFINE f == Weights(w_list)
           D == On(w_list, Loops)
           P == On(w_list, {j})
           Q == On(w_list, {k})
<1>1. w_list \in Seq(Entry)
  BY DEF SchedTypeOK, Entry
<1>2. total_weight = Total(f, D) /\ weight[j] = Total(f, P) /\ weight[k] = Total(f, Q)
  BY <1>1, WeightsAre DEF WeightsMatch, WeightsAddUp
<1>3. IsFiniteSet(D) /\ \A x \in D : f[x] \in Nat
  BY <1>1, WeightsType
<1>4. P \in SUBSET D /\ (j # k => Q \in SUBSET (D \ P))
  BY DEF On
<1> HIDE DEF f, D, P, Q
<1>5. IsFiniteSet(D \ P) /\ IsFiniteSet(P) /\ IsFiniteSet((D \ P) \ Q)
  BY <1>3, <1>4, FS_Subset
<1>6. /\ Total(f, D \ P) \in Nat /\ Total(f, P) \in Nat /\ Total(f, (D \ P) \ Q) \in Nat
      /\ Total(f, D) = Total(f, P) + Total(f, D \ P)
  BY <1>3, <1>4, <1>5, TotalType, TotalDifference
<1>7. ASSUME j # k
      PROVE  Total(f, D \ P) = Total(f, Q) + Total(f, (D \ P) \ Q)
  BY <1>3, <1>4, <1>5, <1>7, TotalDifference
<1>8. weight[k] \in Nat
  BY DEF SchedTypeOK
<1> QED BY <1>2, <1>6, <1>7, <1>8

\* So a loop that is passed over is never lighter than the one that is found.
LEMMA BestLightest == IInv => BestIsLightest
<1> DEFINE b == h6_find_best_loop
<1> SUFFICES ASSUME IInv, sched = "up"
             PROVE  b \in Loops /\ BestOf(b, Loops)
  BY DEF BestIsLightest
<1>1. SchedTypeOK /\ WeightsAddUp
  BY DEF IInv, TypeOK, PlacementAccounted
<1>2. /\ total_weight \in Nat /\ 0 \in Loops
      /\ \A k \in Loops : k \in Nat /\ weight[k] \in Nat
  BY <1>1, AmountAssumption DEF SchedTypeOK, Loops
<1>3. CASE Lighter = {}
  <2>1. b = 0
    BY <1>3 DEF h6_find_best_loop, Lighter
  <2> HIDE DEF b
  <2>2. ASSUME NEW k \in Loops, k # 0 PROVE weight[0] = weight[k]
    <3>1. ~(weight[0] < total_weight) /\ ~(weight[k] < total_weight)
      BY <1>2, <1>3 DEF Lighter
    <3>2. weight[0] + weight[k] <= total_weight
      BY <1>1, <1>2, <2>2, LoopsShare
    <3> QED BY <1>2, <3>1, <3>2
  <2> QED BY <1>2, <2>1, <2>2 DEF BestOf
<1>4. CASE Lighter # {}
  <2>1. b \in Lighter /\ BestOf(b, Lighter)
    BY <1>1, <1>4, BestOfLighter
  <2> HIDE DEF b
  <2>2. b \in Loops /\ weight[b] \in Nat /\ weight[b] < total_weight
    BY <1>2, <2>1 DEF Lighter
  <2>3. ASSUME NEW k \in Loops
        PROVE  weight[b] < weight[k] \/ (weight[b] = weight[k] /\ b <= k)
    <3>1. CASE k \in Lighter
      BY <2>1, <3>1 DEF BestOf
    <3>2. CASE k \notin Lighter
      <4>1. ~(weight[k] < total_weight)
        BY <3>2 DEF Lighter
      <4> QED BY <1>2, <2>2, <4>1
    <3> QED BY <3>1, <3>2
  <2> QED BY <2>2, <2>3 DEF BestOf
<1> QED BY <1>3, <1>4

\* However the events came and went, the next one goes to the first of the lightest loops:
\* the shortcut of h6_find_best_loop is right because the total is the sum of the weights.
THEOREM LightestLoopFound == Spec => []BestIsLightest
<1> QED BY Invariance, BestLightest, PTL

-----------------------------------------------------------------------------
(* The kill of a server with a port bound *)

KillFindsListener == main.pc = "lsn_set_kill" /\ lsn_list # <<>>

\* The kill has a listener to take, or has taken one out of the list with list_del, which
\* its finalizer does not survive.
Doomed ==
  \/ main.pc = "aborted"
  \/ KillFindsListener
  \/ /\ main.pc \in {"h6_sched_remove", "h6_ev_unref", "listener_fin_this"}
     /\ listener[main.lsn].node = "null"

\* The first listener of the list has the list's reference and no other, so that its
\* finalizer runs at once.
LEMMA SelfKillDooms ==
  ASSUME IInv, lsn_set_self_kill
  PROVE  Doomed'
<1> DEFINE l == Head(lsn_list)
           u == [listener EXCEPT ![l].node = "null"]
<1>1. /\ main.pc = "lsn_set_kill" /\ lsn_list # <<>>
      /\ \/ /\ listener' = [u EXCEPT ![l].refs = @ - 1]
            /\ main' = [pc |-> IF u[l].refs = 1 THEN "h6_sched_remove" ELSE "lsn_set_kill",
                        lsn |-> l, then |-> "lsn_set_kill"]
         \/ main' = [main EXCEPT !.pc = "aborted"]
  BY DEF lsn_set_self_kill, ObjUnref, Goto
<1>2. lsn_list \in Seq(Listeners) /\ IsInjective(lsn_list) /\ TypeOK /\ Running
  BY <1>1 DEF IInv, TypeOK, MainPlaced, Running
<1>3. l \in Listeners /\ InList(l)
  BY <1>1, <1>2, TailEntries DEF InList
<1>4. listener[l].refs = 1
  BY <1>1, <1>2, <1>3 DEF IInv, ListenerOwned, Binding
<1> HIDE DEF l
<1>5. CASE main' = [main EXCEPT !.pc = "aborted"]
  <2>1. main'.pc = "aborted"
    BY <1>2, <1>5 DEF TypeOK
  <2> QED BY <2>1 DEF Doomed
<1>6. CASE /\ listener' = [u EXCEPT ![l].refs = @ - 1]
           /\ main' = [pc |-> IF u[l].refs = 1 THEN "h6_sched_remove" ELSE "lsn_set_kill",
                       lsn |-> l, then |-> "lsn_set_kill"]
  <2>1. u[l].refs = 1 /\ u[l].node = "null" /\ DOMAIN u = Listeners
    BY <1>2, <1>3, <1>4 DEF TypeOK
  <2> HIDE DEF u
  <2>2. main'.pc = "h6_sched_remove" /\ main'.lsn = l
    BY <1>6, <2>1
  <2>3. listener'[l].node = "null"
    BY <1>3, <1>6, <2>1
  <2> QED BY <2>2, <2>3 DEF Doomed
<1> QED BY <1>1, <1>5, <1>6

\* There is no way back: the finalizer goes on to the assertion, which stops the program.
LEMMA DoomedStays == IInv /\ Doomed /\ [Next]_vars => Doomed'
<1> SUFFICES ASSUME IInv, Doomed, [Next]_vars PROVE Doomed'
  OBVIOUS
<1>1. TypeOK
  BY DEF IInv
<1>2. CASE UNCHANGED <<main, listener, lsn_list>>
  BY <1>2 DEF Doomed, KillFindsListener
<1>3. CASE MainCalls
  <2>1. main.pc = "idle"
    BY <1>3 DEF MainCalls, h6_local_proxy_server_run, h6_local_proxy_server_remove_port,
       h6_local_proxy_server_bind_port, h6_local_proxy_server_kill_unref
  <2> QED BY <2>1 DEF Doomed, KillFindsListener
<1>4. CASE lsn_set_self_kill
  BY <1>4, SelfKillDooms
<1>5. CASE h6_listener_fin_sched \/ h6_listener_fin_unref
  <2>1. /\ main.pc \in {"h6_sched_remove", "h6_ev_unref"} /\ listener' = listener
        /\ \E pc \in {"h6_ev_unref", "listener_fin_this"} : main' = [main EXCEPT !.pc = pc]
    BY <1>5 DEF h6_listener_fin_sched, h6_listener_fin_unref, Goto
  <2>2. listener[main.lsn].node = "null"
    BY <2>1 DEF Doomed, KillFindsListener
  <2>3. main'.pc \in {"h6_ev_unref", "listener_fin_this"} /\ main'.lsn = main.lsn
    BY <1>1, <2>1 DEF TypeOK
  <2> QED BY <2>1, <2>2, <2>3 DEF Doomed
<1>6. CASE listener_fin_this
  <2>1. main.pc = "listener_fin_this"
    BY <1>6 DEF listener_fin_this
  <2>2. listener[main.lsn].node # "self"
    BY <2>1 DEF Doomed, KillFindsListener
  <2>3. main'.pc = "aborted"
    BY <1>1, <1>6, <2>2 DEF listener_fin_this, Goto, TypeOK
  <2> QED BY <2>3 DEF Doomed
<1>7. CASE h6_listener_set_port \/ lsn_set_add \/ BindPortUnref \/ h6_local_proxy_svr_kill
           \/ h6_svr_sched_free \/ h6_local_proxy_svr_fin_this
  <2>1. \/ main.pc \in {"h6_sched_add", "lsn_set_add", "obj_unref", "h6_sched_free", "svr_fin"}
        \/ main.pc = "lsn_set_kill" /\ lsn_list = <<>>
    BY <1>7 DEF h6_listener_set_port, lsn_set_add, BindPortUnref, h6_local_proxy_svr_kill,
       h6_svr_sched_free, h6_local_proxy_svr_fin_this
  <2> QED BY <2>1 DEF Doomed, KillFindsListener
<1>8. CASE Loop
  BY <1>2, <1>8 DEF Loop
<1> QED BY <1>2, <1>3, <1>4, <1>5, <1>6, <1>7, <1>8 DEF Next, MainContinues, vars

\* For every number of loops and ports: a server that is killed with a port bound never
\* ends its kill, as lsn_set_self_kill takes the listener out of the list in a way that
\* the assertion of its finalizer refuses (listener.c 14-18, 257-280).
THEOREM KillOfListenersAborts ==
  Spec => [](KillFindsListener => [](main.pc # "done"))
<1>1. KillFindsListener => Doomed
  BY DEF Doomed
<1>2. Doomed => main.pc # "done"
  BY DEF Doomed, KillFindsListener
<1> QED BY <1>1, <1>2, DoomedStays, Invariance, PTL DEF Spec

-----------------------------------------------------------------------------
(* Server and scheduler use a loop k as EvLifecycle allows *)

View(p, h, k) == [e \in Events |-> IF h[e] = k \/ p[e] \in {"unborn", "freed"} THEN p[e] ELSE "ready"]
InCallback(t, k) == IF t[k].pc \in {"accept", "timer"} THEN t[k].ev ELSE NoEvent

\* One step of EvLifecycle, or none, from the view P with S served and open if O
LifecycleStep(P, Q, S, T, O, U) ==
  LET Move(e, from, to) == P[e] \in from /\ Q = [P EXCEPT ![e] = to] /\ T = S /\ U = O
  IN \/ Q = P /\ T = S /\ U = O
     \/ \E e \in Events :
          \/ Move(e, {"unborn"}, "ready")
          \/ O /\ Move(e, {"ready"}, "queued")
          \/ S = NoEvent /\ Move(e, {"queued"}, "watched")
          \/ S = NoEvent /\ Move(e, {"watched"}, "out")
          \/ S # e /\ Move(e, {"ready", "out"}, "freed")
          \/ S = NoEvent /\ P[e] = "watched" /\ T = e /\ Q = P /\ U = O
     \/ S # NoEvent /\ T = NoEvent /\ Q = P /\ U = O
     \/ O /\ U = FALSE /\ Q = P /\ T = S

StepOf(k) == LifecycleStep(View(phase, home, k), View(phase', home', k),
                           InCallback(thread, k), InCallback(thread', k), open[k], open'[k])

\* Steps that no loop sees.
LEMMA UnseenStep ==
  ASSUME UNCHANGED <<phase, home, open>>, NEW k \in Loops,
         InCallback(thread', k) = InCallback(thread, k)
  PROVE  StepOf(k)
  BY DEF StepOf, LifecycleStep

\* For each loop, a bind creates an event, or is nothing to it.
LEMMA CreateStep ==
  ASSUME IInv, NEW k \in Loops, NEW l \in Listeners, NEW p \in Ports,
         h6_local_proxy_server_bind_port(l, p)
  PROVE  StepOf(k)
<1>1. /\ phase[l] = "unborn" /\ phase' = [phase EXCEPT ![l] = "ready"]
      /\ UNCHANGED <<home, thread, open>>
  BY DEF h6_local_proxy_server_bind_port, h6_ev_new
<1>2. l \in Events /\ home[l] # k /\ SchedTypeOK
  BY <1>1, LoopTypes DEF EventPlaced, Listeners
<1>3. View(phase, home, k)[l] = "unborn"
  BY <1>1, <1>2 DEF View
<1>4. View(phase', home', k) = [View(phase, home, k) EXCEPT ![l] = "ready"]
  BY <1>1, <1>2 DEF View, SchedTypeOK
<1> QED BY <1>1, <1>2, <1>3, <1>4 DEF StepOf, LifecycleStep

\* Placing an event is an accept of its loop, which is open.
LEMMA AcceptStep ==
  ASSUME IInv, NEW k \in Loops, h6_listener_set_port
  PROVE  StepOf(k)
<1> DEFINE e == main.lsn
           b == h6_find_best_loop
<1>1. e \in Events /\ phase[e] = "ready" /\ home[e] = NoLoop /\ sched = "up" /\ SchedTypeOK
  <2>1. e \in Events /\ main.pc = "h6_sched_add" /\ sched = "up" /\ SchedTypeOK
    BY DEF h6_listener_set_port, IInv, TypeOK, MainPlaced, Listeners
  <2> QED BY <2>1, LoopTypes DEF EventPlaced
<1>2. b \in Loops /\ b # NoLoop /\ open[b] /\ k # NoLoop /\ open[k]
  BY <1>1, BestLoop, LoopTypes DEF LoopPlaced
<1>3. /\ phase' = [phase EXCEPT ![e] = "queued"] /\ home' = [home EXCEPT ![e] = b]
      /\ UNCHANGED <<open, thread>>
  BY <1>2 DEF h6_listener_set_port, h6_sched_add, h6_loop_add_source
<1> HIDE DEF e, b
<1>4. View(phase, home, k)[e] = "ready"
  BY <1>1, <1>2 DEF View
<1>5. CASE b = k
  <2>1. View(phase', home', k) = [View(phase, home, k) EXCEPT ![e] = "queued"]
    BY <1>1, <1>2, <1>3, <1>5 DEF View, SchedTypeOK
  <2> QED BY <1>1, <1>2, <1>3, <1>4, <2>1 DEF StepOf, LifecycleStep
<1>6. CASE b # k
  <2>1. View(phase', home', k) = View(phase, home, k)
    BY <1>1, <1>2, <1>3, <1>6 DEF View, SchedTypeOK
  <2> QED BY <1>3, <2>1 DEF StepOf, LifecycleStep
<1> QED BY <1>5, <1>6

\* An event is freed by its maker or by the thread of the loop that had it; no loop has
\* it under its callback.
LEMMA FreeStep ==
  ASSUME IInv, NEW k \in Loops, NEW e \in Events, phase[e] = "out",
         phase' = [phase EXCEPT ![e] = "freed"], UNCHANGED <<home, open>>,
         InCallback(thread', k) = InCallback(thread, k)
  PROVE  StepOf(k)
<1>1. InCallback(thread, k) # e
  BY LoopTypes DEF InCallback, LoopPlaced
<1>2. View(phase, home, k)[e] \in {"ready", "out"}
  BY DEF View
<1>3. View(phase', home', k) = [View(phase, home, k) EXCEPT ![e] = "freed"]
  BY LoopTypes DEF View, SchedTypeOK
<1> QED BY <1>1, <1>2, <1>3 DEF StepOf, LifecycleStep

\* The finalizer's unref releases an event.
LEMMA ReleaseStep ==
  ASSUME IInv, NEW k \in Loops, h6_listener_fin_unref
  PROVE  StepOf(k)
<1> DEFINE e == main.lsn
<1>1. /\ main.pc = "h6_ev_unref" /\ e \in Events /\ EventPlaced(e)
      /\ UNCHANGED <<home, open, thread>>
      /\ phase' = IF Unused(e) THEN [phase EXCEPT ![e] = "freed"] ELSE phase
  BY LoopTypes DEF h6_listener_fin_unref, h6_ev_unref, IInv, TypeOK, MainPlaced, Listeners
<1>2. CASE Unused(e)
  <2>1. phase[e] = "out"
    BY <1>1, <1>2 DEF Unused, EventPlaced
  <2> HIDE DEF e
  <2> QED BY <1>1, <1>2, <2>1, FreeStep
<1>3. CASE ~Unused(e)
  BY <1>1, <1>3, UnseenStep
<1> QED BY <1>2, <1>3

\* Freeing the scheduler closes one loop after the other.
LEMMA CloseStep ==
  ASSUME IInv, NEW k \in Loops, h6_svr_sched_free
  PROVE  StepOf(k)
<1>1. UNCHANGED <<phase, home, thread>>
  BY DEF h6_svr_sched_free, QuitLoop, JoinLoop
<1>2. CASE QuitLoop
  <2>1. SchedTypeOK /\ sched = "quit" /\ open' = [open EXCEPT ![idx] = FALSE]
    BY <1>2, LoopTypes DEF QuitLoop
  <2>2. CASE k = idx
    BY <1>1, <2>1, <2>2, LoopTypes DEF StepOf, LifecycleStep, LoopPlaced, SchedTypeOK
  <2>3. CASE k # idx
    BY <1>1, <2>1, <2>3 DEF StepOf, LifecycleStep, SchedTypeOK
  <2> QED BY <2>2, <2>3
<1>3. CASE JoinLoop
  BY <1>1, <1>3, UnseenStep DEF JoinLoop
<1> QED BY <1>2, <1>3 DEF h6_svr_sched_free

\* The thread of a loop j moves an event of its own.
LEMMA MoveStep ==
  ASSUME IInv, NEW k \in Loops, NEW j \in Loops, NEW e \in Events,
         Enter(j, e) \/ Leave(j, e)
  PROVE  StepOf(k)
<1>1. /\ thread[j].pc = "poll" /\ home[e] = j /\ UNCHANGED <<home, open>>
      /\ \/ phase[e] = "queued" /\ phase' = [phase EXCEPT ![e] = "watched"] /\ thread' = thread
         \/ /\ phase[e] = "watched" /\ phase' = [phase EXCEPT ![e] = "out"]
            /\ thread' = [thread EXCEPT ![j] = [pc |-> "drop", ev |-> e]]
  BY DEF Enter, Leave, Idle, Go, At, elsewhere
<1>2. SchedTypeOK
  BY LoopTypes
<1>3. InCallback(thread', k) = InCallback(thread, k)
  BY <1>1, <1>2 DEF InCallback, SchedTypeOK
<1>4. CASE j = k
  <2>1. InCallback(thread, k) = NoEvent /\ View(phase, home, k)[e] = phase[e]
    BY <1>1, <1>4 DEF InCallback, View
  <2>2. View(phase', home', k) = [View(phase, home, k) EXCEPT ![e] = phase'[e]]
    BY <1>1, <1>2, <1>4 DEF View, SchedTypeOK
  <2>3. \/ phase[e] = "queued" /\ phase'[e] = "watched"
        \/ phase[e] = "watched" /\ phase'[e] = "out"
    BY <1>1, <1>2 DEF SchedTypeOK
  <2> QED BY <1>1, <1>3, <2>1, <2>2, <2>3 DEF StepOf, LifecycleStep
<1>5. CASE j # k
  <2>1. View(phase', home', k) = View(phase, home, k)
    BY <1>1, <1>2, <1>5 DEF View, SchedTypeOK
  <2> QED BY <1>1, <1>3, <2>1 DEF StepOf, LifecycleStep
<1> QED BY <1>4, <1>5

\* A callback begins only for a watched event.
LEMMA ServeStep ==
  ASSUME IInv, NEW k \in Loops, NEW j \in Loops, NEW e \in Events, Serve(j, e)
  PROVE  StepOf(k)
<1>1. PICK pc \in {"accept", "timer"} :
        /\ thread[j].pc = "poll" /\ home[e] = j /\ phase[e] = "watched"
        /\ thread' = [thread EXCEPT ![j] = [pc |-> pc, ev |-> e]]
        /\ UNCHANGED <<home, open, phase>>
  BY DEF Serve, Idle, Go, At, elsewhere
<1>2. SchedTypeOK
  BY LoopTypes
<1>3. CASE j = k
  <2>1. InCallback(thread, k) = NoEvent /\ InCallback(thread', k) = e
        /\ View(phase, home, k)[e] = "watched"
    BY <1>1, <1>2, <1>3 DEF InCallback, View, SchedTypeOK
  <2> QED BY <1>1, <2>1 DEF StepOf, LifecycleStep
<1>4. CASE j # k
  <2>1. InCallback(thread', k) = InCallback(thread, k)
    BY <1>1, <1>2, <1>4 DEF InCallback, SchedTypeOK
  <2> QED BY <1>1, <2>1, UnseenStep
<1> QED BY <1>3, <1>4

\* The other steps of a loop's thread.
LEMMA ThreadStep ==
  ASSUME IInv, NEW k \in Loops, NEW j \in Loops, LoopContinues(j) \/ LoopQuits(j)
  PROVE  StepOf(k)
<1> USE LoopTypes
<1>1. CASE h6_loop_thread_fun(j)
  <2>1. InCallback(thread', k) = InCallback(thread, k)
    BY <1>1 DEF h6_loop_thread_fun, Go, At, InCallback, SchedTypeOK
  <2> QED BY <1>1, <2>1, UnseenStep DEF h6_loop_thread_fun, elsewhere
<1>2. CASE LoopQuits(j)
  <2>1. InCallback(thread', k) = InCallback(thread, k)
    BY <1>2 DEF LoopQuits, Idle, Go, At, InCallback, SchedTypeOK
  <2> QED BY <1>2, <2>1, UnseenStep, QuitsEmpty DEF LoopQuits, elsewhere
<1>3. CASE Drop(j)
  <2>1. InCallback(thread', k) = InCallback(thread, k)
    <3>1. thread[j].pc = "drop" /\ UNCHANGED <<phase, home, open>>
      BY <1>3 DEF Drop, elsewhere
    <3>2. PICK pc \in {"poll", "notify"}, f \in {NoEvent, thread[j].ev} :
            thread' = [thread EXCEPT ![j] = [pc |-> pc, ev |-> f]]
      BY <1>3 DEF Drop, Go, At
    <3> QED BY <3>1, <3>2 DEF InCallback, SchedTypeOK
  <2> QED BY <1>3, <2>1, UnseenStep DEF Drop, elsewhere
<1>4. CASE Notified(j)
  <2>1. PICK e \in Events :
          /\ thread[j].pc = "notify" /\ phase[e] = "out"
          /\ phase' = [phase EXCEPT ![e] = "freed"]
          /\ thread' = [thread EXCEPT ![j] = [pc |-> "poll", ev |-> NoEvent]]
          /\ UNCHANGED <<home, open>>
    <3>1. LoopPlaced(j) /\ thread[j].pc = "notify"
      BY <1>4 DEF Notified
    <3>2. thread[j].ev \in Events /\ phase[thread[j].ev] = "out"
      BY <3>1 DEF LoopPlaced, SchedTypeOK
    <3> QED BY <1>4, <3>1, <3>2 DEF Notified, Go, At, elsewhere
  <2>2. InCallback(thread', k) = InCallback(thread, k)
    BY <2>1 DEF InCallback, SchedTypeOK
  <2> QED BY <2>1, <2>2, FreeStep
<1>5. CASE Served(j)
  <2>1. /\ thread[j].pc \in {"accept", "timer"} /\ UNCHANGED <<phase, home, open>>
        /\ thread' = [thread EXCEPT ![j] = [pc |-> "poll", ev |-> NoEvent]]
    BY <1>5 DEF Served, Go, At, elsewhere
  <2>2. CASE j = k
    <3>1. InCallback(thread, k) # NoEvent /\ InCallback(thread', k) = NoEvent
      BY <2>1, <2>2 DEF InCallback, SchedTypeOK, LoopPlaced
    <3> QED BY <2>1, <3>1 DEF StepOf, LifecycleStep
  <2>3. CASE j # k
    <3>1. InCallback(thread', k) = InCallback(thread, k)
      BY <2>1, <2>3 DEF InCallback, SchedTypeOK
    <3> QED BY <2>1, <3>1, UnseenStep
  <2> QED BY <2>2, <2>3
<1> QED BY <1>1, <1>2, <1>3, <1>4, <1>5 DEF LoopContinues

\* Every step of the system is one of the loop's life cycle, or nothing to it.
LEMMA NextStep ==
  ASSUME IInv, [Next]_vars, NEW k \in Loops
  PROVE  StepOf(k)
<1>1. CASE MainCalls
  <2>1. CASE h6_local_proxy_server_run \/ h6_local_proxy_server_kill_unref
             \/ \E p \in Ports : h6_local_proxy_server_remove_port(p)
    BY <2>1, UnseenStep DEF h6_local_proxy_server_run, h6_sched_new,
       h6_local_proxy_server_kill_unref, h6_local_proxy_server_remove_port, schedVars
  <2> QED BY <1>1, <2>1, CreateStep DEF MainCalls
<1>2. CASE MainContinues
  <2>1. CASE \/ lsn_set_add \/ BindPortUnref \/ h6_listener_fin_sched \/ listener_fin_this
             \/ lsn_set_self_kill \/ h6_local_proxy_svr_kill \/ h6_local_proxy_svr_fin_this
    BY <2>1, UnseenStep DEF lsn_set_add, BindPortUnref, h6_listener_fin_sched, h6_sched_remove,
       listener_fin_this, lsn_set_self_kill, h6_local_proxy_svr_kill, h6_sched_free,
       h6_local_proxy_svr_fin_this, schedVars
  <2> QED BY <1>2, <2>1, AcceptStep, ReleaseStep, CloseStep DEF MainContinues
<1>3. CASE Loop
  <2>1. PICK j \in Loops : LoopStep(j)
    BY <1>3 DEF Loop
  <2> QED BY <2>1, MoveStep, ServeStep, ThreadStep DEF LoopStep, LoopOperation
<1>4. CASE UNCHANGED vars
  BY <1>4, UnseenStep DEF vars, schedVars
<1> QED BY <1>1, <1>2, <1>3, <1>4 DEF Next

\* That is what EvLifecycle says of the first loop,
LEMMA FirstLoopStep ==
  ASSUME StepOf(0)
  PROVE  [FirstLoop!Next]_(FirstLoop!vars)
  BY DEF StepOf, LifecycleStep, View, InCallback, PhaseIn, Serving, FirstLoop!Next, FirstLoop!vars,
         FirstLoop!Create, FirstLoop!Accept, FirstLoop!Enter, FirstLoop!Leave, FirstLoop!Free,
         FirstLoop!Serve, FirstLoop!Served, FirstLoop!Close, FirstLoop!Move

\* and of the last.
LEMMA LastLoopStep ==
  ASSUME StepOf(Amount - 1)
  PROVE  [LastLoop!Next]_(LastLoop!vars)
  BY DEF StepOf, LifecycleStep, View, InCallback, PhaseIn, Serving, LastLoop!Next, LastLoop!vars,
         LastLoop!Create, LastLoop!Accept, LastLoop!Enter, LastLoop!Leave, LastLoop!Free,
         LastLoop!Serve, LastLoop!Served, LastLoop!Close, LastLoop!Move

\* There are a first and a last loop.
LEMMA FirstAndLast == 0 \in Loops /\ Amount - 1 \in Loops
  BY AmountAssumption DEF Loops

\* Both begin as EvLifecycle does.
LEMMA LifecyclesBegin == Init => FirstLoop!Init /\ LastLoop!Init
<1> SUFFICES ASSUME Init PROVE FirstLoop!Init /\ LastLoop!Init
  OBVIOUS
<1>1. FirstLoop!Init
  BY FirstAndLast DEF Init, SchedInit, FirstLoop!Init, PhaseIn, Serving, At
<1>2. LastLoop!Init
  BY FirstAndLast DEF Init, SchedInit, LastLoop!Init, PhaseIn, Serving, At
<1> QED BY <1>1, <1>2

\* Every step of server, listeners, scheduler and threads is, for the first and for the
\* last loop, a step that EvLifecycle allows or one the loop does not see: no event is
\* accepted twice or after the quit, freed inside a loop or under its callback.
THEOREM LifecycleFollowed == Spec => FollowsLifecycle
<1>1. IInv /\ [Next]_vars => [FirstLoop!Next]_(FirstLoop!vars)
  BY NextStep, FirstAndLast, FirstLoopStep
<1>2. IInv /\ [Next]_vars => [LastLoop!Next]_(LastLoop!vars)
  BY NextStep, FirstAndLast, LastLoopStep
<1> QED BY <1>1, <1>2, LifecyclesBegin, Invariance, PTL
        DEF Spec, FollowsLifecycle, FirstLoop!Spec, LastLoop!Spec

\* What any loop sees.
OfLoop(k) == INSTANCE EvLifecycle WITH
               phase <- [e \in Events |-> PhaseIn(k, e)],
               serving <- Serving(k), open <- open[k]

\* The step of any loop, in the terms of its life cycle.
LEMMA OfLoopStep ==
  ASSUME NEW k \in Loops, StepOf(k)
  PROVE  [OfLoop(k)!Next]_(OfLoop(k)!vars)
  BY DEF StepOf, LifecycleStep, View, InCallback, PhaseIn, Serving, OfLoop!Next, OfLoop!vars,
         OfLoop!Create, OfLoop!Accept, OfLoop!Enter, OfLoop!Leave, OfLoop!Free,
         OfLoop!Serve, OfLoop!Served, OfLoop!Close, OfLoop!Move

\* What the runs show of the first and the last loop holds of every one.
THEOREM EveryLoopFollows ==
  ASSUME NEW k \in Loops
  PROVE  Spec => OfLoop(k)!Spec
<1>1. Init => OfLoop(k)!Init
  BY DEF Init, SchedInit, OfLoop!Init, PhaseIn, Serving, At
<1>2. IInv /\ [Next]_vars => [OfLoop(k)!Next]_(OfLoop(k)!vars)
  BY NextStep, OfLoopStep
<1> QED BY <1>1, <1>2, Invariance, PTL DEF Spec, OfLoop!Spec
=============================================================================

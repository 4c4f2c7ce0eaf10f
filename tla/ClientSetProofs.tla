---------------------------- MODULE ClientSetProofs ----------------------------
(***************************************************************************)
(* Proofs about the clients of a server, for any number of clients, loops  *)
(* and users of clients.                                                   *)
(***************************************************************************)
EXTENDS ClientSet, DataLemmas

-----------------------------------------------------------------------------
(* Counting the threads that work on a client *)

\* The threads are the main one, those of the loops, and the users.
LEMMA ThreadsFinite == IsFiniteSet(Threads)
<1>1. IsFiniteSet(Loops \cup Users)
  BY FS_Union, FiniteAssumption
<1>2. IsFiniteSet({Main})
  BY FS_Singleton
<1> QED BY <1>1, <1>2, FS_Union DEF Threads

\* A set that changes at one element at most.
LEMMA CountMove ==
  ASSUME NEW R, NEW S, IsFiniteSet(S), NEW t, R \ {t} = S \ {t}
  PROVE  /\ IsFiniteSet(R)
         /\ Cardinality(R) \in Nat /\ Cardinality(S) \in Nat
         /\ Cardinality(R) = Cardinality(S) - One(t \in S) + One(t \in R)
<1>0. Cardinality(S) \in Nat
  BY FS_CardinalityType
<1>1. CASE t \in S /\ t \notin R
  <2>1. R = S \ {t}
    BY <1>1
  <2> QED BY <2>1, <1>1, <1>0, FS_RemoveElement, FS_CardinalityType DEF One
<1>2. CASE t \notin S /\ t \in R
  <2>1. R = S \cup {t}
    BY <1>2
  <2> QED BY <2>1, <1>2, <1>0, FS_AddElement, FS_CardinalityType DEF One
<1>3. CASE (t \in S) = (t \in R)
  <2>1. R = S
    BY <1>3
  <2> QED BY <2>1, <1>0 DEF One
<1> QED BY <1>1, <1>2, <1>3

\* So those that work on a client, or with its watch, can be counted.
LEMMA CallersFinite ==
  ASSUME NEW c
  PROVE  /\ IsFiniteSet(Callers(c)) /\ Cardinality(Callers(c)) \in Nat
         /\ IsFiniteSet(HasWatch(c)) /\ Cardinality(HasWatch(c)) \in Nat
<1>1. Callers(c) \subseteq Threads /\ HasWatch(c) \subseteq Threads
  BY DEF Callers, HasWatch
<1> QED BY <1>1, ThreadsFinite, FS_Subset, FS_CardinalityType

\* What is counted when the thread t goes to p.
LEMMA ThreadMoves ==
  ASSUME TypeOK, NEW t \in Threads, NEW p, NEW c,
         thread' = [thread EXCEPT ![t] = p]
  PROVE  /\ Cardinality({s \in Threads : Calls(s, thread'[s], c)}) =
              Cardinality(Callers(c)) - One(Calls(t, thread[t], c)) + One(Calls(t, p, c))
         /\ Cardinality({s \in Threads : Has(thread'[s], c)}) =
              Cardinality(HasWatch(c)) - One(Has(thread[t], c)) + One(Has(p, c))
<1> DEFINE C == {s \in Threads : Calls(s, thread'[s], c)}
           H == {s \in Threads : Has(thread'[s], c)}
<1>0. /\ thread'[t] = p
      /\ \A s \in Threads \ {t} : thread'[s] = thread[s]
  BY DEF TypeOK
<1>1. IsFiniteSet(Callers(c)) /\ IsFiniteSet(HasWatch(c))
  BY CallersFinite
<1>2. C \ {t} = Callers(c) \ {t} /\ H \ {t} = HasWatch(c) \ {t}
  BY <1>0 DEF Callers, HasWatch
<1>3. /\ (t \in C) = Calls(t, p, c) /\ (t \in H) = Has(p, c)
      /\ (t \in Callers(c)) = Calls(t, thread[t], c) /\ (t \in HasWatch(c)) = Has(thread[t], c)
  BY <1>0 DEF Callers, HasWatch, Calls, Has
<1> HIDE DEF C, H
<1>4. Cardinality(C) = Cardinality(Callers(c)) - One(t \in Callers(c)) + One(t \in C)
  BY <1>1, <1>2, CountMove
<1>5. Cardinality(H) = Cardinality(HasWatch(c)) - One(t \in HasWatch(c)) + One(t \in H)
  BY <1>1, <1>2, CountMove
<1> QED BY <1>3, <1>4, <1>5 DEF C, H

\* What the types say of a thread, of a client and of a watch, field by field.
LEMMA ThreadFields ==
  ASSUME TypeOK, NEW t \in Threads
  PROVE  thread[t] \in Places /\ thread[t].c \in Clients \cup {NoOne}
<1>1. thread[t] \in Places
  BY DEF TypeOK
<1> QED BY <1>1 DEF Places

\* Of a client.
LEMMA ClientFields ==
  ASSUME TypeOK, NEW c \in Clients
  PROVE  /\ client[c] \in ClientRecords
         /\ client[c].mem \in Mem /\ client[c].refs \in Nat
         /\ client[c].killed \in BOOLEAN /\ client[c].watch \in BOOLEAN
         /\ client[c].cs \in BOOLEAN /\ client[c].node \in {"self", "linked", "null"}
<1>1. client[c] \in ClientRecords
  BY DEF TypeOK
<1> QED BY <1>1 DEF ClientRecords

\* Of a watch.
LEMMA WatchFields ==
  ASSUME TypeOK, NEW c \in Clients
  PROVE  /\ watch[c] \in WatchRecords
         /\ watch[c].mem \in Mem /\ watch[c].refs \in Nat
         /\ watch[c].killed \in BOOLEAN /\ watch[c].asked \in BOOLEAN
         /\ watch[c].home \in Loops \cup {NoOne} /\ watch[c].loop \in Loops \cup {NoOne}
<1>1. watch[c] \in WatchRecords
  BY DEF TypeOK
<1> QED BY <1>1 DEF WatchRecords

\* Going on is being elsewhere with the same client.
LEMMA GotoIs ==
  ASSUME TypeOK, NEW t \in Threads, NEW pc, Goto(t, pc)
  PROVE  thread' = [thread EXCEPT ![t] = At(pc, thread[t].c)]
<1>1. [thread[t] EXCEPT !.pc = pc] = At(pc, thread[t].c)
  BY ThreadFields DEF Places, At
<1> QED BY <1>1 DEF Goto, TypeOK

\* A thread that is inside a call works on a client that lives.
LEMMA InCall ==
  ASSUME IInv, NEW t \in Threads, thread[t].pc \notin OutPcs
  PROVE  thread[t].c \in Clients /\ client[thread[t].c].mem = "live"
  BY ThreadFields DEF IInv, Placed, ReferencesCounted


LeftInCalls ==
  \A c \in Clients :
    thread[Main].pc = "done" /\ watch[c].mem = "live" => HasWatch(c) # {} \/ Listed(c)
AllPlaced == \A t \in Threads : Placed(t)
AllOwned == \A c \in Clients : Owned(c)
AllCounted == \A c \in Clients : Counted(c)
UsedLate == undefined => Stuck \/ set.mem = "freed"

\* The connections that are left when the server is gone are in a call's hands or in the
\* list of the set.
LEMMA LeftAtEnd ==
  TypeOK /\ SetHeld /\ MembersLinked /\ AllPlaced /\ AllOwned /\ AllCounted => LeftInCalls
<1> SUFFICES ASSUME TypeOK, SetHeld, MembersLinked, AllPlaced, AllOwned, AllCounted,
                    NEW c \in Clients, thread[Main].pc = "done", watch[c].mem = "live",
                    ~Listed(c)
             PROVE  HasWatch(c) # {}
  BY DEF LeftInCalls
<1>0. Placed(AcceptLoop) /\ Owned(c) /\ Counted(c)
  BY ThreadsAssumption DEF AllPlaced, AllOwned, AllCounted, Threads
<1>1. watch[c].home = NoOne
  BY WatchFields DEF SetHeld
<1>2. client[c].node = "self"
  <2>1. set.lock = NoOne
    BY DEF SetHeld, KillPcs
  <2> QED BY <2>1, NoOneAssumption, ClientFields DEF MembersLinked
<1>3. client[c].mem = "live"
  BY <1>0, CallersFinite, ClientFields DEF Counted, Counts, One, Mem
<1>4. ~client[c].watch
  <2>1. thread[AcceptLoop].c = NoOne
    BY <1>0, ThreadsAssumption DEF SetHeld, Placed, OutPcs
  <2> QED BY <1>0, <2>1, <1>2, <1>3, NoOneAssumption, ClientFields DEF Owned
<1>5. watch[c].refs # 0 /\ watch[c].refs = Cardinality(HasWatch(c))
  BY <1>0, <1>1, <1>4, CallersFinite, WatchFields DEF Counted, Counts, One
<1> QED BY <1>5, FS_EmptySet

\* The parts of the invariant, put together.
LEMMA Assemble ==
  ASSUME TypeOK', SetHeld', MembersLinked', AllPlaced', AllOwned', AllCounted',
         \A s \in Threads : thread'[s].c # NoOne => client'[thread'[s].c].mem = "live",
         UsedLate'
  PROVE  IInv'
<1>1. (TypeOK /\ SetHeld /\ MembersLinked /\ AllPlaced /\ AllOwned /\ AllCounted => LeftInCalls)'
  BY LeftAtEnd, PTL
<1>2. LeftInCalls'
  BY <1>1
<1>3. ReferencesCounted'
  BY <1>2 DEF ReferencesCounted, AllCounted, LeftInCalls, UsedLate
<1> QED BY <1>3 DEF IInv, AllPlaced, AllOwned

-----------------------------------------------------------------------------
(* Steps of one thread with one client *)

Step(t, c, p, k, w) ==
  /\ thread' = [thread EXCEPT ![t] = p]
  /\ client' = [client EXCEPT ![c] = k]
  /\ watch' = [watch EXCEPT ![c] = w]

\* A step of a thread on a client changes one entry of each function.
LEMMA StepType ==
  ASSUME TypeOK, NEW t \in Threads, NEW c \in Clients,
         NEW p \in Places, NEW k \in ClientRecords, NEW w \in WatchRecords,
         Step(t, c, p, k, w)
  PROVE  /\ thread' \in [Threads -> Places]
         /\ client' \in [Clients -> ClientRecords]
         /\ watch' \in [Clients -> WatchRecords]
         /\ thread'[t] = p /\ client'[c] = k /\ watch'[c] = w
         /\ \A s \in Threads \ {t} : thread'[s] = thread[s]
         /\ \A d \in Clients \ {c} : client'[d] = client[d] /\ watch'[d] = watch[d]
  BY DEF TypeOK, Step

\* Who is counted for c, and for its watch, once the thread t is at p.
CallersAfter(t, p, c) ==
  Cardinality(Callers(c)) - One(Calls(t, thread[t], c)) + One(Calls(t, p, c))
HoldersAfter(t, p, c) ==
  Cardinality(HasWatch(c)) - One(Has(thread[t], c)) + One(Has(p, c))

\* A thread enters a call with c or leaves one, and gets the watch or gives it away.
LEMMA AfterIs ==
  ASSUME NEW t, NEW p, NEW c
  PROVE  /\ (Calls(t, thread[t], c) <=> Calls(t, p, c))
              => CallersAfter(t, p, c) = Cardinality(Callers(c))
         /\ Calls(t, thread[t], c) /\ ~Calls(t, p, c)
              => CallersAfter(t, p, c) = Cardinality(Callers(c)) - 1
         /\ ~Calls(t, thread[t], c) /\ Calls(t, p, c)
              => CallersAfter(t, p, c) = Cardinality(Callers(c)) + 1
         /\ (Has(thread[t], c) <=> Has(p, c))
              => HoldersAfter(t, p, c) = Cardinality(HasWatch(c))
         /\ Has(thread[t], c) /\ ~Has(p, c)
              => HoldersAfter(t, p, c) = Cardinality(HasWatch(c)) - 1
         /\ ~Has(thread[t], c) /\ Has(p, c)
              => HoldersAfter(t, p, c) = Cardinality(HasWatch(c)) + 1
<1> DEFINE n == Cardinality(Callers(c))
           h == Cardinality(HasWatch(c))
           a == Calls(t, thread[t], c)
           b == Calls(t, p, c)
           d == Has(thread[t], c)
           e == Has(p, c)
<1>1. n \in Nat /\ h \in Nat
  BY CallersFinite
<1>2. CallersAfter(t, p, c) = n - One(a) + One(b) /\ HoldersAfter(t, p, c) = h - One(d) + One(e)
  BY DEF CallersAfter, HoldersAfter
<1> HIDE DEF n, h, a, b, d, e
<1>3. /\ (a <=> b) => CallersAfter(t, p, c) = n
      /\ a /\ ~b => CallersAfter(t, p, c) = n - 1
      /\ ~a /\ b => CallersAfter(t, p, c) = n + 1
  BY <1>1, <1>2 DEF One
<1>4. /\ (d <=> e) => HoldersAfter(t, p, c) = h
      /\ d /\ ~e => HoldersAfter(t, p, c) = h - 1
      /\ ~d /\ e => HoldersAfter(t, p, c) = h + 1
  BY <1>1, <1>2 DEF One
<1> QED BY <1>3, <1>4 DEF n, h, a, b, d, e

\* Only the client of a step is counted anew.
LEMMA CountsKept ==
  ASSUME TypeOK, ReferencesCounted, NEW t \in Threads, NEW c \in Clients,
         NEW p \in Places, NEW k \in ClientRecords, NEW w \in WatchRecords,
         Step(t, c, p, k, w), \A d \in Clients \ {c} : thread[t].c # d /\ p.c # d,
         Counts(k, w, CallersAfter(t, p, c), HoldersAfter(t, p, c))
  PROVE  AllCounted'
<1>1. /\ thread'[t] = p /\ client'[c] = k /\ watch'[c] = w
      /\ \A s \in Threads \ {t} : thread'[s] = thread[s]
      /\ \A d \in Clients \ {c} : client'[d] = client[d] /\ watch'[d] = watch[d]
  BY StepType
<1> SUFFICES ASSUME NEW d \in Clients PROVE Counted(d)'
  BY DEF AllCounted
<1>2. /\ Callers(d)' = {s \in Threads : Calls(s, thread'[s], d)}
      /\ HasWatch(d)' = {s \in Threads : Has(thread'[s], d)}
  BY DEF Callers, HasWatch, Calls, Has
<1>3. CASE d = c
  <2>0. thread' = [thread EXCEPT ![t] = p]
    BY DEF Step
  <2>1. /\ Cardinality({s \in Threads : Calls(s, thread'[s], c)}) =
             CallersAfter(t, p, c)
        /\ Cardinality({s \in Threads : Has(thread'[s], c)}) =
             HoldersAfter(t, p, c)
    <3>1. /\ Cardinality({s \in Threads : Calls(s, thread'[s], c)}) =
               Cardinality(Callers(c)) - One(Calls(t, thread[t], c)) + One(Calls(t, p, c))
          /\ Cardinality({s \in Threads : Has(thread'[s], c)}) =
               Cardinality(HasWatch(c)) - One(Has(thread[t], c)) + One(Has(p, c))
      BY <2>0, ThreadMoves, Zenon
    <3> QED BY <3>1 DEF CallersAfter, HoldersAfter
  <2>2. Cardinality(Callers(d)') =
          CallersAfter(t, p, c)
    BY <1>2, <1>3, <2>1
  <2>3. Cardinality(HasWatch(d)') =
          HoldersAfter(t, p, c)
    BY <1>2, <1>3, <2>1
  <2> QED BY <1>1, <1>3, <2>2, <2>3 DEF Counted, Counts, One
<1>4. CASE d # c
  <2>1. Callers(d)' = Callers(d) /\ HasWatch(d)' = HasWatch(d)
    <3>1. thread[t].c # d /\ p.c # d
      BY <1>4
    <3> QED BY <1>1, <3>1 DEF Callers, HasWatch, Calls, Has
  <2>2. Counted(d)
    BY DEF ReferencesCounted
  <2> QED BY <1>1, <1>4, <2>1, <2>2 DEF Counted, Counts, One
<1> QED BY <1>3, <1>4

\* A step with a client in the set or on its way there: of the list it changes no more
\* than to take this client from it, in the last stage of a kill.
LocalStep(t, c, p, k, w) ==
  /\ ~undefined /\ client[c].mem = "live" /\ k.mem # "unborn"
  /\ k.cs = client[c].cs
  /\ \/ k.node = client[c].node
     \/ k.node = "self" /\ k.cs /\ thread[t].pc = "set_del" /\ set.lock = NoOne
  /\ client[c].killed => k.killed
  /\ k.killed => client[c].killed \/ thread[t].pc = "kill"
  /\ (k.watch <=> ~k.killed)
  /\ k.mem = "live" \/ (~k.cs /\ p.c = NoOne)
  /\ ~k.cs => t = AcceptLoop /\ (k.mem = "live" => p.c = c)
  /\ \/ w.home = watch[c].home
     \/ w.home = NoOne /\ watch[c].home = t /\ thread[t].pc = "idle"
     \/ thread[t].pc = "proto_watch_attach" /\ p.c = NoOne /\ k.cs
          /\ w.home \in Loops /\ loop[w.home] = "runs"
  /\ thread[t].c = c \/ (thread[t].c = NoOne /\ watch[c].home # NoOne)
  /\ p.c = IF p.pc = "idle" THEN NoOne ELSE c
  /\ p.pc \in {"idle", "proto_watch_attach"} \cup DispatchPcs \cup UsePcs \cup KillPcs
  /\ p.pc = "proto_watch_attach" => thread[t].pc = "attach" /\ w.home = watch[c].home
  /\ p.pc \in DispatchPcs => t \in Loops /\ w.home = t
  /\ p.pc \in UsePcs => t \in Users
  /\ p.pc \in {"pw_kill", "pw_unref", "set_del", "unref"} => k.killed
  /\ p.pc = "unref" => t # Main
  /\ t = Main => thread[t].pc \in KillPcs /\ p.pc \in {"pw_kill", "pw_unref", "set_del"}
  /\ t \in Loops => loop[t] \notin {"ended", "freed"} /\ (p.pc = "idle" \/ Serves(t))
  /\ Counts(k, w, CallersAfter(t, p, c), HoldersAfter(t, p, c))

\* The core of the proof: a step that keeps what is said of its own thread and client,
\* and lets the client out of the list only with its links, keeps everything.
LEMMA StepKeeps ==
  ASSUME IInv, NEW t \in Threads, NEW c \in Clients,
         NEW p \in Places, NEW k \in ClientRecords, NEW w \in WatchRecords,
         Step(t, c, p, k, w), LocalStep(t, c, p, k, w),
         c_list' \in Seq(Clients), IsInjective(c_list'),
         ToSet(c_list') = ToSet(c_list) \ (IF k.node = client[c].node THEN {} ELSE {c}),
         UNCHANGED <<set, loop, undefined>>
  PROVE  IInv'
<1>0. TypeOK /\ SetHeld /\ MembersLinked /\ ReferencesCounted
  BY DEF IInv
<1>1. TypeOK'
  BY <1>0, StepType DEF TypeOK
<1>2. /\ thread'[t] = p /\ client'[c] = k /\ watch'[c] = w
      /\ \A s \in Threads \ {t} : thread'[s] = thread[s]
      /\ \A d \in Clients \ {c} : client'[d] = client[d] /\ watch'[d] = watch[d]
      /\ thread' = [thread EXCEPT ![t] = p]
  BY <1>0, StepType DEF Step
<1>3. /\ Owned(c) /\ (\A d \in Clients : Owned(d))
      /\ \A s \in Threads : Placed(s) /\ thread[s].c \in Clients \cup {NoOne}
      /\ AcceptLoop \in Threads /\ Main \in Threads /\ AcceptLoop # Main
      /\ NoOne \notin Clients
  BY <1>0, ThreadFields, ThreadsAssumption, NoOneAssumption DEF IInv, Threads
<1>n. k.node # client[c].node =>
        /\ k.node = "self" /\ k.cs /\ thread[t].c = c /\ thread[t].pc = "set_del"
        /\ client[c].killed /\ k.killed /\ t # Main /\ thread[Main].c = NoOne
  <2>1. set.lock = NoOne => thread[Main].pc \notin {"next"} \cup KillPcs
    BY <1>0, NoOneAssumption DEF SetHeld
  <2>2. set.lock = NoOne => thread[Main].pc \in OutPcs
    BY <1>0, <1>3, <2>1, ThreadFields, ThreadsAssumption
       DEF Placed, Places, OutPcs, AcceptPcs, DispatchPcs, UsePcs, KillPcs
  <2> QED BY <1>3, <2>1, <2>2 DEF LocalStep, Placed, OutPcs, KillPcs
<1>4. \A d \in Clients : Counted(d)'
  <2>1. \A d \in Clients \ {c} : thread[t].c # d /\ p.c # d
    BY <1>3 DEF LocalStep
  <2>2. AllCounted'
    BY <1>0, <2>1, CountsKept DEF LocalStep
  <2> QED BY <2>2 DEF AllCounted
<1>5. ASSUME NEW s \in Threads PROVE Placed(s)'
  <2>1. CASE s = t
    <3>1. /\ p.c = NoOne <=> p.pc \in OutPcs
          /\ p.pc \in OutPcs \ {"idle"} => t = Main
          /\ p.pc \in AcceptPcs => t = AcceptLoop
      BY <1>3 DEF LocalStep, Placed, OutPcs, AcceptPcs, DispatchPcs, UsePcs, KillPcs
    <3>2. p.pc \in {"pw_kill", "pw_unref", "set_del", "unref"} \cup DispatchPcs => p.c = c
      BY DEF LocalStep, DispatchPcs
    <3>3. p.pc \in DispatchPcs => t \in Loops /\ watch'[p.c].home = t
      BY <1>2, <3>2 DEF LocalStep
    <3> QED BY <1>2, <1>3, <2>1, <3>1, <3>2, <3>3, ThreadsAssumption DEF LocalStep, Placed
  <2>2. CASE s # t
    <3>1. thread[s].c \in Clients /\ client[thread[s].c].killed => client'[thread[s].c].killed
      BY <1>2 DEF LocalStep
    <3>2. thread[s].pc \in DispatchPcs => s \in Loops /\ watch'[thread[s].c].home = s
      <4> SUFFICES ASSUME thread[s].pc \in DispatchPcs
                   PROVE  s \in Loops /\ watch'[thread[s].c].home = s
        OBVIOUS
      <4>1. s \in Loops /\ watch[thread[s].c].home = s /\ thread[s].c \in Clients /\ s # NoOne
        BY <1>3, NoOneAssumption DEF Placed, OutPcs, DispatchPcs
      <4>2. CASE thread[s].c # c
        BY <1>2, <4>1, <4>2
      <4>3. CASE thread[s].c = c
        <5>1. w.home = watch[c].home
          BY <1>3, <2>2, <4>1, <4>3 DEF LocalStep, Placed, Owned, AcceptPcs
        <5> QED BY <1>2, <4>1, <4>3, <5>1
      <4> QED BY <4>2, <4>3
    <3> QED BY <1>2, <1>3, <2>2, <3>1, <3>2 DEF Placed, OutPcs
  <2> QED BY <2>1, <2>2
<1>6. ASSUME NEW d \in Clients PROVE Owned(d)'
  <2>1. CASE d # c
    <3>1. \A s \in Threads : thread'[s].c = d <=> thread[s].c = d
      BY <1>2, <1>3, <2>1 DEF LocalStep
    <3>2. thread[AcceptLoop].c = d => thread'[AcceptLoop] = thread[AcceptLoop]
      BY <1>2, <1>3, <2>1 DEF LocalStep
    <3>3. Claimed(d) => Claimed(d)'
      BY <1>2, <1>3, <2>1 DEF LocalStep, Claimed, KillPcs
    <3> QED BY <1>2, <1>3, <2>1, <3>1, <3>2, <3>3 DEF Owned
  <2>2. CASE d = c
    <3>1. ~client'[c].cs =>
             /\ client'[c].node = "self" /\ watch'[c].home = NoOne
             /\ \A s \in Threads \ {AcceptLoop} : thread'[s].c # c
             /\ client'[c].mem = "live" => thread'[AcceptLoop].c = c
      BY <1>2, <1>3 DEF LocalStep, Owned
    <3>2. client'[c].cs /\ ~client'[c].killed => client'[c].node # "self"
      BY <1>2, <1>3, <1>n DEF LocalStep, Owned
    <3>3. thread'[AcceptLoop].c = c => thread'[AcceptLoop].pc # "add"
      BY <1>2, <1>3 DEF LocalStep, Owned, DispatchPcs, UsePcs, KillPcs
    <3>4. thread'[AcceptLoop].c = c /\ thread'[AcceptLoop].pc \in {"attach", "proto_watch_attach"} =>
             /\ client'[c].cs /\ client'[c].node # "self" /\ watch'[c].home = NoOne
             /\ client'[c].killed => Claimed(c)'
             /\ \A s \in Threads \ {Main, AcceptLoop} : thread'[s].c # c
      <4>1. CASE t = AcceptLoop
        <5>1. /\ p.pc \in {"attach", "proto_watch_attach"} => p.pc = "proto_watch_attach"
              /\ p.pc = "proto_watch_attach" => thread[t].pc = "attach" /\ w.home = watch[c].home
              /\ k.cs = client[c].cs /\ thread'[t] = p
              /\ k.node = client[c].node \/ thread[t].pc = "set_del"
          BY <1>2 DEF LocalStep, Serves, KillPcs, UsePcs, DispatchPcs
        <5>2. thread[t].pc = "attach" => thread[t].c = c
          BY <1>3, <4>1 DEF LocalStep, Placed, OutPcs
        <5>3. Owned(c)
          BY <1>3
        <5> SUFFICES ASSUME p.c = c, p.pc \in {"attach", "proto_watch_attach"}
                     PROVE  /\ k.cs /\ k.node # "self" /\ w.home = NoOne
                            /\ k.killed => Claimed(c)
                            /\ \A s \in Threads \ {Main, AcceptLoop} : thread[s].c # c
          BY <1>2, <1>3, <4>1 DEF Claimed
        <5>4. thread[AcceptLoop].c = c /\ thread[AcceptLoop].pc = "attach"
          BY <4>1, <5>1, <5>2
        <5>5. /\ client[c].cs /\ client[c].node # "self" /\ watch[c].home = NoOne
              /\ client[c].killed => Claimed(c)
              /\ \A s \in Threads \ {Main, AcceptLoop} : thread[s].c # c
          BY <5>3, <5>4 DEF Owned
        <5>6. k.killed => client[c].killed
          BY <5>4, <4>1 DEF LocalStep
        <5> QED BY <4>1, <5>1, <5>4, <5>5, <5>6
      <4>2. CASE t # AcceptLoop
        <5> SUFFICES ASSUME thread[AcceptLoop].c = c,
                            thread[AcceptLoop].pc \in {"attach", "proto_watch_attach"}
                     PROVE  /\ k.cs /\ k.node # "self" /\ w.home = NoOne
                            /\ k.killed => Claimed(c)'
                            /\ \A s \in Threads \ {Main, AcceptLoop} : thread'[s].c # c
          BY <1>2, <4>2
        <5>1. /\ client[c].cs /\ client[c].node # "self" /\ watch[c].home = NoOne
              /\ client[c].killed => Claimed(c)
              /\ \A s \in Threads \ {Main, AcceptLoop} : thread[s].c # c
          BY <1>3 DEF Owned
        <5>2. t = Main /\ thread[t].c = c
          BY <4>2, <5>1 DEF LocalStep
        <5>3. p.c = c /\ p.pc \in {"pw_kill", "pw_unref", "set_del"}
          BY <5>2 DEF LocalStep
        <5>4. Claimed(c)'
          BY <1>2, <5>2, <5>3 DEF Claimed
        <5>5. k.node # "self" /\ w.home = NoOne /\ k.cs
          BY <1>3, <1>n, <4>2, <5>1, <5>2 DEF LocalStep, KillPcs
        <5> QED BY <1>2, <5>1, <5>2, <5>4, <5>5
      <4> QED BY <4>1, <4>2
    <3> QED BY <1>2, <2>2, <3>1, <3>2, <3>3, <3>4 DEF LocalStep, Owned
  <2> QED BY <2>1, <2>2
<1>7. SetHeld'
  <2>1. /\ thread'[Main].c = thread[Main].c
        /\ thread'[Main] = thread[Main] \/ (thread[Main].pc \in KillPcs /\ thread'[Main].pc \in KillPcs)
    BY <1>2, <1>3 DEF LocalStep, KillPcs, Placed, OutPcs
  <2>2. thread[Main].c # NoOne => /\ client'[thread[Main].c].cs = client[thread[Main].c].cs
                                  /\ client'[thread[Main].c].node = client[thread[Main].c].node
    BY <1>2, <1>3, <1>n DEF LocalStep
  <2>3. ASSUME NEW s \in Loops
        PROVE  /\ loop[s] \in {"leaves", "ended", "freed"} => thread'[s].pc = "idle"
               /\ loop[s] \in {"ended", "freed"} => \A d \in Clients : watch'[d].home # s
    <3>1. s \in Threads /\ s # NoOne
      BY NoOneAssumption DEF Threads
    <3>2. /\ loop[s] \in {"leaves", "ended", "freed"} => thread[s].pc = "idle"
          /\ loop[s] \in {"ended", "freed"} => \A d \in Clients : watch[d].home # s
      BY <1>0 DEF SetHeld
    <3>3. loop[s] \in {"leaves", "ended", "freed"} => thread'[s].pc = "idle"
      BY <1>2, <3>1, <3>2 DEF LocalStep, Serves
    <3>4. loop[s] \in {"ended", "freed"} => w.home # s
      BY <3>1, <3>2 DEF LocalStep
    <3> QED BY <1>2, <3>2, <3>3, <3>4
  <2>4. thread[Main].pc # "done" \/ \A s \in Loops : loop[s] = "freed"
    BY <1>0 DEF SetHeld
  <2> QED BY <1>0, <2>1, <2>2, <2>3, <2>4 DEF SetHeld, KillPcs
<1>8. MembersLinked'
  <2>1. ASSUME NEW d \in Clients PROVE client'[d].node = "linked" <=> d \in ToSet(c_list')
    <3>1. client[d].node = "linked" <=> d \in ToSet(c_list)
      BY <1>0 DEF MembersLinked, Listed, ToSet
    <3> QED BY <1>2, <3>1 DEF LocalStep
  <2>2. thread'[Main].c = thread[Main].c
    BY <1>2, <1>3 DEF LocalStep, KillPcs, Placed, OutPcs
  <2>3. ASSUME NEW d \in Clients, watch'[d].home # NoOne, ~client'[d].killed
        PROVE  client'[d].node # "self"
    BY <1>6, <2>3 DEF Owned
  <2>4. \A d \in Clients : client'[d].node = client[d].node \/ client'[d].node = "self"
    BY <1>2 DEF LocalStep
  <2>5. \A d \in Clients : Listed(d)' <=> client'[d].node = "linked"
    BY <2>1 DEF Listed, ToSet
  <2> QED BY <1>0, <2>2, <2>3, <2>4, <2>5 DEF MembersLinked
<1>9. ASSUME NEW s \in Threads, thread'[s].c # NoOne PROVE client'[thread'[s].c].mem = "live"
  <2>1. thread'[s].c \in Clients
    BY <1>2, <1>3, <1>9 DEF LocalStep
  <2>2. CASE thread'[s].c = c
    BY <1>2, <1>3, <2>2 DEF LocalStep, Owned
  <2>3. CASE thread'[s].c # c
    <3>1. thread'[s] = thread[s]
      BY <1>2, <1>9, <2>3 DEF LocalStep
    <3> QED BY <1>0, <1>2, <1>9, <2>1, <2>3, <3>1 DEF ReferencesCounted
  <2> QED BY <2>2, <2>3
<1>10. AllPlaced' /\ AllOwned' /\ AllCounted'
  BY <1>4, <1>5, <1>6 DEF AllPlaced, AllOwned, AllCounted
<1>11. UsedLate'
  BY DEF LocalStep, UsedLate
<1> QED BY <1>1, <1>7, <1>8, <1>9, <1>10, <1>11, Assemble

\* The same for the steps that do not touch the list.
LEMMA ListStays ==
  ASSUME IInv, NEW t \in Threads, NEW c \in Clients,
         NEW p \in Places, NEW k \in ClientRecords, NEW w \in WatchRecords,
         Step(t, c, p, k, w), LocalStep(t, c, p, k, w), k.node = client[c].node,
         UNCHANGED <<c_list, set, loop, undefined>>
  PROVE  IInv'
<1>1. c_list \in Seq(Clients) /\ IsInjective(c_list)
  BY DEF IInv, TypeOK, MembersLinked
<1> QED BY <1>1, StepKeeps

\* What is known of the client c that a thread t inside a call works on.
Facts(t, c) ==
  /\ c \in Clients /\ c # NoOne /\ client[c].mem = "live" /\ client[c].refs \in Nat
  /\ (client[c].watch <=> ~client[c].killed)
  /\ ~client[c].cs => t = AcceptLoop /\ client[c].node = "self" /\ watch[c].home = NoOne
  /\ (t \in Loops => Serves(t)) /\ Placed(t) /\ Owned(c) /\ Counted(c) /\ TypeOK
  /\ Cardinality(Callers(c)) \in Nat /\ Cardinality(HasWatch(c)) \in Nat
  /\ Calls(t, thread[t], c) => Cardinality(Callers(c)) >= 1
  /\ Has(thread[t], c) => Cardinality(HasWatch(c)) >= 1
  /\ ~client[c].cs /\ ~Has(thread[t], c) => Cardinality(HasWatch(c)) = 0

\* What a thread at work knows of the client it works on.
LEMMA AtWork ==
  ASSUME IInv, NEW t \in Threads, thread[t].pc \notin OutPcs
  PROVE  Facts(t, thread[t].c)
<1> DEFINE c == thread[t].c
<1>1. /\ TypeOK /\ Placed(t) /\ SetHeld
      /\ c \in Clients /\ c # NoOne /\ client[c].mem = "live"
  BY InCall, NoOneAssumption DEF IInv
<1>2. Owned(c) /\ Counted(c)
  BY <1>1 DEF IInv, ReferencesCounted
<1>3. client[c].refs \in Nat
  BY <1>1, ClientFields
<1>4. t \in Loops => Serves(t)
  BY <1>1 DEF SetHeld, OutPcs, Serves, TypeOK, LoopStates
<1>5. Cardinality(Callers(c)) \in Nat /\ Cardinality(HasWatch(c)) \in Nat
  BY CallersFinite
<1>6. Calls(t, thread[t], c) => Cardinality(Callers(c)) >= 1
  <2>1. Calls(t, thread[t], c) => Callers(c) # {}
    BY DEF Callers
  <2> QED BY <1>5, <2>1, CallersFinite, FS_EmptySet
<1>7. Has(thread[t], c) => Cardinality(HasWatch(c)) >= 1
  <2>1. Has(thread[t], c) => HasWatch(c) # {}
    BY DEF HasWatch
  <2> QED BY <1>5, <2>1, CallersFinite, FS_EmptySet
<1>8. ~client[c].cs /\ ~Has(thread[t], c) => Cardinality(HasWatch(c)) = 0
  <2>1. ~client[c].cs => \A s \in Threads : thread[s].c = c => s = t
    BY <1>2 DEF Owned
  <2>2. ~client[c].cs /\ ~Has(thread[t], c) => HasWatch(c) = {}
    BY <2>1 DEF HasWatch, Has
  <2> QED BY <2>2, FS_EmptySet
<1> QED BY <1>1, <1>2, <1>3, <1>4, <1>5, <1>6, <1>7, <1>8 DEF Owned, Facts

\* The records after a reference to the watch of a live client is dropped, and with the
\* last one the reference of the watch to its client.
Drops(k, w, k0, w0) ==
  /\ k0.refs \in Nat /\ w0.refs \in Nat /\ k0.mem = "live" /\ w0.mem = "live"
  /\ k.refs = k0.refs - One(w0.refs = 1) /\ k.mem = k0.mem
  /\ k.watch = k0.watch /\ k.cs = k0.cs
  /\ w.refs = w0.refs - 1 /\ w.mem = IF w0.refs = 1 THEN "freed" ELSE "live"

\* The reference is a thread's or the loop's.
LEMMA WatchLess ==
  ASSUME NEW k, NEW w, NEW k0, NEW w0, NEW n \in Nat, NEW h \in Nat, NEW m \in Nat,
         Drops(k, w, k0, w0), Counts(k0, w0, n, h),
         m + One(w.home # NoOne) + 1 = h + One(w0.home # NoOne)
  PROVE  Counts(k, w, n, m)
<1> DEFINE a == One(k0.watch)
           b == One(w0.home # NoOne)
           d == One(w.home # NoOne)
           r == IF k0.cs THEN n ELSE 0
<1>1. a \in Nat /\ b \in Nat /\ d \in Nat /\ r \in Nat
  BY DEF One
<1>2. k0.refs = 2 + r /\ w0.refs = a + h + b /\ w0.refs # 0
  BY DEF Counts, One, Drops
<1>3. m + d + 1 = h + b
  OBVIOUS
<1>4. w.refs = One(k.watch) + m + One(w.home # NoOne)
  <2>1. w0.refs = a + h + b /\ w.refs = w0.refs - 1 /\ k.watch = k0.watch
    BY <1>2 DEF Drops
  <2> HIDE DEF a, b, d
  <2>2. w.refs = a + m + d
    BY <1>1, <1>3, <2>1
  <2> QED BY <2>1, <2>2 DEF a, d
<1>5. (w.refs = 0) <=> (w.mem # "live")
  BY <1>2 DEF Drops
<1>6. k.refs = One(k.mem = "live") + One(w.mem = "live") + (IF k.cs THEN n ELSE 0)
  <2> HIDE DEF r
  <2>1. k.refs = 1 + One(w.mem = "live") + r
    BY <1>1, <1>2 DEF One, Drops
  <2> QED BY <2>1 DEF One, r, Drops
<1>7. (k.refs = 0) <=> (k.mem # "live")
  <2> HIDE DEF r
  <2>1. k.refs # 0
    BY <1>1, <1>2 DEF One, Drops
  <2> QED BY <2>1 DEF Drops
<1> QED BY <1>4, <1>5, <1>6, <1>7 DEF Counts, Drops

\* The count of a watch that changes hands stays the same.
LEMMA WatchPassed ==
  ASSUME NEW k, NEW w, NEW k0, NEW w0, NEW n, NEW h, NEW m,
         k.refs = k0.refs, k.mem = k0.mem, k.cs = k0.cs, w.refs = w0.refs, w.mem = w0.mem,
         One(k.watch) + m + One(w.home # NoOne) = One(k0.watch) + h + One(w0.home # NoOne),
         Counts(k0, w0, n, h)
  PROVE  Counts(k, w, n, m)
  BY DEF Counts

\* A watch that someone has is there, and its reference keeps the client.
LEMMA WatchCounted ==
  ASSUME NEW k, NEW w, NEW n \in Nat, NEW h \in Nat, h >= 1, k.mem = "live",
         k.refs \in Nat, w.refs \in Nat, Counts(k, w, n, h)
  PROVE  w.refs >= 1 /\ w.mem = "live" /\ k.refs >= 2
<1> DEFINE a == One(k.watch)
           b == One(w.home # NoOne)
           r == IF k.cs THEN n ELSE 0
<1>1. a \in Nat /\ b \in Nat /\ r \in Nat
  BY DEF One
<1>2. w.refs = a + h + b /\ ((w.refs = 0) <=> (w.mem # "live"))
  BY DEF Counts
<1>3. k.refs = One(k.mem = "live") + One(w.mem = "live") + r
  BY DEF Counts
<1> HIDE DEF a, b, r
<1>4. w.refs >= 1 /\ w.mem = "live"
  BY <1>1, <1>2
<1> QED BY <1>1, <1>3, <1>4 DEF One

\* A reference that is lent adds one to the count of the watch.
LEMMA WatchMore ==
  ASSUME NEW w, NEW w0, NEW k, NEW n \in Nat, NEW h \in Nat, k.mem = "live",
         w0.refs \in Nat, w0.refs >= 1, w.refs = w0.refs + 1, w.mem = w0.mem, w.home = w0.home,
         Counts(k, w0, n, h)
  PROVE  Counts(k, w, n, h + 1)
<1> DEFINE a == One(k.watch)
           b == One(w.home # NoOne)
<1>1. a \in Nat /\ b \in Nat
  BY DEF One
<1>2. w0.refs = a + h + b /\ ((w0.refs = 0) <=> (w0.mem # "live"))
  BY DEF Counts
<1>3. w.refs = a + (h + 1) + b /\ ((w.refs = 0) <=> (w.mem # "live"))
  <2> HIDE DEF a, b
  <2> QED BY <1>1, <1>2
<1> HIDE DEF a, b
<1> QED BY <1>3 DEF a, b, Counts

\* A client that nobody sees but its creator, with its watch gone, has one reference.
LEMMA WatchGone ==
  ASSUME NEW k, NEW w, NEW n, NEW h, h = 0, ~k.cs, ~k.watch, w.home = NoOne,
         k.mem = "live", Counts(k, w, n, h)
  PROVE  w.refs = 0 /\ w.mem # "live" /\ k.refs = 1
<1>1. w.refs = 0
  BY DEF Counts, One
<1>2. w.mem # "live"
  BY <1>1 DEF Counts
<1> QED BY <1>1, <1>2 DEF Counts, One

\* A step that does not touch a record writes it back.
LEMMA SameEntry ==
  ASSUME TypeOK, NEW c \in Clients
  PROVE  client = [client EXCEPT ![c] = client[c]] /\ watch = [watch EXCEPT ![c] = watch[c]]
  BY DEF TypeOK

\* The fields of a place where a thread is.
LEMMA PlaceIs ==
  ASSUME NEW pc \in OutPcs \cup AcceptPcs \cup DispatchPcs \cup UsePcs \cup KillPcs, NEW c \in Clients \cup {NoOne}
  PROVE  At(pc, c) \in Places /\ At(pc, c).pc = pc /\ At(pc, c).c = c
  BY DEF At, Places

\* The fields of a thread's place between its calls.
LEMMA IdleIs == Idle \in Places /\ Idle.pc = "idle" /\ Idle.c = NoOne
  BY PlaceIs DEF Idle, OutPcs

\* obj_unref, as a change of one entry.
LEMMA ClientUnrefIs ==
  ASSUME TypeOK, NEW c \in Clients, client[c].refs >= 1
  PROVE  \E k \in ClientRecords :
           /\ ClientUnref(client, c) = [client EXCEPT ![c] = k]
           /\ k.refs = client[c].refs - 1
           /\ k.mem = IF client[c].refs = 1 THEN "freed" ELSE client[c].mem
           /\ k.killed = client[c].killed /\ k.watch = client[c].watch
           /\ k.cs = client[c].cs /\ k.node = client[c].node
<1> DEFINE m == IF client[c].refs = 1 THEN "freed" ELSE client[c].mem
           k == [client[c] EXCEPT !.refs = @ - 1, !.mem = m]
<1>1. m \in Mem
  BY ClientFields DEF Mem
<1>2. ClientUnref(client, c) = [client EXCEPT ![c] = k]
  BY ClientFields DEF ClientUnref, TypeOK
<1> HIDE DEF m
<1>3. /\ k \in ClientRecords
      /\ k.refs = client[c].refs - 1 /\ k.mem = m
      /\ k.killed = client[c].killed /\ k.watch = client[c].watch
      /\ k.cs = client[c].cs /\ k.node = client[c].node
  <2>1. client[c] \in ClientRecords /\ client[c].refs - 1 \in Nat
    BY ClientFields
  <2> QED BY <1>1, <2>1 DEF ClientRecords
<1> HIDE DEF k
<1> QED BY <1>2, <1>3 DEF m

\* h6_ev_unref of a watch whose client lives on.
LEMMA WatchUnrefIs ==
  ASSUME TypeOK, NEW c \in Clients, NEW w \in WatchRecords, w.refs >= 1,
         w.mem = "live", client[c].refs >= 2, WatchUnref(c, w)
  PROVE  \E k \in ClientRecords, v \in WatchRecords :
           /\ client' = [client EXCEPT ![c] = k] /\ watch' = [watch EXCEPT ![c] = v]
           /\ k.refs = client[c].refs - One(w.refs = 1) /\ k.mem = client[c].mem
           /\ k.killed = client[c].killed /\ k.watch = client[c].watch
           /\ k.cs = client[c].cs /\ k.node = client[c].node
           /\ v.refs = w.refs - 1 /\ v.home = w.home
           /\ v.mem = IF w.refs = 1 THEN "freed" ELSE "live"
<1> DEFINE m == IF w.refs = 1 THEN "freed" ELSE w.mem
           v == [w EXCEPT !.refs = @ - 1, !.mem = m]
<1>1. m \in Mem /\ m = IF w.refs = 1 THEN "freed" ELSE "live"
  BY DEF Mem
<1>2. watch' = [watch EXCEPT ![c] = v]
  BY DEF WatchUnref
<1> HIDE DEF m
<1>3. v \in WatchRecords /\ v.refs = w.refs - 1 /\ v.home = w.home /\ v.mem = m
  <2>1. w.refs \in Nat /\ w.refs - 1 \in Nat
    BY DEF WatchRecords
  <2> QED BY <1>1, <2>1 DEF WatchRecords
<1> HIDE DEF v
<1>4. PICK k \in ClientRecords :
        /\ client' = [client EXCEPT ![c] = k]
        /\ k.refs = client[c].refs - One(w.refs = 1) /\ k.mem = client[c].mem
        /\ k.killed = client[c].killed /\ k.watch = client[c].watch
        /\ k.cs = client[c].cs /\ k.node = client[c].node
  <2>1. CASE w.refs = 1
    BY <2>1, ClientUnrefIs, ClientFields DEF WatchUnref, One
  <2>2. CASE w.refs # 1
    BY <2>2, SameEntry, ClientFields DEF WatchUnref, One
  <2> QED BY <2>1, <2>2
<1> QED BY <1>1, <1>2, <1>3, <1>4

\* The first of several killers takes the watch pointer for itself.
LEMMA SelfKillKeeps ==
  ASSUME IInv, NEW t \in Threads, network_client_self_kill(t)
  PROVE  IInv'
<1> DEFINE c == thread[t].c
           pc == IF client[c].watch THEN "pw_kill" ELSE "set_del"
           p == At(pc, c)
           k == [client[c] EXCEPT !.killed = TRUE, !.watch = FALSE]
           w == watch[c]
<1> USE DEF Facts
<1>0. thread[t].pc = "kill" /\ ~undefined
  BY DEF network_client_self_kill, On
<1>1. Facts(t, c)
  BY <1>0, AtWork DEF OutPcs
<1>2. /\ k \in ClientRecords /\ k.mem = client[c].mem /\ k.refs = client[c].refs
      /\ k.cs = client[c].cs /\ k.node = client[c].node /\ k.killed /\ ~k.watch
  BY <1>1, ClientFields DEF ClientRecords
<1>3. /\ p \in Places /\ p.c = c /\ p.pc \in {"pw_kill", "set_del"}
      /\ client[c].watch <=> p.pc = "pw_kill"
  <2>1. c \in Clients
    BY <1>1
  <2> HIDE DEF c, Facts
  <2>2. CASE client[c].watch
    BY <2>1, <2>2, PlaceIs DEF KillPcs
  <2>3. CASE ~client[c].watch
    BY <2>1, <2>3, PlaceIs DEF KillPcs
  <2> QED BY <2>2, <2>3
<1>4. w \in WatchRecords
  BY <1>1, WatchFields
<1>5. Step(t, c, p, k, w) /\ UNCHANGED <<c_list, set, loop, undefined>>
  <2>1. client' = [client EXCEPT ![c] = k]
    BY <1>1 DEF network_client_self_kill, TypeOK
  <2>2. thread' = [thread EXCEPT ![t] = p]
    BY <1>1, GotoIs DEF network_client_self_kill
  <2>3. watch' = [watch EXCEPT ![c] = w] /\ UNCHANGED <<c_list, set, loop, undefined>>
    BY <1>1, SameEntry DEF network_client_self_kill
  <2> QED BY <2>1, <2>2, <2>3 DEF Step
<1> HIDE DEF p, k, pc
<1>6. LocalStep(t, c, p, k, w)
  <2>1. /\ Calls(t, thread[t], c) <=> Calls(t, p, c)
        /\ ~Has(thread[t], c) /\ (Has(p, c) <=> client[c].watch)
    BY <1>0, <1>3 DEF Calls, Has, KillPcs, WatchPcs
  <2>2. Counts(k, w, CallersAfter(t, p, c), HoldersAfter(t, p, c))
    <3>1. /\ CallersAfter(t, p, c) = Cardinality(Callers(c))
          /\ HoldersAfter(t, p, c) = Cardinality(HasWatch(c)) + One(client[c].watch)
      BY <1>1, <2>1, AfterIs DEF One
    <3> DEFINE n == Cardinality(Callers(c))
               h == Cardinality(HasWatch(c))
               a == One(client[c].watch)
    <3>2. n \in Nat /\ h \in Nat /\ a \in Nat /\ Counts(client[c], w, n, h)
      BY <1>1 DEF Counted, One
    <3>3. One(k.watch) = 0 /\ One(w.home # NoOne) \in Nat
      BY <1>2 DEF One
    <3>4. CallersAfter(t, p, c) = n /\ HoldersAfter(t, p, c) = h + a
      BY <3>1
    <3> HIDE DEF n, h, a, w, c, Facts
    <3>5. One(k.watch) + (h + a) + One(w.home # NoOne) = a + h + One(w.home # NoOne)
      BY <3>2, <3>3
    <3>6. Counts(k, w, n, h + a)
      BY <1>2, <3>2, <3>5, WatchPassed DEF a
    <3> QED BY <3>4, <3>6
  <2> QED BY <1>0, <1>1, <1>2, <1>3, <2>2 DEF LocalStep, Serves, KillPcs, UsePcs, DispatchPcs
<1> QED BY <1>1, <1>2, <1>3, <1>4, <1>5, <1>6, ListStays

\* The killer of the watch has a reference to it, so it is there.
LEMMA WatchKillKeeps ==
  ASSUME IInv, NEW t \in Threads, proto_watch_kill(t)
  PROVE  IInv'
<1> DEFINE c == thread[t].c
           p == At("pw_unref", c)
           k == client[c]
           a == \E h \in Loops : watch[c].home = h /\ loop[h] = "runs"
           w == [watch[c] EXCEPT !.killed = TRUE, !.asked = a]
<1> USE DEF Facts
<1>0. thread[t].pc = "pw_kill" /\ ~undefined
  BY DEF proto_watch_kill, On
<1>1. Facts(t, c)
  BY <1>0, AtWork DEF OutPcs
<1>2. k \in ClientRecords /\ k = client[c]
  BY <1>0, <1>1, ClientFields DEF ClientRecords, Counted, Counts, One
<1>3. p \in Places /\ p.c = c /\ p.pc = "pw_unref"
  BY <1>1, PlaceIs, NoOneAssumption DEF OutPcs, AcceptPcs, DispatchPcs, UsePcs, KillPcs
<1>4. /\ w \in WatchRecords /\ w.mem = watch[c].mem /\ w.refs = watch[c].refs
      /\ w.home = watch[c].home
  BY <1>0, <1>1, WatchFields DEF WatchRecords
<1>5. Step(t, c, p, k, w) /\ UNCHANGED <<c_list, set, loop, undefined>>
  <2>1. watch' = [watch EXCEPT ![c] = w]
    BY <1>1 DEF proto_watch_kill, TypeOK
  <2>2. thread' = [thread EXCEPT ![t] = p]
    BY <1>1, GotoIs DEF proto_watch_kill
  <2>3. client' = [client EXCEPT ![c] = k] /\ UNCHANGED <<c_list, set, loop, undefined>>
    BY <1>1, SameEntry DEF proto_watch_kill
  <2> QED BY <2>1, <2>2, <2>3 DEF Step
<1> HIDE DEF p, k, w
<1>6. LocalStep(t, c, p, k, w)
  <2>1. /\ Calls(t, thread[t], c) <=> Calls(t, p, c)
        /\ Has(thread[t], c) /\ Has(p, c)
    BY <1>0, <1>1, <1>3 DEF Calls, Has, KillPcs, UsePcs, WatchPcs, OutPcs
  <2>2. Counts(k, w, CallersAfter(t, p, c), HoldersAfter(t, p, c))
    <3>1. /\ CallersAfter(t, p, c) = Cardinality(Callers(c))
          /\ HoldersAfter(t, p, c) = Cardinality(HasWatch(c))
      BY <2>1, AfterIs
    <3>2. Counts(client[c], watch[c], Cardinality(Callers(c)), Cardinality(HasWatch(c)))
      BY <1>1 DEF Counted
    <3> HIDE DEF c, Facts
    <3> QED BY <1>2, <1>4, <3>1, <3>2, WatchPassed
  <2> QED BY <1>0, <1>1, <1>2, <1>3, <1>4, <2>2 DEF LocalStep, Serves, KillPcs, UsePcs, DispatchPcs, Placed
<1> QED BY <1>1, <1>2, <1>3, <1>4, <1>5, <1>6, ListStays

\* A reference is taken under the lock, while the pointer is set.
LEMMA LendKeeps ==
  ASSUME IInv, NEW t \in Threads, network_client_send_msg(t)
  PROVE  IInv'
<1> DEFINE c == thread[t].c
           p == At("lent", c)
           k == client[c]
           w == [watch[c] EXCEPT !.refs = @ + 1]
<1> USE DEF Facts
<1>0. thread[t].pc = "holds" /\ ~client[thread[t].c].killed /\ ~undefined
  BY DEF network_client_send_msg, On
<1>1. Facts(t, c)
  BY <1>0, AtWork DEF OutPcs
<1>2. k \in ClientRecords /\ k = client[c]
  BY <1>0, <1>1, ClientFields DEF ClientRecords, Counted, Counts, One
<1>3. p \in Places /\ p.c = c /\ p.pc = "lent"
  BY <1>1, PlaceIs, NoOneAssumption DEF OutPcs, AcceptPcs, DispatchPcs, UsePcs, KillPcs
<1>4. /\ w \in WatchRecords /\ w.mem = watch[c].mem /\ w.refs = watch[c].refs + 1
      /\ w.home = watch[c].home
  BY <1>0, <1>1, WatchFields DEF WatchRecords
<1>5. Step(t, c, p, k, w) /\ UNCHANGED <<c_list, set, loop, undefined>>
  <2>1. watch' = [watch EXCEPT ![c] = w]
    BY <1>1 DEF network_client_send_msg, TypeOK
  <2>2. thread' = [thread EXCEPT ![t] = p]
    BY <1>1, GotoIs DEF network_client_send_msg
  <2>3. client' = [client EXCEPT ![c] = k] /\ UNCHANGED <<c_list, set, loop, undefined>>
    BY <1>1, SameEntry DEF network_client_send_msg
  <2> QED BY <2>1, <2>2, <2>3 DEF Step
<1> HIDE DEF p, k, w
<1>6. LocalStep(t, c, p, k, w)
  <2>1. /\ Calls(t, thread[t], c) <=> Calls(t, p, c)
        /\ ~Has(thread[t], c) /\ Has(p, c)
    BY <1>0, <1>1, <1>3 DEF Calls, Has, KillPcs, UsePcs, WatchPcs, OutPcs
  <2>2. Counts(k, w, CallersAfter(t, p, c), HoldersAfter(t, p, c))
    <3>1. /\ CallersAfter(t, p, c) = Cardinality(Callers(c))
          /\ HoldersAfter(t, p, c) = Cardinality(HasWatch(c)) + 1
      BY <2>1, AfterIs
    <3>2. /\ Counts(k, watch[c], Cardinality(Callers(c)), Cardinality(HasWatch(c)))
          /\ Cardinality(Callers(c)) \in Nat /\ Cardinality(HasWatch(c)) \in Nat
      BY <1>1, <1>2 DEF Counted
    <3>3. k.mem = "live" /\ k.watch /\ watch[c].refs \in Nat /\ k.refs \in Nat
      BY <1>0, <1>1, <1>2, WatchFields
    <3> HIDE DEF c, Facts
    <3>4. watch[c].refs >= 1
      BY <3>2, <3>3 DEF Counts, One
    <3> QED BY <1>4, <3>1, <3>2, <3>3, <3>4, WatchMore
  <2> QED BY <1>0, <1>1, <1>2, <1>3, <1>4, <2>2, ThreadsAssumption DEF LocalStep, Serves, KillPcs, UsePcs, DispatchPcs, Placed
<1> QED BY <1>1, <1>2, <1>3, <1>4, <1>5, <1>6, ListStays

\* The last reference frees the client: then nobody else works on it.
LEMMA DropKeeps ==
  ASSUME IInv, NEW t \in Threads, t # Main, thread[t].pc \in {"unref", "holds"}, ~undefined,
         DropClient(t)
  PROVE  IInv'
<1> DEFINE c == thread[t].c
           p == Idle
           w == watch[c]
<1> USE DEF Facts
<1>0. thread[t].pc \in {"unref", "holds"} /\ ~undefined
  OBVIOUS
<1>1. Facts(t, c)
  BY <1>0, AtWork DEF OutPcs
<1>2. PICK k \in ClientRecords :
        /\ client' = [client EXCEPT ![c] = k]
        /\ client[c].refs >= 1 /\ k.refs = client[c].refs - 1
        /\ k.mem = IF client[c].refs = 1 THEN "freed" ELSE client[c].mem
        /\ k.killed = client[c].killed /\ k.watch = client[c].watch
        /\ k.cs = client[c].cs /\ k.node = client[c].node
  <2>1. client[c].refs >= 1
    BY <1>1 DEF Counted, Counts
  <2> QED BY <1>1, <2>1, ClientUnrefIs DEF DropClient
<1>4. w \in WatchRecords
  BY <1>1, WatchFields
<1>5. Step(t, c, p, k, w) /\ UNCHANGED <<c_list, set, loop, undefined>>
  BY <1>0, <1>1, <1>2, SameEntry DEF DropClient, Step, Placed
<1>3. p \in Places /\ p.c = NoOne /\ p.pc = "idle"
  BY <1>1, PlaceIs, IdleIs, NoOneAssumption DEF OutPcs, AcceptPcs, DispatchPcs, UsePcs, KillPcs
<1> HIDE DEF p
<1>6. LocalStep(t, c, p, k, w)
  <2>1. /\ Calls(t, thread[t], c) /\ ~Calls(t, p, c)
        /\ ~Has(thread[t], c) /\ ~Has(p, c)
    BY <1>0, <1>1, <1>3 DEF Calls, Has, KillPcs, UsePcs, WatchPcs, OutPcs, Placed
  <2>2. Counts(k, w, CallersAfter(t, p, c), HoldersAfter(t, p, c))
    <3>1. /\ CallersAfter(t, p, c) = Cardinality(Callers(c)) - 1
          /\ HoldersAfter(t, p, c) = Cardinality(HasWatch(c))
      BY <2>1, AfterIs
    <3>2. CASE client[c].cs
      <4>1. Cardinality(Callers(c)) - 1 \in Nat /\ client[c].refs # 1
        BY <1>1, <2>1, <3>2 DEF Counted, Counts, One
      <4>2. /\ k.refs = client[c].refs - 1 /\ k.refs \in Nat \ {0}
            /\ k.mem = "live" /\ k.watch = client[c].watch /\ k.cs
        BY <1>1, <1>2, <3>2, <4>1
      <4> DEFINE n == Cardinality(Callers(c))
                 h == Cardinality(HasWatch(c))
      <4>3. n \in Nat /\ h \in Nat /\ Counts(client[c], w, n, h)
        BY <1>1 DEF Counted
      <4>4. client[c].mem = "live" /\ client[c].cs /\ client[c].refs \in Nat
        BY <1>1, <3>2
      <4> HIDE DEF n, h, w, c, Facts
      <4>5. Counts(k, w, n - 1, h)
        BY <4>2, <4>3, <4>4 DEF Counts, One
      <4> QED BY <3>1, <4>5 DEF n, h
    <3>3. CASE ~client[c].cs
      <4>1. ~client[c].watch /\ Cardinality(HasWatch(c)) = 0 /\ watch[c].home = NoOne
        BY <1>0, <1>1, <2>1, <3>3, ThreadsAssumption DEF Placed, UsePcs
      <4>2. watch[c].refs = 0 /\ watch[c].mem # "live" /\ client[c].refs = 1
        <5>1. /\ Counts(client[c], watch[c], Cardinality(Callers(c)), Cardinality(HasWatch(c)))
              /\ client[c].mem = "live"
          BY <1>1 DEF Counted
        <5> HIDE DEF c, Facts
        <5> QED BY <3>3, <4>1, <5>1, WatchGone
      <4> QED BY <1>2, <3>1, <3>3, <4>1, <4>2 DEF Counts, One
    <3> QED BY <3>2, <3>3
  <2>3. k.mem # "unborn" /\ (k.mem = "live" \/ ~k.cs)
    <3>1. client[c].cs => client[c].refs # 1
      BY <1>1, <2>1 DEF Counted, Counts, One
    <3> QED BY <1>1, <1>2, <3>1
  <2>4. ~k.cs => t = AcceptLoop /\ k.mem # "live"
    <3>1. ~k.cs => ~client[c].cs /\ ~client[c].watch /\ Cardinality(HasWatch(c)) = 0
                     /\ watch[c].home = NoOne
      BY <1>0, <1>1, <1>2, <2>1, ThreadsAssumption DEF Placed, UsePcs
    <3>2. /\ Counts(client[c], watch[c], Cardinality(Callers(c)), Cardinality(HasWatch(c)))
          /\ client[c].mem = "live"
      BY <1>1 DEF Counted
    <3>3. ~k.cs => client[c].refs = 1
      <4> HIDE DEF c, Facts
      <4> QED BY <3>1, <3>2, WatchGone
    <3> QED BY <1>1, <1>2, <3>3
  <2> QED BY <1>0, <1>1, <1>2, <1>3, <2>2, <2>3, <2>4, ThreadsAssumption
          DEF LocalStep, Serves, KillPcs, UsePcs, DispatchPcs, Placed
<1> QED BY <1>1, <1>2, <1>3, <1>4, <1>5, <1>6, ListStays

\* A killer drops the reference that it came with, a user its own.
LEMMA UnrefKeeps ==
  ASSUME IInv, NEW t \in Threads, client_unref(t) \/ (t \in Users /\ network_client_unref(t))
  PROVE  IInv'
<1>1. thread[t].pc \in {"unref", "holds"} /\ ~undefined
  BY DEF client_unref, network_client_unref, On
<1>2. t # Main
  BY ThreadsAssumption DEF client_unref, On, IInv, Placed
<1>3. DropClient(t)
  BY <1>2 DEF client_unref, network_client_unref, DropClient
<1> QED BY <1>1, <1>2, <1>3, DropKeeps

\* The borrowed reference goes, and the killer's may still be there.
LEMMA ReturnKeeps ==
  ASSUME IInv, NEW t \in Threads, ReturnWatch(t)
  PROVE  IInv'
<1> DEFINE c == thread[t].c
           p == At("holds", c)
<1> USE DEF Facts
<1>0. thread[t].pc = "lent" /\ ~undefined
  BY DEF ReturnWatch, On
<1>1. Facts(t, c)
  BY <1>0, AtWork DEF OutPcs
<1>2. PICK k \in ClientRecords, w \in WatchRecords :
        /\ client' = [client EXCEPT ![c] = k] /\ watch' = [watch EXCEPT ![c] = w]
        /\ k.refs = client[c].refs - One(watch[c].refs = 1) /\ k.mem = client[c].mem
        /\ k.killed = client[c].killed /\ k.watch = client[c].watch
        /\ k.cs = client[c].cs /\ k.node = client[c].node
        /\ w.refs = watch[c].refs - 1 /\ w.home = watch[c].home
        /\ w.mem = (IF watch[c].refs = 1 THEN "freed" ELSE "live")
        /\ watch[c].refs >= 1 /\ watch[c].mem = "live"
  <2>1. Has(thread[t], c)
    BY <1>0 DEF Has, WatchPcs
  <2>2. watch[c].refs >= 1 /\ watch[c].mem = "live" /\ client[c].refs >= 2
    <3>1. /\ Counts(client[c], watch[c], Cardinality(Callers(c)), Cardinality(HasWatch(c)))
          /\ Cardinality(Callers(c)) \in Nat /\ Cardinality(HasWatch(c)) \in Nat
          /\ Cardinality(HasWatch(c)) >= 1 /\ client[c].mem = "live"
          /\ client[c].refs \in Nat /\ watch[c].refs \in Nat
      BY <1>1, <2>1, WatchFields DEF Counted
    <3> HIDE DEF c, Facts
    <3> QED BY <3>1, WatchCounted
  <2>3. WatchUnref(c, watch[c])
    BY DEF ReturnWatch
  <2>4. TypeOK /\ c \in Clients /\ watch[c] \in WatchRecords
    BY <1>1, WatchFields
  <2> HIDE DEF c, Facts
  <2> QED BY <2>2, <2>3, <2>4, WatchUnrefIs
<1>4. c \in Clients
  BY <1>1
<1>5. Step(t, c, p, k, w) /\ UNCHANGED <<c_list, set, loop, undefined>>
  BY <1>0, <1>1, <1>2, GotoIs DEF ReturnWatch, Step
<1>3. p \in Places /\ p.c = c /\ p.pc = "holds"
  BY <1>1, PlaceIs, IdleIs, NoOneAssumption DEF OutPcs, AcceptPcs, DispatchPcs, UsePcs, KillPcs
<1> HIDE DEF p
<1>6. LocalStep(t, c, p, k, w)
  <2>1. /\ Calls(t, thread[t], c) <=> Calls(t, p, c)
        /\ Has(thread[t], c) /\ ~Has(p, c)
    BY <1>0, <1>1, <1>3 DEF Calls, Has, KillPcs, UsePcs, WatchPcs, OutPcs
  <2>2. Counts(k, w, CallersAfter(t, p, c), HoldersAfter(t, p, c))
    <3>1. /\ CallersAfter(t, p, c) = Cardinality(Callers(c))
          /\ HoldersAfter(t, p, c) = Cardinality(HasWatch(c)) - 1
      BY <2>1, AfterIs
    <3>2. /\ Counts(client[c], watch[c], Cardinality(Callers(c)), Cardinality(HasWatch(c)))
          /\ Cardinality(HasWatch(c)) \in Nat \ {0} /\ watch[c].refs \in Nat
      BY <1>1, <2>1, WatchFields DEF Counted
    <3>3. Drops(k, w, client[c], watch[c])
      BY <1>1, <1>2, <3>2 DEF Drops
    <3>4. Counts(k, w, Cardinality(Callers(c)), Cardinality(HasWatch(c)) - 1)
      <4> DEFINE n == Cardinality(Callers(c))
                 h == Cardinality(HasWatch(c))
      <4>1. n \in Nat /\ h \in Nat /\ h - 1 \in Nat /\ w.home = watch[c].home
        <5>1. n \in Nat
          BY <1>1
        <5> HIDE DEF n, c, Facts
        <5> QED BY <1>2, <3>2, <5>1
      <4>2. Counts(client[c], watch[c], n, h)
        BY <3>2
      <4> HIDE DEF n, h
      <4>3. (h - 1) + One(w.home # NoOne) + 1 = h + One(watch[c].home # NoOne)
        BY <4>1 DEF One
      <4>4. Counts(k, w, n, h - 1)
        BY <3>3, <4>1, <4>2, <4>3, WatchLess
      <4> QED BY <4>4 DEF n, h
    <3> QED BY <3>1, <3>4
  <2> QED BY <1>0, <1>1, <1>2, <1>3, <1>4, <2>2, ThreadsAssumption DEF LocalStep, Serves, KillPcs, UsePcs, DispatchPcs, Placed
<1> QED BY <1>1, <1>2, <1>3, <1>4, <1>5, <1>6, ListStays

\* The last reference frees the watch.
LEMMA WatchUnrefKeeps ==
  ASSUME IInv, NEW t \in Threads, proto_watch_unref(t)
  PROVE  IInv'
<1> DEFINE c == thread[t].c
           p == At("set_del", c)
<1> USE DEF Facts
<1>0. thread[t].pc = "pw_unref" /\ ~undefined
  BY DEF proto_watch_unref, On
<1>1. Facts(t, c)
  BY <1>0, AtWork DEF OutPcs
<1>2. PICK k \in ClientRecords, w \in WatchRecords :
        /\ client' = [client EXCEPT ![c] = k] /\ watch' = [watch EXCEPT ![c] = w]
        /\ k.refs = client[c].refs - One(watch[c].refs = 1) /\ k.mem = client[c].mem
        /\ k.killed = client[c].killed /\ k.watch = client[c].watch
        /\ k.cs = client[c].cs /\ k.node = client[c].node
        /\ w.refs = watch[c].refs - 1 /\ w.home = watch[c].home
        /\ w.mem = (IF watch[c].refs = 1 THEN "freed" ELSE "live")
        /\ watch[c].refs >= 1 /\ watch[c].mem = "live"
  <2>1. Has(thread[t], c)
    BY <1>0 DEF Has, WatchPcs
  <2>2. watch[c].refs >= 1 /\ watch[c].mem = "live" /\ client[c].refs >= 2
    <3>1. /\ Counts(client[c], watch[c], Cardinality(Callers(c)), Cardinality(HasWatch(c)))
          /\ Cardinality(Callers(c)) \in Nat /\ Cardinality(HasWatch(c)) \in Nat
          /\ Cardinality(HasWatch(c)) >= 1 /\ client[c].mem = "live"
          /\ client[c].refs \in Nat /\ watch[c].refs \in Nat
      BY <1>1, <2>1, WatchFields DEF Counted
    <3> HIDE DEF c, Facts
    <3> QED BY <3>1, WatchCounted
  <2>3. WatchUnref(c, watch[c])
    BY DEF proto_watch_unref
  <2>4. TypeOK /\ c \in Clients /\ watch[c] \in WatchRecords
    BY <1>1, WatchFields
  <2> HIDE DEF c, Facts
  <2> QED BY <2>2, <2>3, <2>4, WatchUnrefIs
<1>4. c \in Clients
  BY <1>1
<1>5. Step(t, c, p, k, w) /\ UNCHANGED <<c_list, set, loop, undefined>>
  BY <1>0, <1>1, <1>2, GotoIs DEF proto_watch_unref, Step
<1>3. p \in Places /\ p.c = c /\ p.pc = "set_del"
  BY <1>1, PlaceIs, IdleIs, NoOneAssumption DEF OutPcs, AcceptPcs, DispatchPcs, UsePcs, KillPcs
<1> HIDE DEF p
<1>6. LocalStep(t, c, p, k, w)
  <2>1. /\ Calls(t, thread[t], c) <=> Calls(t, p, c)
        /\ Has(thread[t], c) /\ ~Has(p, c)
    BY <1>0, <1>1, <1>3 DEF Calls, Has, KillPcs, UsePcs, WatchPcs, OutPcs
  <2>2. Counts(k, w, CallersAfter(t, p, c), HoldersAfter(t, p, c))
    <3>1. /\ CallersAfter(t, p, c) = Cardinality(Callers(c))
          /\ HoldersAfter(t, p, c) = Cardinality(HasWatch(c)) - 1
      BY <2>1, AfterIs
    <3>2. /\ Counts(client[c], watch[c], Cardinality(Callers(c)), Cardinality(HasWatch(c)))
          /\ Cardinality(HasWatch(c)) \in Nat \ {0} /\ watch[c].refs \in Nat
      BY <1>1, <2>1, WatchFields DEF Counted
    <3>3. Drops(k, w, client[c], watch[c])
      BY <1>1, <1>2, <3>2 DEF Drops
    <3>4. Counts(k, w, Cardinality(Callers(c)), Cardinality(HasWatch(c)) - 1)
      <4> DEFINE n == Cardinality(Callers(c))
                 h == Cardinality(HasWatch(c))
      <4>1. n \in Nat /\ h \in Nat /\ h - 1 \in Nat /\ w.home = watch[c].home
        <5>1. n \in Nat
          BY <1>1
        <5> HIDE DEF n, c, Facts
        <5> QED BY <1>2, <3>2, <5>1
      <4>2. Counts(client[c], watch[c], n, h)
        BY <3>2
      <4> HIDE DEF n, h
      <4>3. (h - 1) + One(w.home # NoOne) + 1 = h + One(watch[c].home # NoOne)
        BY <4>1 DEF One
      <4>4. Counts(k, w, n, h - 1)
        BY <3>3, <4>1, <4>2, <4>3, WatchLess
      <4> QED BY <4>4 DEF n, h
    <3> QED BY <3>1, <3>4
  <2> QED BY <1>0, <1>1, <1>2, <1>3, <1>4, <2>2, ThreadsAssumption DEF LocalStep, Serves, KillPcs, UsePcs, DispatchPcs, Placed
<1> QED BY <1>1, <1>2, <1>3, <1>4, <1>5, <1>6, ListStays

\* The pointer is read without the lock, and may be gone.
LEMMA AttachKeeps ==
  ASSUME IInv, NEW t \in Threads, network_client_attach(t)
  PROVE  IInv'
<1> DEFINE c == thread[t].c
           p == IF client[c].watch THEN At("proto_watch_attach", c) ELSE Idle
           k == client[c]
           w == watch[c]
<1> USE DEF Facts
<1>0. thread[t].pc = "attach" /\ ~undefined
  BY DEF network_client_attach, On
<1>1. Facts(t, c)
  BY <1>0, AtWork DEF OutPcs
<1>2. k \in ClientRecords /\ k = client[c]
  BY <1>0, <1>1, ClientFields DEF ClientRecords, Counted, Counts, One
<1>3. /\ p \in Places /\ p.c = (IF p.pc = "idle" THEN NoOne ELSE c)
      /\ p.pc \in {"idle", "proto_watch_attach"}
  <2>1. CASE p = Idle
    BY <2>1, IdleIs
  <2>2. CASE p = At("proto_watch_attach", c)
    BY <1>1, <2>2, PlaceIs DEF AcceptPcs
  <2> QED BY <2>1, <2>2
<1>4. w \in WatchRecords /\ w = watch[c]
  BY <1>0, <1>1, WatchFields DEF WatchRecords
<1>5. Step(t, c, p, k, w) /\ UNCHANGED <<c_list, set, loop, undefined>>
  BY <1>0, <1>1, GotoIs, SameEntry DEF network_client_attach, Idle, Step, TypeOK
<1> HIDE DEF p, k, w
<1>6. LocalStep(t, c, p, k, w)
  <2>1. ~Calls(t, thread[t], c) /\ ~Calls(t, p, c) /\ ~Has(thread[t], c) /\ ~Has(p, c)
    BY <1>0, <1>1, <1>3 DEF Calls, Has, KillPcs, UsePcs, WatchPcs, OutPcs
  <2>2. Counts(k, w, CallersAfter(t, p, c), HoldersAfter(t, p, c))
    <3>1. /\ CallersAfter(t, p, c) = Cardinality(Callers(c))
          /\ HoldersAfter(t, p, c) = Cardinality(HasWatch(c))
      BY <2>1, AfterIs
    <3> QED BY <1>0, <1>1, <1>2, <1>4, WatchFields, <3>1 DEF Counted, Counts, One
  <2> QED BY <1>0, <1>1, <1>2, <1>3, <1>4, <2>2, ThreadsAssumption DEF LocalStep, Serves, KillPcs, UsePcs, DispatchPcs, Placed, Owned, AcceptPcs
<1> QED BY <1>1, <1>2, <1>3, <1>4, <1>5, <1>6, ListStays

\* A user that lets go has one reference of its own to drop.
LEMMA LetGoKeeps ==
  ASSUME IInv, NEW t \in Threads, LetGo(t)
  PROVE  IInv'
<1> DEFINE c == thread[t].c
           p == At("kill", c)
           k == client[c]
           w == watch[c]
<1> USE DEF Facts
<1>0. thread[t].pc = "holds" /\ ~undefined
  BY DEF LetGo, On
<1>1. Facts(t, c)
  BY <1>0, AtWork DEF OutPcs
<1>2. k \in ClientRecords /\ k = client[c]
  BY <1>0, <1>1, ClientFields DEF ClientRecords, Counted, Counts, One
<1>3. p \in Places /\ p.c = c /\ p.pc = "kill"
  BY <1>1, PlaceIs, NoOneAssumption DEF OutPcs, AcceptPcs, DispatchPcs, UsePcs, KillPcs
<1>4. w \in WatchRecords /\ w = watch[c]
  BY <1>0, <1>1, WatchFields DEF WatchRecords
<1>5. Step(t, c, p, k, w) /\ UNCHANGED <<c_list, set, loop, undefined>>
  <2>1. thread' = [thread EXCEPT ![t] = p]
    BY <1>1, GotoIs DEF LetGo
  <2> QED BY <1>1, <2>1, SameEntry DEF LetGo, Step
<1> HIDE DEF p, k, w
<1>6. LocalStep(t, c, p, k, w)
  <2>1. /\ Calls(t, thread[t], c) <=> Calls(t, p, c)
        /\ ~Has(thread[t], c) /\ ~Has(p, c)
    BY <1>0, <1>1, <1>3 DEF Calls, Has, KillPcs, UsePcs, WatchPcs, OutPcs
  <2>2. Counts(k, w, CallersAfter(t, p, c), HoldersAfter(t, p, c))
    <3>1. /\ CallersAfter(t, p, c) = Cardinality(Callers(c))
          /\ HoldersAfter(t, p, c) = Cardinality(HasWatch(c))
      BY <2>1, AfterIs
    <3> QED BY <1>0, <1>1, <1>2, <1>4, WatchFields, <3>1 DEF Counted, Counts, One
  <2> QED BY <1>0, <1>1, <1>2, <1>3, <1>4, <2>2, ThreadsAssumption DEF LocalStep, Serves, KillPcs, UsePcs, DispatchPcs, Placed
<1> QED BY <1>1, <1>2, <1>3, <1>4, <1>5, <1>6, ListStays

\* A watch attached before any kill gets the loop as an owner.
LEMMA WatchAttachKeeps ==
  ASSUME IInv, NEW t \in Threads, proto_watch_attach(t)
  PROVE  IInv'
<1> DEFINE c == thread[t].c
           p == Idle
           k == client[c]
<1> USE DEF Facts
<1>0. thread[t].pc = "proto_watch_attach" /\ watch[c].mem = "live" /\ ~undefined
  BY DEF proto_watch_attach, On
<1>1. /\ c \in Clients /\ c # NoOne /\ client[c].mem = "live" /\ client[c].refs \in Nat
      /\ ~client[c].cs => t = AcceptLoop /\ watch[c].home = NoOne
      /\ (client[c].watch <=> ~client[c].killed)
      /\ Serves(t) /\ Counted(c) /\ TypeOK /\ Placed(t) /\ Owned(c)
      /\ Cardinality(Callers(c)) \in Nat /\ Cardinality(HasWatch(c)) \in Nat
      /\ t = AcceptLoop /\ client[c].cs /\ watch[c].home = NoOne
      /\ client[c].node # "self"
  <2>1. Facts(t, c)
    BY <1>0, AtWork DEF OutPcs
  <2>2. t = AcceptLoop
    BY <1>0, <2>1 DEF Placed, AcceptPcs
  <2> QED BY <1>0, <2>1, <2>2, ThreadsAssumption DEF Owned
<1>2. k \in ClientRecords
  BY <1>1, ClientFields
<1>3. p \in Places /\ p.c = NoOne /\ p.pc = "idle"
  BY IdleIs
<1>5. PICK w \in WatchRecords :
        /\ watch' = [watch EXCEPT ![c] = w] /\ w.mem = "live"
        /\ \/ w = watch[c]
           \/ w.home \in Loops /\ loop[w.home] = "runs" /\ w.refs = watch[c].refs + 1
  <2>1. CASE watch' = watch
    BY <1>0, <1>1, <2>1, SameEntry, WatchFields
  <2>2. CASE watch' # watch
    <3>1. PICK h \in Loops : PlaceWatch(c, h)
      BY <2>2 DEF proto_watch_attach
    <3>2. /\ loop[h] = "runs"
          /\ watch' = [watch EXCEPT ![c].refs = @ + 1, ![c].home = h, ![c].loop = h]
      BY <2>2, <3>1 DEF PlaceWatch
    <3> DEFINE w == [watch[c] EXCEPT !.refs = @ + 1, !.home = h, !.loop = h]
    <3>3. w \in WatchRecords /\ w.mem = "live" /\ w.home = h /\ w.refs = watch[c].refs + 1
      <4>1. watch[c] \in WatchRecords /\ watch[c].refs + 1 \in Nat
        BY <1>1, WatchFields
      <4> QED BY <1>0, <4>1 DEF WatchRecords
    <3>4. watch' = [watch EXCEPT ![c] = w]
      BY <1>1, <3>2 DEF TypeOK
    <3> HIDE DEF w
    <3> QED BY <3>2, <3>3, <3>4
  <2> QED BY <2>1, <2>2
<1>6. Step(t, c, p, k, w) /\ UNCHANGED <<c_list, set, loop, undefined>>
  BY <1>1, <1>5, SameEntry DEF proto_watch_attach, Step
<1> HIDE DEF p
<1>7. LocalStep(t, c, p, k, w)
  <2>1. ~Calls(t, thread[t], c) /\ ~Calls(t, p, c) /\ ~Has(thread[t], c) /\ ~Has(p, c)
    BY <1>0, <1>1, <1>3 DEF Calls, Has, KillPcs, UsePcs, WatchPcs
  <2>2. Counts(k, w, CallersAfter(t, p, c), HoldersAfter(t, p, c))
    <3>1. /\ CallersAfter(t, p, c) = Cardinality(Callers(c))
          /\ HoldersAfter(t, p, c) = Cardinality(HasWatch(c))
      BY <2>1, AfterIs
    <3>2. /\ Counts(k, watch[c], Cardinality(Callers(c)), Cardinality(HasWatch(c)))
          /\ watch[c].refs \in Nat
      BY <1>1, WatchFields DEF Counted
    <3>3. CASE w = watch[c]
      BY <3>1, <3>2, <3>3
    <3>4. CASE w.home \in Loops /\ w.refs = watch[c].refs + 1
      <4> DEFINE h == Cardinality(HasWatch(c))
                 a == One(k.watch)
      <4>1. h \in Nat /\ a \in Nat /\ One(watch[c].home # NoOne) = 0 /\ One(w.home # NoOne) = 1
        BY <1>1, <3>4, NoOneAssumption DEF One
      <4>2. watch[c].refs = a + h + One(watch[c].home # NoOne)
        BY <3>2 DEF Counts
      <4> HIDE DEF h, a, c
      <4>3. w.refs = a + h + One(w.home # NoOne) /\ w.refs # 0
        BY <3>2, <3>4, <4>1, <4>2
      <4>4. w.mem = watch[c].mem /\ w.mem = "live"
        BY <1>0, <1>5
      <4> QED BY <3>1, <3>2, <4>3, <4>4 DEF Counts, a, h
    <3> QED BY <1>5, <3>3, <3>4
  <2> QED BY <1>0, <1>1, <1>3, <1>5, <2>2, ThreadsAssumption DEF LocalStep, Serves, KillPcs, UsePcs, DispatchPcs
<1> QED BY <1>1, <1>2, <1>3, <1>5, <1>6, <1>7, ListStays

\* A watch in a loop is the one of a client of the set, and both live.
LEMMA Served ==
  ASSUME IInv, NEW c \in Clients, watch[c].home # NoOne
  PROVE  /\ client[c].mem = "live" /\ client[c].cs /\ client[c].refs \in Nat
         /\ watch[c].mem = "live" /\ watch[c].refs \in Nat \ {0} /\ client[c].refs >= 2
         /\ (client[c].watch <=> ~client[c].killed)
         /\ Counted(c) /\ Owned(c) /\ TypeOK
         /\ Cardinality(Callers(c)) \in Nat /\ Cardinality(HasWatch(c)) \in Nat
         /\ thread[AcceptLoop].c = c => thread[AcceptLoop].pc \notin AcceptPcs
<1>1. Owned(c) /\ Counted(c) /\ TypeOK /\ SetHeld
  BY DEF IInv, ReferencesCounted
<1>2. /\ client[c].refs \in Nat /\ watch[c].refs \in Nat
      /\ Cardinality(Callers(c)) \in Nat /\ Cardinality(HasWatch(c)) \in Nat
  BY <1>1, ClientFields, WatchFields, CallersFinite
<1>3. watch[c].refs # 0
  BY <1>1, <1>2 DEF Counted, Counts, One
<1>4. watch[c].mem = "live" /\ client[c].cs
  BY <1>1, <1>3 DEF Counted, Counts, Owned
<1>5. client[c].refs >= 1
  BY <1>1, <1>2, <1>4 DEF Counted, Counts, One
<1>6. client[c].mem = "live" /\ client[c].refs >= 2
  BY <1>1, <1>2, <1>4, <1>5 DEF Counted, Counts, One
<1> QED BY <1>1, <1>2, <1>3, <1>4, <1>6 DEF Owned, AcceptPcs

\* A thread enters a call with a client that a loop serves.
LEMMA EnterKeeps ==
  ASSUME IInv, NEW t \in Threads, NEW c \in Clients, NEW pc \in {"holds", "kill"},
         watch[c].home # NoOne, ~undefined, t # Main,
         thread[t].pc = "idle" \/ (thread[t].pc \in DispatchPcs /\ thread[t].c = c),
         pc = "holds" => t \in Users, t \in Loops => Serves(t),
         client' = [client EXCEPT ![c].refs = @ + 1],
         thread' = [thread EXCEPT ![t] = At(pc, c)],
         UNCHANGED <<watch, c_list, set, loop, undefined>>
  PROVE  IInv'
<1> DEFINE p == At(pc, c)
           k == [client[c] EXCEPT !.refs = @ + 1]
           w == watch[c]
<1>1. /\ client[c].mem = "live" /\ client[c].cs /\ client[c].refs \in Nat
      /\ (client[c].watch <=> ~client[c].killed)
      /\ Counted(c) /\ TypeOK
      /\ Cardinality(Callers(c)) \in Nat /\ Cardinality(HasWatch(c)) \in Nat
  BY Served
<1>2. /\ k \in ClientRecords /\ k.mem = client[c].mem /\ k.refs = client[c].refs + 1
      /\ k.cs = client[c].cs /\ k.node = client[c].node
      /\ k.killed = client[c].killed /\ k.watch = client[c].watch
  <2>1. client[c] \in ClientRecords /\ client[c].refs + 1 \in Nat
    BY <1>1, ClientFields
  <2> QED BY <2>1 DEF ClientRecords
<1>3. p \in Places /\ p.c = c /\ p.pc = pc
  BY PlaceIs DEF KillPcs, UsePcs
<1>4. w \in WatchRecords
  BY <1>1, WatchFields
<1>5. Step(t, c, p, k, w)
  BY <1>1, SameEntry DEF Step, TypeOK
<1>6. /\ c # NoOne /\ thread[t].c \in {NoOne, c}
      /\ thread[t].pc \in {"idle", "dispatched", "handles"}
      /\ thread[t].pc = "idle" => thread[t].c = NoOne
  BY NoOneAssumption DEF IInv, Placed, OutPcs, DispatchPcs
<1> HIDE DEF p, k
<1>7. LocalStep(t, c, p, k, w)
  <2>1. ~Calls(t, thread[t], c) /\ Calls(t, p, c) /\ ~Has(thread[t], c) /\ ~Has(p, c)
    BY <1>3, <1>6 DEF Calls, Has, KillPcs, UsePcs, WatchPcs
  <2>2. Counts(k, w, CallersAfter(t, p, c), HoldersAfter(t, p, c))
    <3>1. /\ CallersAfter(t, p, c) = Cardinality(Callers(c)) + 1
          /\ HoldersAfter(t, p, c) = Cardinality(HasWatch(c))
      BY <2>1, AfterIs
    <3> QED BY <1>1, <1>2, <3>1 DEF Counted, Counts, One
  <2> QED BY <1>1, <1>2, <1>3, <1>6, <2>2 DEF LocalStep, Serves, KillPcs, UsePcs, DispatchPcs
<1> QED BY <1>1, <1>2, <1>3, <1>4, <1>5, <1>7, ListStays

\* The handler of a message has a client that its loop has.
LEMMA RefKeeps ==
  ASSUME IInv, NEW u \in Users, NEW c \in Clients, network_client_ref(u, c)
  PROVE  IInv'
<1>1. u \in Threads /\ u # Main /\ u \notin Loops /\ thread[u].pc = "idle" /\ ~undefined
  BY ThreadsAssumption DEF Threads, network_client_ref, On
<1>2. watch[c].home # NoOne
  <2>1. PICK t \in Loops : thread[t] = At("handles", c)
    BY DEF network_client_ref
  <2>2. thread[t].pc = "handles" /\ thread[t].c = c /\ t \in Threads /\ t # NoOne
    BY <2>1, NoOneAssumption DEF At, Threads
  <2> QED BY <2>2 DEF IInv, Placed, DispatchPcs
<1> QED BY <1>1, <1>2, EnterKeeps DEF network_client_ref

\* What a thread knows that was called back by its loop.
LEMMA Called ==
  ASSUME IInv, NEW t \in Loops, thread[t].pc \in DispatchPcs
  PROVE  /\ thread[t].c \in Clients /\ watch[thread[t].c].home = t
         /\ t # NoOne /\ t # Main /\ t \in Threads /\ Serves(t)
<1>1. t \in Threads /\ t # NoOne /\ t # Main
  BY ThreadsAssumption, NoOneAssumption DEF Threads
<1>2. Facts(t, thread[t].c)
  BY <1>1, AtWork DEF OutPcs, DispatchPcs
<1> QED BY <1>1, <1>2 DEF Facts, Placed

\* A callback of the loop that has the watch takes a reference.
LEMMA ClosedKeeps ==
  ASSUME IInv, NEW t \in Loops, conn_closed(t)
  PROVE  IInv'
<1> DEFINE c == thread[t].c
<1>1. thread[t].pc = "dispatched" /\ ~undefined
  BY DEF conn_closed, On
<1>2. /\ c \in Clients /\ watch[c].home = t
      /\ t # NoOne /\ t # Main /\ t \in Threads /\ Serves(t)
  BY <1>1, Called DEF DispatchPcs
<1>3. thread' = [thread EXCEPT ![t] = At("kill", c)]
  BY <1>2, GotoIs DEF conn_closed, IInv
<1>4. t \notin Users
  BY ThreadsAssumption
<1>5. client' = [client EXCEPT ![c].refs = @ + 1] /\ UNCHANGED <<watch, c_list, set, loop, undefined>>
  BY DEF conn_closed
<1> HIDE DEF c
<1> QED BY <1>1, <1>2, <1>3, <1>5, EnterKeeps DEF c, DispatchPcs

\* A thread is called back, looks again, or returns.
LEMMA DispatchKeeps ==
  ASSUME IInv, NEW t \in Loops, NEW c \in Clients, NEW p \in Places, ~undefined,
         watch[c].home = t, Serves(t),
         thread[t].pc = "idle" \/ (thread[t].pc \in DispatchPcs /\ thread[t].c = c),
         p = Idle \/ (p.c = c /\ p.pc \in DispatchPcs),
         thread' = [thread EXCEPT ![t] = p],
         UNCHANGED <<client, watch, c_list, set, loop, undefined>>
  PROVE  IInv'
<1> DEFINE k == client[c]
           w == watch[c]
<1>1. t \in Threads /\ t # NoOne /\ t # Main /\ c # NoOne
  BY ThreadsAssumption, NoOneAssumption DEF Threads
<1>2. /\ client[c].mem = "live" /\ client[c].cs
      /\ (client[c].watch <=> ~client[c].killed)
      /\ Counted(c) /\ TypeOK
      /\ Cardinality(Callers(c)) \in Nat /\ Cardinality(HasWatch(c)) \in Nat
  BY <1>1, Served
<1>3. k \in ClientRecords /\ w \in WatchRecords
  BY <1>2, ClientFields, WatchFields
<1>4. Step(t, c, p, k, w)
  BY <1>2, SameEntry DEF Step
<1>5. /\ thread[t].c \in {NoOne, c} /\ thread[t].pc \in {"idle", "dispatched", "handles"}
      /\ p.c = (IF p.pc = "idle" THEN NoOne ELSE c)
      /\ p.pc \in {"idle", "dispatched", "handles"}
  BY <1>1, IdleIs DEF IInv, Placed, OutPcs, DispatchPcs
<1>6. LocalStep(t, c, p, k, w)
  <2>1. ~Calls(t, thread[t], c) /\ ~Calls(t, p, c) /\ ~Has(thread[t], c) /\ ~Has(p, c)
    BY <1>5 DEF Calls, Has, KillPcs, UsePcs, WatchPcs
  <2>2. Counts(k, w, CallersAfter(t, p, c), HoldersAfter(t, p, c))
    BY <1>2, <2>1, AfterIs DEF Counted
  <2> QED BY <1>1, <1>2, <1>5, <2>2 DEF LocalStep, Serves, KillPcs, UsePcs, DispatchPcs
<1> QED BY <1>1, <1>2, <1>3, <1>4, <1>6, ListStays

\* The three steps of a thread that was called back and does not kill.
LEMMA CallbackKeeps ==
  ASSUME IInv, NEW t \in Loops,
         \/ \E c \in Clients : proto_watch_dispath(t, c)
         \/ network_client_msg_recv(t) \/ DispatchReturns(t)
  PROVE  IInv'
<1>1. ASSUME NEW c \in Clients, proto_watch_dispath(t, c) PROVE IInv'
  <2>1. /\ At("dispatched", c) \in Places /\ At("dispatched", c).c = c
        /\ At("dispatched", c).pc \in DispatchPcs
    BY PlaceIs DEF DispatchPcs
  <2> QED BY <1>1, <2>1, DispatchKeeps DEF proto_watch_dispath, On
<1>2. ASSUME thread[t].pc \in DispatchPcs, ~undefined, NEW p \in Places,
             p = Idle \/ (p.c = thread[t].c /\ p.pc \in DispatchPcs),
             thread' = [thread EXCEPT ![t] = p],
             UNCHANGED <<client, watch, c_list, set, loop, undefined>>
      PROVE  IInv'
  BY <1>2, Called, DispatchKeeps
<1>3. ASSUME network_client_msg_recv(t) PROVE IInv'
  <2>1. thread[t].pc \in DispatchPcs /\ ~undefined
    BY <1>3 DEF network_client_msg_recv, On, DispatchPcs
  <2>2. thread[t].c \in Clients /\ t \in Threads
    BY <2>1, Called
  <2>3. /\ At("handles", thread[t].c) \in Places /\ At("handles", thread[t].c).c = thread[t].c
        /\ At("handles", thread[t].c).pc \in DispatchPcs
    BY <2>2, PlaceIs DEF DispatchPcs
  <2>4. thread' = [thread EXCEPT ![t] = At("handles", thread[t].c)]
    BY <1>3, <2>2, GotoIs DEF network_client_msg_recv, IInv
  <2>5. UNCHANGED <<client, watch, c_list, set, loop, undefined>>
    BY <1>3 DEF network_client_msg_recv
  <2> QED BY <1>2, <2>1, <2>3, <2>4, <2>5
<1>4. ASSUME DispatchReturns(t) PROVE IInv'
  <2>1. thread[t].pc \in DispatchPcs /\ ~undefined
    BY <1>4 DEF DispatchReturns, On, DispatchPcs
  <2> QED BY <1>2, <1>4, <2>1, IdleIs DEF DispatchReturns
<1> QED BY <1>1, <1>3, <1>4

\* A loop lets go of a watch.
LEMMA ReleaseKeeps ==
  ASSUME IInv, NEW t \in Loops, NEW c \in Clients, NEW v \in WatchRecords, ~undefined,
         thread[t].pc = "idle", loop[t] \notin {"ended", "freed"}, watch[c].home = t,
         v.mem = watch[c].mem, v.refs = watch[c].refs, v.home = NoOne,
         WatchUnref(c, v), UNCHANGED <<c_list, set, thread, loop, undefined>>
  PROVE  IInv'
<1> DEFINE p == thread[t]
<1>0. t \in Threads /\ t # Main /\ watch[c].home # NoOne
  BY ThreadsAssumption, NoOneAssumption DEF Threads
<1>1. /\ client[c].mem = "live" /\ client[c].cs /\ client[c].refs >= 2
      /\ watch[c].mem = "live" /\ watch[c].refs \in Nat \ {0}
      /\ (client[c].watch <=> ~client[c].killed)
      /\ Counted(c) /\ TypeOK
      /\ Cardinality(Callers(c)) \in Nat /\ Cardinality(HasWatch(c)) \in Nat
  BY <1>0, Served
<1>2. v.mem = "live" /\ v.refs >= 1
  BY <1>1
<1>3. PICK k \in ClientRecords, w \in WatchRecords :
        /\ client' = [client EXCEPT ![c] = k] /\ watch' = [watch EXCEPT ![c] = w]
        /\ k.refs = client[c].refs - One(v.refs = 1) /\ k.mem = client[c].mem
        /\ k.killed = client[c].killed /\ k.watch = client[c].watch
        /\ k.cs = client[c].cs /\ k.node = client[c].node
        /\ w.refs = v.refs - 1 /\ w.home = v.home
        /\ w.mem = (IF v.refs = 1 THEN "freed" ELSE "live")
  BY <1>1, <1>2, WatchUnrefIs
<1>4. p \in Places /\ p.c = NoOne /\ c # NoOne
  BY <1>0, <1>1, ThreadFields, NoOneAssumption DEF IInv, Placed, OutPcs
<1>5. Step(t, c, p, k, w) /\ UNCHANGED <<c_list, set, loop, undefined>>
  <2>1. thread' = [thread EXCEPT ![t] = p] /\ UNCHANGED <<c_list, set, loop, undefined>>
    BY <1>0, <1>1 DEF TypeOK
  <2> QED BY <1>3, <2>1 DEF Step
<1>6. LocalStep(t, c, p, k, w)
  <2>1. ~Calls(t, thread[t], c) /\ ~Calls(t, p, c) /\ ~Has(thread[t], c) /\ ~Has(p, c)
    BY <1>4 DEF Calls, Has
  <2>2. Counts(k, w, CallersAfter(t, p, c), HoldersAfter(t, p, c))
    <3>1. /\ CallersAfter(t, p, c) = Cardinality(Callers(c))
          /\ HoldersAfter(t, p, c) = Cardinality(HasWatch(c))
      BY <2>1, AfterIs
    <3>2. One(w.home # NoOne) = 0 /\ One(watch[c].home # NoOne) = 1
      BY <1>0, <1>2, <1>3 DEF One
    <3>3. Counts(client[c], watch[c], Cardinality(Callers(c)), Cardinality(HasWatch(c)))
      BY <1>1 DEF Counted
    <3>4. Counts(k, w, Cardinality(Callers(c)), Cardinality(HasWatch(c)))
      <4>1. /\ k.refs = client[c].refs - One(watch[c].refs = 1) /\ w.refs = watch[c].refs - 1
            /\ w.mem = (IF watch[c].refs = 1 THEN "freed" ELSE "live")
            /\ client[c].refs \in Nat
        BY <1>1, <1>2, <1>3, ClientFields
      <4>2. Drops(k, w, client[c], watch[c])
        BY <1>1, <1>3, <4>1 DEF Drops
      <4> DEFINE n == Cardinality(Callers(c))
                 h == Cardinality(HasWatch(c))
      <4>3. n \in Nat /\ h \in Nat /\ Counts(client[c], watch[c], n, h)
        BY <1>1, <3>3
      <4> HIDE DEF n, h
      <4>4. h + One(w.home # NoOne) + 1 = h + One(watch[c].home # NoOne)
        BY <3>2, <4>3
      <4>5. Counts(k, w, n, h)
        BY <4>2, <4>3, <4>4, WatchLess
      <4> QED BY <4>5 DEF n, h
    <3> QED BY <3>1, <3>4
  <2> QED BY <1>0, <1>1, <1>2, <1>3, <1>4, <2>2 DEF LocalStep, Serves, KillPcs, UsePcs, DispatchPcs
<1> QED BY <1>0, <1>1, <1>3, <1>4, <1>5, <1>6, ListStays

\* The loop executes the removal that was asked for, or lets go of what it still has when
\* it was told to quit.
LEMMA RemovesKeeps ==
  ASSUME IInv, NEW t \in Loops, NEW c \in Clients, LoopRemoves(t, c) \/ h6_ev_realse_one(t, c)
  PROVE  IInv'
<1>1. /\ thread[t].pc = "idle" /\ ~undefined /\ loop[t] \notin {"ended", "freed"}
      /\ watch[c].home = t /\ UNCHANGED <<c_list, set, thread, loop, undefined>>
  BY DEF LoopRemoves, h6_ev_realse_one, On, Serves
<1>2. watch[c] \in WatchRecords
  BY WatchFields DEF IInv
<1>3. CASE LoopRemoves(t, c)
  <2> DEFINE v == [watch[c] EXCEPT !.asked = FALSE, !.home = NoOne]
  <2>1. v \in WatchRecords /\ v.mem = watch[c].mem /\ v.refs = watch[c].refs /\ v.home = NoOne
    BY <1>2 DEF WatchRecords
  <2>2. WatchUnref(c, v)
    BY <1>3 DEF LoopRemoves
  <2> HIDE DEF v
  <2> QED BY <1>1, <2>1, <2>2, ReleaseKeeps
<1>4. CASE h6_ev_realse_one(t, c)
  <2> DEFINE v == [watch[c] EXCEPT !.home = NoOne]
  <2>1. v \in WatchRecords /\ v.mem = watch[c].mem /\ v.refs = watch[c].refs /\ v.home = NoOne
    BY <1>2 DEF WatchRecords
  <2>2. WatchUnref(c, v)
    BY <1>4 DEF h6_ev_realse_one
  <2> HIDE DEF v
  <2> QED BY <1>1, <2>1, <2>2, ReleaseKeeps
<1> QED BY <1>3, <1>4

\* The client leaves the list with its links, or the set is waited for.
LEMMA SetDelKeeps ==
  ASSUME IInv, NEW t \in Threads, client_set_del(t)
  PROVE  IInv'
<1> DEFINE c == thread[t].c
           p == At("unref", c)
           w == watch[c]
<1> USE DEF Facts
<1>0. /\ thread[t].pc = "set_del" /\ ~undefined
      /\ client[c].cs => set.lock = NoOne
  BY DEF client_set_del, On
<1>1. Facts(t, c)
  BY <1>0, AtWork DEF OutPcs
<1>2. p \in Places /\ p.c = c /\ p.pc = "unref" /\ w \in WatchRecords
  <2>1. TypeOK /\ c \in Clients
    BY <1>1
  <2>2. w \in WatchRecords
    BY <2>1, WatchFields
  <2> HIDE DEF c, w, Facts
  <2>3. p \in Places /\ p.c = c /\ p.pc = "unref"
    BY <2>1, PlaceIs DEF KillPcs
  <2> QED BY <2>2, <2>3
<1>3. client[c].killed /\ t # Main
  <2>1. client[c].killed
    BY <1>0, <1>1 DEF Placed
  <2>2. /\ set.lock = IF thread[Main].pc \in {"next"} \cup KillPcs THEN Main ELSE NoOne
        /\ thread[Main].c # NoOne => client[thread[Main].c].cs
    BY DEF IInv, SetHeld
  <2>3. t # Main
    BY <1>0, <1>1, <2>2, NoOneAssumption DEF KillPcs
  <2> QED BY <2>1, <2>3
<1>4. c_list \in Seq(Clients) /\ IsInjective(c_list)
  BY DEF IInv, TypeOK, MembersLinked
<1>5. PICK k \in ClientRecords :
        /\ client' = [client EXCEPT ![c] = k]
        /\ k.mem = client[c].mem /\ k.refs = client[c].refs /\ k.cs = client[c].cs
        /\ k.killed = client[c].killed /\ k.watch = client[c].watch
        /\ \/ k.node = client[c].node /\ c_list' = c_list
           \/ /\ k.node = "self" /\ k.cs /\ client[c].node # "self"
              /\ c_list' = RemoveFirst(c_list, c) /\ c \in ToSet(c_list)
  <2>1. CASE client[c].cs /\ client[c].node # "self"
    <3> DEFINE k == [client[c] EXCEPT !.node = "self"]
    <3>1. /\ k \in ClientRecords /\ k.node = "self"
          /\ k.mem = client[c].mem /\ k.refs = client[c].refs /\ k.cs = client[c].cs
          /\ k.killed = client[c].killed /\ k.watch = client[c].watch
      BY <1>1, ClientFields DEF ClientRecords
    <3>2. client' = [client EXCEPT ![c] = k] /\ c_list' = RemoveFirst(c_list, c)
      BY <1>1, <2>1 DEF client_set_del, Unlink, TypeOK
    <3>3. client[c].node = "linked"
      BY <1>0, <1>1, <2>1, NoOneAssumption, ClientFields DEF IInv, MembersLinked, Threads
    <3>4. c \in ToSet(c_list)
      BY <1>1, <3>3 DEF IInv, MembersLinked, Listed, ToSet
    <3> HIDE DEF k
    <3> QED BY <2>1, <3>1, <3>2, <3>4
  <2>2. CASE ~(client[c].cs /\ client[c].node # "self")
    BY <1>1, <2>2, SameEntry, ClientFields DEF client_set_del
  <2> QED BY <2>1, <2>2
<1>6. Step(t, c, p, k, w) /\ UNCHANGED <<set, loop, undefined>>
  BY <1>1, <1>5, GotoIs, SameEntry DEF client_set_del, Step
<1> HIDE DEF p
<1>7. LocalStep(t, c, p, k, w)
  <2>1. /\ Calls(t, thread[t], c) <=> Calls(t, p, c)
        /\ ~Has(thread[t], c) /\ ~Has(p, c)
    BY <1>0, <1>1, <1>2 DEF Calls, Has, KillPcs, UsePcs, WatchPcs
  <2>2. Counts(k, w, CallersAfter(t, p, c), HoldersAfter(t, p, c))
    <3>1. /\ CallersAfter(t, p, c) = Cardinality(Callers(c))
          /\ HoldersAfter(t, p, c) = Cardinality(HasWatch(c))
      BY <2>1, AfterIs
    <3> QED BY <1>1, <1>5, <3>1 DEF Counted, Counts, One
  <2> QED BY <1>0, <1>1, <1>2, <1>3, <1>5, <2>2 DEF LocalStep, Serves, KillPcs, UsePcs, DispatchPcs
<1>8. CASE k.node = client[c].node /\ c_list' = c_list
  BY <1>1, <1>2, <1>5, <1>6, <1>7, <1>8, ListStays
<1>9. CASE k.node # client[c].node /\ c_list' = RemoveFirst(c_list, c) /\ c \in ToSet(c_list)
  <2>1. /\ c_list' \in Seq(Clients) /\ IsInjective(c_list')
        /\ ToSet(c_list') = ToSet(c_list) \ {c}
    BY <1>1, <1>4, <1>9, RemoveFirstEntries
  <2> QED BY <1>1, <1>2, <1>5, <1>6, <1>7, <1>9, <2>1, StepKeeps
<1> QED BY <1>5, <1>8, <1>9

-----------------------------------------------------------------------------
(* Accepting a client, and adding it to the set *)

\* What the steps of an accept have in common: nobody else knows the client yet.
LEMMA AcceptKeeps ==
  ASSUME IInv, NEW c \in Clients,
         NEW p \in Places, NEW k \in ClientRecords, NEW w \in WatchRecords,
         Step(AcceptLoop, c, p, k, w), UNCHANGED <<set, loop, undefined>>,
         ~undefined, Serves(AcceptLoop), thread[AcceptLoop].c \in {c, NoOne}, p.c = c,
         \A s \in Threads \ {AcceptLoop} : thread[s].c # c,
         k.mem = "live", ~k.killed, k.watch, client[c].node = "self", w.home = NoOne,
         Counts(k, w, CallersAfter(AcceptLoop, p, c), HoldersAfter(AcceptLoop, p, c)),
         \/ ~k.cs /\ k.node = "self" /\ p.pc \in {"add", "kill"} /\ c_list' = c_list
         \/ k.cs /\ k.node = "linked" /\ p.pc = "attach" /\ c_list' = Cons(c, c_list)
              /\ set.mem = "live"
  PROVE  IInv'
<1>0. TypeOK /\ SetHeld /\ MembersLinked /\ ReferencesCounted
  BY DEF IInv
<1>1. /\ \A d \in Clients : Owned(d)
      /\ \A s \in Threads : Placed(s) /\ thread[s].c \in Clients \cup {NoOne}
      /\ AcceptLoop \in Threads /\ Main \in Threads /\ AcceptLoop # Main
      /\ AcceptLoop \in Loops /\ AcceptLoop \notin Users /\ NoOne \notin Clients
  BY <1>0, ThreadFields, ThreadsAssumption, NoOneAssumption DEF IInv, Threads
<1>2. /\ thread' \in [Threads -> Places] /\ client' \in [Clients -> ClientRecords]
      /\ watch' \in [Clients -> WatchRecords]
      /\ thread'[AcceptLoop] = p /\ client'[c] = k /\ watch'[c] = w
      /\ \A s \in Threads \ {AcceptLoop} : thread'[s] = thread[s]
      /\ \A d \in Clients \ {c} : client'[d] = client[d] /\ watch'[d] = watch[d]
  BY <1>0, <1>1, StepType
<1>3. /\ c_list' \in Seq(Clients) /\ IsInjective(c_list')
      /\ ToSet(c_list') = ToSet(c_list) \cup (IF k.cs THEN {c} ELSE {})
  <2>1. /\ c_list \in Seq(Clients) /\ IsInjective(c_list) /\ c \notin ToSet(c_list)
    BY <1>0 DEF TypeOK, MembersLinked, Listed, ToSet
  <2>2. CASE ~k.cs
    BY <2>1, <2>2
  <2>3. CASE k.cs
    <3>1. c_list' = Cons(c, c_list)
      BY <2>3
    <3>2. Cons(c, c_list) \in Seq(Clients)
      BY <2>1, ConsType
    <3>3. /\ ToSet(Cons(c, c_list)) = ToSet(c_list) \cup {c}
          /\ IsInjective(Cons(c, c_list))
      BY <2>1, ConsEntries
    <3> QED BY <2>3, <3>1, <3>2, <3>3
  <2> QED BY <2>2, <2>3
<1>4. TypeOK'
  BY <1>0, <1>2, <1>3 DEF TypeOK
<1>5. AllCounted'
  <2>1. \A d \in Clients \ {c} : thread[AcceptLoop].c # d /\ p.c # d
    BY <1>1
  <2> QED BY <1>0, <1>1, <2>1, CountsKept
<1>6. AllPlaced'
  <2> SUFFICES ASSUME NEW s \in Threads PROVE Placed(s)'
    BY DEF AllPlaced
  <2>1. CASE s = AcceptLoop
    BY <1>1, <1>2, <2>1 DEF Placed, OutPcs, AcceptPcs, DispatchPcs, UsePcs
  <2>2. CASE s # AcceptLoop
    <3>1. thread'[s] = thread[s] /\ thread[s].c # c
      BY <1>2, <2>2
    <3>2. thread[s].c # NoOne => /\ client'[thread[s].c] = client[thread[s].c]
                                 /\ watch'[thread[s].c] = watch[thread[s].c]
      BY <1>1, <1>2, <3>1
    <3> QED BY <1>1, <3>1, <3>2 DEF Placed, OutPcs, DispatchPcs
  <2> QED BY <2>1, <2>2
<1>7. AllOwned'
  <2> SUFFICES ASSUME NEW d \in Clients PROVE Owned(d)'
    BY DEF AllOwned
  <2>1. CASE d # c
    <3>1. \A s \in Threads : thread'[s].c = d <=> (thread[s].c = d /\ s # AcceptLoop)
      BY <1>1, <1>2, <2>1
    <3>2. thread'[AcceptLoop].c # d /\ thread[AcceptLoop].c # d
      BY <1>1, <1>2, <2>1
    <3> QED BY <1>1, <1>2, <2>1, <3>1, <3>2 DEF Owned, Claimed
  <2>2. CASE d = c
    <3>1. \A s \in Threads \ {AcceptLoop} : thread'[s].c # c
      BY <1>2
    <3> QED BY <1>2, <2>2, <3>1 DEF Owned
  <2> QED BY <2>1, <2>2
<1>8. SetHeld'
  <2>1. thread'[Main] = thread[Main] /\ thread[Main].c # c
    BY <1>1, <1>2
  <2>2. thread[Main].c # NoOne => client'[thread[Main].c] = client[thread[Main].c]
    BY <1>1, <1>2, <2>1
  <2>3. ASSUME NEW s \in Loops
        PROVE  /\ loop[s] # "runs" => set.mem = "freed"
               /\ loop[s] \in {"leaves", "ended", "freed"} => thread'[s].pc = "idle"
               /\ loop[s] \in {"ended", "freed"} => \A d \in Clients : watch'[d].home # s
    <3>1. s \in Threads /\ s # NoOne
      BY NoOneAssumption DEF Threads
    <3>2. /\ loop[s] # "runs" => set.mem = "freed"
          /\ loop[s] \in {"leaves", "ended", "freed"} => thread[s].pc = "idle" /\ s # AcceptLoop
          /\ loop[s] \in {"ended", "freed"} => \A d \in Clients : watch[d].home # s
      BY <1>0 DEF SetHeld, Serves
    <3> QED BY <1>2, <3>1, <3>2
  <2> QED BY <1>0, <2>1, <2>2, <2>3 DEF SetHeld
<1>9. MembersLinked'
  <2>1. ASSUME NEW d \in Clients
        PROVE  /\ Listed(d)' <=> client'[d].node = "linked"
               /\ client'[d].node = "null" => set.lock = Main /\ thread[Main].c = d
               /\ watch'[d].home # NoOne /\ ~client'[d].killed => client'[d].node # "self"
    <3>1. Listed(d)' <=> d \in ToSet(c_list')
      BY DEF Listed, ToSet
    <3>2. d \in ToSet(c_list) <=> client[d].node = "linked"
      BY <1>0 DEF MembersLinked, Listed, ToSet
    <3>3. CASE d = c
      BY <1>0, <1>2, <1>3, <3>1, <3>2, <3>3 DEF MembersLinked, SetHeld
    <3>4. CASE d # c
      <4>1. Listed(d)' <=> client[d].node = "linked"
        BY <1>3, <3>1, <3>2, <3>4
      <4>2. client'[d] = client[d] /\ watch'[d] = watch[d]
        BY <1>2, <3>4
      <4>3. /\ client[d].node = "null" => set.lock = Main /\ thread[Main].c = d
            /\ watch[d].home # NoOne /\ ~client[d].killed => client[d].node # "self"
        BY <1>0 DEF MembersLinked
      <4> QED BY <4>1, <4>2, <4>3
    <3> QED BY <3>3, <3>4
  <2>2. thread'[Main] = thread[Main]
    BY <1>1, <1>2
  <2> QED BY <1>3, <2>1, <2>2 DEF MembersLinked
<1>10. ASSUME NEW s \in Threads, thread'[s].c # NoOne PROVE client'[thread'[s].c].mem = "live"
  <2>1. CASE s = AcceptLoop
    BY <1>2, <2>1
  <2>2. CASE s # AcceptLoop
    <3>1. thread'[s] = thread[s] /\ thread[s].c \in Clients \ {c}
      BY <1>1, <1>2, <1>10, <2>2
    <3> QED BY <1>0, <1>2, <1>10, <3>1 DEF ReferencesCounted
  <2> QED BY <2>1, <2>2
<1>11. UsedLate'
  BY DEF UsedLate
<1> QED BY <1>4, <1>5, <1>6, <1>7, <1>8, <1>9, <1>10, <1>11, Assemble

\* A client is created with its watch and with one reference each.
LEMMA GenerateKeeps ==
  ASSUME IInv, NEW t \in Loops, NEW c \in Clients, listener_generate(t, c)
  PROVE  IInv'
<1>1. PICK pc \in {"add", "kill"} : thread' = [thread EXCEPT ![t] = At(pc, c)]
  BY DEF listener_generate, h6_client_new
<1> DEFINE p == At(pc, c)
           k == [client[c] EXCEPT !.mem = "live", !.refs = 2, !.watch = TRUE]
           w == [watch[c] EXCEPT !.mem = "live", !.refs = 1]
<1>2. /\ t = AcceptLoop /\ Serves(t) /\ thread[t].pc = "idle" /\ t \in Threads /\ ~undefined
      /\ client[c].mem = "unborn"
      /\ client' = [client EXCEPT ![c].mem = "live", ![c].refs = 2, ![c].watch = TRUE]
      /\ watch' = [watch EXCEPT ![c].mem = "live", ![c].refs = 1]
      /\ UNCHANGED <<c_list, set, loop, undefined>>
  BY DEF listener_generate, h6_client_new, network_client_init, On, Threads
<1>3. /\ TypeOK /\ Owned(c) /\ Placed(t) /\ ReferencesCounted
      /\ ~client[c].cs /\ ~client[c].killed /\ client[c].node = "self" /\ watch[c].home = NoOne
  BY <1>2 DEF IInv, Owned
<1>4. \A s \in Threads : thread[s].c # c
  BY <1>2, <1>3, NoOneAssumption DEF ReferencesCounted
<1>5. /\ k \in ClientRecords /\ k.mem = "live" /\ k.refs = 2 /\ k.watch
      /\ k.cs = FALSE /\ k.killed = FALSE /\ k.node = "self"
  BY <1>3, ClientFields DEF ClientRecords, Mem
<1>6. w \in WatchRecords /\ w.mem = "live" /\ w.refs = 1 /\ w.home = NoOne
  BY <1>3, WatchFields DEF WatchRecords, Mem
<1>7. p \in Places /\ p.c = c /\ p.pc = pc
  BY PlaceIs DEF AcceptPcs, KillPcs
<1>8. Step(AcceptLoop, c, p, k, w)
  BY <1>1, <1>2, <1>3 DEF Step, TypeOK
<1>9. thread[t].c = NoOne
  BY <1>2, <1>3 DEF Placed, OutPcs
<1> HIDE DEF p, k, w
<1>10. Counts(k, w, CallersAfter(AcceptLoop, p, c), HoldersAfter(AcceptLoop, p, c))
  <2>1. HasWatch(c) = {}
    BY <1>4 DEF HasWatch, Has
  <2>2. Cardinality(HasWatch(c)) = 0
    BY <2>1, FS_EmptySet
  <2>3. ~Has(thread[AcceptLoop], c) /\ ~Has(p, c)
    BY <1>2, <1>4, <1>7 DEF Has, WatchPcs
  <2>4. HoldersAfter(AcceptLoop, p, c) = 0
    BY <2>2, <2>3, AfterIs
  <2> QED BY <1>5, <1>6, <2>4 DEF Counts, One
<1> QED BY <1>2, <1>3, <1>4, <1>5, <1>6, <1>7, <1>8, <1>9, <1>10, AcceptKeeps

\* The set takes a reference, and the client enters the list.
LEMMA SetAddKeeps ==
  ASSUME IInv, NEW t \in Threads, client_set_add(t)
  PROVE  IInv'
<1> DEFINE c == thread[t].c
           p == At("attach", c)
           k == [client[c] EXCEPT !.cs = TRUE, !.node = "linked"]
           w == watch[c]
<1> USE DEF Facts
<1>1. /\ thread[t].pc = "add" /\ set.mem = "live" /\ ~undefined
      /\ client' = [client EXCEPT ![c].cs = TRUE, ![c].node = "linked"]
      /\ c_list' = Cons(c, c_list) /\ Goto(t, "attach")
      /\ UNCHANGED <<watch, set, loop, undefined>>
  BY DEF client_set_add, On
<1>2. Facts(t, c)
  BY <1>1, AtWork DEF OutPcs
<1>3. t = AcceptLoop /\ Serves(AcceptLoop)
  BY <1>1, <1>2, ThreadsAssumption DEF Placed, AcceptPcs
<1>4. /\ ~client[c].cs /\ ~client[c].killed /\ client[c].node = "self" /\ watch[c].home = NoOne
      /\ client[c].watch
      /\ \A s \in Threads \ {AcceptLoop} : thread[s].c # c
  BY <1>1, <1>2, <1>3 DEF Owned
<1>5. /\ k \in ClientRecords /\ k.mem = "live" /\ k.refs = client[c].refs /\ k.watch
      /\ k.cs /\ k.killed = FALSE /\ k.node = "linked"
  BY <1>2, <1>4, ClientFields DEF ClientRecords
<1>6. w \in WatchRecords
  BY <1>2, WatchFields
<1>7. p \in Places /\ p.c = c /\ p.pc = "attach"
  BY <1>2, PlaceIs DEF AcceptPcs
<1>8. Step(AcceptLoop, c, p, k, w)
  <2>1. client' = [client EXCEPT ![c] = k]
    BY <1>1, <1>2 DEF TypeOK
  <2>2. thread' = [thread EXCEPT ![AcceptLoop] = p]
    BY <1>1, <1>2, <1>3, GotoIs
  <2>3. watch' = [watch EXCEPT ![c] = w]
    BY <1>1, <1>2, SameEntry
  <2> QED BY <2>1, <2>2, <2>3 DEF Step
<1> HIDE DEF p, k
<1>9. Counts(k, w, CallersAfter(AcceptLoop, p, c), HoldersAfter(AcceptLoop, p, c))
  <2>1. /\ ~Has(thread[AcceptLoop], c) /\ ~Has(p, c)
        /\ ~Calls(AcceptLoop, thread[AcceptLoop], c) /\ ~Calls(AcceptLoop, p, c)
    BY <1>1, <1>3, <1>7 DEF Has, Calls, WatchPcs, KillPcs, UsePcs
  <2>2. Callers(c) = {}
    BY <1>3, <1>4, <2>1 DEF Callers, Calls
  <2>3. Cardinality(Callers(c)) = 0
    BY <2>2, FS_EmptySet
  <2>4. /\ CallersAfter(AcceptLoop, p, c) = 0
        /\ HoldersAfter(AcceptLoop, p, c) = Cardinality(HasWatch(c))
    BY <2>1, <2>3, AfterIs
  <2> QED BY <1>2, <1>4, <1>5, <2>4 DEF Counted, Counts, One
<1> QED BY <1>1, <1>2, <1>3, <1>4, <1>5, <1>6, <1>7, <1>8, <1>9, AcceptKeeps

-----------------------------------------------------------------------------
(* The main thread and the end of the loops *)

\* The main thread goes on, with no client in its hands.
LEMMA MainGoes ==
  ASSUME IInv, thread[Main].pc \in OutPcs, ~undefined, NEW q \in OutPcs \ {"idle"}, Goto(Main, q),
         UNCHANGED <<client, watch, c_list, loop, undefined>>, set' \in [mem : Mem, lock : Threads \cup {NoOne}],
         set'.lock = IF q = "next" THEN Main ELSE NoOne,
         set'.mem = IF q \in {"sched_free", "done"} THEN "freed" ELSE "live",
         set.mem = "freed" => set'.mem = "freed",
         q = "done" => \A k \in Loops : loop[k] = "freed"
  PROVE  IInv'
<1>0. TypeOK /\ SetHeld /\ MembersLinked /\ ReferencesCounted
  BY DEF IInv
<1>1. /\ Main \in Threads /\ AcceptLoop # Main /\ Main \notin Users /\ Main \notin Loops
      /\ AcceptLoop \in Threads /\ Loops \subseteq Threads
  BY ThreadsAssumption DEF Threads
<1>2. thread[Main].c = NoOne
  BY <1>1 DEF IInv, Placed
<1>3. /\ At(q, NoOne) \in Places /\ At(q, NoOne).pc = q /\ At(q, NoOne).c = NoOne
      /\ thread' = [thread EXCEPT ![Main] = At(q, NoOne)]
  BY <1>0, <1>1, <1>2, PlaceIs, GotoIs
<1>4. /\ thread' \in [Threads -> Places]
      /\ thread'[Main].pc = q /\ thread'[Main].c = NoOne
      /\ \A s \in Threads \ {Main} : thread'[s] = thread[s]
      /\ \A s \in Threads : thread'[s].c = thread[s].c
  BY <1>0, <1>1, <1>2, <1>3 DEF TypeOK
<1>5. TypeOK'
  BY <1>0, <1>4 DEF TypeOK
<1>6. AllCounted'
  <2> SUFFICES ASSUME NEW d \in Clients PROVE Counted(d)'
    BY DEF AllCounted
  <2>1. Callers(d)' = Callers(d) /\ HasWatch(d)' = HasWatch(d)
    BY <1>2, <1>4, NoOneAssumption DEF Callers, HasWatch, Calls, Has
  <2>2. Counted(d)
    BY <1>0 DEF ReferencesCounted
  <2> QED BY <2>1, <2>2 DEF Counted
<1>7. AllPlaced'
  <2> SUFFICES ASSUME NEW s \in Threads PROVE Placed(s)'
    BY DEF AllPlaced
  <2>1. Placed(s)
    BY DEF IInv
  <2>2. CASE s = Main
    BY <1>4, <2>2 DEF Placed, OutPcs, AcceptPcs, DispatchPcs, UsePcs
  <2>3. CASE s # Main
    BY <1>4, <2>1, <2>3 DEF Placed
  <2> QED BY <2>2, <2>3
<1>8. AllOwned'
  <2> SUFFICES ASSUME NEW d \in Clients PROVE Owned(d)'
    BY DEF AllOwned
  <2>1. Owned(d)
    BY DEF IInv
  <2>2. ~Claimed(d) /\ ~Claimed(d)'
    BY <1>2, <1>4, NoOneAssumption DEF Claimed
  <2> QED BY <1>1, <1>4, <2>1, <2>2 DEF Owned
<1>9. MembersLinked'
  <2>1. \A d \in Clients : Listed(d)' <=> Listed(d)
    BY DEF Listed
  <2>2. \A d \in Clients : client[d].node # "null"
    BY <1>0, <1>2, NoOneAssumption DEF MembersLinked
  <2> QED BY <1>0, <2>1, <2>2 DEF MembersLinked
<1>10. ASSUME NEW s \in Threads, thread'[s].c # NoOne PROVE client'[thread'[s].c].mem = "live"
  BY <1>0, <1>4, <1>10 DEF ReferencesCounted
<1>11. SetHeld'
  <2>1. q \in {"next"} \cup KillPcs <=> q = "next"
    BY DEF OutPcs, KillPcs
  <2>2. \A k \in Loops : thread'[k] = thread[k]
    BY <1>1, <1>4
  <2> QED BY <1>0, <1>4, <2>1, <2>2 DEF SetHeld
<1>12. UsedLate'
  BY DEF UsedLate
<1> QED BY <1>5, <1>6, <1>7, <1>8, <1>9, <1>10, <1>11, <1>12, Assemble

\* The steps of the kill of the server between and after the clients: the set is locked,
\* unlocked, looked at and freed, and in the end all loops are.
LEMMA KillServerKeeps ==
  ASSUME IInv,
         \/ h6_local_proxy_svr_kill \/ client_set_self_kill \/ client_set_unlock
         \/ client_set_fin_this \/ client_set_free \/ h6_sched_free
  PROVE  IInv'
<1>1. /\ set \in [mem : Mem, lock : Threads \cup {NoOne}] /\ Main \in Threads
      /\ set.lock = IF thread[Main].pc \in {"next"} \cup KillPcs THEN Main ELSE NoOne
      /\ set.mem = IF thread[Main].pc \in {"sched_free", "done"} THEN "freed" ELSE "live"
  BY DEF IInv, TypeOK, SetHeld, Threads
<1>2. CASE h6_local_proxy_svr_kill
  <2>1. /\ thread[Main].pc = "idle" /\ ~undefined /\ Goto(Main, "set_kill")
        /\ UNCHANGED <<client, watch, c_list, set, loop, undefined>>
    BY <1>2 DEF h6_local_proxy_svr_kill, On
  <2> QED BY <1>1, <2>1, MainGoes DEF OutPcs, KillPcs
<1>3. CASE client_set_self_kill
  <2>1. /\ thread[Main].pc = "set_kill" /\ ~undefined /\ Goto(Main, "next")
        /\ set' = [set EXCEPT !.lock = Main]
        /\ UNCHANGED <<client, watch, c_list, loop, undefined>>
    BY <1>3 DEF client_set_self_kill, On
  <2>2. /\ set' \in [mem : Mem, lock : Threads \cup {NoOne}]
        /\ set'.lock = Main /\ set'.mem = "live" /\ set.mem = "live"
    BY <1>1, <2>1
  <2> QED BY <2>1, <2>2, MainGoes DEF OutPcs
<1>4. CASE client_set_unlock
  <2>1. /\ thread[Main].pc = "next" /\ ~undefined /\ Goto(Main, "set_unref")
        /\ set' = [set EXCEPT !.lock = NoOne]
        /\ UNCHANGED <<client, watch, c_list, loop, undefined>>
    BY <1>4 DEF client_set_unlock, On
  <2>2. /\ set' \in [mem : Mem, lock : Threads \cup {NoOne}]
        /\ set'.lock = NoOne /\ set'.mem = "live" /\ set.mem = "live"
    BY <1>1, <2>1
  <2> QED BY <2>1, <2>2, MainGoes DEF OutPcs
<1>5. CASE client_set_fin_this
  <2>1. PICK q \in {"set_free", "aborted"} : Goto(Main, q)
    BY <1>5 DEF client_set_fin_this
  <2>2. /\ thread[Main].pc = "set_unref" /\ ~undefined
        /\ UNCHANGED <<client, watch, c_list, set, loop, undefined>>
    BY <1>5 DEF client_set_fin_this, On
  <2> QED BY <1>1, <2>1, <2>2, MainGoes DEF OutPcs, KillPcs
<1>6. CASE client_set_free
  <2>1. /\ thread[Main].pc = "set_free" /\ ~undefined /\ Goto(Main, "sched_free")
        /\ set' = [set EXCEPT !.mem = "freed"]
        /\ UNCHANGED <<client, watch, c_list, loop, undefined>>
    BY <1>6 DEF client_set_free, On
  <2>2. /\ set' \in [mem : Mem, lock : Threads \cup {NoOne}]
        /\ set'.lock = NoOne /\ set'.mem = "freed"
    BY <1>1, <2>1 DEF Mem, KillPcs
  <2> QED BY <2>1, <2>2, MainGoes DEF OutPcs
<1>7. CASE h6_sched_free
  <2>1. /\ thread[Main].pc = "sched_free" /\ ~undefined /\ Goto(Main, "done")
        /\ \A k \in Loops : loop[k] = "freed"
        /\ UNCHANGED <<client, watch, c_list, set, loop, undefined>>
    BY <1>7 DEF h6_sched_free, On
  <2> QED BY <1>1, <2>1, MainGoes DEF OutPcs, KillPcs
<1> QED BY <1>2, <1>3, <1>4, <1>5, <1>6, <1>7

\* The lock is held; the next client, and its place in the list, are the main thread's.
LEMMA KillNextKeeps ==
  ASSUME IInv, KillNext
  PROVE  IInv'
<1> DEFINE c == Head(c_list)
           p == At("kill", c)
           k == [client[c] EXCEPT !.node = "null"]
           w == watch[c]
<1>0. TypeOK /\ SetHeld /\ MembersLinked /\ ReferencesCounted
  BY DEF IInv
<1>1. /\ thread[Main].pc = "next" /\ c_list # <<>> /\ ~undefined
      /\ client' = [client EXCEPT ![c].node = "null"]
      /\ c_list' = Tail(c_list)
      /\ thread' = [thread EXCEPT ![Main] = p]
      /\ UNCHANGED <<watch, set, loop, undefined>>
  BY DEF KillNext, On
<1>2. /\ c_list \in Seq(Clients) /\ IsInjective(c_list)
      /\ Tail(c_list) \in Seq(Clients) /\ c \in ToSet(c_list)
      /\ ToSet(Tail(c_list)) = ToSet(c_list) \ {c} /\ IsInjective(Tail(c_list))
  <2>1. c_list \in Seq(Clients) /\ IsInjective(c_list)
    BY <1>0 DEF TypeOK, MembersLinked
  <2> QED BY <1>1, <2>1, TailEntries
<1>3. c \in Clients /\ client[c].node = "linked"
  <2>1. c \in Clients
    BY <1>1, <1>2
  <2> QED BY <1>0, <1>2, <2>1 DEF MembersLinked, Listed, ToSet
<1>4. /\ Main \in Threads /\ AcceptLoop \in Threads /\ AcceptLoop # Main
      /\ c # NoOne /\ NoOne \notin Clients /\ NoOne # Main
      /\ \A s \in Threads : Placed(s) /\ thread[s].c \in Clients \cup {NoOne}
      /\ \A d \in Clients : Owned(d)
  BY <1>0, <1>3, ThreadFields, ThreadsAssumption, NoOneAssumption DEF IInv, Threads
<1>5. /\ set.lock = Main /\ set.mem = "live" /\ thread[Main].c = NoOne
      /\ client[c].cs /\ \A t \in Loops : loop[t] = "runs"
  BY <1>0, <1>1, <1>3, <1>4 DEF SetHeld, Placed, OutPcs, Owned
<1>6. /\ k \in ClientRecords /\ k.node = "null" /\ k.mem = client[c].mem
      /\ k.refs = client[c].refs /\ k.cs = client[c].cs /\ k.killed = client[c].killed
      /\ k.watch = client[c].watch
  BY <1>0, <1>3, ClientFields DEF ClientRecords
<1>7. w \in WatchRecords /\ p \in Places /\ p.c = c /\ p.pc = "kill"
  BY <1>0, <1>3, WatchFields, PlaceIs DEF KillPcs
<1>8. Step(Main, c, p, k, w)
  BY <1>0, <1>1, <1>3, SameEntry DEF Step, TypeOK
<1>9. /\ thread' \in [Threads -> Places] /\ client' \in [Clients -> ClientRecords]
      /\ thread'[Main] = p /\ client'[c] = k
      /\ \A s \in Threads \ {Main} : thread'[s] = thread[s]
      /\ \A d \in Clients \ {c} : client'[d] = client[d]
  BY <1>0, <1>3, <1>4, <1>6, <1>7, <1>8, StepType
<1> HIDE DEF p, k
<1>10. TypeOK'
  BY <1>0, <1>1, <1>2, <1>9 DEF TypeOK
<1>11. AllCounted'
  <2>1. /\ ~Calls(Main, thread[Main], c) /\ ~Calls(Main, p, c)
        /\ ~Has(thread[Main], c) /\ ~Has(p, c)
    BY <1>4, <1>5, <1>7 DEF Calls, Has, WatchPcs
  <2>2. Counted(c) /\ Cardinality(Callers(c)) \in Nat /\ Cardinality(HasWatch(c)) \in Nat
    BY <1>0, <1>3, CallersFinite DEF ReferencesCounted
  <2>3. Counts(k, w, CallersAfter(Main, p, c), HoldersAfter(Main, p, c))
    <3>1. /\ CallersAfter(Main, p, c) = Cardinality(Callers(c))
          /\ HoldersAfter(Main, p, c) = Cardinality(HasWatch(c))
      BY <2>1, AfterIs
    <3> QED BY <1>6, <2>2, <3>1 DEF Counted, Counts
  <2>4. \A d \in Clients \ {c} : thread[Main].c # d /\ p.c # d
    BY <1>4, <1>5, <1>7
  <2> QED BY <1>0, <1>3, <1>4, <1>6, <1>7, <1>8, <2>3, <2>4, CountsKept
<1>12. AllPlaced'
  <2> SUFFICES ASSUME NEW s \in Threads PROVE Placed(s)'
    BY DEF AllPlaced
  <2>1. CASE s = Main
    BY <1>4, <1>7, <1>9, <2>1 DEF Placed, OutPcs, AcceptPcs, DispatchPcs, UsePcs
  <2>2. CASE s # Main
    <3>1. thread'[s] = thread[s] /\ Placed(s)
      BY <1>4, <1>9, <2>2
    <3>2. thread[s].c # NoOne => client'[thread[s].c].killed = client[thread[s].c].killed
      BY <1>3, <1>4, <1>6, <1>9
    <3> QED BY <1>1, <1>4, <3>1, <3>2 DEF Placed, OutPcs
  <2> QED BY <2>1, <2>2
<1>13. AllOwned'
  <2> SUFFICES ASSUME NEW d \in Clients PROVE Owned(d)'
    BY DEF AllOwned
  <2>1. /\ Owned(d) /\ watch'[d] = watch[d] /\ thread'[AcceptLoop] = thread[AcceptLoop]
        /\ ~Claimed(d)
    BY <1>1, <1>4, <1>5, <1>9 DEF Claimed
  <2>2. CASE d = c
    <3>1. /\ client'[d].mem = client[d].mem /\ client'[d].cs /\ client[d].cs
          /\ client'[d].watch = client[d].watch /\ client'[d].killed = client[d].killed
          /\ client'[d].node = "null"
      BY <1>5, <1>6, <1>9, <2>2
    <3> QED BY <1>9, <2>1, <3>1 DEF Owned
  <2>3. CASE d # c
    <3>1. thread'[Main].c # d
      BY <1>7, <1>9, <2>3
    <3> QED BY <1>4, <1>9, <2>1, <2>3, <3>1 DEF Owned
  <2> QED BY <2>2, <2>3
<1>14. SetHeld'
  BY <1>1, <1>5, <1>6, <1>7, <1>9 DEF SetHeld, KillPcs
<1>15. MembersLinked'
  <2>1. ASSUME NEW d \in Clients
        PROVE  /\ Listed(d)' <=> client'[d].node = "linked"
               /\ client'[d].node = "null" => thread'[Main].c = d
               /\ watch[d].home # NoOne /\ ~client'[d].killed => client'[d].node # "self"
    <3>1. Listed(d)' <=> d \in ToSet(c_list')
      BY DEF Listed, ToSet
    <3>2. d \in ToSet(c_list) <=> client[d].node = "linked"
      BY <1>0 DEF MembersLinked, Listed, ToSet
    <3>3. CASE d = c
      BY <1>1, <1>2, <1>6, <1>7, <1>9, <3>1, <3>3
    <3>4. CASE d # c
      <4>1. /\ client[d].node # "null"
            /\ watch[d].home # NoOne /\ ~client[d].killed => client[d].node # "self"
        BY <1>0, <1>4, <1>5 DEF MembersLinked
      <4> QED BY <1>1, <1>2, <1>9, <3>1, <3>2, <3>4, <4>1
    <3> QED BY <3>3, <3>4
  <2> QED BY <1>1, <1>2, <1>5, <2>1 DEF MembersLinked
<1>16. ASSUME NEW s \in Threads, thread'[s].c # NoOne PROVE client'[thread'[s].c].mem = "live"
  <2>1. \A d \in Clients : client'[d].mem = client[d].mem
    BY <1>6, <1>9
  <2>2. CASE s = Main
    <3>1. client[c].mem = "live"
      BY <1>3, <1>4, <1>5, CallersFinite, ClientFields, <1>0 DEF Owned, ReferencesCounted, Counted, Counts, Mem
    <3> QED BY <1>3, <1>7, <1>9, <2>1, <2>2, <3>1
  <2>3. CASE s # Main
    <3>1. thread'[s] = thread[s] /\ thread[s].c \in Clients
      BY <1>4, <1>9, <1>16, <2>3
    <3> QED BY <1>0, <1>16, <2>1, <3>1 DEF ReferencesCounted
  <2> QED BY <2>2, <2>3
<1>17. UsedLate'
  BY <1>1 DEF UsedLate
<1> QED BY <1>10, <1>11, <1>12, <1>13, <1>14, <1>15, <1>16, <1>17, Assemble

\* One loop goes a step further, towards its end.
LEMMA AdvanceKeeps ==
  ASSUME IInv, ~undefined, NEW k \in Loops, NEW state \in LoopStates, Advance(k, state),
         set.mem = "freed", thread[Main].pc # "done",
         state # "quit" => thread[k].pc = "idle",
         state \in {"ended", "freed"} => \A c \in Clients : watch[c].home # k
  PROVE  IInv'
<1>1. /\ loop' = [loop EXCEPT ![k] = state]
      /\ UNCHANGED <<client, watch, c_list, set, thread, undefined>>
  BY DEF Advance
<1>2. TypeOK /\ SetHeld
  BY DEF IInv
<1>3. /\ loop' \in [Loops -> LoopStates] /\ loop'[k] = state
      /\ \A j \in Loops \ {k} : loop'[j] = loop[j]
  BY <1>1, <1>2 DEF TypeOK
<1>4. TypeOK'
  BY <1>1, <1>2, <1>3 DEF TypeOK
<1>5. SetHeld'
  <2>1. ASSUME NEW j \in Loops
        PROVE  /\ loop'[j] # "runs" => set.mem = "freed"
               /\ loop'[j] \in {"leaves", "ended", "freed"} => thread[j].pc = "idle"
               /\ loop'[j] \in {"ended", "freed"} => \A c \in Clients : watch[c].home # j
    BY <1>2, <1>3 DEF SetHeld
  <2> QED BY <1>1, <1>2, <2>1 DEF SetHeld
<1>6. MembersLinked' /\ ReferencesCounted'
  BY <1>1 DEF IInv, MembersLinked, Listed, ReferencesCounted, Counted, Callers, HasWatch
<1>7. /\ \A s \in Threads : Placed(s)'
      /\ \A c \in Clients : Owned(c)'
  BY <1>1 DEF IInv, Placed, Owned, Claimed
<1> QED BY <1>4, <1>5, <1>6, <1>7 DEF IInv

\* A loop is told to quit, comes to its quit operation, ends and is joined.
LEMMA LoopStepsKeep ==
  ASSUME IInv, NEW k \in Loops,
         h6_ev_loop_quit(k) \/ h6_ev_loop_ops_quit(k) \/ LoopEnds(k) \/ JoinLoop(k)
  PROVE  IInv'
<1>1. SetHeld
  BY DEF IInv
<1>2. CASE h6_ev_loop_quit(k)
  <2>1. thread[Main].pc = "sched_free" /\ ~undefined /\ Advance(k, "quit")
    BY <1>2 DEF h6_ev_loop_quit, On
  <2> QED BY <1>1, <2>1, AdvanceKeeps DEF SetHeld, LoopStates
<1>3. CASE h6_ev_loop_ops_quit(k)
  <2>1. thread[k].pc = "idle" /\ loop[k] = "quit" /\ ~undefined /\ Advance(k, "leaves")
    BY <1>3 DEF h6_ev_loop_ops_quit, On
  <2> QED BY <1>1, <2>1, AdvanceKeeps DEF SetHeld, LoopStates
<1>4. CASE LoopEnds(k)
  <2>1. /\ thread[k].pc = "idle" /\ loop[k] = "leaves" /\ ~undefined /\ Advance(k, "ended")
        /\ \A c \in Clients : watch[c].home # k
    BY <1>4 DEF LoopEnds, On
  <2> QED BY <1>1, <2>1, AdvanceKeeps DEF SetHeld, LoopStates
<1>5. CASE JoinLoop(k)
  <2>1. thread[Main].pc = "sched_free" /\ loop[k] = "ended" /\ ~undefined /\ Advance(k, "freed")
    BY <1>5 DEF JoinLoop, On
  <2> QED BY <1>1, <2>1, AdvanceKeeps DEF SetHeld, LoopStates
<1> QED BY <1>2, <1>3, <1>4, <1>5

-----------------------------------------------------------------------------
(* The theorems *)

\* A step that does no more than use freed memory.
LEMMA SameKeeps ==
  ASSUME IInv, UNCHANGED <<client, watch, c_list, set, thread, loop>>, undefined' \in BOOLEAN,
         undefined' => Stuck \/ set.mem = "freed"
  PROVE  IInv'
<1>1. TypeOK' /\ SetHeld'
  BY DEF IInv, TypeOK, SetHeld
<1>2. MembersLinked' /\ ReferencesCounted'
  BY DEF IInv, MembersLinked, Listed, ReferencesCounted, Counted, Callers, HasWatch, Stuck
<1>3. /\ \A s \in Threads : Placed(s)'
      /\ \A c \in Clients : Owned(c)'
  BY DEF IInv, Placed, Owned, Claimed
<1> QED BY <1>1, <1>2, <1>3 DEF IInv

\* A watch is freed under the thread that attaches it only by the kill of the set, which
\* then waits for ever.
LEMMA AttachFreedStuck ==
  ASSUME IInv, NEW t \in Threads, AttachFreed(t)
  PROVE  Stuck
<1> DEFINE c == thread[t].c
<1>1. thread[t].pc = "proto_watch_attach" /\ watch[c].mem = "freed"
  BY DEF AttachFreed, On
<1>2. Facts(t, c)
  BY <1>1, AtWork DEF OutPcs
<1>3. t = AcceptLoop /\ SetHeld /\ Main \in Threads
  BY <1>1, <1>2 DEF Facts, Placed, AcceptPcs, IInv, Threads
<1>4. watch[c].refs = 0 /\ watch[c].refs = One(client[c].watch) + Cardinality(HasWatch(c))
                                             + One(watch[c].home # NoOne)
  BY <1>1, <1>2 DEF Facts, Counted, Counts
<1>5. /\ One(client[c].watch) \in Nat /\ One(watch[c].home # NoOne) \in Nat
      /\ Cardinality(HasWatch(c)) \in Nat
  BY <1>2 DEF Facts, One
<1>6. One(client[c].watch) = 0 /\ Cardinality(HasWatch(c)) = 0
  <2> HIDE DEF c
  <2> QED BY <1>4, <1>5
<1>7. client[c].killed
  BY <1>2, <1>6 DEF Facts, One
<1>8. Claimed(c)
  BY <1>1, <1>2, <1>3, <1>7 DEF Facts, Owned
<1>9. ~Has(thread[Main], c)
  <2>1. HasWatch(c) = {}
    BY <1>6, CallersFinite, FS_EmptySet
  <2> QED BY <1>3, <2>1 DEF HasWatch
<1>10. thread[Main].pc = "set_del"
  BY <1>8, <1>9 DEF Claimed, Has, WatchPcs
<1> QED BY <1>3, <1>10 DEF Stuck, SetHeld, KillPcs

\* Freed memory is used only when the kill of the set hangs or the set is gone.
LEMMA UseKeeps ==
  ASSUME IInv, NEW t \in Threads,
         \/ AddToFreedSet(t) \/ AttachFreed(t) \/ AttachToFreedLoop(t)
         \/ WriteInFreedLoop(t) \/ KillInFreedLoop(t) \/ DelFromFreedSet(t)
  PROVE  IInv'
<1>1. Undefined
  BY DEF AddToFreedSet, AttachFreed, AttachToFreedLoop, WriteInFreedLoop, KillInFreedLoop,
     DelFromFreedSet
<1>2. ASSUME NEW k \in Loops, loop[k] = "freed" PROVE set.mem = "freed"
  BY <1>2 DEF IInv, SetHeld
<1>3. Stuck \/ set.mem = "freed"
  BY <1>2, AttachFreedStuck DEF AddToFreedSet, AttachToFreedLoop, WriteInFreedLoop,
     KillInFreedLoop, DelFromFreedSet
<1> QED BY <1>1, <1>3, SameKeeps DEF Undefined

\* The invariant holds at the start.
LEMMA InitIInv == Init => IInv
<1> SUFFICES ASSUME Init PROVE IInv
  OBVIOUS
<1>0. /\ Idle \in Places /\ Idle.pc = "idle" /\ Idle.c = NoOne
      /\ Main \in Threads /\ AcceptLoop \in Threads /\ AcceptLoop # Main /\ NoOne # Main
      /\ NoOne \notin Clients
  BY IdleIs, ThreadsAssumption, NoOneAssumption DEF Threads
<1>1. TypeOK
  <2>1. client \in [Clients -> ClientRecords]
    BY DEF Init, ClientRecords, Mem
  <2>2. watch \in [Clients -> WatchRecords]
    BY DEF Init, WatchRecords, Mem
  <2>3. thread \in [Threads -> Places]
    BY <1>0 DEF Init
  <2>4. set \in [mem : Mem, lock : Threads \cup {NoOne}]
    BY DEF Init, Mem
  <2>5. c_list \in Seq(Clients) /\ loop \in [Loops -> LoopStates] /\ undefined \in BOOLEAN
    <3>1. <<>> \in Seq(Clients)
      OBVIOUS
    <3> QED BY <3>1 DEF Init, LoopStates
  <2> QED BY <2>1, <2>2, <2>3, <2>4, <2>5 DEF TypeOK
<1>2. SetHeld
  BY <1>0 DEF Init, SetHeld, KillPcs
<1>3. \A t \in Threads : Placed(t)
  BY <1>0 DEF Init, Placed, OutPcs, AcceptPcs, DispatchPcs, UsePcs
<1>4. \A c \in Clients : Owned(c)
  BY <1>0 DEF Init, Owned
<1>5. ReferencesCounted
  <2>1. ASSUME NEW c \in Clients PROVE Counted(c)
    <3>1. HasWatch(c) = {}
      BY <1>0 DEF Init, HasWatch, Has
    <3>2. Cardinality(HasWatch(c)) = 0
      BY <3>1, FS_EmptySet
    <3> QED BY <3>2 DEF Init, Counted, Counts, One
  <2> QED BY <1>0, <2>1 DEF Init, ReferencesCounted
<1>6. MembersLinked
  BY <1>0 DEF Init, MembersLinked, Listed, IsInjective
<1> QED BY <1>1, <1>2, <1>3, <1>4, <1>5, <1>6 DEF IInv

\* Every step keeps the invariant.
LEMMA NextIInv == IInv /\ [Next]_vars => IInv'
<1> SUFFICES ASSUME IInv, [Next]_vars PROVE IInv'
  OBVIOUS
<1>0. Loops \subseteq Threads /\ Users \subseteq Threads
  BY DEF Threads
<1>1. ASSUME NEW t \in Loops, NEW c \in Clients,
             listener_generate(t, c) \/ proto_watch_dispath(t, c) \/ LoopRemoves(t, c)
      PROVE  IInv'
  BY <1>1, GenerateKeeps, CallbackKeeps, RemovesKeeps
<1>2. ASSUME NEW t \in Loops, Accepts(t) PROVE IInv'
  <2>1. CASE client_set_add(t)
    BY <1>0, <2>1, SetAddKeeps
  <2>2. CASE network_client_attach(t)
    BY <1>0, <2>2, AttachKeeps
  <2>3. CASE proto_watch_attach(t)
    BY <1>0, <2>3, WatchAttachKeeps
  <2>4. CASE AddToFreedSet(t) \/ AttachFreed(t) \/ AttachToFreedLoop(t)
    BY <1>0, <2>4, UseKeeps
  <2> QED BY <1>2, <2>1, <2>2, <2>3, <2>4 DEF Accepts
<1>3. ASSUME NEW t \in Loops,
             network_client_msg_recv(t) \/ conn_closed(t) \/ DispatchReturns(t)
      PROVE  IInv'
  BY <1>3, CallbackKeeps, ClosedKeeps
<1>4. ASSUME NEW t \in Loops, h6_ev_loop_ops_quit(t) \/ LeavesLoop(t) PROVE IInv'
  BY <1>4, LoopStepsKeep, RemovesKeeps DEF LeavesLoop
<1>5. ASSUME NEW u \in Users, NEW c \in Clients, network_client_ref(u, c) PROVE IInv'
  BY <1>5, RefKeeps
<1>6. ASSUME NEW u \in Users,
             \/ network_client_send_msg(u) \/ WriteInFreedLoop(u) \/ ReturnWatch(u)
             \/ LetGo(u) \/ network_client_unref(u)
      PROVE  IInv'
  BY <1>0, <1>6, LendKeeps, UseKeeps, ReturnKeeps, LetGoKeeps, UnrefKeeps
<1>7. ASSUME NEW t \in Threads, Kills(t) PROVE IInv'
  <2>1. CASE network_client_self_kill(t)
    BY <2>1, SelfKillKeeps
  <2>2. CASE proto_watch_kill(t)
    BY <2>2, WatchKillKeeps
  <2>3. CASE proto_watch_unref(t)
    BY <2>3, WatchUnrefKeeps
  <2>4. CASE KillInFreedLoop(t) \/ DelFromFreedSet(t)
    BY <2>4, UseKeeps
  <2>5. CASE client_set_del(t)
    BY <2>5, SetDelKeeps
  <2>6. CASE client_unref(t)
    BY <2>6, UnrefKeeps
  <2> QED BY <1>7, <2>1, <2>2, <2>3, <2>4, <2>5, <2>6 DEF Kills
<1>8. CASE h6_local_proxy_svr_kill \/ KillsServer
  BY <1>8, KillServerKeeps, KillNextKeeps, LoopStepsKeep DEF KillsServer
<1>9. CASE UNCHANGED vars
  BY <1>9, SameKeeps DEF vars, IInv, TypeOK, ReferencesCounted
<1> QED BY <1>1, <1>2, <1>3, <1>4, <1>5, <1>6, <1>7, <1>8, <1>9 DEF Next

\* The invariant holds always.
LEMMA InvariantHolds == Spec => []IInv
<1> QED BY InitIInv, NextIInv, PTL DEF Spec

\* Every record stays in its type; no counter of references is ever negative, so that
\* none is dropped that was not taken (obj.c 60-80, h6_ev.c h6_ev_unref).
THEOREM TypeCorrect == Spec => []TypeOK
<1>1. IInv => TypeOK
  BY DEF IInv
<1> QED BY <1>1, InvariantHolds, PTL

\* In any number of loops and users that accept, use and kill clients while the server
\* is killed, the counters of a client and of its watch are the number of those who
\* hold it, and nothing that a thread works on has been freed.  What is left of the
\* watches when the server is gone is in somebody's hands or a member's that came too
\* late, and freed memory is used only when the kill of the set hangs or the set is gone
\* (client.c 148-165, 221-266; network_client.c).
THEOREM ReferencesCorrect == Spec => []ReferencesCounted
<1>1. IInv => ReferencesCounted
  BY DEF IInv
<1> QED BY <1>1, InvariantHolds, PTL

\* The set's list holds each client once, the links of a client say whether it holds it,
\* and every connection that is served and not killed is one of them, also while the set
\* goes away and an accept comes in between (client.c 148-165, 215-310).
THEOREM MembersCorrect == Spec => []MembersLinked
<1>1. IInv => MembersLinked
  BY DEF IInv
<1> QED BY <1>1, InvariantHolds, PTL

\* What the kill of the set has in its hands it keeps: client_self_kill, called with the
\* set's lock held, takes it again (client.c 72-102, 206-224).
KeepsHands == thread[Main].c # NoOne => thread'[Main].c = thread[Main].c

\* A client that the main thread works on inside the set's kill stays with it.
LEMMA HandsKept == IInv /\ [Next]_vars => KeepsHands
<1> SUFFICES ASSUME IInv, [Next]_vars, thread[Main].c # NoOne
             PROVE  thread'[Main].c = thread[Main].c
  BY DEF KeepsHands
<1>1. /\ thread[Main].pc \in KillPcs \ {"unref"} /\ set.lock = Main
      /\ client[thread[Main].c].cs /\ Main \in Threads
      /\ Main \notin Loops /\ Main \notin Users /\ Main # NoOne /\ TypeOK
  <2>1. TypeOK /\ SetHeld /\ Placed(Main) /\ Main \in Threads
    BY DEF IInv, Threads
  <2>2. thread[Main] \in Places
    BY <2>1, ThreadFields
  <2>3. thread[Main].pc \in OutPcs \cup AcceptPcs \cup DispatchPcs \cup UsePcs \cup KillPcs
    BY <2>2 DEF Places
  <2>4. Main # AcceptLoop /\ Main \notin Users /\ Main \notin Loops /\ Main # NoOne
    BY ThreadsAssumption, NoOneAssumption
  <2>5. thread[Main].pc \in KillPcs \ {"unref"}
    BY <2>1, <2>3, <2>4 DEF Placed
  <2> QED BY <2>1, <2>4, <2>5 DEF SetHeld
<1>2. thread \in [Threads -> Places]
  BY <1>1 DEF TypeOK
<1>4. ASSUME NEW t \in Threads \ {Main}, NEW pc, Goto(t, pc) \/ thread' = [thread EXCEPT ![t] = pc]
      PROVE  thread'[Main].c = thread[Main].c
  BY <1>1, <1>2, <1>4 DEF Goto
<1>5. thread' = thread => thread'[Main].c = thread[Main].c
  OBVIOUS
<1>6. \A t \in Loops \cup Users : t \in Threads \ {Main}
  BY <1>1 DEF Threads
<1>7. ASSUME NEW t \in Loops, NEW c \in Clients,
             \/ listener_generate(t, c) \/ proto_watch_dispath(t, c)
             \/ LoopRemoves(t, c) \/ h6_ev_realse_one(t, c)
      PROVE  thread'[Main].c = thread[Main].c
  BY <1>4, <1>5, <1>6, <1>7 DEF listener_generate, h6_client_new, proto_watch_dispath,
     LoopRemoves, h6_ev_realse_one
<1>8. ASSUME NEW t \in Loops,
             \/ Accepts(t) \/ network_client_msg_recv(t) \/ conn_closed(t) \/ DispatchReturns(t)
             \/ h6_ev_loop_ops_quit(t) \/ LoopEnds(t)
      PROVE  thread'[Main].c = thread[Main].c
  BY <1>4, <1>5, <1>6, <1>8 DEF Accepts, AddToFreedSet, AttachFreed, AttachToFreedLoop, Undefined,
     client_set_add, network_client_attach, proto_watch_attach, network_client_msg_recv,
     conn_closed, DispatchReturns, h6_ev_loop_ops_quit, LoopEnds, Advance
<1>9. ASSUME NEW u \in Users, NEW c \in Clients, network_client_ref(u, c)
      PROVE  thread'[Main].c = thread[Main].c
  BY <1>4, <1>6, <1>9 DEF network_client_ref
<1>10. ASSUME NEW u \in Users,
              \/ network_client_send_msg(u) \/ WriteInFreedLoop(u) \/ ReturnWatch(u)
              \/ LetGo(u) \/ network_client_unref(u)
      PROVE  thread'[Main].c = thread[Main].c
  BY <1>4, <1>5, <1>6, <1>10 DEF network_client_send_msg, WriteInFreedLoop, Undefined, ReturnWatch,
     LetGo, network_client_unref, DropClient
<1>11. ASSUME NEW t \in Threads, Kills(t)
       PROVE  thread'[Main].c = thread[Main].c
  <2>1. CASE t # Main
    <3>1. t \in Threads \ {Main}
      BY <2>1
    <3> QED BY <1>4, <1>5, <3>1, <1>11 DEF Kills, network_client_self_kill, proto_watch_kill,
         proto_watch_unref, KillInFreedLoop, DelFromFreedSet, Undefined, client_set_del,
         client_unref
  <2>2. CASE t = Main
    <3>1. ~client_unref(t)
      BY <1>1, <2>2 DEF client_unref, On
    <3>2. ~client_set_del(t)
      BY <1>1, <2>2 DEF client_set_del
    <3>3. ASSUME NEW pc, Goto(t, pc) PROVE thread'[Main].c = thread[Main].c
      BY <1>1, <1>2, <2>2, <3>3 DEF Goto, Places
    <3> QED BY <1>5, <1>11, <3>1, <3>2, <3>3 DEF Kills, network_client_self_kill,
         proto_watch_kill, proto_watch_unref, KillInFreedLoop, DelFromFreedSet, Undefined
  <2> QED BY <2>1, <2>2
<1>12. ~h6_local_proxy_svr_kill /\ ~KillsServer
  BY <1>1 DEF h6_local_proxy_svr_kill, KillsServer, client_set_self_kill, KillNext,
     client_set_unlock, client_set_fin_this, client_set_free, h6_ev_loop_quit, JoinLoop,
     h6_sched_free, On, KillPcs
<1>13. CASE UNCHANGED vars
  BY <1>5, <1>13 DEF vars
<1> QED BY <1>7, <1>8, <1>9, <1>10, <1>11, <1>12, <1>13 DEF Next, LeavesLoop

\* For every set with a member the kill of the set never gets past the first one: no
\* step, of any thread, takes from the main thread the client that it began to kill, so
\* that the kill of the set never returns (client.c 206-224; SetKillEnds fails).
THEOREM KillOfMembersHangs == Spec => [][KeepsHands]_vars
<1>1. IInv /\ [Next]_vars => KeepsHands
  BY HandsKept
<1> QED BY <1>1, InvariantHolds, PTL DEF Spec

\* A client of the set has the set's name for good: no kill takes it away
\* (client.c 242-256, 270-289).
LEMMA NameStays ==
  ASSUME TypeOK, [Next]_vars, NEW d \in Clients, client[d].cs
  PROVE  client'[d].cs
<1>1. client \in [Clients -> ClientRecords]
  BY DEF TypeOK
<1>2. client' = client => client'[d].cs
  OBVIOUS
<1>3. ASSUME NEW c, client' = ClientUnref(client, c) PROVE client'[d].cs
  BY <1>1, <1>3 DEF ClientUnref, ClientRecords
<1>4. ASSUME NEW c, NEW w, WatchUnref(c, w) PROVE client'[d].cs
  BY <1>2, <1>3, <1>4 DEF WatchUnref
<1>5. ASSUME NEW c, client' = [client EXCEPT ![c].refs = @ + 1] PROVE client'[d].cs
  BY <1>1, <1>5 DEF ClientRecords
<1>6. ASSUME NEW t \in Loops, NEW c \in Clients,
             \/ listener_generate(t, c) \/ proto_watch_dispath(t, c)
             \/ LoopRemoves(t, c) \/ h6_ev_realse_one(t, c)
      PROVE  client'[d].cs
  <2>1. CASE listener_generate(t, c)
    <3>1. client' = [client EXCEPT ![c].mem = "live", ![c].refs = 2, ![c].watch = TRUE]
      BY <2>1 DEF listener_generate, h6_client_new, network_client_init
    <3> QED BY <1>1, <3>1 DEF ClientRecords
  <2>2. CASE proto_watch_dispath(t, c)
    BY <1>2, <2>2 DEF proto_watch_dispath
  <2>3. CASE LoopRemoves(t, c) \/ h6_ev_realse_one(t, c)
    BY <1>4, <2>3 DEF LoopRemoves, h6_ev_realse_one
  <2> QED BY <1>6, <2>1, <2>2, <2>3
<1>7. ASSUME NEW t \in Loops,
             \/ Accepts(t) \/ network_client_msg_recv(t) \/ conn_closed(t) \/ DispatchReturns(t)
             \/ h6_ev_loop_ops_quit(t) \/ LoopEnds(t)
      PROVE  client'[d].cs
  <2>1. CASE client_set_add(t)
    <3>1. client' = [client EXCEPT ![thread[t].c].cs = TRUE, ![thread[t].c].node = "linked"]
      BY <2>1 DEF client_set_add
    <3> QED BY <1>1, <3>1 DEF ClientRecords
  <2>2. CASE conn_closed(t)
    BY <1>5, <2>2 DEF conn_closed
  <2> QED BY <1>2, <1>7, <2>1, <2>2 DEF Accepts, AddToFreedSet, AttachFreed, AttachToFreedLoop,
       Undefined, network_client_attach, proto_watch_attach, network_client_msg_recv,
       DispatchReturns, h6_ev_loop_ops_quit, LoopEnds, Advance
<1>8. ASSUME NEW u \in Users, NEW c \in Clients, network_client_ref(u, c)
      PROVE  client'[d].cs
  BY <1>5, <1>8 DEF network_client_ref
<1>9. ASSUME NEW u \in Users,
             \/ network_client_send_msg(u) \/ WriteInFreedLoop(u) \/ ReturnWatch(u)
             \/ LetGo(u) \/ network_client_unref(u)
      PROVE  client'[d].cs
  BY <1>2, <1>3, <1>4, <1>9 DEF network_client_send_msg, WriteInFreedLoop, Undefined, ReturnWatch,
     LetGo, network_client_unref, DropClient
<1>10. ASSUME NEW t \in Threads, Kills(t)
       PROVE  client'[d].cs
  <2>1. CASE network_client_self_kill(t)
    <3>1. client' = [client EXCEPT ![thread[t].c].killed = TRUE, ![thread[t].c].watch = FALSE]
      BY <2>1 DEF network_client_self_kill
    <3> QED BY <1>1, <3>1 DEF ClientRecords
  <2>2. CASE proto_watch_unref(t)
    BY <1>4, <2>2 DEF proto_watch_unref
  <2>3. CASE client_set_del(t)
    <3>1. client' = client \/ client' = [client EXCEPT ![thread[t].c].node = "self"]
      BY <2>3 DEF client_set_del, Unlink
    <3> QED BY <1>1, <3>1 DEF ClientRecords
  <2>4. CASE client_unref(t)
    BY <1>3, <2>4 DEF client_unref
  <2>5. CASE proto_watch_kill(t) \/ KillInFreedLoop(t) \/ DelFromFreedSet(t)
    BY <1>2, <2>5 DEF proto_watch_kill, KillInFreedLoop, DelFromFreedSet, Undefined
  <2> QED BY <1>10, <2>1, <2>2, <2>3, <2>4, <2>5 DEF Kills
<1>11. CASE h6_local_proxy_svr_kill \/ KillsServer
  <2>1. client' = client \/ client' = [client EXCEPT ![Head(c_list)].node = "null"]
    BY <1>11 DEF h6_local_proxy_svr_kill, KillsServer, client_set_self_kill, KillNext,
       client_set_unlock, client_set_fin_this, client_set_free, h6_ev_loop_quit, JoinLoop,
       Advance, h6_sched_free
  <2> QED BY <1>1, <2>1 DEF ClientRecords
<1>12. CASE UNCHANGED vars
  BY <1>2, <1>12 DEF vars
<1> QED BY <1>6, <1>7, <1>8, <1>9, <1>10, <1>11, <1>12 DEF Next, LeavesLoop

\* A client that was ever in the set is never freed: the reference of its creator is left
\* to the set (h6_listener.c 32-46), and a closed client leaves the set's list and drops only
\* the reference of the callback (network_client.c 129-137).
THEOREM AcceptedNeverFreed ==
  ASSUME NEW d \in Clients
  PROVE  Spec => [](client[d].cs => [](client[d].mem = "live"))
<1>1. IInv /\ [Next]_vars /\ client[d].cs => (client[d].cs)'
  BY NameStays DEF IInv
<1>2. IInv /\ client[d].cs => client[d].mem = "live"
  <2> SUFFICES ASSUME IInv, client[d].cs PROVE client[d].mem = "live"
    OBVIOUS
  <2>1. Counted(d) /\ Owned(d) /\ TypeOK
    BY DEF IInv, ReferencesCounted
  <2>2. client[d].mem # "freed"
    BY <2>1 DEF Counted, Counts
  <2> QED BY <2>1, <2>2, ClientFields DEF Owned, Mem
<1> QED BY <1>1, <1>2, InvariantHolds, PTL DEF Spec
=============================================================================

----------------------------- MODULE H6EvProofs -----------------------------
(***************************************************************************)
(* Proofs about the event loop, for any number of threads, events, event   *)
(* bits and queued operations.                                             *)
(***************************************************************************)
EXTENDS H6EvRefinement, TLAPS, FiniteSetTheorems, SequenceTheorems

-----------------------------------------------------------------------------
(* Type correctness *)

\* The first state has the types that TypeOK states.
LEMMA InitType == Init => TypeOK
<1> SUFFICES ASSUME Init PROVE TypeOK
  OBVIOUS
<1>1. call \in [Procs -> Calls]
  BY DEF Init, Calls
<1>2. operations \in Seq(Ops)
  BY DEF Init
<1>3. timeout \in [Events -> Timeouts]
  BY DEF Init, Timeouts
<1>4. /\ holder \in [Events -> SUBSET Procs]
      /\ events \in [Events -> SUBSET Bits]
      /\ io \in [Events -> SUBSET Bits]
  BY DEF Init
<1>5. /\ mem \in [Events -> {"unborn", "live", "freed"}]
      /\ ref_count \in [Events -> Int]
      /\ ev_list \in [Events -> Nat]
  BY DEF Init
<1>6. /\ attached \in [Events -> BOOLEAN]
      /\ in_loop \in [Events -> BOOLEAN]
      /\ timer \in [Events -> BOOLEAN]
  BY DEF Init
<1> QED BY <1>1, <1>2, <1>3, <1>4, <1>5, <1>6 DEF Init, TypeOK

\* What Push does to the queue, whatever it pushes.
LEMMA PushType ==
  ASSUME TypeOK, NEW op \in Ops, Push(op)
  PROVE  operations' \in Seq(Ops) /\ request_pending' \in BOOLEAN /\ pipe' \in Nat
  BY DEF TypeOK, Push, h6_ev_loop_wakeup

\* What h6_ev_loop_operate queues for an event is an operation.
LEMMA OpType ==
  ASSUME NEW f \in {"add", "remove", "modify"}, NEW e \in Events
  PROVE  Op(f, e) \in Ops
  BY DEF Ops

\* Giving up a reference keeps the types of memory and counter; the last one frees.
LEMMA UnrefType ==
  ASSUME TypeOK, NEW e \in Events \cup {NoEvent}, Unref(e)
  PROVE  mem' \in [Events -> {"unborn", "live", "freed"}] /\ ref_count' \in [Events -> Int]
<1>1. CASE e \in Events
  BY <1>1 DEF Unref, TypeOK
<1>2. CASE e \notin Events
  <2>1. mem' = mem /\ ref_count' = ref_count
    BY <1>2 DEF Unref, TypeOK
  <2> QED BY <2>1 DEF TypeOK
<1> QED BY <1>1, <1>2

\* An operation is the quit operation, which has no event, or is for one event.
LEMMA OpFields ==
  ASSUME NEW op \in Ops
  PROVE  \/ op = QuitOp /\ op.func = "quit" /\ op.event = NoEvent
         \/ /\ op # QuitOp
            /\ op.func \in {"add", "remove", "modify"}
            /\ op.event \in Events
            /\ op = Op(op.func, op.event)
<1>1. CASE op = QuitOp
  BY <1>1 DEF QuitOp, Op
<1>2. CASE op # QuitOp
  <2>1. PICK f \in {"add", "remove", "modify"}, e \in Events : op = Op(f, e)
    BY <1>2 DEF Ops
  <2>2. op.func = f /\ op.event = e
    BY <2>1 DEF Op
  <2> QED BY <1>2, <2>1, <2>2
<1> QED BY <1>1, <1>2

\* No step of a thread or of the loop leaves the types.
LEMMA TypeStep == TypeOK /\ [Next]_vars => TypeOK'
<1> SUFFICES ASSUME TypeOK, [Next]_vars PROVE TypeOK'
  OBVIOUS
<1>1. ASSUME NEW t \in Procs, NEW e \in Events, NEW b \in SUBSET Bits, h6_ev_new(t, e, b)
      PROVE  TypeOK'
  BY <1>1 DEF h6_ev_new, TypeOK, watchVars, queueVars, loopVars
<1>2. ASSUME NEW t \in Procs, NEW e \in Events, NEW u \in Procs, h6_ev_ref(t, u, e)
      PROVE  TypeOK'
  BY <1>2 DEF h6_ev_ref, TypeOK, watchVars, queueVars, loopVars
<1>3. ASSUME NEW t \in Procs, NEW e \in Events, h6_ev_unref(t, e)
      PROVE  TypeOK'
  BY <1>3 DEF h6_ev_unref, Unref, TypeOK, watchVars, queueVars, loopVars
<1>4. ASSUME NEW t \in Procs, NEW e \in Events, NEW to \in Timeouts, h6_ev_set_timeout(t, e, to)
      PROVE  TypeOK'
  BY <1>4 DEF h6_ev_set_timeout, TypeOK, watchVars, queueVars, loopVars
<1>5. ASSUME NEW t \in Procs, NEW e \in Events, h6_ev_loop_attach(t, e)
      PROVE  TypeOK'
  <2>1. Op("add", e) \in Ops
    BY OpType
  <2> QED BY <1>5, <2>1, PushType DEF h6_ev_loop_attach, PushRef, TypeOK, watchVars, loopVars
<1>6. ASSUME NEW t \in Procs, NEW e \in Events, h6_ev_loop_remove(t, e)
      PROVE  TypeOK'
  <2>1. Op("remove", e) \in Ops
    BY OpType
  <2> QED BY <1>6, <2>1, PushType DEF h6_ev_loop_remove, PushRef, TypeOK, watchVars, loopVars
<1>7. ASSUME NEW t \in Procs, h6_ev_loop_quit(t)
      PROVE  TypeOK'
  <2>1. QuitOp \in Ops
    BY DEF Ops
  <2> QED BY <1>7, <2>1, PushType DEF h6_ev_loop_quit, TypeOK, eventVars, watchVars, loopVars
<1>8. ASSUME NEW t \in Procs, NEW e \in Events, NEW b \in SUBSET Bits, NEW s \in BOOLEAN,
             Begin(t, e, b, s)
      PROVE  TypeOK'
  BY <1>8 DEF Begin, Calls, TypeOK, eventVars, watchVars, queueVars, loopVars
<1>9. ASSUME NEW t \in Procs, StoreEvents(t)
      PROVE  TypeOK'
  <2>1. call[t] \in [at : {"store", "push", "apply"}, event : Events,
                     value : SUBSET Bits, sync : BOOLEAN]
    BY <1>9 DEF StoreEvents, TypeOK, Calls, NoCall
  <2> QED BY <1>9, <2>1 DEF StoreEvents, Calls, TypeOK, eventVars, watchVars, queueVars, loopVars
<1>10. ASSUME NEW t \in Procs, h6_ev_loop_modify_event(t)
       PROVE  TypeOK'
  <2>1. call[t].event \in Events
    BY <1>10 DEF h6_ev_loop_modify_event, TypeOK, Calls, NoCall
  <2>2. Op("modify", call[t].event) \in Ops
    BY <2>1, OpType
  <2>3. operations' \in Seq(Ops) /\ request_pending' \in BOOLEAN /\ pipe' \in Nat
        /\ ref_count' \in [Events -> Int]
    BY <1>10, <2>1, <2>2, PushType DEF h6_ev_loop_modify_event, PushRef, TypeOK
  <2> QED BY <1>10, <2>3 DEF h6_ev_loop_modify_event, Calls, TypeOK, watchVars, loopVars
<1>11. ASSUME NEW t \in Procs, SyncIoModified(t)
       PROVE  TypeOK'
  BY <1>11 DEF SyncIoModified, h6_ev_loop_sync_io_modified, Calls, TypeOK,
               eventVars, queueVars, loopVars
<1>12. ASSUME NEW e \in Events, h6_ev_mod_timer_sync(e)
       PROVE  TypeOK'
  BY <1>12 DEF h6_ev_mod_timer_sync, Timeouts, TypeOK, queueVars, loopVars
<1>13. ASSUME PopAndRun, request_pending' \in BOOLEAN, pipe' \in Nat
       PROVE  TypeOK'
  <2> DEFINE op == Head(operations)
  <2>1. op \in Ops /\ operations' \in Seq(Ops)
    BY <1>13, HeadTailProperties DEF PopAndRun, TypeOK
  <2>2. op = QuitOp \/ op.event \in Events
    BY <2>1 DEF Ops, Op
  <2>3. cur' \in Events \cup {NoEvent} /\ loop_pc' \in {"drop", "exec"}
    BY <1>13, <2>2 DEF PopAndRun, QuitOp, Op
  <2>4. /\ mem' \in [Events -> {"unborn", "live", "freed"}]
        /\ ref_count' \in [Events -> Int]
        /\ in_loop' \in [Events -> BOOLEAN]
        /\ io' \in [Events -> SUBSET Bits]
        /\ timer' \in [Events -> BOOLEAN]
        /\ ev_list' \in [Events -> Nat]
        /\ broken' \in BOOLEAN
    <3>1. CASE op.func = "add" /\ h6_ev_loop_ops_add(op.event)
      BY <3>1, <2>2 DEF h6_ev_loop_ops_add, TypeOK, QuitOp, Op
    <3>2. CASE op.func = "remove" /\ h6_ev_loop_ops_remove(op.event)
      <4>1. op.event \in Events
        BY <3>2, <2>2 DEF QuitOp, Op
      <4>2. CASE ev_list[op.event] > 0
        <5>1. Unref(op.event)
          BY <3>2, <4>2 DEF h6_ev_loop_ops_remove
        <5>2. ev_list' \in [Events -> Nat]
          <6>1. ev_list' = [ev_list EXCEPT ![op.event] = ev_list[op.event] - 1]
            BY <3>2, <4>2 DEF h6_ev_loop_ops_remove
          <6>2. ev_list \in [Events -> Nat] /\ ev_list[op.event] - 1 \in Nat
            BY <4>1, <4>2 DEF TypeOK
          <6> QED BY <6>1, <6>2
        <5>3. /\ in_loop' \in [Events -> BOOLEAN]
              /\ timer' \in [Events -> BOOLEAN]
          BY <3>2, <4>2 DEF h6_ev_loop_ops_remove, SyncRemove
        <5>4. io' \in [Events -> SUBSET Bits]
          <6>1. io' = [e \in Events |-> IF e \in {op.event} THEN {} ELSE io[e]]
            BY <3>2, <4>2 DEF h6_ev_loop_ops_remove, SyncRemove
          <6> QED BY <6>1 DEF TypeOK
        <5>5. broken' \in BOOLEAN
          BY <3>2, <4>2 DEF h6_ev_loop_ops_remove, TypeOK
        <5>6. /\ mem' \in [Events -> {"unborn", "live", "freed"}]
              /\ ref_count' \in [Events -> Int]
          BY <4>1, <5>1, UnrefType
        <5> QED BY <5>2, <5>3, <5>4, <5>5, <5>6
      <4>3. CASE ~(ev_list[op.event] > 0)
        BY <3>2, <4>3 DEF h6_ev_loop_ops_remove, watchVars, TypeOK
      <4> QED BY <4>2, <4>3
    <3>3. CASE op.func = "modify" /\ h6_ev_loop_ops_modify(op.event)
      BY <3>3, <2>2 DEF h6_ev_loop_ops_modify, h6_ev_loop_sync_io_modified, TypeOK, QuitOp, Op
    <3>4. CASE op.func = "quit" /\ h6_ev_loop_ops_quit
      BY <3>4 DEF h6_ev_loop_ops_quit, SyncRemove, TypeOK
    <3> QED BY <1>13, <3>1, <3>2, <3>3, <3>4 DEF PopAndRun, RunOp
  <2> QED BY <1>13, <2>1, <2>3, <2>4 DEF PopAndRun, TypeOK
<1>14. ASSUME QueueDrained, request_pending' \in BOOLEAN, pipe' \in Nat
       PROVE  TypeOK'
  BY <1>14 DEF QueueDrained, TypeOK, eventVars, watchVars
<1>15. CASE h6_ev_loop_wakeup_cb
  <2>1. pipe \in Nat /\ pipe > 0 /\ pipe' = pipe - 1
    BY <1>15 DEF h6_ev_loop_wakeup_cb, TypeOK
  <2>2. pipe' \in Nat
    BY <2>1
  <2>3. request_pending' \in BOOLEAN
    BY <1>15 DEF h6_ev_loop_wakeup_cb
  <2> QED BY <1>15, <2>2, <2>3, <1>13, <1>14 DEF h6_ev_loop_wakeup_cb
<1>16. CASE h6_ev_loop_exec_operations
  BY <1>16, <1>13, <1>14 DEF h6_ev_loop_exec_operations, TypeOK
<1>17. CASE DropOp
  <2>1. cur \in Events \cup {NoEvent} /\ Unref(cur)
    BY <1>17 DEF DropOp, TypeOK
  <2> QED BY <1>17, <2>1, UnrefType DEF DropOp, TypeOK, watchVars, queueVars
<1>18. CASE h6_ev_loop_run \/ RunReturns
  BY <1>18 DEF h6_ev_loop_run, RunReturns, TypeOK, eventVars, watchVars, queueVars
<1>19. ASSUME NEW e \in Events, Dispatch(e)
       PROVE  TypeOK'
  BY <1>19 DEF Dispatch, h6_ev_cb_io, h6_ev_cb_timeout, TypeOK, eventVars, watchVars, queueVars
<1>20. ASSUME NEW ok \in BOOLEAN, HandlerReturns(ok)
       PROVE  TypeOK'
  BY <1>20 DEF HandlerReturns, TypeOK, eventVars, queueVars
<1>21. CASE UNCHANGED vars
  BY <1>21 DEF vars, TypeOK, eventVars, watchVars, queueVars, loopVars
<1>22. ASSUME NEW t \in Procs, NEW e \in Events, ApiStep(t, e)
       PROVE  TypeOK'
  <2>1. ASSUME NEW b \in SUBSET Bits, h6_ev_add_events(t, e, b) \/ h6_ev_remove_events(t, e, b)
        PROVE  TypeOK'
    <3>1. events[e] \cup b \in SUBSET Bits /\ events[e] \ b \in SUBSET Bits
      BY DEF TypeOK
    <3> QED BY <2>1, <3>1, <1>8 DEF h6_ev_add_events, h6_ev_remove_events
  <2> QED BY <1>22, <1>1, <1>2, <1>3, <1>4, <1>5, <1>6, <2>1 DEF ApiStep
<1>23. ASSUME NEW e \in Events, SyncStep(e)
       PROVE  TypeOK'
  <2>1. ASSUME NEW b \in SUBSET Bits,
               h6_ev_add_events_sync(e, b) \/ h6_ev_remove_events_sync(e, b)
        PROVE  TypeOK'
    <3>1. events[e] \cup b \in SUBSET Bits /\ events[e] \ b \in SUBSET Bits
      BY DEF TypeOK
    <3>2. LoopThread \in Procs
      BY DEF Procs
    <3> QED BY <2>1, <3>1, <3>2, <1>8 DEF h6_ev_add_events_sync, h6_ev_remove_events_sync
  <2> QED BY <1>23, <1>12, <2>1 DEF SyncStep
<1> QED
  BY <1>7, <1>9, <1>10, <1>11, <1>15, <1>16, <1>17, <1>18, <1>19, <1>20, <1>21, <1>22, <1>23
     DEF Next, CallStep, LoopStep, Return

\* Every variable of the event loop keeps its type: in particular the pipe is
\* never read when it is empty (h6_ev_block_woken_up) and ev_list never holds a
\* negative number of nodes.
THEOREM TypeCorrect == Spec => []TypeOK
<1>1. Init => TypeOK
  BY InitType
<1>2. TypeOK /\ [Next]_vars => TypeOK'
  BY TypeStep
<1> QED BY <1>1, <1>2, PTL DEF Spec

-----------------------------------------------------------------------------
(* The queue of operations and the wake-up pipe *)

\* A pushed operation goes behind all others, which keep their places.
LEMMA AppendFacts ==
  ASSUME NEW q \in Seq(Ops), NEW op \in Ops
  PROVE  /\ Len(Append(q, op)) = Len(q) + 1
         /\ DOMAIN Append(q, op) = 1 .. Len(q) + 1
         /\ DOMAIN q = 1 .. Len(q)
         /\ Len(q) \in Nat
         /\ \A i \in 1 .. Len(q) : Append(q, op)[i] = q[i]
         /\ Append(q, op)[Len(q) + 1] = op
  OBVIOUS

\* Popping takes the first operation and moves the others up by one.
LEMMA TailFacts ==
  ASSUME NEW q \in Seq(Ops), q # <<>>
  PROVE  /\ Len(q) \in Nat \ {0}
         /\ DOMAIN q = 1 .. Len(q)
         /\ Head(q) = q[1] /\ Head(q) \in Ops
         /\ DOMAIN Tail(q) = 1 .. Len(q) - 1
         /\ Len(Tail(q)) = Len(q) - 1
         /\ \A i \in 1 .. Len(q) - 1 : Tail(q)[i] = q[i + 1]
<1>1. Len(q) \in Nat \ {0} /\ DOMAIN q = 1 .. Len(q)
  BY EmptySeq
<1>2. Tail(q) \in Seq(Ops) /\ Len(Tail(q)) = Len(q) - 1 /\ Head(q) \in Ops
      /\ \A i \in 1 .. Len(Tail(q)) : Tail(q)[i] = q[i + 1]
  BY HeadTailProperties
<1>3. DOMAIN Tail(q) = 1 .. Len(Tail(q))
  BY <1>2
<1>4. Head(q) = q[1]
  BY <1>1
<1> QED BY <1>1, <1>2, <1>3, <1>4

\* As far as the queue is concerned a step does nothing, pushes one operation
\* to a loop that has not been told to quit, or pops.
Quiet ==
  /\ UNCHANGED <<operations, request_pending, pipe, loop_quited, broken, ev_list>>
  /\ (loop_pc \in {"drop", "exec"}) = (loop_pc' \in {"drop", "exec"})

PushStep ==
  /\ ~loop_quited
  /\ UNCHANGED <<broken, ev_list, loop_pc>>
  /\ \E op \in Ops : Push(op) /\ (loop_quited' <=> op = QuitOp)

\* Only a push, the wake-up callback and a pop touch the queue and the wake-up.
LEMMA QueueCases ==
  ASSUME TypeOK, [Next]_vars
  PROVE  Quiet \/ PushStep \/ h6_ev_loop_wakeup_cb \/ h6_ev_loop_exec_operations
<1> USE DEF Quiet, PushStep
<1>1. ASSUME NEW t \in Procs, NEW e \in Events, ApiStep(t, e)
      PROVE  Quiet \/ PushStep
  <2>1. CASE h6_ev_loop_attach(t, e)
    <3>1. Op("add", e) \in Ops /\ Op("add", e) # QuitOp
      BY OpType DEF QuitOp, Op
    <3> QED BY <2>1, <3>1 DEF h6_ev_loop_attach, PushRef, watchVars, loopVars, TypeOK
  <2>2. CASE h6_ev_loop_remove(t, e)
    <3>1. Op("remove", e) \in Ops /\ Op("remove", e) # QuitOp
      BY OpType DEF QuitOp, Op
    <3> QED BY <2>2, <3>1 DEF h6_ev_loop_remove, PushRef, watchVars, loopVars, TypeOK
  <2>3. ASSUME ApiStep(t, e), ~h6_ev_loop_attach(t, e), ~h6_ev_loop_remove(t, e)
        PROVE  Quiet
    BY <2>3 DEF ApiStep, h6_ev_new, h6_ev_ref, h6_ev_unref, h6_ev_set_timeout, h6_ev_add_events,
                h6_ev_remove_events, Begin, watchVars, queueVars, loopVars
  <2> QED BY <1>1, <2>1, <2>2, <2>3
<1>2. ASSUME NEW t \in Procs, h6_ev_loop_quit(t)
      PROVE  PushStep
  <2>1. QuitOp \in Ops
    BY DEF Ops
  <2> QED BY <1>2, <2>1 DEF h6_ev_loop_quit, watchVars, loopVars, TypeOK
<1>3. ASSUME NEW t \in Procs, CallStep(t)
      PROVE  Quiet \/ PushStep
  <2>1. CASE h6_ev_loop_modify_event(t)
    <3>1. call[t].event \in Events
      BY <2>1 DEF h6_ev_loop_modify_event, TypeOK, Calls, NoCall
    <3>2. Op("modify", call[t].event) \in Ops /\ Op("modify", call[t].event) # QuitOp
      BY <3>1, OpType DEF QuitOp, Op
    <3> QED BY <2>1, <3>2 DEF h6_ev_loop_modify_event, PushRef, watchVars, loopVars, TypeOK
  <2>2. CASE StoreEvents(t) \/ SyncIoModified(t)
    BY <2>2 DEF StoreEvents, SyncIoModified, watchVars, queueVars, loopVars
  <2> QED BY <1>3, <2>1, <2>2 DEF CallStep
<1>4. ASSUME NEW e \in Events, SyncStep(e) \/ Dispatch(e)
      PROVE  Quiet
  BY <1>4 DEF SyncStep, h6_ev_add_events_sync, h6_ev_remove_events_sync, Begin,
              h6_ev_mod_timer_sync, Dispatch, h6_ev_cb_io, h6_ev_cb_timeout,
              watchVars, queueVars, loopVars
<1>5. ASSUME Return \/ h6_ev_loop_run \/ RunReturns \/ DropOp \/ UNCHANGED vars
      PROVE  Quiet
  BY <1>5 DEF Return, HandlerReturns, Handling, h6_ev_loop_run, RunReturns, DropOp, vars,
              watchVars, queueVars, loopVars
<1> QED BY <1>1, <1>2, <1>3, <1>4, <1>5 DEF Next, LoopStep

\* Each of these keeps WakeupInv, as queue and flag change under one lock.
LEMMA WakeupStep == TypeOK /\ WakeupInv /\ [Next]_vars => WakeupInv'
<1> SUFFICES ASSUME TypeOK, WakeupInv, [Next]_vars PROVE WakeupInv'
  OBVIOUS
<1> USE DEF WakeupInv, PipeMatchesPending, NoLostWakeup
<1>1. CASE Quiet
  BY <1>1 DEF Quiet
<1>2. CASE PushStep
  BY <1>2 DEF PushStep, Push, h6_ev_loop_wakeup, TypeOK
<1>3. CASE h6_ev_loop_wakeup_cb
  <2>1. pipe' = 0 /\ request_pending' = FALSE
    BY <1>3 DEF h6_ev_loop_wakeup_cb, TypeOK
  <2>2. operations' = <<>> \/ loop_pc' \in {"drop", "exec"}
    BY <1>3 DEF h6_ev_loop_wakeup_cb, PopAndRun, QueueDrained
  <2> QED BY <2>1, <2>2
<1>4. CASE h6_ev_loop_exec_operations
  <2>1. operations' = <<>> \/ loop_pc' \in {"drop", "exec"}
    BY <1>4 DEF h6_ev_loop_exec_operations, PopAndRun, QueueDrained
  <2> QED BY <1>4, <2>1 DEF h6_ev_loop_exec_operations
<1> QED BY <1>1, <1>2, <1>3, <1>4, QueueCases

\* No wake-up is lost between h6_ev_block_wakup and h6_ev_block_woken_up, for
\* any number of threads: whatever is queued, the loop thread will look at it.
THEOREM WakeupCorrect == Spec => [](PipeMatchesPending /\ NoLostWakeup)
<1>1. Init => WakeupInv
  BY DEF Init, WakeupInv, PipeMatchesPending, NoLostWakeup
<1>2. TypeOK /\ WakeupInv /\ [Next]_vars => WakeupInv'
  BY WakeupStep
<1>3. WakeupInv => PipeMatchesPending /\ NoLostWakeup
  BY DEF WakeupInv
<1> QED BY <1>1, <1>2, <1>3, TypeCorrect, PTL DEF Spec

-----------------------------------------------------------------------------
(* The quit operation *)

\* What running an operation changes of broken and ev_list.
LEMMA RunOpQuits ==
  ASSUME NEW op \in Ops, RunOp(op)
  PROVE  /\ op # QuitOp => broken' = broken
         /\ op = QuitOp => broken' = TRUE /\ ev_list' = [e \in Events |-> 0]
<1>1. CASE op = QuitOp
  BY <1>1 DEF RunOp, QuitOp, Op, h6_ev_loop_ops_quit
<1>2. CASE op # QuitOp
  <2>1. op.func \in {"add", "remove", "modify"}
    BY <1>2 DEF Ops, Op
  <2> QED BY <1>2, <2>1 DEF RunOp, h6_ev_loop_ops_add, h6_ev_loop_ops_remove, h6_ev_loop_ops_modify
<1> QED BY <1>1, <1>2

\* Popping leaves the quit operation last, if it was queued.
LEMMA QuitPop ==
  ASSUME TypeOK, QuitIsLast, PopAndRun
  PROVE  QuitIsLast'
<1> DEFINE op == Head(operations)
<1>1. operations \in Seq(Ops) /\ operations # <<>> /\ operations' = Tail(operations)
  BY DEF TypeOK, PopAndRun
<1>2. /\ Len(operations) \in Nat \ {0}
      /\ DOMAIN operations = 1 .. Len(operations)
      /\ op = operations[1] /\ op \in Ops
      /\ DOMAIN operations' = 1 .. Len(operations) - 1
      /\ Len(operations') = Len(operations) - 1
      /\ \A i \in 1 .. Len(operations) - 1 : operations'[i] = operations[i + 1]
  BY <1>1, TailFacts
<1>3. ~broken /\ broken \in BOOLEAN /\ loop_quited' = loop_quited
  BY <1>1 DEF QuitIsLast, PopAndRun, TypeOK
<1>4. \A i \in DOMAIN operations' : operations'[i] = QuitOp => i = Len(operations')
  <2> SUFFICES ASSUME NEW i \in 1 .. Len(operations) - 1, operations[i + 1] = QuitOp
               PROVE  i = Len(operations) - 1
    BY <1>2
  <2>1. i + 1 \in DOMAIN operations
    BY <1>2
  <2>2. i + 1 = Len(operations)
    BY <2>1 DEF QuitIsLast
  <2> QED BY <2>2, <1>2
<1>5. CASE op = QuitOp
  <2>1. Len(operations) = 1
    BY <1>2, <1>5 DEF QuitIsLast
  <2>2. operations' = <<>>
    BY <2>1, <1>1, <1>2
  <2>3. broken' = TRUE /\ \A e \in Events : ev_list'[e] = 0
    BY <1>2, <1>5, RunOpQuits DEF PopAndRun
  <2>4. loop_quited
    BY <1>2, <1>5 DEF QuitIsLast
  <2> QED BY <1>3, <1>4, <2>2, <2>3, <2>4 DEF QuitIsLast
<1>6. CASE op # QuitOp
  <2>1. ~broken'
    BY <1>2, <1>3, <1>6, RunOpQuits DEF PopAndRun
  <2>2. (\E i \in DOMAIN operations : operations[i] = QuitOp)
          <=> (\E i \in DOMAIN operations' : operations'[i] = QuitOp)
    <3>1. ASSUME NEW i \in DOMAIN operations, operations[i] = QuitOp
          PROVE  i - 1 \in DOMAIN operations' /\ operations'[i - 1] = QuitOp
      <4>1. i \in 1 .. Len(operations) /\ i # 1
        BY <3>1, <1>2, <1>6
      <4>2. i - 1 \in 1 .. Len(operations) - 1 /\ (i - 1) + 1 = i
        BY <4>1, <1>2
      <4> QED BY <4>2, <1>2, <3>1
    <3>2. ASSUME NEW i \in DOMAIN operations', operations'[i] = QuitOp
          PROVE  i + 1 \in DOMAIN operations /\ operations[i + 1] = QuitOp
      BY <3>2, <1>2
    <3> QED BY <3>1, <3>2
  <2> QED BY <1>3, <1>4, <2>1, <2>2 DEF QuitIsLast
<1> QED BY <1>5, <1>6

\* No step queues anything behind the quit operation.
LEMMA QuitStep == TypeOK /\ QuitIsLast /\ [Next]_vars => QuitIsLast'
<1> SUFFICES ASSUME TypeOK, QuitIsLast, [Next]_vars PROVE QuitIsLast'
  OBVIOUS
<1>1. CASE Quiet
  BY <1>1 DEF Quiet, QuitIsLast
<1>2. CASE PushStep
  <2> PICK op \in Ops : Push(op) /\ (loop_quited' <=> op = QuitOp)
    BY <1>2 DEF PushStep
  <2>1. operations \in Seq(Ops) /\ operations' = Append(operations, op)
    BY DEF TypeOK, Push
  <2>2. ~broken /\ ~broken' /\ \A i \in DOMAIN operations : operations[i] # QuitOp
    BY <1>2 DEF PushStep, QuitIsLast
  <2> QED BY <2>1, <2>2, AppendFacts DEF QuitIsLast
<1>3. CASE PopAndRun
  BY <1>3, QuitPop
<1>4. CASE QueueDrained
  BY <1>4 DEF QueueDrained, QuitIsLast, watchVars
<1> QED BY <1>1, <1>2, <1>3, <1>4, QueueCases DEF h6_ev_loop_wakeup_cb, h6_ev_loop_exec_operations

\* After h6_ev_loop_quit nothing is queued any more, and once the quit
\* operation has run the loop has let go of every event it held.
THEOREM QuitCorrect == Spec => []QuitIsLast
<1>1. Init => QuitIsLast
  BY DEF Init, QuitIsLast
<1>2. TypeOK /\ QuitIsLast /\ [Next]_vars => QuitIsLast'
  BY QuitStep
<1> QED BY <1>1, <1>2, TypeCorrect, PTL DEF Spec

-----------------------------------------------------------------------------
(* The events in the loop *)

\* Pushing keeps the add operation in front of the others of its event.
LEMMA AddFirstPush ==
  ASSUME TypeOK, AddFirst, NEW op \in Ops, Push(op),
         op.event \in Events => attached'[op.event],
         op.func = "add" => ~attached[op.event],
         \A e \in Events : attached'[e] = (attached[e] \/ op = Op("add", e)),
         UNCHANGED <<in_loop, loop_pc, cur>>
  PROVE  AddFirst'
<1>1. operations \in Seq(Ops) /\ operations' = Append(operations, op)
  BY DEF TypeOK, Push
<1> DEFINE n == Len(operations)
<1>2. /\ n \in Nat
      /\ DOMAIN operations = 1 .. n /\ DOMAIN operations' = 1 .. n + 1
      /\ \A i \in 1 .. n : operations'[i] = operations[i]
      /\ operations'[n + 1] = op
  BY <1>1, AppendFacts
<1>3. \A i \in 1 .. n : operations[i].event \in Events => attached[operations[i].event]
  BY <1>2 DEF AddFirst, OpsOn, OpsIn
<1>4. op.func = "add" => /\ op.event \in Events /\ op = Op("add", op.event)
                         /\ ~in_loop[op.event]
                         /\ \A i \in 1 .. n : operations[i].event # op.event
  BY <1>3 DEF AddFirst, Ops, Op, QuitOp
<1>5. ASSUME NEW i \in 1 .. n + 1, operations'[i].func = "add",
             NEW e, e = operations'[i].event
      PROVE  /\ attached'[e] /\ ~in_loop'[e]
             /\ \A j \in 1 .. n + 1 : operations'[j].event = e /\ j # i =>
                  j > i /\ operations'[j].func # "add"
  <2>1. CASE i \in 1 .. n
    <3>1. operations[i] \in Ops /\ operations[i].func = "add" /\ e = operations[i].event
      BY <1>1, <1>2, <1>5, <2>1
    <3>2. e \in Events
      BY <3>1, OpFields
    <3>3. /\ attached[e] /\ ~in_loop[e]
          /\ \A j \in 1 .. n : operations[j].event = e /\ j # i =>
               j > i /\ operations[j].func # "add"
      BY <2>1, <3>1, <1>2 DEF AddFirst
    <3>4. op.event = e => op.func # "add"
      BY <3>3
    <3>5. attached'[e] /\ ~in_loop'[e]
      BY <3>2, <3>3
    <3>6. ASSUME NEW j \in 1 .. n + 1, operations'[j].event = e, j # i
          PROVE  j > i /\ operations'[j].func # "add"
      <4>1. CASE j \in 1 .. n
        BY <4>1, <3>3, <3>6, <1>2
      <4>2. CASE j = n + 1
        BY <4>2, <3>4, <3>6, <1>2, <2>1
      <4> QED BY <4>1, <4>2
    <3> QED BY <3>5, <3>6
  <2>2. CASE i = n + 1
    BY <2>2, <1>2, <1>4, <1>5
  <2> QED BY <2>1, <2>2
<1>6. ASSUME NEW e \in Events, ~attached'[e]
      PROVE  OpsOn(e)' = {} /\ ~in_loop'[e] /\ Executing(e)' = 0
  <2>1. ~attached[e] /\ op.event # e
    BY <1>6
  <2>2. OpsOn(e) = {} /\ ~in_loop[e] /\ Executing(e) = 0
    BY <2>1 DEF AddFirst
  <2> QED BY <2>1, <2>2, <1>2 DEF OpsOn, OpsIn, Executing
<1> QED BY <1>2, <1>5, <1>6 DEF AddFirst

\* Running an operation brings an event into the loop only if it is its add.
LEMMA RunOpEnters ==
  ASSUME TypeOK, NEW op \in Ops, RunOp(op), NEW e \in Events, in_loop'[e]
  PROVE  in_loop[e] \/ op = Op("add", e)
<1>1. CASE op.func = "add" /\ h6_ev_loop_ops_add(op.event)
  BY <1>1 DEF h6_ev_loop_ops_add, Ops, Op, QuitOp, TypeOK
<1>2. CASE op.func = "remove" /\ h6_ev_loop_ops_remove(op.event)
  BY <1>2 DEF h6_ev_loop_ops_remove, SyncRemove, watchVars
<1>3. CASE op.func = "modify" /\ h6_ev_loop_ops_modify(op.event)
  BY <1>3 DEF h6_ev_loop_ops_modify
<1>4. CASE op.func = "quit" /\ h6_ev_loop_ops_quit
  BY <1>4 DEF h6_ev_loop_ops_quit, SyncRemove
<1> QED BY <1>1, <1>2, <1>3, <1>4 DEF RunOp

\* Popping an operation leaves no second add of an event behind.
LEMMA AddFirstPop ==
  ASSUME TypeOK, AddFirst, PopAndRun
  PROVE  AddFirst'
<1> DEFINE op == Head(operations)
           n == Len(operations)
<1>1. operations \in Seq(Ops) /\ operations # <<>> /\ operations' = Tail(operations)
  BY DEF TypeOK, PopAndRun
<1>2. /\ n \in Nat \ {0}
      /\ DOMAIN operations = 1 .. n
      /\ op = operations[1] /\ op \in Ops
      /\ DOMAIN operations' = 1 .. n - 1
      /\ \A i \in 1 .. n - 1 : operations'[i] = operations[i + 1]
  BY <1>1, TailFacts
<1>3. attached' = attached /\ cur' = op.event /\ RunOp(op)
  BY DEF PopAndRun
<1>4. ASSUME NEW i \in 1 .. n - 1, operations'[i].func = "add",
             NEW e, e = operations'[i].event
      PROVE  /\ attached'[e] /\ ~in_loop'[e]
             /\ \A j \in 1 .. n - 1 : operations'[j].event = e /\ j # i =>
                  j > i /\ operations'[j].func # "add"
  <2>1. i + 1 \in 1 .. n /\ 1 \in 1 .. n
    BY <1>2
  <2>2. operations[i + 1].func = "add" /\ operations[i + 1].event = e
        /\ operations[i + 1] \in Ops
    BY <1>1, <1>2, <1>4, <2>1
  <2>3. e \in Events
    BY <2>2, OpFields
  <2>4. /\ attached[e] /\ ~in_loop[e]
        /\ \A j \in 1 .. n : operations[j].event = e /\ j # i + 1 =>
             j > i + 1 /\ operations[j].func # "add"
    BY <2>1, <2>2, <1>2 DEF AddFirst
  <2>5. op.event # e
    BY <2>1, <2>4, <1>2
  <2>6. ~in_loop'[e]
    BY <2>3, <2>4, <2>5, <1>2, <1>3, RunOpEnters DEF Op
  <2>7. ASSUME NEW j \in 1 .. n - 1, operations'[j].event = e, j # i
        PROVE  j > i /\ operations'[j].func # "add"
    <3>1. j + 1 \in 1 .. n /\ j + 1 # i + 1 /\ operations[j + 1].event = e
      BY <2>7, <1>2
    <3>2. j + 1 > i + 1 /\ operations[j + 1].func # "add"
      BY <3>1, <2>4
    <3> QED BY <3>2, <1>2
  <2> QED BY <1>3, <2>4, <2>6, <2>7
<1>5. ASSUME NEW e \in Events, ~attached'[e]
      PROVE  OpsOn(e)' = {} /\ ~in_loop'[e] /\ Executing(e)' = 0
  <2>1. OpsOn(e) = {} /\ ~in_loop[e]
    BY <1>3, <1>5 DEF AddFirst
  <2>2. op.event # e
    <3>1. 1 \in DOMAIN operations
      BY <1>2
    <3> QED BY <3>1, <1>2, <2>1 DEF OpsOn, OpsIn
  <2>3. ~in_loop'[e]
    BY <2>1, <2>2, <1>2, <1>3, RunOpEnters DEF Op
  <2>4. \A i \in 1 .. n - 1 : operations'[i].event # e
    <3> SUFFICES ASSUME NEW i \in 1 .. n - 1 PROVE operations[i + 1].event # e
      BY <1>2
    <3>1. i + 1 \in DOMAIN operations
      BY <1>2
    <3> QED BY <3>1, <2>1 DEF OpsOn, OpsIn
  <2> QED BY <2>2, <2>3, <2>4, <1>2, <1>3 DEF OpsOn, OpsIn, Executing
<1> QED BY <1>2, <1>4, <1>5 DEF AddFirst

\* Executing an operation keeps in_loop, the watchers and ev_list in agreement.
LEMMA WatchPop ==
  ASSUME TypeOK, WatchInv, PopAndRun
  PROVE  WatchInv'
<1> DEFINE op == Head(operations)
<1>1. operations \in Seq(Ops) /\ operations # <<>>
  BY DEF TypeOK, PopAndRun
<1>2. op \in Ops /\ op = operations[1] /\ 1 \in DOMAIN operations
  BY <1>1, TailFacts
<1>3. cur' = op.event /\ RunOp(op) /\ timeout' = timeout
      /\ loop_pc' = IF op.event = NoEvent THEN "exec" ELSE "drop"
  BY DEF PopAndRun
<1>4. DropHasEvent' /\ ~Handling'
  BY <1>2, <1>3, OpFields DEF DropHasEvent, Handling
<1>5. /\ ListedOnce'
      /\ \A e \in Events : (io'[e] # {} \/ timer'[e]) => in_loop'[e]
      /\ \A e \in Events : timer'[e] => timeout[e] >= 0
  <2> USE DEF WatchInv, ListedOnce, WatchedInLoop, TimerHasTimeout
  <2>1. CASE op.func = "add" /\ h6_ev_loop_ops_add(op.event)
    <3>1. op.event \in Events /\ ~in_loop[op.event]
      BY <2>1, <1>2, OpFields DEF AddFirst
    <3> QED BY <2>1, <3>1 DEF h6_ev_loop_ops_add, TypeOK
  <2>2. CASE op.func = "remove" /\ h6_ev_loop_ops_remove(op.event)
    <3>1. op.event \in Events
      BY <2>2, <1>2, OpFields
    <3>2. CASE ev_list[op.event] > 0
      <4>1. ev_list[op.event] = 1 /\ in_loop[op.event]
        BY <3>1, <3>2
      <4>2. ev_list' = [ev_list EXCEPT ![op.event] = ev_list[op.event] - 1]
            /\ SyncRemove({op.event})
        BY <2>2, <3>2 DEF h6_ev_loop_ops_remove
      <4>3. \A e \in Events : ev_list'[e] = IF e = op.event THEN 0 ELSE ev_list[e]
        BY <3>1, <4>1, <4>2 DEF TypeOK
      <4>4. \A e \in Events :
              /\ in_loop'[e] <=> (in_loop[e] /\ e # op.event)
              /\ io'[e] = IF e = op.event THEN {} ELSE io[e]
        BY <4>2 DEF SyncRemove
      <4>5. \A e \in Events :
              timer'[e] <=> (timer[e] /\ ~(e = op.event /\ timeout[e] >= 0))
        BY <4>2 DEF SyncRemove
      <4> HIDE DEF op
      <4> QED BY <3>1, <4>3, <4>4, <4>5
    <3>3. CASE ~(ev_list[op.event] > 0)
      BY <2>2, <3>3 DEF h6_ev_loop_ops_remove, watchVars
    <3> QED BY <3>2, <3>3
  <2>3. CASE op.func = "modify" /\ h6_ev_loop_ops_modify(op.event)
    <3>1. op.event \in Events
      BY <2>3, <1>2, OpFields
    <3> QED BY <2>3, <3>1 DEF h6_ev_loop_ops_modify, h6_ev_loop_sync_io_modified, TypeOK
  <2>4. CASE op.func = "quit" /\ h6_ev_loop_ops_quit
    <3>1. \A e \in Events : in_loop[e] <=> ev_list[e] > 0
      BY DEF TypeOK
    <3> QED BY <2>4, <3>1 DEF h6_ev_loop_ops_quit, SyncRemove, TypeOK
  <2> QED BY <1>3, <2>1, <2>2, <2>3, <2>4 DEF RunOp
<1>6. AddFirst'
  BY AddFirstPop DEF WatchInv
<1> QED BY <1>3, <1>4, <1>5, <1>6 DEF WatchInv, WatchedInLoop, TimerHasTimeout

\* A step that leaves the queue, the watchers and the loop thread alone.
LEMMA WatchFrame ==
  ASSUME WatchInv,
         UNCHANGED <<operations, attached, timeout, in_loop, io, timer, ev_list, loop_pc, cur>>
  PROVE  WatchInv'
  BY DEF WatchInv, AddFirst, ListedOnce, WatchedInLoop, TimerHasTimeout, DropHasEvent,
         Handling, OpsOn, OpsIn, Executing

\* Queueing an operation does, too: an add only where none was asked for before.
LEMMA WatchPush ==
  ASSUME TypeOK, WatchInv, NEW op \in Ops, Push(op),
         op.event \in Events => attached'[op.event],
         op.func = "add" => ~attached[op.event],
         \A e \in Events : attached'[e] = (attached[e] \/ op = Op("add", e)),
         UNCHANGED <<timeout, in_loop, io, timer, ev_list, loop_pc, cur>>
  PROVE  WatchInv'
<1>1. AddFirst'
  BY AddFirstPush DEF WatchInv
<1> QED BY <1>1 DEF WatchInv, ListedOnce, WatchedInLoop, TimerHasTimeout, DropHasEvent, Handling

\* No step breaks the agreement of in_loop, watchers, ev_list and queued adds.
LEMMA WatchStep == TypeOK /\ WatchInv /\ [Next]_vars => WatchInv'
<1> SUFFICES ASSUME TypeOK, WatchInv, [Next]_vars PROVE WatchInv'
  OBVIOUS
<1>1. ASSUME NEW t \in Procs, NEW e \in Events, ApiStep(t, e)
      PROVE  WatchInv'
  <2>1. CASE h6_ev_loop_attach(t, e)
    <3>1. Op("add", e) \in Ops /\ Op("add", e).event = e /\ Op("add", e).func = "add"
          /\ \A d \in Events : Op("add", e) = Op("add", d) => d = e
      BY OpType DEF Op
    <3> QED BY <2>1, <3>1, WatchPush
            DEF h6_ev_loop_attach, PushRef, watchVars, loopVars, TypeOK
  <2>2. CASE h6_ev_loop_remove(t, e)
    <3>1. Op("remove", e) \in Ops /\ Op("remove", e).event = e /\ Op("remove", e).func = "remove"
          /\ \A d \in Events : Op("remove", e) # Op("add", d)
      BY OpType DEF Op
    <3> QED BY <2>2, <3>1, WatchPush
            DEF h6_ev_loop_remove, PushRef, watchVars, loopVars, TypeOK
  <2>3. CASE \E to \in Timeouts : h6_ev_set_timeout(t, e, to)
    <3>1. ~timer[e]
      BY <2>3 DEF h6_ev_set_timeout, WatchInv, AddFirst, WatchedInLoop
    <3> QED BY <2>3, <3>1 DEF h6_ev_set_timeout, watchVars, queueVars, loopVars, TypeOK,
            WatchInv, AddFirst, ListedOnce, WatchedInLoop, TimerHasTimeout, DropHasEvent,
            Handling, OpsOn, OpsIn, Executing
  <2>4. ASSUME \/ \E b \in SUBSET Bits : h6_ev_new(t, e, b)
               \/ \E u \in Procs : h6_ev_ref(t, u, e)
               \/ h6_ev_unref(t, e)
               \/ \E b \in SUBSET Bits : h6_ev_add_events(t, e, b) \/ h6_ev_remove_events(t, e, b)
        PROVE  WatchInv'
    BY <2>4, WatchFrame DEF h6_ev_new, h6_ev_ref, h6_ev_unref, h6_ev_add_events,
       h6_ev_remove_events, Begin, eventVars, watchVars, queueVars, loopVars
  <2> QED BY <1>1, <2>1, <2>2, <2>3, <2>4 DEF ApiStep
<1>2. ASSUME NEW t \in Procs, h6_ev_loop_quit(t)
      PROVE  WatchInv'
  <2>1. QuitOp \in Ops /\ QuitOp.event = NoEvent /\ QuitOp.func = "quit"
        /\ \A d \in Events : QuitOp # Op("add", d)
    BY DEF Ops, QuitOp, Op
  <2> QED BY <1>2, <2>1, NoEventAssumption, WatchPush
          DEF h6_ev_loop_quit, eventVars, watchVars, loopVars, TypeOK
<1>3. ASSUME NEW t \in Procs, CallStep(t)
      PROVE  WatchInv'
  <2>1. CASE StoreEvents(t)
    BY <2>1, WatchFrame DEF StoreEvents, eventVars, watchVars, queueVars, loopVars
  <2>2. CASE h6_ev_loop_modify_event(t)
    <3> DEFINE e == call[t].event
               op == Op("modify", e)
    <3>1. e \in Events
      BY <2>2 DEF h6_ev_loop_modify_event, TypeOK, Calls, NoCall
    <3>2. op \in Ops /\ op.event = e /\ op.func = "modify"
          /\ \A d \in Events : op # Op("add", d)
      BY <3>1, OpType DEF Op
    <3>3. CASE attached[e] /\ ~loop_quited
      BY <2>2, <3>1, <3>2, <3>3, WatchPush
         DEF h6_ev_loop_modify_event, PushRef, watchVars, loopVars, TypeOK
    <3>4. CASE ~(attached[e] /\ ~loop_quited)
      BY <2>2, <3>4, WatchFrame DEF h6_ev_loop_modify_event, watchVars, loopVars
    <3> QED BY <3>3, <3>4
  <2>3. CASE SyncIoModified(t)
    BY <2>3 DEF SyncIoModified, h6_ev_loop_sync_io_modified, eventVars, queueVars, loopVars,
       TypeOK, WatchInv, AddFirst, ListedOnce, WatchedInLoop, TimerHasTimeout, DropHasEvent,
       Handling, OpsOn, OpsIn, Executing
  <2> QED BY <1>3, <2>1, <2>2, <2>3 DEF CallStep
<1>4. ASSUME NEW e \in Events, SyncStep(e)
      PROVE  WatchInv'
  <2>1. CASE h6_ev_mod_timer_sync(e)
    BY <2>1 DEF h6_ev_mod_timer_sync, queueVars, loopVars,
       TypeOK, WatchInv, AddFirst, ListedOnce, WatchedInLoop, TimerHasTimeout, DropHasEvent,
       Handling, OpsOn, OpsIn, Executing
  <2>2. ASSUME NEW b \in SUBSET Bits,
               h6_ev_add_events_sync(e, b) \/ h6_ev_remove_events_sync(e, b)
        PROVE  WatchInv'
    BY <2>2, WatchFrame DEF h6_ev_add_events_sync, h6_ev_remove_events_sync, Begin,
       eventVars, watchVars, queueVars, loopVars
  <2> QED BY <1>4, <2>1, <2>2 DEF SyncStep
<1>5. ASSUME NEW e \in Events, Dispatch(e)
      PROVE  WatchInv'
  <2>1. in_loop[e]
    BY <1>5 DEF Dispatch, h6_ev_cb_io, h6_ev_cb_timeout, WatchInv, WatchedInLoop
  <2>2. /\ UNCHANGED <<operations, attached, timeout, in_loop, io, ev_list>>
        /\ loop_pc = "poll" /\ loop_pc' \in {"io", "timer"} /\ cur' = e
    BY <1>5 DEF Dispatch, h6_ev_cb_io, h6_ev_cb_timeout, eventVars, watchVars, queueVars
  <2>3. \A d \in Events : timer'[d] => timer[d]
    BY <1>5 DEF Dispatch, h6_ev_cb_io, h6_ev_cb_timeout, watchVars, TypeOK
  <2>4. AddFirst'
    BY <2>2 DEF WatchInv, AddFirst, OpsOn, OpsIn, Executing
  <2> QED BY <2>1, <2>2, <2>3, <2>4 DEF WatchInv, ListedOnce, WatchedInLoop, TimerHasTimeout,
          DropHasEvent, Handling
<1>6. ASSUME NEW ok \in BOOLEAN, HandlerReturns(ok)
      PROVE  WatchInv'
  <2>1. cur \in Events /\ in_loop[cur]
    BY <1>6 DEF HandlerReturns, WatchInv
  <2>2. \A e \in Events : timer'[e] => timer[e] \/ (e = cur /\ timeout[e] > 0)
    BY <1>6, <2>1 DEF HandlerReturns, TypeOK
  <2>3. /\ UNCHANGED <<operations, attached, timeout, in_loop, io, ev_list>>
        /\ loop_pc \in {"io", "timer"} /\ loop_pc' = "poll"
    BY <1>6 DEF HandlerReturns, Handling, eventVars, queueVars
  <2>4. AddFirst'
    BY <2>3 DEF WatchInv, AddFirst, OpsOn, OpsIn, Executing
  <2>5. \A e \in Events : timer'[e] => in_loop[e] /\ timeout[e] >= 0
    <3>1. \A e \in Events : timeout[e] \in Int
      BY DEF TypeOK, Timeouts
    <3> QED BY <2>1, <2>2, <3>1 DEF WatchInv, WatchedInLoop, TimerHasTimeout
  <2> QED BY <2>3, <2>4, <2>5 DEF WatchInv, ListedOnce, WatchedInLoop, TimerHasTimeout,
          DropHasEvent, Handling
<1>7. ASSUME DropOp \/ h6_ev_loop_run \/ RunReturns \/ QueueDrained
      PROVE  WatchInv'
  BY <1>7 DEF DropOp, h6_ev_loop_run, RunReturns, QueueDrained, eventVars, watchVars, queueVars,
     WatchInv, AddFirst, ListedOnce, WatchedInLoop, TimerHasTimeout, DropHasEvent,
     Handling, OpsOn, OpsIn, Executing
<1>8. CASE UNCHANGED vars
  BY <1>8, WatchFrame DEF vars, eventVars, watchVars, queueVars, loopVars
<1> QED
  BY <1>1, <1>2, <1>3, <1>4, <1>5, <1>6, <1>7, <1>8, WatchPop
     DEF Next, LoopStep, Return, h6_ev_loop_wakeup_cb, h6_ev_loop_exec_operations

-----------------------------------------------------------------------------
(* References *)

\* The operations of an event in a queue can be counted.
LEMMA OpsFinite ==
  ASSUME NEW q \in Seq(Ops), NEW e
  PROVE  IsFiniteSet(OpsIn(q, e)) /\ Cardinality(OpsIn(q, e)) \in Nat
<1>1. IsFiniteSet(1 .. Len(q))
  BY FS_Interval
<1>2. OpsIn(q, e) \in SUBSET (1 .. Len(q))
  BY DEF OpsIn
<1> QED BY <1>1, <1>2, FS_Subset, FS_CardinalityType

\* Appending an operation adds one to the count of its event, and to no other.
LEMMA OpsAppend ==
  ASSUME NEW q \in Seq(Ops), NEW op \in Ops, NEW e
  PROVE  Cardinality(OpsIn(Append(q, op), e))
           = Cardinality(OpsIn(q, e)) + (IF op.event = e THEN 1 ELSE 0)
<1> DEFINE n == Len(q)
<1>1. /\ n \in Nat
      /\ DOMAIN q = 1 .. n /\ DOMAIN Append(q, op) = 1 .. n + 1
      /\ \A i \in 1 .. n : Append(q, op)[i] = q[i]
      /\ Append(q, op)[n + 1] = op
  BY AppendFacts
<1>2. CASE op.event = e
  <2>1. OpsIn(Append(q, op), e) = OpsIn(q, e) \cup {n + 1} /\ n + 1 \notin OpsIn(q, e)
    BY <1>1, <1>2 DEF OpsIn
  <2>2. IsFiniteSet(OpsIn(q, e))
    BY OpsFinite
  <2>3. Cardinality(OpsIn(q, e) \cup {n + 1}) = Cardinality(OpsIn(q, e)) + 1
    BY <2>1, <2>2, FS_AddElement
  <2> QED BY <1>2, <2>1, <2>3
<1>3. CASE op.event # e
  <2>1. OpsIn(Append(q, op), e) = OpsIn(q, e)
    BY <1>1, <1>3 DEF OpsIn
  <2> QED BY <1>3, <2>1, OpsFinite
<1> QED BY <1>2, <1>3

\* Popping takes one from the count of the event of the first operation.
LEMMA OpsTail ==
  ASSUME NEW q \in Seq(Ops), q # <<>>, NEW e
  PROVE  Cardinality(OpsIn(Tail(q), e))
           = Cardinality(OpsIn(q, e)) - (IF Head(q).event = e THEN 1 ELSE 0)
<1> DEFINE n == Len(q)
           S == OpsIn(q, e) \ {1}
           T == OpsIn(Tail(q), e)
           f == [i \in S |-> i - 1]
<1>1. /\ n \in Nat \ {0}
      /\ DOMAIN q = 1 .. n /\ DOMAIN Tail(q) = 1 .. n - 1
      /\ Head(q) = q[1]
      /\ \A i \in 1 .. n - 1 : Tail(q)[i] = q[i + 1]
  BY TailFacts
<1>2. S \subseteq 2 .. n /\ T \subseteq 1 .. n - 1
  BY <1>1 DEF OpsIn
<1>3. \A i \in S : i - 1 \in T
  <2> SUFFICES ASSUME NEW i \in S PROVE i - 1 \in T
    OBVIOUS
  <2>1. i \in 1 .. n /\ i # 1 /\ q[i].event = e
    BY <1>1 DEF OpsIn
  <2>2. i - 1 \in 1 .. n - 1 /\ (i - 1) + 1 = i
    BY <2>1, <1>1
  <2> QED BY <2>1, <2>2, <1>1 DEF OpsIn
<1>4. \A i \in T : i + 1 \in S
  BY <1>1 DEF OpsIn
<1>5. f \in Bijection(S, T)
  <2>1. f \in [S -> T]
    BY <1>3
  <2>2. \A i, j \in S : f[i] = f[j] => i = j
    BY <1>2
  <2>3. \A j \in T : \E i \in S : f[i] = j
    <3> TAKE j \in T
    <3>1. j + 1 \in S /\ f[j + 1] = j
      BY <1>2, <1>4
    <3> QED BY <3>1
  <2> QED BY <2>1, <2>2, <2>3 DEF Bijection, Injection, Surjection, IsInjective
<1>6. ExistsBijection(S, T)
  BY <1>5 DEF ExistsBijection
<1>7. IsFiniteSet(OpsIn(q, e))
  BY OpsFinite
<1>8. IsFiniteSet(S) /\ Cardinality(S) = Cardinality(OpsIn(q, e)) - (IF 1 \in OpsIn(q, e) THEN 1 ELSE 0)
  <2>1. Cardinality(OpsIn(q, e)) \in Nat
    BY OpsFinite
  <2> QED BY <1>7, <2>1, FS_RemoveElement
<1>9. Cardinality(T) = Cardinality(S)
  BY <1>6, <1>8, FS_Bijection
<1>10. 1 \in OpsIn(q, e) <=> Head(q).event = e
  BY <1>1 DEF OpsIn
<1> QED BY <1>8, <1>9, <1>10

\* There are finitely many threads, the loop's included.
LEMMA ProcsFinite == IsFiniteSet(Procs)
<1>1. Procs = Threads \cup {LoopThread}
  BY DEF Procs
<1> QED BY <1>1, ThreadsAssumption, FS_AddElement

\* The threads that hold an event can be counted.
LEMMA HolderFinite ==
  ASSUME TypeOK, NEW e \in Events
  PROVE  IsFiniteSet(holder[e]) /\ Cardinality(holder[e]) \in Nat
<1>1. holder[e] \in SUBSET Procs
  BY DEF TypeOK
<1> QED BY <1>1, ProcsFinite, FS_Subset, FS_CardinalityType

\* The terms of RefConservation for one event, by name.
H(e) == Cardinality(holder[e])
O(e) == Cardinality(OpsOn(e))

\* The four kinds of owners are numbers, and one that exists is counted.
LEMMA Counts ==
  ASSUME TypeOK, NEW e \in Events
  PROVE  /\ H(e) \in Nat /\ O(e) \in Nat /\ ev_list[e] \in Nat /\ Executing(e) \in {0, 1}
         /\ H(e) = 0 <=> holder[e] = {}
         /\ OpsOn(e) # {} => O(e) > 0
<1>1. H(e) \in Nat /\ (H(e) = 0 <=> holder[e] = {})
  BY HolderFinite, FS_EmptySet DEF H
<1>2. operations \in Seq(Ops)
  BY DEF TypeOK
<1>3. O(e) \in Nat /\ (O(e) = 0 <=> OpsOn(e) = {})
  BY <1>2, OpsFinite, FS_EmptySet DEF O, OpsOn
<1>4. ev_list[e] \in Nat /\ Executing(e) \in {0, 1}
  BY DEF Executing, TypeOK
<1> QED BY <1>1, <1>3, <1>4

\* An event that a thread may use, or that is in the loop, or that a queued
\* operation names, is alive.
LEMMA UsedIsLive ==
  ASSUME TypeOK, WatchInv, RefConservation, LiveIffReferenced, NEW e \in Events,
         holder[e] # {} \/ (Handling /\ cur = e) \/ in_loop[e] \/ OpsOn(e) # {}
  PROVE  mem[e] = "live" /\ ref_count[e] \in Nat \ {0}
<1>1. ref_count[e] = H(e) + O(e) + ev_list[e] + Executing(e)
  BY DEF RefConservation, H, O
<1>2. H(e) > 0 \/ O(e) > 0 \/ ev_list[e] = 1
  <2>1. CASE holder[e] # {}
    BY <2>1, Counts
  <2>2. CASE in_loop[e] \/ (Handling /\ cur = e)
    BY <2>2 DEF WatchInv, ListedOnce
  <2>3. CASE OpsOn(e) # {}
    BY <2>3, Counts
  <2> QED BY <2>1, <2>2, <2>3
<1>3. H(e) \in Nat /\ O(e) \in Nat /\ ev_list[e] \in Nat /\ Executing(e) \in Nat
  BY Counts
<1>4. ref_count[e] \in Nat \ {0}
  BY <1>1, <1>2, <1>3
<1> QED BY <1>4 DEF LiveIffReferenced

\* RefInv without the calls in progress, event by event.
Balanced(e) ==
  /\ ref_count[e] = H(e) + O(e) + ev_list[e] + Executing(e)
  /\ mem[e] = "live" <=> ref_count[e] > 0
  /\ mem[e] = "unborn" => ~attached[e]

RefCore == \A e \in Events : Balanced(e)

\* RefCore says event by event what the three invariants say of all.
LEMMA RefCoreDef == RefCore <=> RefConservation /\ LiveIffReferenced /\ UnbornFresh
  BY DEF RefCore, Balanced, RefConservation, LiveIffReferenced, UnbornFresh, H, O

\* An event keeps its balance when nothing that counts its owners changes.
LEMMA BalancedFrame ==
  ASSUME NEW e \in Events, Balanced(e),
         mem'[e] = mem[e], ref_count'[e] = ref_count[e], holder'[e] = holder[e],
         ev_list'[e] = ev_list[e], attached'[e] = attached[e],
         O(e)' = O(e), Executing(e)' = Executing(e)
  PROVE  Balanced(e)'
  BY DEF Balanced, H

\* So do all events, when a step touches no owner and no counter.
LEMMA RefFrame ==
  ASSUME RefCore,
         UNCHANGED <<mem, ref_count, holder, attached, operations, ev_list>>,
         \A e \in Events : Executing(e)' = Executing(e)
  PROVE  RefCore'
<1> SUFFICES ASSUME NEW e \in Events PROVE Balanced(e)'
  BY DEF RefCore
<1>1. O(e)' = O(e)
  BY DEF O, OpsOn
<1> QED BY <1>1, BalancedFrame DEF RefCore

\* A push adds one queued operation to its event.
LEMMA PushCount ==
  ASSUME TypeOK, NEW op \in Ops, Push(op), NEW e
  PROVE  O(e)' = O(e) + (IF op.event = e THEN 1 ELSE 0)
<1>1. operations \in Seq(Ops) /\ operations' = Append(operations, op)
  BY DEF TypeOK, Push
<1> QED BY <1>1, OpsAppend DEF O, OpsOn

\* A pop takes one from the event it is for.
LEMMA PopCount ==
  ASSUME TypeOK, PopAndRun, NEW e
  PROVE  O(e)' = O(e) - (IF Head(operations).event = e THEN 1 ELSE 0)
<1>1. operations \in Seq(Ops) /\ operations # <<>> /\ operations' = Tail(operations)
  BY DEF TypeOK, PopAndRun
<1> QED BY <1>1, OpsTail DEF O, OpsOn

\* Pushing an operation on a live event, with the reference it owns.
LEMMA RefPush ==
  ASSUME TypeOK, RefCore, NEW f \in {"add", "remove", "modify"}, NEW e \in Events,
         PushRef(f, e), mem[e] = "live",
         UNCHANGED <<mem, holder, ev_list, loop_pc, cur>>,
         \A d \in Events : d # e => attached'[d] = attached[d]
  PROVE  RefCore'
<1>1. Op(f, e) \in Ops /\ Op(f, e).event = e /\ Push(Op(f, e))
  BY OpType DEF PushRef, Op
<1> SUFFICES ASSUME NEW d \in Events PROVE Balanced(d)'
  BY DEF RefCore
<1>2. Executing(d)' = Executing(d) /\ H(d)' = H(d)
  BY DEF Executing, H
<1>3. CASE d = e
  <2>1. O(d)' = O(d) + 1
    BY <1>1, <1>3, PushCount
  <2>2. ref_count'[d] = ref_count[d] + 1
    BY <1>3 DEF PushRef, TypeOK
  <2>3. ref_count[d] = H(d) + O(d) + ev_list[d] + Executing(d) /\ ref_count[d] > 0
    BY <1>3 DEF RefCore, Balanced
  <2>4. H(d) \in Nat /\ O(d) \in Nat /\ ev_list[d] \in Nat /\ Executing(d) \in Nat
    BY Counts
  <2> QED BY <1>2, <1>3, <2>1, <2>2, <2>3, <2>4 DEF Balanced
<1>4. CASE d # e
  <2>1. O(d)' = O(d)
    <3>1. O(d) \in Nat
      BY Counts
    <3> QED BY <1>1, <1>4, <3>1, PushCount
  <2>2. ref_count'[d] = ref_count[d]
    BY <1>4 DEF PushRef, TypeOK
  <2> QED BY <1>2, <1>4, <2>1, <2>2, BalancedFrame DEF RefCore
<1> QED BY <1>3, <1>4

\* One owner of e gives its reference back.
LEMMA RefDrop ==
  ASSUME TypeOK, RefCore, NEW e \in Events, Unref(e),
         UNCHANGED <<attached, operations, ev_list>>,
         \A d \in Events : d # e => holder'[d] = holder[d] /\ Executing(d)' = Executing(d),
         H(e)' + Executing(e)' = H(e) + Executing(e) - 1,
         H(e)' \in Nat, Executing(e)' \in Nat
  PROVE  RefCore'
<1> SUFFICES ASSUME NEW d \in Events PROVE Balanced(d)'
  BY DEF RefCore
<1>1. O(d)' = O(d)
  BY DEF O, OpsOn
<1>2. CASE d # e
  <2>1. ref_count'[d] = ref_count[d] /\ mem'[d] = mem[d]
    BY <1>2 DEF Unref, TypeOK
  <2> QED BY <1>1, <1>2, <2>1, BalancedFrame DEF RefCore
<1>3. CASE d = e
  <2>1. /\ ref_count'[d] = ref_count[d] - 1
        /\ mem'[d] = IF ref_count[d] = 1 THEN "freed" ELSE mem[d]
    BY <1>3 DEF Unref, TypeOK
  <2>2. H(d) \in Nat /\ O(d) \in Nat /\ ev_list[d] \in Nat /\ Executing(d) \in Nat
    BY Counts
  <2>3. ref_count[d] = H(d) + O(d) + ev_list[d] + Executing(d)
        /\ (mem[d] = "live" <=> ref_count[d] > 0)
    BY DEF RefCore, Balanced
  <2>4. ref_count'[d] = H(d)' + O(d)' + ev_list'[d] + Executing(d)'
    BY <1>1, <1>3, <2>1, <2>2, <2>3
  <2>5. ref_count[d] > 0 /\ mem[d] = "live"
    BY <1>3, <2>2, <2>3
  <2>6. mem'[d] = "live" <=> ref_count'[d] > 0
    BY <2>1, <2>2, <2>3, <2>5
  <2>7. mem'[d] # "unborn"
    BY <2>1, <2>5
  <2> QED BY <2>4, <2>6, <2>7 DEF Balanced
<1> QED BY <1>2, <1>3

\* Popping moves a reference from the queue to the executed operation, which may pass it to
\* ev_list.
LEMMA RefPop ==
  ASSUME TypeOK, WatchInv, RefCore, PopAndRun, loop_pc # "drop"
  PROVE  RefCore'
<1> DEFINE op == Head(operations)
           b(e) == IF op.event = e THEN 1 ELSE 0
<1>1. operations \in Seq(Ops) /\ operations # <<>>
  BY DEF TypeOK, PopAndRun
<1>2. op \in Ops /\ op = operations[1] /\ 1 \in DOMAIN operations
  BY <1>1, TailFacts
<1>3. /\ cur' = op.event /\ RunOp(op) /\ UNCHANGED <<holder, attached>>
      /\ loop_pc' = IF op.event = NoEvent THEN "exec" ELSE "drop"
  BY DEF PopAndRun
<1> SUFFICES ASSUME NEW e \in Events PROVE Balanced(e)'
  BY DEF RefCore
<1>4. O(e)' = O(e) - b(e) /\ Executing(e)' = b(e) /\ Executing(e) = 0 /\ H(e)' = H(e)
  BY <1>3, PopCount, NoEventAssumption DEF Executing, H
<1>5. H(e) \in Nat /\ O(e) \in Nat /\ ev_list[e] \in Nat
      /\ (op.event = e => O(e) > 0)
  BY <1>2, Counts DEF OpsOn, OpsIn
<1>6. /\ ref_count[e] = H(e) + O(e) + ev_list[e]
      /\ mem[e] = "live" <=> ref_count[e] > 0
      /\ mem[e] = "unborn" => ~attached[e]
  BY <1>4, <1>5 DEF RefCore, Balanced
<1>7. /\ ref_count'[e] - ev_list'[e] = ref_count[e] - ev_list[e]
      /\ ref_count'[e] \in Int /\ ev_list'[e] \in Nat
      /\ mem'[e] = IF ref_count'[e] = 0 /\ mem[e] = "live" THEN "freed" ELSE mem[e]
      /\ mem[e] # "live" => ref_count'[e] = ref_count[e]
  <2>1. CASE op.func = "add" /\ h6_ev_loop_ops_add(op.event)
    <3>1. op.event = e => ref_count[e] > 0
      BY <1>5, <1>6
    <3>2. op.event \in Events
      BY <2>1, <1>2, OpFields
    <3>3. ref_count'[e] = ref_count[e] + b(e) /\ ev_list'[e] = ev_list[e] + b(e) /\ mem' = mem
      BY <2>1, <3>2 DEF h6_ev_loop_ops_add, TypeOK
    <3> QED BY <3>1, <3>3, <1>5, <1>6
  <2>2. CASE op.func = "remove" /\ h6_ev_loop_ops_remove(op.event)
    <3>1. op.event \in Events
      BY <2>2, <1>2, OpFields
    <3>2. CASE ev_list[op.event] > 0
      <4>1. /\ ref_count'[e] = ref_count[e] - b(e) /\ ev_list'[e] = ev_list[e] - b(e)
            /\ mem'[e] = IF op.event = e /\ ref_count[e] = 1 THEN "freed" ELSE mem[e]
        BY <2>2, <3>1, <3>2 DEF h6_ev_loop_ops_remove, Unref, TypeOK
      <4>2. op.event = e => ref_count[e] > 1 /\ ev_list[e] > 0
        BY <3>2, <1>5, <1>6
      <4> QED BY <4>1, <4>2, <1>5, <1>6
    <3>3. CASE ~(ev_list[op.event] > 0)
      <4>1. ref_count' = ref_count /\ ev_list' = ev_list /\ mem' = mem
        BY <2>2, <3>3 DEF h6_ev_loop_ops_remove, watchVars
      <4> QED BY <4>1, <1>5, <1>6
    <3> QED BY <3>2, <3>3
  <2>3. CASE op.func = "modify" /\ h6_ev_loop_ops_modify(op.event)
    <3>1. ref_count' = ref_count /\ ev_list' = ev_list /\ mem' = mem
      BY <2>3 DEF h6_ev_loop_ops_modify
    <3> QED BY <3>1, <1>5, <1>6
  <2>4. CASE op.func = "quit" /\ h6_ev_loop_ops_quit
    <3>1. /\ ref_count'[e] = ref_count[e] - ev_list[e] /\ ev_list'[e] = 0
          /\ mem'[e] = IF ev_list[e] > 0 /\ ref_count[e] = ev_list[e] THEN "freed" ELSE mem[e]
      BY <2>4 DEF h6_ev_loop_ops_quit
    <3> QED BY <3>1, <1>5, <1>6
  <2> QED BY <1>3, <2>1, <2>2, <2>3, <2>4 DEF RunOp
<1>8. ref_count'[e] = H(e)' + O(e)' + ev_list'[e] + Executing(e)'
  BY <1>4, <1>5, <1>6, <1>7
<1>9. mem'[e] = "live" <=> ref_count'[e] > 0
  <2>1. ref_count'[e] \in Nat
    <3>1. H(e)' \in Nat /\ O(e)' + Executing(e)' = O(e) /\ ev_list'[e] \in Nat
      BY <1>4, <1>5, <1>7
    <3>2. ref_count'[e] = H(e) + O(e) + ev_list'[e]
      BY <1>4, <1>5, <1>6, <1>7
    <3> QED BY <3>2, <1>5, <1>7
  <2>2. CASE mem[e] = "live"
    BY <2>1, <2>2, <1>7
  <2>3. CASE mem[e] # "live"
    BY <2>3, <1>6, <1>7
  <2> QED BY <2>2, <2>3
<1>10. mem'[e] = "unborn" => ~attached'[e]
  BY <1>3, <1>6, <1>7
<1> QED BY <1>8, <1>9, <1>10 DEF Balanced

\* Who may call a function on an event finds it alive.
LEMMA MayUseLive ==
  ASSUME TypeOK, WatchInv, RefCore, NEW t \in Procs, NEW e \in Events, MayUse(t, e)
  PROVE  mem[e] = "live"
<1>1. holder[e] # {} \/ (Handling /\ cur = e)
  BY DEF MayUse, Free
<1> QED BY <1>1, UsedIsLive, RefCoreDef

\* A new event starts with the one reference of the thread that made it.
LEMMA RefNew ==
  ASSUME TypeOK, RefCore, NEW t \in Procs, NEW e \in Events, NEW b \in SUBSET Bits,
         h6_ev_new(t, e, b)
  PROVE  RefCore' /\ holder[e] = {}
<1>1. H(e) \in Nat /\ O(e) \in Nat /\ ev_list[e] \in Nat /\ Executing(e) \in Nat
      /\ (H(e) = 0 <=> holder[e] = {})
  BY Counts
<1>2. /\ ref_count[e] = H(e) + O(e) + ev_list[e] + Executing(e)
      /\ ~(ref_count[e] > 0) /\ ~attached[e]
  BY DEF h6_ev_new, RefCore, Balanced
<1>3. H(e) = 0 /\ O(e) = 0 /\ ev_list[e] = 0 /\ Executing(e) = 0
  BY <1>1, <1>2
<1>4. \A d \in Events : O(d)' = O(d) /\ Executing(d)' = Executing(d)
  BY DEF h6_ev_new, O, OpsOn, Executing, queueVars, loopVars
<1>5. ASSUME NEW d \in Events PROVE Balanced(d)'
  <2>1. CASE d = e
    <3>1. holder'[d] = {t} /\ ref_count'[d] = 1 /\ mem'[d] = "live"
          /\ ev_list' = ev_list
      BY <2>1 DEF h6_ev_new, TypeOK, watchVars
    <3>2. H(d)' = 1
      BY <3>1, FS_Singleton DEF H
    <3> QED BY <2>1, <3>1, <3>2, <1>3, <1>4 DEF Balanced
  <2>2. CASE d # e
    <3>1. holder'[d] = holder[d] /\ ref_count'[d] = ref_count[d] /\ mem'[d] = mem[d]
          /\ ev_list' = ev_list /\ attached' = attached
      BY <2>2 DEF h6_ev_new, TypeOK, watchVars
    <3> QED BY <3>1, <1>4, BalancedFrame DEF RefCore
  <2> QED BY <2>1, <2>2
<1> QED BY <1>1, <1>3, <1>5 DEF RefCore

\* h6_ev_ref adds a holder and a reference.
LEMMA RefRef ==
  ASSUME TypeOK, WatchInv, RefCore, NEW t \in Procs, NEW u \in Procs, NEW e \in Events,
         h6_ev_ref(t, u, e)
  PROVE  RefCore'
<1>1. mem[e] = "live"
  BY MayUseLive DEF h6_ev_ref
<1>2. \A d \in Events : O(d)' = O(d) /\ Executing(d)' = Executing(d)
  BY DEF h6_ev_ref, O, OpsOn, Executing, queueVars, loopVars
<1> SUFFICES ASSUME NEW d \in Events PROVE Balanced(d)'
  BY DEF RefCore
<1>3. CASE d = e
  <2>1. holder'[d] = holder[d] \cup {u} /\ ref_count'[d] = ref_count[d] + 1 /\ mem' = mem
        /\ u \notin holder[d] /\ ev_list' = ev_list
    BY <1>3 DEF h6_ev_ref, TypeOK, watchVars
  <2>2. H(d)' = H(d) + 1
    <3>1. IsFiniteSet(holder[d])
      BY HolderFinite
    <3>2. Cardinality(holder[d] \cup {u}) = Cardinality(holder[d]) + 1
      BY <2>1, <3>1, FS_AddElement, Zenon
    <3> QED BY <2>1, <3>2 DEF H
  <2>3. H(d) \in Nat /\ O(d) \in Nat /\ ev_list[d] \in Nat /\ Executing(d) \in Nat
    BY Counts
  <2>4. ref_count[d] = H(d) + O(d) + ev_list[d] + Executing(d) /\ ref_count[d] > 0
    BY <1>1, <1>3 DEF RefCore, Balanced
  <2> QED BY <1>1, <1>2, <1>3, <2>1, <2>2, <2>3, <2>4 DEF Balanced
<1>4. CASE d # e
  <2>1. holder'[d] = holder[d] /\ ref_count'[d] = ref_count[d] /\ mem' = mem
        /\ ev_list' = ev_list /\ attached' = attached
    BY <1>4 DEF h6_ev_ref, TypeOK, watchVars
  <2> QED BY <2>1, <1>2, BalancedFrame DEF RefCore
<1> QED BY <1>3, <1>4

\* h6_ev_unref takes both away, and frees the event with the last of them.
LEMMA RefUnref ==
  ASSUME TypeOK, RefCore, NEW t \in Procs, NEW e \in Events, h6_ev_unref(t, e)
  PROVE  RefCore'
<1>1. \A d \in Events : Executing(d)' = Executing(d)
  BY DEF h6_ev_unref, Executing, loopVars
<1>2. holder'[e] = holder[e] \ {t} /\ t \in holder[e]
      /\ \A d \in Events : d # e => holder'[d] = holder[d]
  BY DEF h6_ev_unref, TypeOK
<1>3. H(e) \in Nat /\ H(e) # 0 /\ Executing(e) \in Nat
  BY <1>2, Counts
<1>4. H(e)' = H(e) - 1
  BY <1>2, HolderFinite, FS_RemoveElement DEF H
<1> QED BY <1>1, <1>2, <1>3, <1>4, RefDrop DEF h6_ev_unref, watchVars, queueVars

\* The unref after an executed operation gives up the reference of that operation.
LEMMA RefDropOp ==
  ASSUME TypeOK, WatchInv, RefCore, DropOp
  PROVE  RefCore'
<1>1. cur \in Events /\ loop_pc = "drop" /\ loop_pc' = "exec"
  BY DEF DropOp, WatchInv, DropHasEvent
<1>2. Executing(cur) = 1 /\ \A d \in Events : d # cur => Executing(d) = 0
  BY <1>1 DEF Executing
<1>3. \A d \in Events : Executing(d)' = 0
  BY <1>1 DEF Executing
<1> DEFINE e == cur
<1>4. H(e) \in Nat /\ H(e)' = H(e)
  BY <1>1, Counts DEF DropOp, H
<1>5. Unref(e) /\ UNCHANGED <<attached, operations, ev_list, holder, cur>>
  BY DEF DropOp, watchVars, queueVars
<1>6. H(e)' + Executing(e)' = H(e) + Executing(e) - 1
  BY <1>1, <1>2, <1>3, <1>4, <1>5
<1> HIDE DEF e
<1>7. e \in Events
  BY <1>1 DEF e
<1> QED BY <1>2, <1>3, <1>4, <1>5, <1>6, <1>7, RefDrop DEF e

\* No step makes a counter differ from the number of owners.
LEMMA RefStep ==
  ASSUME TypeOK, WatchInv, RefCore, CallerKeepsEvent, [Next]_vars
  PROVE  RefCore'
<1>1. ASSUME NEW t \in Procs, NEW e \in Events, ApiStep(t, e)
      PROVE  RefCore'
  <2>1. CASE h6_ev_loop_attach(t, e)
    <3>1. mem[e] = "live"
      BY <2>1, MayUseLive DEF h6_ev_loop_attach
    <3>2. \A d \in Events : d # e => attached'[d] = attached[d]
      BY <2>1 DEF h6_ev_loop_attach, TypeOK
    <3> QED BY <2>1, <3>1, <3>2, RefPush DEF h6_ev_loop_attach, watchVars, loopVars
  <2>2. CASE h6_ev_loop_remove(t, e)
    <3>1. mem[e] = "live"
      BY <2>2, MayUseLive DEF h6_ev_loop_remove
    <3> QED BY <2>2, <3>1, RefPush DEF h6_ev_loop_remove, watchVars, loopVars
  <2>3. ASSUME \/ \E to \in Timeouts : h6_ev_set_timeout(t, e, to)
               \/ \E b \in SUBSET Bits : h6_ev_add_events(t, e, b) \/ h6_ev_remove_events(t, e, b)
        PROVE  RefCore'
    BY <2>3, RefFrame DEF h6_ev_set_timeout, h6_ev_add_events, h6_ev_remove_events, Begin,
       Executing, eventVars, watchVars, queueVars, loopVars
  <2> QED BY <1>1, <2>1, <2>2, <2>3, RefNew, RefRef, RefUnref DEF ApiStep
<1>2. ASSUME NEW t \in Procs, h6_ev_loop_quit(t)
      PROVE  RefCore'
  <2>1. QuitOp \in Ops /\ \A d \in Events : QuitOp.event # d
    BY NoEventAssumption DEF Ops, QuitOp, Op
  <2>2. ASSUME NEW d \in Events PROVE Balanced(d)'
    <3>1. O(d) \in Nat
      BY Counts
    <3>2. O(d)' = O(d)
      BY <1>2, <2>1, <3>1, PushCount DEF h6_ev_loop_quit
    <3> QED BY <1>2, <3>2, BalancedFrame
            DEF RefCore, h6_ev_loop_quit, eventVars, watchVars, loopVars, Executing
  <2> QED BY <2>2 DEF RefCore
<1>3. ASSUME NEW t \in Procs, CallStep(t)
      PROVE  RefCore'
  <2>1. CASE StoreEvents(t) \/ SyncIoModified(t)
    BY <2>1, RefFrame DEF StoreEvents, SyncIoModified, Executing,
       eventVars, watchVars, queueVars, loopVars
  <2>2. CASE h6_ev_loop_modify_event(t)
    <3> DEFINE e == call[t].event
    <3>1. e \in Events /\ call[t] # NoCall
      BY <2>2 DEF h6_ev_loop_modify_event, TypeOK, Calls, NoCall
    <3>2. holder[e] # {} \/ (Handling /\ cur = e)
      BY <3>1 DEF CallerKeepsEvent
    <3>3. mem[e] = "live"
      BY <3>1, <3>2, UsedIsLive, RefCoreDef
    <3>4. CASE attached[e] /\ ~loop_quited
      <4>1. PushRef("modify", e)
        BY <2>2, <3>4 DEF h6_ev_loop_modify_event
      <4>2. UNCHANGED <<mem, holder, attached, ev_list, loop_pc, cur>>
        BY <2>2 DEF h6_ev_loop_modify_event, watchVars, loopVars
      <4> HIDE DEF e
      <4> QED BY <3>1, <3>3, <4>1, <4>2, RefPush
    <3>5. CASE ~(attached[e] /\ ~loop_quited)
      BY <2>2, <3>5, RefFrame DEF h6_ev_loop_modify_event, Executing, watchVars, loopVars
    <3> QED BY <3>4, <3>5
  <2> QED BY <1>3, <2>1, <2>2 DEF CallStep
<1>4. ASSUME NEW e \in Events, SyncStep(e) \/ Dispatch(e)
      PROVE  RefCore'
  BY <1>4, RefFrame DEF SyncStep, h6_ev_add_events_sync, h6_ev_remove_events_sync, Begin,
     h6_ev_mod_timer_sync, Dispatch, h6_ev_cb_io, h6_ev_cb_timeout, Executing,
     eventVars, watchVars, queueVars, loopVars
<1>5. ASSUME Return \/ h6_ev_loop_run \/ RunReturns \/ UNCHANGED vars
      PROVE  RefCore'
  BY <1>5, RefFrame DEF Return, HandlerReturns, Handling, h6_ev_loop_run, RunReturns, vars,
     Executing, eventVars, watchVars, queueVars, loopVars
<1>6. CASE h6_ev_loop_wakeup_cb \/ h6_ev_loop_exec_operations
  <2>1. loop_pc # "drop"
    BY <1>6 DEF h6_ev_loop_wakeup_cb, h6_ev_loop_exec_operations
  <2>2. CASE PopAndRun
    BY <2>1, <2>2, RefPop
  <2>3. CASE QueueDrained
    BY <2>1, <2>3, RefFrame DEF QueueDrained, Executing, eventVars, watchVars
  <2> QED BY <1>6, <2>2, <2>3 DEF h6_ev_loop_wakeup_cb, h6_ev_loop_exec_operations
<1> QED BY <1>1, <1>2, <1>3, <1>4, <1>5, <1>6, RefDropOp DEF Next, LoopStep

\* The calls in progress keep their events, whoever moves.
LEMMA CallerFrame ==
  ASSUME CallerKeepsEvent, UNCHANGED <<call, loop_pc, cur>>,
         \A e \in Events : holder[e] \subseteq holder'[e],
         \A t \in Procs : call[t] # NoCall => call[t].event \in Events
  PROVE  CallerKeepsEvent'
  BY DEF CallerKeepsEvent, Handling

\* A call that begins has an event that its thread may use.
LEMMA CallerBegin ==
  ASSUME TypeOK, CallerKeepsEvent, NEW t \in Procs, NEW e \in Events, NEW b, NEW s,
         MayUse(t, e), Begin(t, e, b, s)
  PROVE  CallerKeepsEvent'
<1>1. t \in holder[e] \/ (t = LoopThread /\ Handling /\ cur = e)
  BY DEF MayUse, Free
<1>2. call'[t].event = e /\ \A u \in Procs : u # t => call'[u] = call[u]
  BY DEF Begin, TypeOK
<1> QED BY <1>1, <1>2 DEF CallerKeepsEvent, Begin, Handling, eventVars, loopVars

\* A call that ends, or goes on to its next step, for the same event.
LEMMA CallerGoesOn ==
  ASSUME CallerKeepsEvent, NEW t \in Procs, call[t] # NoCall,
         call'[t] = NoCall \/ call'[t].event = call[t].event,
         \A u \in Procs : u # t => call'[u] = call[u],
         UNCHANGED <<holder, loop_pc, cur>>
  PROVE  CallerKeepsEvent'
  BY DEF CallerKeepsEvent, Handling

\* The loop thread moves, but not from within a call of its callback.
LEMMA CallerLoopMoves ==
  ASSUME CallerKeepsEvent, UNCHANGED <<call, holder>>,
         Handling => call[LoopThread] = NoCall
  PROVE  CallerKeepsEvent'
  BY DEF CallerKeepsEvent

\* A thread in the middle of a call keeps the event of that call alive.
LEMMA CallerStep ==
  ASSUME TypeOK, RefCore, CallerKeepsEvent, [Next]_vars
  PROVE  CallerKeepsEvent'
<1>0. \A t \in Procs : call[t] # NoCall => call[t].event \in Events
  BY DEF TypeOK, Calls
<1>1. ASSUME NEW t \in Procs, NEW e \in Events, ApiStep(t, e)
      PROVE  CallerKeepsEvent'
  <2>1. ASSUME NEW b \in SUBSET Bits, h6_ev_new(t, e, b) PROVE CallerKeepsEvent'
    <3>1. holder[e] = {}
      BY <2>1, RefNew
    <3>2. \A d \in Events : holder[d] \subseteq holder'[d]
      BY <2>1, <3>1 DEF h6_ev_new, TypeOK
    <3> QED BY <2>1, <3>2, <1>0, CallerFrame DEF h6_ev_new, loopVars
  <2>2. ASSUME NEW u \in Procs, h6_ev_ref(t, u, e) PROVE CallerKeepsEvent'
    <3>1. \A d \in Events : holder[d] \subseteq holder'[d]
      BY <2>2 DEF h6_ev_ref, TypeOK
    <3> QED BY <2>2, <3>1, <1>0, CallerFrame DEF h6_ev_ref, loopVars
  <2>3. CASE h6_ev_unref(t, e)
    <3>1. \A d \in Events : holder[d] \ {t} \subseteq holder'[d]
      BY <2>3 DEF h6_ev_unref, TypeOK
    <3>2. call' = call /\ call[t] = NoCall /\ loop_pc' = loop_pc /\ cur' = cur
      BY <2>3 DEF h6_ev_unref, Free, loopVars
    <3> QED BY <3>1, <3>2, <1>0 DEF CallerKeepsEvent, Handling
  <2>4. ASSUME \/ \E to \in Timeouts : h6_ev_set_timeout(t, e, to)
               \/ h6_ev_loop_attach(t, e) \/ h6_ev_loop_remove(t, e)
        PROVE  CallerKeepsEvent'
    BY <2>4, <1>0, CallerFrame DEF h6_ev_set_timeout, h6_ev_loop_attach, h6_ev_loop_remove, loopVars
  <2>5. ASSUME NEW b \in SUBSET Bits, h6_ev_add_events(t, e, b) \/ h6_ev_remove_events(t, e, b)
        PROVE  CallerKeepsEvent'
    BY <2>5, CallerBegin DEF h6_ev_add_events, h6_ev_remove_events
  <2> QED BY <1>1, <2>1, <2>2, <2>3, <2>4, <2>5 DEF ApiStep
<1>2. ASSUME NEW t \in Procs, h6_ev_loop_quit(t)
      PROVE  CallerKeepsEvent'
  BY <1>0, <1>2, CallerFrame DEF h6_ev_loop_quit, eventVars, loopVars
<1>3. ASSUME NEW t \in Procs, CallStep(t)
      PROVE  CallerKeepsEvent'
  <2>1. call[t] # NoCall
    BY <1>3 DEF CallStep, StoreEvents, h6_ev_loop_modify_event, SyncIoModified, NoCall
  <2>2. call[t] \in [at : {"store", "push", "apply"}, event : Events,
                     value : SUBSET Bits, sync : BOOLEAN]
    BY <2>1 DEF TypeOK, Calls
  <2>3. call'[t] = NoCall \/ call'[t].event = call[t].event
    BY <1>3, <2>2 DEF CallStep, StoreEvents, h6_ev_loop_modify_event, SyncIoModified, TypeOK
  <2>4. \A u \in Procs : u # t => call'[u] = call[u]
    BY <1>3 DEF CallStep, StoreEvents, h6_ev_loop_modify_event, SyncIoModified, TypeOK
  <2>5. UNCHANGED <<holder, loop_pc, cur>>
    BY <1>3 DEF CallStep, StoreEvents, h6_ev_loop_modify_event, SyncIoModified, eventVars, loopVars
  <2> QED BY <2>1, <2>3, <2>4, <2>5, CallerGoesOn
<1>4. ASSUME NEW e \in Events, SyncStep(e)
      PROVE  CallerKeepsEvent'
  <2>1. CASE h6_ev_mod_timer_sync(e)
    BY <2>1, <1>0, CallerFrame DEF h6_ev_mod_timer_sync, loopVars
  <2>2. ASSUME NEW b \in SUBSET Bits,
               h6_ev_add_events_sync(e, b) \/ h6_ev_remove_events_sync(e, b)
        PROVE  CallerKeepsEvent'
    <3>1. LoopThread \in Procs /\ MayUse(LoopThread, e)
      BY <2>2 DEF Procs, MayUse, Free, h6_ev_add_events_sync, h6_ev_remove_events_sync
    <3> QED BY <2>2, <3>1, CallerBegin DEF h6_ev_add_events_sync, h6_ev_remove_events_sync
  <2> QED BY <1>4, <2>1, <2>2 DEF SyncStep
<1>5. ASSUME \/ \E e \in Events : Dispatch(e)
             \/ Return \/ LoopStep \/ h6_ev_loop_wakeup_cb
      PROVE  CallerKeepsEvent'
  BY <1>5, CallerLoopMoves
     DEF Dispatch, h6_ev_cb_io, h6_ev_cb_timeout, Return, HandlerReturns, Handling, LoopStep,
         h6_ev_loop_run, DropOp, RunReturns, h6_ev_loop_exec_operations, h6_ev_loop_wakeup_cb,
         PopAndRun, QueueDrained, eventVars
<1>6. CASE UNCHANGED vars
  BY <1>6, <1>0, CallerFrame DEF vars, eventVars, loopVars
<1> QED BY <1>1, <1>2, <1>3, <1>4, <1>5, <1>6 DEF Next

-----------------------------------------------------------------------------
(* The watched bits follow the bits asked for *)

OpQueued(op) == \E i \in DOMAIN operations : operations[i] = op

\* A modification is pending while it is queued, or its caller is yet to push or apply it.
LEMMA ModifyPendingDef ==
  ASSUME NEW e
  PROVE  ModifyPending(e) <=>
           \/ OpQueued(Op("modify", e))
           \/ \E t \in Procs : call[t].event = e /\ call[t].at \in {"push", "apply"}
  BY DEF ModifyPending, OpQueued

\* Watcher and interest stay in step when neither changes and no pending modification is lost.
LEMMA IoFrame ==
  ASSUME IoInSync, UNCHANGED <<in_loop, io, events, loop_quited>>,
         \A e \in Events : in_loop[e] /\ ModifyPending(e) => ModifyPending(e)'
  PROVE  IoInSync'
  BY DEF IoInSync

\* A push makes its operation queued and leaves the others so.
LEMMA QueueGrows ==
  ASSUME TypeOK, NEW op \in Ops, Push(op)
  PROVE  OpQueued(op)' /\ \A o : OpQueued(o) => OpQueued(o)'
<1>1. operations \in Seq(Ops) /\ operations' = Append(operations, op)
  BY DEF TypeOK, Push
<1>2. /\ Len(operations) \in Nat
      /\ DOMAIN operations = 1 .. Len(operations) /\ DOMAIN operations' = 1 .. Len(operations) + 1
      /\ \A i \in 1 .. Len(operations) : operations'[i] = operations[i]
      /\ operations'[Len(operations) + 1] = op
  BY <1>1, AppendFacts
<1> QED BY <1>2 DEF OpQueued

\* A pop leaves every operation queued but the first.
LEMMA QueueShrinks ==
  ASSUME TypeOK, PopAndRun, NEW o, OpQueued(o), o # Head(operations)
  PROVE  OpQueued(o)'
<1>1. operations \in Seq(Ops) /\ operations # <<>> /\ operations' = Tail(operations)
  BY DEF TypeOK, PopAndRun
<1>2. /\ Len(operations) \in Nat \ {0}
      /\ DOMAIN operations = 1 .. Len(operations)
      /\ Head(operations) = operations[1]
      /\ DOMAIN operations' = 1 .. Len(operations) - 1
      /\ \A i \in 1 .. Len(operations) - 1 : operations'[i] = operations[i + 1]
  BY <1>1, TailFacts
<1>3. PICK i \in 1 .. Len(operations) : operations[i] = o
  BY <1>2 DEF OpQueued
<1>4. i # 1
  BY <1>2, <1>3
<1>5. i - 1 \in 1 .. Len(operations) - 1 /\ (i - 1) + 1 = i
  BY <1>2, <1>4
<1>6. i - 1 \in DOMAIN operations' /\ operations'[i - 1] = o
  BY <1>2, <1>3, <1>5
<1> QED BY <1>6 DEF OpQueued

\* Executing a modification brings the watcher up to the interest that was stored before the
\* push.
LEMMA IoPop ==
  ASSUME TypeOK, IoInSync, PopAndRun
  PROVE  IoInSync'
<1> DEFINE op == Head(operations)
<1>1. op \in Ops
  BY TailFacts DEF TypeOK, PopAndRun
<1>2. RunOp(op) /\ UNCHANGED <<events, loop_quited, call>>
  BY DEF PopAndRun
<1> SUFFICES ASSUME NEW e \in Events, in_loop'[e]
             PROVE  io'[e] = events[e] \/ ModifyPending(e)' \/ loop_quited
  BY <1>2 DEF IoInSync
<1>3. CASE op = Op("modify", e)
  BY <1>2, <1>3 DEF RunOp, Op, h6_ev_loop_ops_modify, h6_ev_loop_sync_io_modified, TypeOK
<1>4. CASE op = Op("add", e)
  BY <1>2, <1>4 DEF RunOp, Op, h6_ev_loop_ops_add, TypeOK
<1>5. CASE op # Op("modify", e) /\ op # Op("add", e)
  <2>1. in_loop[e] /\ io'[e] = io[e]
    <3>1. CASE op.func = "add" /\ h6_ev_loop_ops_add(op.event)
      <4>1. op.event \in Events /\ op.event # e
        BY <1>1, <1>5, <3>1, OpFields
      <4> QED BY <3>1, <4>1 DEF h6_ev_loop_ops_add, TypeOK
    <3>2. CASE op.func = "remove" /\ h6_ev_loop_ops_remove(op.event)
      BY <3>2 DEF h6_ev_loop_ops_remove, SyncRemove, watchVars
    <3>3. CASE op.func = "modify" /\ h6_ev_loop_ops_modify(op.event)
      <4>1. op.event \in Events /\ op.event # e
        BY <1>1, <1>5, <3>3, OpFields
      <4> QED BY <3>3, <4>1 DEF h6_ev_loop_ops_modify, h6_ev_loop_sync_io_modified, TypeOK
    <3>4. CASE op.func = "quit" /\ h6_ev_loop_ops_quit
      BY <3>4 DEF h6_ev_loop_ops_quit, SyncRemove
    <3> QED BY <1>2, <3>1, <3>2, <3>3, <3>4 DEF RunOp
  <2>2. ModifyPending(e) => ModifyPending(e)'
    BY <1>2, <1>5, QueueShrinks, ModifyPendingDef DEF ModifyPending, OpQueued
  <2> QED BY <2>1, <2>2 DEF IoInSync
<1> QED BY <1>3, <1>4, <1>5

\* A step that pushes to the queue or leaves it, and no call ends.
LEMMA IoPush ==
  ASSUME TypeOK, IoInSync, UNCHANGED <<in_loop, io, events, loop_quited, call>>,
         UNCHANGED operations \/ \E op \in Ops : Push(op)
  PROVE  IoInSync'
<1>1. \A o : OpQueued(o) => OpQueued(o)'
  BY QueueGrows DEF OpQueued
<1> QED BY <1>1, IoFrame, ModifyPendingDef DEF ModifyPending, OpQueued

\* A call that begins has only read the interest; nothing that is pending is lost.
LEMMA IoBegin ==
  ASSUME TypeOK, IoInSync, NEW t \in Procs, NEW e, NEW b, NEW s,
         call[t] = NoCall, Begin(t, e, b, s)
  PROVE  IoInSync'
<1>1. \A u \in Procs : u # t => call'[u] = call[u]
  BY DEF Begin, TypeOK
<1>2. ASSUME NEW d, ModifyPending(d) PROVE ModifyPending(d)'
  BY <1>1, <1>2 DEF ModifyPending, Begin, NoCall, queueVars
<1> QED BY <1>2, IoFrame DEF Begin, watchVars, queueVars

\* A call that stores a new interest is itself the pending modification, until it has passed it
\* on to the queue or to the watcher.
LEMMA IoCall ==
  ASSUME TypeOK, WatchInv, IoInSync, NEW t \in Procs, CallStep(t)
  PROVE  IoInSync'
<1>1. /\ call[t].event \in Events
      /\ call[t] \in [at : {"store", "push", "apply"}, event : Events,
                      value : SUBSET Bits, sync : BOOLEAN]
  BY DEF CallStep, StoreEvents, h6_ev_loop_modify_event, SyncIoModified, TypeOK, Calls, NoCall
<1> PICK e \in Events : e = call[t].event
  BY <1>1
<1>2. \A u \in Procs : u # t => call'[u] = call[u]
  BY DEF CallStep, StoreEvents, h6_ev_loop_modify_event, SyncIoModified, TypeOK
<1>3. ASSUME NEW d, d # e, ModifyPending(d), \A o : OpQueued(o) => OpQueued(o)'
      PROVE  ModifyPending(d)'
  <2>1. CASE OpQueued(Op("modify", d))
    <3>1. OpQueued(Op("modify", d))'
      BY <1>3, <2>1
    <3> QED BY <3>1 DEF ModifyPending, OpQueued
  <2>2. ASSUME NEW u \in Procs, call[u].event = d, call[u].at \in {"push", "apply"}
        PROVE  ModifyPending(d)'
    BY <1>2, <1>3, <2>2 DEF ModifyPending
  <2> QED BY <1>3, <2>1, <2>2, ModifyPendingDef
<1> SUFFICES ASSUME NEW d \in Events, in_loop'[d]
             PROVE  io'[d] = events'[d] \/ ModifyPending(d)' \/ loop_quited'
  BY DEF IoInSync
<1>4. CASE StoreEvents(t)
  <2>1. call'[t].event = e /\ call'[t].at \in {"push", "apply"}
    BY <1>1, <1>4 DEF StoreEvents, TypeOK
  <2>2. UNCHANGED <<in_loop, io, operations, loop_quited>>
        /\ (d # e => events'[d] = events[d])
    BY <1>4 DEF StoreEvents, watchVars, queueVars, TypeOK
  <2>3. \A o : OpQueued(o) => OpQueued(o)'
    BY <2>2 DEF OpQueued
  <2>4. CASE d = e
    BY <2>1, <2>4 DEF ModifyPending
  <2>5. CASE d # e
    BY <2>2, <2>3, <2>5, <1>3 DEF IoInSync
  <2> QED BY <2>4, <2>5
<1>5. CASE h6_ev_loop_modify_event(t)
  <2>1. UNCHANGED <<in_loop, io, events, loop_quited>>
    BY <1>5 DEF h6_ev_loop_modify_event, watchVars
  <2>2. CASE attached[e] /\ ~loop_quited
    <3>1. Op("modify", e) \in Ops /\ Push(Op("modify", e))
      BY <1>1, <1>5, <2>2, OpType DEF h6_ev_loop_modify_event, PushRef
    <3>2. OpQueued(Op("modify", e))' /\ \A o : OpQueued(o) => OpQueued(o)'
      BY <3>1, QueueGrows
    <3>3. CASE d = e
      BY <3>2, <3>3 DEF ModifyPending, OpQueued
    <3>4. CASE d # e
      BY <2>1, <3>2, <3>4, <1>3 DEF IoInSync
    <3> QED BY <3>3, <3>4
  <2>3. CASE ~(attached[e] /\ ~loop_quited)
    <3>1. operations' = operations
      BY <1>5, <2>3 DEF h6_ev_loop_modify_event
    <3>2. \A o : OpQueued(o) => OpQueued(o)'
      BY <3>1 DEF OpQueued
    <3>3. CASE d = e
      BY <1>1, <2>1, <2>3, <3>3 DEF WatchInv, AddFirst
    <3>4. CASE d # e
      BY <2>1, <3>2, <3>4, <1>3 DEF IoInSync
    <3> QED BY <3>3, <3>4
  <2> QED BY <2>2, <2>3
<1>6. CASE SyncIoModified(t)
  <2>1. UNCHANGED <<in_loop, events, operations, loop_quited>>
    BY <1>6 DEF SyncIoModified, queueVars
  <2>2. \A o : OpQueued(o) => OpQueued(o)'
    BY <2>1 DEF OpQueued
  <2>3. CASE d = e
    BY <1>1, <1>6, <2>1, <2>3 DEF SyncIoModified, h6_ev_loop_sync_io_modified, TypeOK
  <2>4. CASE d # e
    <3>1. io'[d] = io[d]
      BY <1>6, <2>4 DEF SyncIoModified, h6_ev_loop_sync_io_modified, TypeOK
    <3> QED BY <2>1, <2>2, <2>4, <3>1, <1>3 DEF IoInSync
  <2> QED BY <2>3, <2>4
<1> QED BY <1>4, <1>5, <1>6 DEF CallStep

\* No step lets the watcher differ from the interest with nothing pending.
LEMMA IoStep ==
  ASSUME TypeOK, WatchInv, RefCore, IoInSync, [Next]_vars
  PROVE  IoInSync'
<1>1. ASSUME NEW t \in Procs, NEW e \in Events, ApiStep(t, e)
      PROVE  IoInSync'
  <2>1. ASSUME NEW b \in SUBSET Bits, h6_ev_new(t, e, b) PROVE IoInSync'
    <3>1. ~in_loop[e]
      BY <2>1, UsedIsLive, RefCoreDef DEF h6_ev_new
    <3>2. \A d \in Events : d # e => events'[d] = events[d]
      BY <2>1 DEF h6_ev_new, TypeOK
    <3>3. UNCHANGED <<in_loop, io, operations, loop_quited, call>>
      BY <2>1 DEF h6_ev_new, watchVars, queueVars
    <3> QED BY <3>1, <3>2, <3>3 DEF IoInSync, ModifyPending
  <2>2. ASSUME \/ \E u \in Procs : h6_ev_ref(t, u, e)
               \/ h6_ev_unref(t, e)
               \/ \E to \in Timeouts : h6_ev_set_timeout(t, e, to)
        PROVE  IoInSync'
    BY <2>2, IoPush DEF h6_ev_ref, h6_ev_unref, h6_ev_set_timeout, watchVars, queueVars
  <2>3. CASE h6_ev_loop_attach(t, e) \/ h6_ev_loop_remove(t, e)
    <3>1. \E op \in Ops : Push(op)
      BY <2>3, OpType DEF h6_ev_loop_attach, h6_ev_loop_remove, PushRef
    <3> QED BY <2>3, <3>1, IoPush DEF h6_ev_loop_attach, h6_ev_loop_remove, watchVars
  <2>4. ASSUME NEW b \in SUBSET Bits, h6_ev_add_events(t, e, b) \/ h6_ev_remove_events(t, e, b)
        PROVE  IoInSync'
    BY <2>4, IoBegin DEF h6_ev_add_events, h6_ev_remove_events, MayUse, Free
  <2> QED BY <1>1, <2>1, <2>2, <2>3, <2>4 DEF ApiStep
<1>2. ASSUME NEW t \in Procs, h6_ev_loop_quit(t)
      PROVE  IoInSync'
  BY <1>2 DEF h6_ev_loop_quit, IoInSync
<1>3. ASSUME NEW e \in Events, SyncStep(e)
      PROVE  IoInSync'
  <2>1. CASE h6_ev_mod_timer_sync(e)
    BY <2>1, IoPush DEF h6_ev_mod_timer_sync, queueVars
  <2>2. ASSUME NEW b \in SUBSET Bits,
               h6_ev_add_events_sync(e, b) \/ h6_ev_remove_events_sync(e, b)
        PROVE  IoInSync'
    BY <2>2, IoBegin DEF h6_ev_add_events_sync, h6_ev_remove_events_sync, Procs
  <2> QED BY <1>3, <2>1, <2>2 DEF SyncStep
<1>4. ASSUME \/ \E e \in Events : Dispatch(e)
             \/ Return \/ h6_ev_loop_run \/ RunReturns \/ DropOp \/ QueueDrained
             \/ UNCHANGED vars
      PROVE  IoInSync'
  BY <1>4, IoPush DEF Dispatch, h6_ev_cb_io, h6_ev_cb_timeout, Return, HandlerReturns,
     h6_ev_loop_run, RunReturns, DropOp, QueueDrained, vars, eventVars, watchVars, queueVars
<1> QED
  BY <1>1, <1>2, <1>3, <1>4, IoCall, IoPop
     DEF Next, LoopStep, h6_ev_loop_wakeup_cb, h6_ev_loop_exec_operations

-----------------------------------------------------------------------------
(* The inductive invariant and what follows from it *)

\* The first state satisfies the inductive invariant.
LEMMA InitIInv == Init => IInv
<1> SUFFICES ASSUME Init PROVE IInv
  OBVIOUS
<1>1. TypeOK
  BY InitType
<1>2. WakeupInv /\ QuitIsLast
  BY DEF Init, WakeupInv, PipeMatchesPending, NoLostWakeup, QuitIsLast
<1>3. \A e \in Events : OpsOn(e) = {} /\ Executing(e) = 0
  BY DEF Init, OpsOn, OpsIn, Executing
<1>4. WatchInv
  BY <1>3 DEF Init, WatchInv, AddFirst, ListedOnce, WatchedInLoop, TimerHasTimeout, DropHasEvent,
     Handling
<1>5. RefConservation
  <2> SUFFICES ASSUME NEW e \in Events
               PROVE  ref_count[e] = Cardinality(holder[e]) + Cardinality(OpsOn(e))
                                     + ev_list[e] + Executing(e)
    BY DEF RefConservation
  <2>1. ref_count[e] = 0 /\ holder[e] = {} /\ ev_list[e] = 0
    BY DEF Init
  <2>2. Cardinality(holder[e]) = 0 /\ Cardinality(OpsOn(e)) = 0
    BY <1>3, <2>1, FS_EmptySet
  <2> QED BY <1>3, <2>1, <2>2
<1>6. RefInv
  <2>1. LiveIffReferenced /\ UnbornFresh
    BY DEF Init, LiveIffReferenced, UnbornFresh
  <2>2. CallerKeepsEvent
    BY DEF Init, CallerKeepsEvent
  <2> QED BY <1>5, <2>1, <2>2 DEF RefInv
<1>7. IoInSync
  BY DEF Init, IoInSync
<1> QED BY <1>1, <1>2, <1>4, <1>6, <1>7 DEF IInv

\* Every step keeps it, part by part.
LEMMA NextIInv == IInv /\ [Next]_vars => IInv'
<1> SUFFICES ASSUME IInv, [Next]_vars PROVE IInv'
  OBVIOUS
<1>1. TypeOK /\ WakeupInv /\ QuitIsLast /\ WatchInv /\ RefCore /\ CallerKeepsEvent /\ IoInSync
  BY RefCoreDef DEF IInv, RefInv
<1>2. TypeOK' /\ WakeupInv' /\ QuitIsLast' /\ WatchInv'
  BY <1>1, TypeStep, WakeupStep, QuitStep, WatchStep
<1>3. RefCore' /\ CallerKeepsEvent' /\ IoInSync'
  BY <1>1, RefStep, CallerStep, IoStep
<1>4. RefConservation' /\ LiveIffReferenced' /\ UnbornFresh'
  BY <1>3 DEF RefCore, Balanced, RefConservation, LiveIffReferenced, UnbornFresh, H, O
<1> QED BY <1>2, <1>3, <1>4 DEF IInv, RefInv

\* The inductive invariant of the event loop holds in every reachable state.
THEOREM Invariance == Spec => []IInv
  BY InitIInv, NextIInv, PTL DEF Spec

\* The invariants that the runs check are conjuncts of it.
LEMMA IInvImplies ==
  ASSUME IInv
  PROVE  /\ RefConservation /\ LiveIffReferenced
         /\ ListedOnce /\ WatchedInLoop /\ HandledEventInLoop
         /\ AddFirst /\ CallerKeepsEvent /\ IoInSync
<1>1. Handling => mem[cur] = "live"
  BY UsedIsLive DEF IInv, WatchInv, RefInv
<1> QED BY <1>1 DEF IInv, WatchInv, RefInv, HandledEventInLoop

\* References are conserved and decide the memory's fate: h6_ev_unref frees an
\* event exactly when neither a thread, nor a queued or executing operation, nor
\* ev_list owns a reference any more.
THEOREM ReferencesCorrect == Spec => [](RefConservation /\ LiveIffReferenced)
<1>1. IInv => RefConservation /\ LiveIffReferenced
  BY IInvImplies
<1> QED BY <1>1, Invariance, PTL

\* Callbacks run only for events in the loop, whose memory is there until after
\* the callback's timer was armed again, whatever other threads do meanwhile.
THEOREM DispatchCorrect == Spec => [](ListedOnce /\ WatchedInLoop /\ HandledEventInLoop)
<1>1. IInv => ListedOnce /\ WatchedInLoop /\ HandledEventInLoop
  BY IInvImplies
<1> QED BY <1>1, Invariance, PTL

\* However h6_ev_add_events, h6_ev_remove_events and their sync variants race,
\* libev watches event->events, or a modify operation that will make it so is on
\* its way.
THEOREM IoCorrect == Spec => []IoInSync
<1>1. IInv => IoInSync
  BY IInvImplies
<1> QED BY <1>1, Invariance, PTL

\* An event's add operation is executed before any other operation on it, and a
\* thread's call on an event never outlives the event.
THEOREM OrderCorrect == Spec => [](AddFirst /\ CallerKeepsEvent)
<1>1. IInv => AddFirst /\ CallerKeepsEvent
  BY IInvImplies
<1> QED BY <1>1, Invariance, PTL

\* Nothing refers to a freed event.
LEMMA FreedIsAlone ==
  ASSUME IInv, NEW e \in Events, mem[e] = "freed"
  PROVE  /\ ref_count[e] = 0 /\ ev_list[e] = 0 /\ ~in_loop[e]
         /\ holder[e] = {} /\ OpsOn(e) = {} /\ Executing(e) = 0
         /\ ~(Handling /\ cur = e)
         /\ \A t \in Procs : call[t] # NoCall => call[t].event # e
<1>1. TypeOK /\ WatchInv /\ RefConservation /\ LiveIffReferenced /\ CallerKeepsEvent
  BY DEF IInv, RefInv
<1>2. holder[e] = {} /\ ~(Handling /\ cur = e) /\ ~in_loop[e] /\ OpsOn(e) = {}
  BY <1>1, UsedIsLive
<1>3. \A t \in Procs : call[t] # NoCall => call[t].event # e
  BY <1>1, <1>2 DEF CallerKeepsEvent
<1>4. ref_count[e] = H(e) + O(e) + ev_list[e] + Executing(e) /\ ~(ref_count[e] > 0)
  BY <1>1 DEF RefConservation, LiveIffReferenced, H, O
<1>5. H(e) \in Nat /\ O(e) \in Nat /\ ev_list[e] \in Nat /\ Executing(e) \in Nat
  BY <1>1, Counts
<1>6. ref_count[e] = 0 /\ ev_list[e] = 0 /\ Executing(e) = 0
  <2> DEFINE a == H(e)
             b == O(e)
             c == ev_list[e]
             d == Executing(e)
  <2>1. a \in Nat /\ b \in Nat /\ c \in Nat /\ d \in Nat /\ ref_count[e] = a + b + c + d
        /\ ~(ref_count[e] > 0)
    BY <1>4, <1>5
  <2> HIDE DEF a, b, c, d
  <2>2. ref_count[e] = 0 /\ c = 0 /\ d = 0
    BY <2>1
  <2> QED BY <2>2 DEF c, d
<1> QED BY <1>2, <1>3, <1>6

Untouched(e) ==
  /\ mem'[e] = "freed" /\ ref_count'[e] = ref_count[e]
  /\ <<events'[e], io'[e], timer'[e], in_loop'[e]>> = <<events[e], io[e], timer[e], in_loop[e]>>

\* An executed operation touches no freed event: it owns a reference to its own.
LEMMA FreedPop ==
  ASSUME IInv, PopAndRun, NEW e \in Events, mem[e] = "freed"
  PROVE  Untouched(e)
<1> DEFINE op == Head(operations)
<1>1. op \in Ops /\ op = operations[1] /\ 1 \in DOMAIN operations
  BY TailFacts DEF IInv, TypeOK, PopAndRun
<1>2. op.event # e /\ ev_list[e] = 0
  BY <1>1, FreedIsAlone DEF OpsOn, OpsIn
<1>3. events' = events /\ RunOp(op)
  BY DEF PopAndRun
<1>4. TypeOK
  BY DEF IInv
<1>5. CASE op.func = "add" /\ h6_ev_loop_ops_add(op.event)
  BY <1>2, <1>3, <1>4, <1>5 DEF h6_ev_loop_ops_add, Untouched, TypeOK
<1>6. CASE op.func = "remove" /\ h6_ev_loop_ops_remove(op.event)
  <2>1. CASE ev_list[op.event] > 0
    <3>1. SyncRemove({op.event}) /\ Unref(op.event)
      BY <1>6, <2>1 DEF h6_ev_loop_ops_remove
    <3>2. io'[e] = io[e] /\ in_loop'[e] = in_loop[e] /\ timer'[e] = timer[e]
      BY <1>2, <1>4, <3>1 DEF SyncRemove, TypeOK
    <3>3. ref_count'[e] = ref_count[e] /\ mem'[e] = mem[e]
      BY <1>2, <1>4, <3>1 DEF Unref, TypeOK
    <3> QED BY <1>3, <3>2, <3>3 DEF Untouched
  <2>2. CASE ~(ev_list[op.event] > 0)
    BY <1>3, <1>6, <2>2 DEF h6_ev_loop_ops_remove, watchVars, Untouched
  <2> QED BY <2>1, <2>2
<1>7. CASE op.func = "modify" /\ h6_ev_loop_ops_modify(op.event)
  BY <1>2, <1>3, <1>4, <1>7 DEF h6_ev_loop_ops_modify, h6_ev_loop_sync_io_modified, Untouched, TypeOK
<1>8. CASE op.func = "quit" /\ h6_ev_loop_ops_quit
  BY <1>2, <1>3, <1>4, <1>8 DEF h6_ev_loop_ops_quit, SyncRemove, Untouched, TypeOK
<1> QED BY <1>3, <1>5, <1>6, <1>7, <1>8 DEF RunOp

\* No step touches an event that was freed before it.
LEMMA FreedStep ==
  ASSUME IInv, [Next]_vars, NEW e \in Events, mem[e] = "freed"
  PROVE  Untouched(e)
<1>0. TypeOK
  BY DEF IInv
<1>1. ASSUME NEW t \in Procs, NEW d \in Events, ApiStep(t, d)
      PROVE  Untouched(e)
  <2>1. CASE d = e
    <3>1. ~MayUse(t, e) /\ t \notin holder[e] /\ mem[e] # "unborn"
      BY FreedIsAlone DEF MayUse, Free
    <3> QED BY <1>1, <2>1, <3>1 DEF ApiStep, h6_ev_new, h6_ev_ref, h6_ev_unref, h6_ev_set_timeout,
            h6_ev_loop_attach, h6_ev_loop_remove, h6_ev_add_events, h6_ev_remove_events
  <2>2. CASE d # e
    <3>1. ref_count'[e] = ref_count[e] /\ mem'[e] = mem[e]
      BY <1>0, <1>1, <2>2 DEF ApiStep, h6_ev_new, h6_ev_ref, h6_ev_unref, Unref, h6_ev_set_timeout,
         h6_ev_loop_attach, h6_ev_loop_remove, PushRef, h6_ev_add_events, h6_ev_remove_events,
         Begin, TypeOK, eventVars
    <3>2. events'[e] = events[e] /\ UNCHANGED watchVars
      BY <1>0, <1>1, <2>2 DEF ApiStep, h6_ev_new, h6_ev_ref, h6_ev_unref, h6_ev_set_timeout,
         h6_ev_loop_attach, h6_ev_loop_remove, h6_ev_add_events, h6_ev_remove_events, Begin, TypeOK
    <3> QED BY <3>1, <3>2 DEF Untouched, watchVars
  <2> QED BY <2>1, <2>2
<1>2. ASSUME NEW t \in Procs, h6_ev_loop_quit(t) \/ CallStep(t)
      PROVE  Untouched(e)
  <2>1. CASE h6_ev_loop_quit(t)
    BY <2>1 DEF h6_ev_loop_quit, Untouched, eventVars, watchVars
  <2>2. CASE CallStep(t)
    <3>1. call[t].event # e
      BY <2>2, FreedIsAlone DEF CallStep, StoreEvents, h6_ev_loop_modify_event, SyncIoModified, NoCall
    <3> QED BY <1>0, <2>2, <3>1 DEF CallStep, StoreEvents, h6_ev_loop_modify_event, PushRef,
            SyncIoModified, h6_ev_loop_sync_io_modified, Untouched, TypeOK, eventVars, watchVars
  <2> QED BY <1>2, <2>1, <2>2
<1>3. ASSUME NEW d \in Events, SyncStep(d) \/ Dispatch(d)
      PROVE  Untouched(e)
  <2>1. CASE SyncStep(d)
    <3>1. d # e
      BY <2>1, FreedIsAlone DEF SyncStep, h6_ev_add_events_sync, h6_ev_remove_events_sync,
         h6_ev_mod_timer_sync
    <3> QED BY <1>0, <2>1, <3>1 DEF SyncStep, h6_ev_add_events_sync, h6_ev_remove_events_sync, Begin,
            h6_ev_mod_timer_sync, Untouched, TypeOK, eventVars, watchVars
  <2>2. CASE Dispatch(d)
    <3>1. d # e
      BY <2>2, FreedIsAlone
         DEF Dispatch, h6_ev_cb_io, h6_ev_cb_timeout, IInv, WatchInv, WatchedInLoop
    <3> QED BY <1>0, <2>2, <3>1 DEF Dispatch, h6_ev_cb_io, h6_ev_cb_timeout, Untouched, TypeOK,
            eventVars, watchVars
  <2> QED BY <1>3, <2>1, <2>2
<1>4. CASE Return
  <2>1. cur # e
    BY <1>4, FreedIsAlone DEF Return, HandlerReturns
  <2> QED BY <1>0, <1>4, <2>1 DEF Return, HandlerReturns, Untouched, TypeOK, eventVars
<1>5. CASE DropOp
  <2>1. cur # e
    BY <1>5, FreedIsAlone DEF DropOp, Executing
  <2> QED BY <1>0, <1>5, <2>1 DEF DropOp, Unref, Untouched, TypeOK, watchVars
<1>6. CASE h6_ev_loop_run \/ RunReturns \/ QueueDrained \/ UNCHANGED vars
  BY <1>6 DEF h6_ev_loop_run, RunReturns, QueueDrained, vars, Untouched, eventVars, watchVars
<1> QED
  BY <1>1, <1>2, <1>3, <1>4, <1>5, <1>6, FreedPop
     DEF Next, LoopStep, h6_ev_loop_wakeup_cb, h6_ev_loop_exec_operations

\* No step of any thread writes to the memory of a freed event.
THEOREM FreedCorrect == Spec => FreedUntouched
<1>1. IInv /\ [Next]_vars =>
        [\A e \in Events : mem[e] = "freed" =>
           /\ mem'[e] = "freed" /\ ref_count'[e] = ref_count[e]
           /\ <<events'[e], io'[e], timer'[e], in_loop'[e]>>
                = <<events[e], io[e], timer[e], in_loop[e]>>]_vars
  BY FreedStep DEF Untouched
<1> QED BY <1>1, Invariance, PTL DEF Spec, FreedUntouched

=============================================================================

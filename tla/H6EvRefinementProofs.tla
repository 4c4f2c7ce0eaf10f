------------------------ MODULE H6EvRefinementProofs ------------------------
(***************************************************************************)
(* The event loop implements EvLifecycle, for any number of threads,       *)
(* events and queued operations: under the inductive invariant of H6Ev,    *)
(* every step of h6_ev.c is a step of the life cycle or invisible to it.   *)
(***************************************************************************)
EXTENDS H6EvProofs

\* What the life cycle sees of a state
Serving == IF Handling THEN cur ELSE NoEvent

Unseen == UNCHANGED Serving /\ UNCHANGED loop_quited

-----------------------------------------------------------------------------
(* Phases *)

\* The phase of an event only depends on four things.
LEMMA PhaseFrame ==
  ASSUME NEW e \in Events,
         mem'[e] = mem[e], attached'[e] = attached[e], in_loop'[e] = in_loop[e],
         Queued(e)' <=> Queued(e)
  PROVE  PhaseOf(e)' = PhaseOf(e)
  BY DEF PhaseOf

\* Steps that leave memory, attachment, loop and queued adds alone change no phase.
LEMMA PhaseFrameAll ==
  ASSUME UNCHANGED <<mem, attached, in_loop>>,
         \A e \in Events : Queued(e)' <=> Queued(e)
  PROVE  \A e \in Events : PhaseOf(e)' = PhaseOf(e)
  BY PhaseFrame

\* An event in the loop is alive and attached, and its add operation is gone.
LEMMA WatchedPhase ==
  ASSUME IInv, NEW e \in Events, in_loop[e]
  PROVE  mem[e] = "live" /\ attached[e] /\ ~Queued(e) /\ PhaseOf(e) = "watched"
<1>1. TypeOK /\ WatchInv /\ AddFirst /\ RefConservation /\ LiveIffReferenced
  BY DEF IInv, WatchInv, RefInv
<1>2. mem[e] = "live"
  BY <1>1, UsedIsLive
<1>3. attached[e] /\ ~Queued(e)
  BY <1>1 DEF AddFirst, Queued, Op
<1> QED BY <1>2, <1>3 DEF PhaseOf

\* An event whose add operation is queued is alive and attached, not yet inside.
LEMMA QueuedPhase ==
  ASSUME IInv, NEW e \in Events, Queued(e)
  PROVE  mem[e] = "live" /\ attached[e] /\ ~in_loop[e] /\ PhaseOf(e) = "queued"
<1>1. TypeOK /\ WatchInv /\ AddFirst /\ RefConservation /\ LiveIffReferenced
  BY DEF IInv, WatchInv, RefInv
<1>2. OpsOn(e) # {}
  BY DEF Queued, OpsOn, OpsIn, Op
<1>3. mem[e] = "live"
  BY <1>1, <1>2, UsedIsLive
<1>4. attached[e] /\ ~in_loop[e]
  BY <1>1 DEF AddFirst, Queued, Op
<1> QED BY <1>3, <1>4 DEF PhaseOf

-----------------------------------------------------------------------------
(* The queue *)

\* After a push an add is queued if it was before, or is the one pushed.
LEMMA QueuedPush ==
  ASSUME TypeOK, NEW op \in Ops, Push(op), NEW e \in Events
  PROVE  Queued(e)' <=> Queued(e) \/ op = Op("add", e)
<1>1. operations \in Seq(Ops) /\ operations' = Append(operations, op)
  BY DEF TypeOK, Push
<1>2. /\ Len(operations) \in Nat
      /\ DOMAIN operations = 1 .. Len(operations) /\ DOMAIN operations' = 1 .. Len(operations) + 1
      /\ \A i \in 1 .. Len(operations) : operations'[i] = operations[i]
      /\ operations'[Len(operations) + 1] = op
  BY <1>1, AppendFacts
<1>3. 1 .. Len(operations) + 1 = (1 .. Len(operations)) \cup {Len(operations) + 1}
  BY <1>2
<1> QED BY <1>2, <1>3 DEF Queued

\* Before a pop an add is queued if it is after, or is the one popped.
LEMMA QueuedPop ==
  ASSUME TypeOK, PopAndRun, NEW e \in Events
  PROVE  Queued(e) <=> Queued(e)' \/ Head(operations) = Op("add", e)
<1>1. operations \in Seq(Ops) /\ operations # <<>> /\ operations' = Tail(operations)
  BY DEF TypeOK, PopAndRun
<1>2. /\ Len(operations) \in Nat \ {0}
      /\ DOMAIN operations = 1 .. Len(operations)
      /\ Head(operations) = operations[1]
      /\ DOMAIN operations' = 1 .. Len(operations) - 1
      /\ \A i \in 1 .. Len(operations) - 1 : operations'[i] = operations[i + 1]
  BY <1>1, TailFacts
<1>3. Queued(e)' => Queued(e)
  BY <1>2 DEF Queued
<1>4. Head(operations) = Op("add", e) => Queued(e)
  BY <1>2 DEF Queued
<1>5. Queued(e) /\ Head(operations) # Op("add", e) => Queued(e)'
  BY QueueShrinks DEF Queued, OpQueued
<1> QED BY <1>3, <1>4, <1>5

-----------------------------------------------------------------------------
(* Steps of the life cycle *)

\* A step that changes no phase and nothing that the loop shows is a stutter.
LEMMA LifecycleStutters ==
  ASSUME Unseen, \A e \in Events : PhaseOf(e)' = PhaseOf(e)
  PROVE  UNCHANGED Lifecycle!vars
  BY DEF Unseen, Serving, Lifecycle!vars

\* A step that changes the phase of one event is the move of that event.
LEMMA LifecycleMoves ==
  ASSUME NEW e \in Events, NEW from, NEW to, PhaseOf(e) \in from, PhaseOf(e)' = to,
         \A d \in Events \ {e} : PhaseOf(d)' = PhaseOf(d)
  PROVE  Lifecycle!Move(e, from, to)
  BY DEF Lifecycle!Move

\* the last reference of an event that is not in the loop is dropped
LEMMA LifecycleFrees ==
  ASSUME IInv, Unseen, NEW e \in Events, Unref(e),
         ~Queued(e), ~in_loop[e], ~(Handling /\ cur = e), ref_count[e] = 1,
         UNCHANGED <<attached, in_loop, operations>>
  PROVE  Lifecycle!Next
<1>1. TypeOK /\ LiveIffReferenced
  BY DEF IInv, RefInv
<1>2. mem[e] = "live" /\ mem'[e] = "freed" /\ \A d \in Events \ {e} : mem'[d] = mem[d]
  BY <1>1 DEF Unref, TypeOK, LiveIffReferenced
<1>3. PhaseOf(e) \in {"ready", "out"} /\ PhaseOf(e)' = "freed"
  BY <1>2 DEF PhaseOf
<1>4. \A d \in Events \ {e} : PhaseOf(d)' = PhaseOf(d)
  BY <1>2, PhaseFrame DEF Queued
<1>5. Lifecycle!Move(e, {"ready", "out"}, "freed")
  BY <1>3, <1>4, LifecycleMoves
<1>6. (IF Handling THEN cur ELSE NoEvent) # e
  BY NoEventAssumption
<1>7. Lifecycle!Free(e)
  BY <1>5, <1>6 DEF Lifecycle!Free, Unseen, Serving
<1> QED BY <1>7 DEF Lifecycle!Next

\* one of several references is dropped
LEMMA LifecycleKeeps ==
  ASSUME IInv, Unseen, NEW e \in Events, Unref(e), ref_count[e] # 1,
         UNCHANGED <<attached, in_loop, operations>>
  PROVE  UNCHANGED Lifecycle!vars
<1>1. mem' = mem
  BY DEF IInv, TypeOK, Unref
<1> QED BY <1>1, PhaseFrameAll, LifecycleStutters DEF Queued

-----------------------------------------------------------------------------
(* Calls of the threads *)

\* h6_ev_new creates the event.
LEMMA NewRefines ==
  ASSUME IInv, NEW t \in Procs, NEW e \in Events, NEW b \in SUBSET Bits, h6_ev_new(t, e, b)
  PROVE  Lifecycle!Next
<1>1. TypeOK /\ UnbornFresh
  BY DEF IInv, RefInv
<1>2. UNCHANGED <<attached, in_loop, operations, loop_quited, loop_pc, cur>>
  BY DEF h6_ev_new, watchVars, queueVars, loopVars
<1>3. /\ mem[e] = "unborn" /\ ~attached[e] /\ mem'[e] = "live"
      /\ \A d \in Events \ {e} : mem'[d] = mem[d]
  BY <1>1 DEF h6_ev_new, UnbornFresh, TypeOK
<1>4. PhaseOf(e) = "unborn" /\ PhaseOf(e)' = "ready"
  BY <1>2, <1>3 DEF PhaseOf
<1>5. \A d \in Events \ {e} : PhaseOf(d)' = PhaseOf(d)
  BY <1>2, <1>3, PhaseFrame DEF Queued
<1>6. Lifecycle!Move(e, {"unborn"}, "ready")
  BY <1>4, <1>5, LifecycleMoves
<1>7. Lifecycle!Create(e)
  BY <1>2, <1>6 DEF Lifecycle!Create, Handling
<1> QED BY <1>7 DEF Lifecycle!Next

\* The last h6_ev_unref frees an event that is ready or out; any other is a stutter.
LEMMA UnrefRefines ==
  ASSUME IInv, NEW t \in Procs, NEW e \in Events, h6_ev_unref(t, e)
  PROVE  Lifecycle!Next \/ UNCHANGED Lifecycle!vars
<1>1. TypeOK /\ WatchInv /\ RefConservation
  BY DEF IInv, RefInv
<1>2. Unseen /\ Unref(e) /\ UNCHANGED <<attached, in_loop, operations>>
  BY DEF h6_ev_unref, watchVars, queueVars, loopVars, Unseen, Serving, Handling
<1>3. CASE ref_count[e] = 1
  <2>1. ref_count[e] = H(e) + O(e) + ev_list[e] + Executing(e)
    BY <1>1 DEF RefConservation, H, O
  <2>2. /\ H(e) \in Nat \ {0} /\ O(e) \in Nat /\ ev_list[e] \in Nat /\ Executing(e) \in Nat
        /\ OpsOn(e) # {} => O(e) > 0
    <3>1. holder[e] # {}
      BY DEF h6_ev_unref
    <3> QED BY <1>1, <3>1, Counts
  <2>3. OpsOn(e) = {} /\ ev_list[e] = 0
    <3> HIDE DEF H, O
    <3> QED BY <1>3, <2>1, <2>2
  <2>4. ~Queued(e)
    BY <2>3 DEF Queued, OpsOn, OpsIn, Op
  <2>5. ~in_loop[e] /\ ~(Handling /\ cur = e)
    BY <1>1, <2>3 DEF WatchInv, ListedOnce
  <2> QED BY <1>2, <1>3, <2>4, <2>5, LifecycleFrees
<1>4. CASE ref_count[e] # 1
  BY <1>2, <1>4, LifecycleKeeps
<1> QED BY <1>3, <1>4

\* h6_ev_loop_attach accepts the event.
LEMMA AttachRefines ==
  ASSUME IInv, NEW t \in Procs, NEW e \in Events, h6_ev_loop_attach(t, e)
  PROVE  Lifecycle!Next
<1>1. TypeOK /\ WatchInv /\ RefCore
  BY RefCoreDef DEF IInv, RefInv
<1>2. Op("add", e) \in Ops /\ Push(Op("add", e))
  BY OpType DEF h6_ev_loop_attach, PushRef
<1>3. UNCHANGED <<mem, in_loop, loop_quited, loop_pc, cur>>
  BY DEF h6_ev_loop_attach, watchVars, loopVars
<1>4. mem[e] = "live" /\ ~attached[e] /\ ~loop_quited
  BY <1>1, MayUseLive DEF h6_ev_loop_attach
<1>5. attached'[e] /\ \A d \in Events \ {e} : attached'[d] = attached[d]
  BY <1>1 DEF h6_ev_loop_attach, TypeOK
<1>6. \A d \in Events : Queued(d)' <=> Queued(d) \/ d = e
  BY <1>1, <1>2, QueuedPush DEF Op
<1>7. PhaseOf(e) = "ready" /\ PhaseOf(e)' = "queued"
  BY <1>3, <1>4, <1>5, <1>6 DEF PhaseOf
<1>8. \A d \in Events \ {e} : PhaseOf(d)' = PhaseOf(d)
  BY <1>3, <1>5, <1>6, PhaseFrame
<1>9. Lifecycle!Move(e, {"ready"}, "queued")
  BY <1>7, <1>8, LifecycleMoves
<1>10. Lifecycle!Accept(e)
  BY <1>3, <1>4, <1>9 DEF Lifecycle!Accept, Handling
<1> QED BY <1>10 DEF Lifecycle!Next

\* an operation other than add is queued
LEMMA PushRefines ==
  ASSUME IInv, NEW op \in Ops, Push(op), op.func # "add",
         UNCHANGED <<mem, attached, in_loop>>
  PROVE  \A e \in Events : PhaseOf(e)' = PhaseOf(e)
<1>1. TypeOK
  BY DEF IInv
<1>2. \A e \in Events : op # Op("add", e)
  BY DEF Op
<1> QED BY <1>1, <1>2, QueuedPush, PhaseFrame

\* h6_ev_loop_quit is the close of the loop.
LEMMA QuitRefines ==
  ASSUME IInv, NEW t \in Procs, h6_ev_loop_quit(t)
  PROVE  Lifecycle!Next
<1>1. QuitOp \in Ops /\ QuitOp.func # "add"
  BY DEF Ops, QuitOp, Op
<1>2. /\ Push(QuitOp) /\ ~loop_quited /\ loop_quited'
      /\ UNCHANGED <<mem, attached, in_loop, loop_pc, cur>>
  BY DEF h6_ev_loop_quit, eventVars, watchVars, loopVars
<1>3. \A e \in Events : PhaseOf(e)' = PhaseOf(e)
  BY <1>1, <1>2, PushRefines
<1>4. Lifecycle!Close
  BY <1>2, <1>3 DEF Lifecycle!Close, Handling
<1> QED BY <1>4 DEF Lifecycle!Next

\* So every function a thread calls on an event is a step or a stutter.
LEMMA ApiRefines ==
  ASSUME IInv, NEW t \in Procs, NEW e \in Events, ApiStep(t, e)
  PROVE  Lifecycle!Next \/ UNCHANGED Lifecycle!vars
<1>1. ASSUME NEW b \in SUBSET Bits, h6_ev_new(t, e, b)
      PROVE  Lifecycle!Next
  BY <1>1, NewRefines
<1>2. CASE h6_ev_unref(t, e)
  BY <1>2, UnrefRefines
<1>3. CASE h6_ev_loop_attach(t, e)
  BY <1>3, AttachRefines
<1>4. CASE h6_ev_loop_remove(t, e)
  <2>1. Op("remove", e) \in Ops /\ Op("remove", e).func # "add" /\ Push(Op("remove", e))
    BY <1>4, OpType DEF h6_ev_loop_remove, PushRef, Op
  <2>2. Unseen /\ UNCHANGED <<mem, attached, in_loop>>
    BY <1>4 DEF h6_ev_loop_remove, watchVars, loopVars, Unseen, Serving, Handling
  <2> QED BY <2>1, <2>2, PushRefines, LifecycleStutters
<1>5. ASSUME \/ \E u \in Procs : h6_ev_ref(t, u, e)
             \/ \E to \in Timeouts : h6_ev_set_timeout(t, e, to)
             \/ \E b \in SUBSET Bits : h6_ev_add_events(t, e, b) \/ h6_ev_remove_events(t, e, b)
      PROVE  UNCHANGED Lifecycle!vars
  <2>1. UNCHANGED <<mem, attached, in_loop, operations, loop_quited, loop_pc, cur>>
    BY <1>5 DEF h6_ev_ref, h6_ev_set_timeout, h6_ev_add_events, h6_ev_remove_events, Begin,
                eventVars, watchVars, queueVars, loopVars
  <2> QED BY <2>1, PhaseFrameAll, LifecycleStutters DEF Queued, Unseen, Serving, Handling
<1> QED BY <1>1, <1>2, <1>3, <1>4, <1>5 DEF ApiStep

\* The steps of a call that changes the interest are stutters: it queues no add.
LEMMA CallRefines ==
  ASSUME IInv, NEW t \in Procs, CallStep(t)
  PROVE  UNCHANGED Lifecycle!vars
<1>1. UNCHANGED <<mem, attached, in_loop>> /\ Unseen
  BY DEF CallStep, StoreEvents, SyncIoModified, h6_ev_loop_modify_event, eventVars, watchVars,
         queueVars, loopVars, Unseen, Serving, Handling
<1>2. CASE operations' = operations
  BY <1>1, <1>2, PhaseFrameAll, LifecycleStutters DEF Queued
<1>3. CASE operations' # operations
  <2>1. h6_ev_loop_modify_event(t) /\ PushRef("modify", call[t].event)
    BY <1>3 DEF CallStep, StoreEvents, SyncIoModified, h6_ev_loop_modify_event, queueVars
  <2>2. call[t].event \in Events
    BY <2>1 DEF h6_ev_loop_modify_event, IInv, TypeOK, Calls, NoCall
  <2>3. Op("modify", call[t].event) \in Ops /\ Op("modify", call[t].event).func # "add"
    BY <2>2, OpType DEF Op
  <2> QED BY <1>1, <2>1, <2>3, PushRefines, LifecycleStutters DEF PushRef
<1> QED BY <1>2, <1>3

-----------------------------------------------------------------------------
(* Steps of the loop thread *)

\* A dispatch serves an event that is watched.
LEMMA ServeRefines ==
  ASSUME IInv, NEW e \in Events, Dispatch(e)
  PROVE  Lifecycle!Next
<1>1. in_loop[e] /\ loop_pc = "poll"
  BY DEF Dispatch, h6_ev_cb_io, h6_ev_cb_timeout, IInv, WatchInv, WatchedInLoop
<1>2. PhaseOf(e) = "watched"
  BY <1>1, WatchedPhase
<1>3. /\ UNCHANGED <<mem, attached, in_loop, operations, loop_quited>>
      /\ loop_pc' \in {"io", "timer"} /\ cur' = e
  BY DEF Dispatch, h6_ev_cb_io, h6_ev_cb_timeout, eventVars, watchVars, queueVars
<1>4. \A d \in Events : PhaseOf(d)' = PhaseOf(d)
  BY <1>3, PhaseFrameAll DEF Queued
<1>5. Lifecycle!Serve(e)
  BY <1>1, <1>2, <1>3, <1>4 DEF Lifecycle!Serve, Handling
<1> QED BY <1>5 DEF Lifecycle!Next

\* The return of the callback ends the serving.
LEMMA ServedRefines ==
  ASSUME IInv, Return
  PROVE  Lifecycle!Next
<1>1. /\ UNCHANGED <<mem, attached, in_loop, operations, loop_quited>>
      /\ Handling /\ loop_pc' = "poll"
  BY DEF Return, HandlerReturns, eventVars, queueVars
<1>2. \A d \in Events : PhaseOf(d)' = PhaseOf(d)
  BY <1>1, PhaseFrameAll DEF Queued
<1>3. cur # NoEvent
  BY <1>1, NoEventAssumption DEF IInv, WatchInv
<1>4. Lifecycle!Served
  BY <1>1, <1>2, <1>3 DEF Lifecycle!Served, Handling
<1> QED BY <1>4 DEF Lifecycle!Next

\* The unref after an executed operation frees its event, or is a stutter.
LEMMA DropRefines ==
  ASSUME IInv, DropOp
  PROVE  Lifecycle!Next \/ UNCHANGED Lifecycle!vars
<1>1. TypeOK /\ WatchInv /\ RefConservation
  BY DEF IInv, RefInv
<1>2. cur \in Events /\ ~Handling /\ Unref(cur)
  BY <1>1 DEF DropOp, WatchInv, DropHasEvent, Handling
<1>3. Unseen /\ UNCHANGED <<attached, in_loop, operations>>
  BY DEF DropOp, watchVars, queueVars, Unseen, Serving, Handling
<1>4. CASE ref_count[cur] = 1
  <2>1. ref_count[cur] = H(cur) + O(cur) + ev_list[cur] + Executing(cur)
    BY <1>1, <1>2 DEF RefConservation, H, O
  <2>2. /\ H(cur) \in Nat /\ O(cur) \in Nat /\ ev_list[cur] \in Nat /\ Executing(cur) = 1
        /\ OpsOn(cur) # {} => O(cur) > 0
    <3>1. Executing(cur) = 1
      BY DEF DropOp, Executing
    <3> QED BY <1>1, <1>2, <3>1, Counts
  <2>3. OpsOn(cur) = {} /\ ev_list[cur] = 0
    <3> HIDE DEF H, O
    <3> QED BY <1>4, <2>1, <2>2
  <2>4. ~Queued(cur) /\ ~in_loop[cur]
    BY <1>1, <1>2, <2>3 DEF Queued, OpsOn, OpsIn, Op, WatchInv, ListedOnce
  <2> QED BY <1>2, <1>3, <1>4, <2>4, LifecycleFrees
<1>5. CASE ref_count[cur] # 1
  BY <1>2, <1>3, <1>5, LifecycleKeeps
<1> QED BY <1>4, <1>5

\* The operation at the head of the queue is executed: none of the callbacks runs,
\* and only phases change.
LEMMA PopFacts ==
  ASSUME IInv, PopAndRun, loop_pc \in {"poll", "exec"}
  PROVE  /\ TypeOK /\ WatchInv /\ AddFirst /\ RefConservation /\ LiveIffReferenced /\ QuitIsLast
         /\ Head(operations) \in Ops /\ RunOp(Head(operations))
         /\ Head(operations) = operations[1] /\ 1 \in DOMAIN operations
         /\ ~Handling /\ ~Handling' /\ attached' = attached /\ loop_quited' = loop_quited
<1>1. /\ TypeOK /\ WatchInv /\ AddFirst /\ RefConservation /\ LiveIffReferenced /\ QuitIsLast
  BY DEF IInv, RefInv, WatchInv
<1>2. operations \in Seq(Ops) /\ operations # <<>>
  BY <1>1 DEF TypeOK, PopAndRun
<1>3. /\ Len(operations) \in Nat \ {0} /\ DOMAIN operations = 1 .. Len(operations)
      /\ Head(operations) = operations[1] /\ Head(operations) \in Ops
  BY <1>2, TailFacts
<1>4. 1 \in DOMAIN operations
  BY <1>3
<1>5. ~Handling /\ ~Handling'
  BY DEF Handling, PopAndRun
<1> QED BY <1>1, <1>3, <1>4, <1>5 DEF PopAndRun

\* An executed add takes its event, queued until then, into the loop.
LEMMA EnterRefines ==
  ASSUME IInv, PopAndRun, loop_pc \in {"poll", "exec"},
         NEW e \in Events, Head(operations) = Op("add", e)
  PROVE  Lifecycle!Next
<1>1. TypeOK /\ AddFirst /\ ~Handling /\ ~Handling' /\ attached' = attached
      /\ loop_quited' = loop_quited
  BY PopFacts
<1>2. h6_ev_loop_ops_add(e)
  BY PopFacts DEF RunOp, Op
<1>3. mem' = mem /\ in_loop'[e] /\ \A d \in Events \ {e} : in_loop'[d] = in_loop[d]
  BY <1>1, <1>2 DEF h6_ev_loop_ops_add, TypeOK
<1>4. Queued(e) /\ \A d \in Events \ {e} : Queued(d)' <=> Queued(d)
  BY <1>1, QueuedPop DEF Op
<1>5. PhaseOf(e) = "queued" /\ mem[e] = "live" /\ attached[e]
  BY <1>4, QueuedPhase
<1>6. ~Queued(e)'
  <2>1. AddFirst'
    BY <1>1, AddFirstPop
  <2> QED BY <1>3, <2>1 DEF AddFirst, Queued, Op
<1>7. PhaseOf(e)' = "watched"
  BY <1>1, <1>3, <1>5, <1>6 DEF PhaseOf
<1>8. \A d \in Events \ {e} : PhaseOf(d)' = PhaseOf(d)
  BY <1>1, <1>3, <1>4, PhaseFrame
<1>9. Lifecycle!Move(e, {"queued"}, "watched")
  BY <1>5, <1>7, <1>8, LifecycleMoves
<1>10. Lifecycle!Enter(e)
  BY <1>1, <1>9 DEF Lifecycle!Enter
<1> QED BY <1>10 DEF Lifecycle!Next

\* An executed remove takes it out, and is a stutter for one that is out.
LEMMA LeaveRefines ==
  ASSUME IInv, PopAndRun, loop_pc \in {"poll", "exec"},
         NEW e \in Events, Head(operations) = Op("remove", e)
  PROVE  Lifecycle!Next \/ UNCHANGED Lifecycle!vars
<1>1. TypeOK /\ WatchInv /\ RefConservation /\ ~Handling /\ ~Handling' /\ attached' = attached
      /\ loop_quited' = loop_quited
  BY PopFacts
<1>2. h6_ev_loop_ops_remove(e)
  BY PopFacts DEF RunOp, Op
<1>3. \A d \in Events : Queued(d)' <=> Queued(d)
  BY <1>1, QueuedPop DEF Op
<1>4. CASE ev_list[e] > 0
  <2>1. SyncRemove({e}) /\ Unref(e)
    BY <1>2, <1>4 DEF h6_ev_loop_ops_remove
  <2>2. in_loop[e] /\ ~in_loop'[e] /\ \A d \in Events \ {e} : in_loop'[d] = in_loop[d]
    <3>1. in_loop[e]
      BY <1>1, <1>4 DEF WatchInv, ListedOnce
    <3>2. ~in_loop'[e]
      BY <2>1 DEF SyncRemove
    <3>3. \A d \in Events \ {e} : in_loop'[d] = in_loop[d]
      BY <1>1, <2>1, Zenon DEF SyncRemove, TypeOK
    <3> QED BY <3>1, <3>2, <3>3
  <2>3. ref_count[e] # 1
    <3>1. ref_count[e] = H(e) + O(e) + ev_list[e] + Executing(e)
      BY <1>1 DEF RefConservation, H, O
    <3>2. OpsOn(e) # {}
      BY PopFacts DEF OpsOn, OpsIn, Op
    <3>3. /\ H(e) \in Nat /\ O(e) \in Nat \ {0} /\ ev_list[e] \in Nat \ {0}
          /\ Executing(e) \in Nat
      BY <1>1, <1>4, <3>2, Counts
    <3> HIDE DEF H, O
    <3> QED BY <3>1, <3>3
  <2>4. mem' = mem
    BY <1>1, <2>1, <2>3 DEF Unref, TypeOK
  <2>5. PhaseOf(e) = "watched" /\ mem[e] = "live" /\ attached[e] /\ ~Queued(e)
    BY <2>2, WatchedPhase
  <2>6. PhaseOf(e)' = "out"
    BY <1>1, <1>3, <2>2, <2>4, <2>5 DEF PhaseOf
  <2>7. \A d \in Events \ {e} : PhaseOf(d)' = PhaseOf(d)
    BY <1>1, <1>3, <2>2, <2>4, PhaseFrame
  <2>8. Lifecycle!Move(e, {"watched"}, "out")
    BY <2>5, <2>6, <2>7, LifecycleMoves
  <2>9. Lifecycle!Leave(e)
    BY <1>1, <2>8 DEF Lifecycle!Leave
  <2> QED BY <2>9 DEF Lifecycle!Next
<1>5. CASE ~(ev_list[e] > 0)
  <2>1. UNCHANGED <<mem, attached, in_loop>> /\ Unseen
    BY <1>1, <1>2, <1>5 DEF h6_ev_loop_ops_remove, watchVars, Unseen, Serving
  <2> QED BY <1>3, <2>1, PhaseFrameAll, LifecycleStutters
<1> QED BY <1>4, <1>5

\* An executed modify is a stutter.
LEMMA ModifyRefines ==
  ASSUME IInv, PopAndRun, loop_pc \in {"poll", "exec"},
         NEW e \in Events, Head(operations) = Op("modify", e)
  PROVE  UNCHANGED Lifecycle!vars
<1>1. TypeOK /\ ~Handling /\ ~Handling' /\ attached' = attached /\ loop_quited' = loop_quited
  BY PopFacts
<1>2. h6_ev_loop_ops_modify(e)
  BY PopFacts DEF RunOp, Op
<1>3. \A d \in Events : Queued(d)' <=> Queued(d)
  BY <1>1, QueuedPop DEF Op
<1>4. UNCHANGED <<mem, attached, in_loop>> /\ Unseen
  BY <1>1, <1>2 DEF h6_ev_loop_ops_modify, Unseen, Serving
<1> QED BY <1>3, <1>4, PhaseFrameAll, LifecycleStutters

\* The quit operation is the last of the queue, so every event that was accepted
\* is in the loop, and all of them leave it in this step.
LEMMA ShutdownRefines ==
  ASSUME IInv, PopAndRun, loop_pc \in {"poll", "exec"}, Head(operations) = QuitOp
  PROVE  Lifecycle!Next
<1>1. /\ TypeOK /\ WatchInv /\ QuitIsLast /\ LiveIffReferenced
      /\ ~Handling /\ ~Handling' /\ attached' = attached /\ loop_quited' = loop_quited
      /\ operations[1] = QuitOp /\ 1 \in DOMAIN operations
  BY PopFacts
<1>2. h6_ev_loop_ops_quit
  BY PopFacts DEF RunOp, QuitOp, Op
<1>3. Len(operations) = 1 /\ loop_quited
  BY <1>1 DEF QuitIsLast
<1>4. DOMAIN operations = {1}
  BY <1>1, <1>3 DEF TypeOK
<1>5. \A e \in Events : ~Queued(e) /\ ~Queued(e)'
  <2>1. \A e \in Events : ~Queued(e)
    BY <1>1, <1>4 DEF Queued, QuitOp, Op
  <2> QED BY <1>1, <2>1, QueuedPop
<1>6. \A e \in Events : PhaseOf(e) # "queued"
  BY <1>5 DEF PhaseOf
<1> DEFINE unused == {e \in Events : ev_list[e] > 0 /\ ref_count[e] = ev_list[e]}
<1>7. ASSUME NEW e \in Events
      PROVE  PhaseOf(e)' = IF PhaseOf(e) # "watched" THEN PhaseOf(e)
                           ELSE IF e \in unused THEN "freed" ELSE "out"
  <2> DEFINE listed == {d \in Events : ev_list[d] > 0}
  <2>1. /\ mem'[e] = IF e \in unused THEN "freed" ELSE mem[e]
        /\ SyncRemove(listed)
    BY <1>1, <1>2 DEF h6_ev_loop_ops_quit, TypeOK
  <2>2. CASE in_loop[e]
    <3>1. PhaseOf(e) = "watched" /\ mem[e] = "live" /\ attached[e]
      BY <2>2, WatchedPhase
    <3>2. ~in_loop'[e]
      <4>1. e \in listed
        BY <1>1, <2>2 DEF WatchInv, ListedOnce
      <4> QED BY <2>1, <4>1 DEF SyncRemove
    <3>3. mem'[e] = "freed" \/ mem'[e] = "live"
      BY <2>1, <3>1
    <3>4. attached'[e] /\ ~Queued(e)'
      BY <1>1, <1>5, <3>1
    <3>5. PhaseOf(e)' = IF e \in unused THEN "freed" ELSE "out"
      BY <2>1, <3>1, <3>2, <3>4 DEF PhaseOf
    <3> QED BY <3>1, <3>5
  <2>3. CASE ~in_loop[e]
    <3>1. ev_list[e] = 0
      BY <1>1, <2>3 DEF WatchInv, ListedOnce
    <3>2. mem'[e] = mem[e]
      BY <2>1, <3>1
    <3>3. PhaseOf(e) # "watched"
      BY <2>3 DEF PhaseOf
    <3>4. in_loop'[e] = in_loop[e]
      <4>1. e \notin listed
        BY <3>1
      <4> HIDE DEF listed
      <4> QED BY <1>1, <2>1, <4>1, Zenon DEF SyncRemove, TypeOK
    <3>5. PhaseOf(e)' = PhaseOf(e)
      BY <1>1, <1>5, <3>2, <3>4, PhaseFrame
    <3> QED BY <3>3, <3>5
  <2> QED BY <2>2, <2>3
<1>8. unused \in SUBSET Events
  OBVIOUS
<1>9. Lifecycle!Shutdown(unused)
  <2> HIDE DEF unused
  <2> QED BY <1>1, <1>3, <1>6, <1>7 DEF Lifecycle!Shutdown
<1> QED BY <1>8, <1>9 DEF Lifecycle!Next

\* So every executed operation is a step or a stutter, the quit operation being the shutdown.
LEMMA PopRefines ==
  ASSUME IInv, PopAndRun, loop_pc \in {"poll", "exec"}
  PROVE  Lifecycle!Next \/ UNCHANGED Lifecycle!vars
<1>1. Head(operations) \in Ops
  BY PopFacts
<1>2. \/ Head(operations) = QuitOp
      \/ \E e \in Events : \/ Head(operations) = Op("add", e)
                           \/ Head(operations) = Op("remove", e)
                           \/ Head(operations) = Op("modify", e)
  BY <1>1 DEF Ops
<1> QED BY <1>2, EnterRefines, LeaveRefines, ModifyRefines, ShutdownRefines

\* Every step of the event loop is a step of the life cycle or a stutter.
LEMMA StepRefines ==
  ASSUME IInv, [Next]_vars
  PROVE  Lifecycle!Next \/ UNCHANGED Lifecycle!vars
<1>1. ASSUME loop_pc \in {"poll", "exec"}, QueueDrained
      PROVE  UNCHANGED Lifecycle!vars
  <2>1. UNCHANGED <<mem, attached, in_loop, operations>> /\ Unseen
    BY <1>1 DEF QueueDrained, eventVars, watchVars, Unseen, Serving, Handling
  <2> QED BY <2>1, PhaseFrameAll, LifecycleStutters DEF Queued
<1>2. CASE h6_ev_loop_run \/ RunReturns \/ UNCHANGED vars
  <2>1. UNCHANGED <<mem, attached, in_loop, operations>> /\ Unseen
    BY <1>2 DEF h6_ev_loop_run, RunReturns, vars, eventVars, watchVars, queueVars, loopVars,
                Unseen, Serving, Handling
  <2> QED BY <2>1, PhaseFrameAll, LifecycleStutters DEF Queued
<1>3. ASSUME NEW e \in Events, SyncStep(e)
      PROVE  UNCHANGED Lifecycle!vars
  <2>1. UNCHANGED <<mem, attached, in_loop, operations>> /\ Unseen
    BY <1>3 DEF SyncStep, h6_ev_add_events_sync, h6_ev_remove_events_sync, Begin,
                h6_ev_mod_timer_sync, eventVars, watchVars, queueVars, loopVars,
                Unseen, Serving, Handling
  <2> QED BY <2>1, PhaseFrameAll, LifecycleStutters DEF Queued
<1>4. CASE h6_ev_loop_wakeup_cb \/ h6_ev_loop_exec_operations
  BY <1>1, <1>4, PopRefines DEF h6_ev_loop_wakeup_cb, h6_ev_loop_exec_operations
<1> QED
  BY <1>2, <1>3, <1>4, ApiRefines, QuitRefines, CallRefines, ServeRefines, ServedRefines, DropRefines
     DEF Next, LoopStep

\* In the first state no event is born and the loop is open, as in the life cycle.
LEMMA InitRefines == Init => Lifecycle!Init
<1> SUFFICES ASSUME Init PROVE Lifecycle!Init
  OBVIOUS
<1>1. \A e \in Events : PhaseOf(e) = "unborn"
  BY DEF Init, PhaseOf
<1>2. ~Handling /\ ~loop_quited
  BY DEF Init, Handling
<1> QED BY <1>1, <1>2 DEF Lifecycle!Init

\* The queue, the pipe, the reference counts and the threads of h6_ev.c implement
\* the life cycle of EvLifecycle: an event is accepted once and before the loop is
\* told to quit, is called back only inside the loop, is not removed or freed
\* under its callback, and the quit operation finds every accepted event inside.
THEOREM LifecycleCorrect == Spec => ImplementsLifecycle
<1>1. IInv /\ [Next]_vars => [Lifecycle!Next]_(Lifecycle!vars)
  BY StepRefines
<1> QED BY <1>1, InitRefines, Invariance, PTL DEF Spec, ImplementsLifecycle, Lifecycle!Spec

-----------------------------------------------------------------------------
(* What the life cycle is for *)

Left(e) == PhaseOf(e) \in {"out", "freed"}
InCallback(e) == Handling /\ cur = e

\* There is no way back into the loop in the life cycle.
LEMMA LeftStays ==
  ASSUME NEW e \in Events, [Lifecycle!Next]_(Lifecycle!vars), Left(e)
  PROVE  Left(e)'
<1> DEFINE P == [d \in Events |-> PhaseOf(d)]
           Q == [d \in Events |-> PhaseOf(d)']
<1>1. P[e] \in {"out", "freed"}
  BY DEF Left
<1>2. CASE Q = P
  <2>1. Q[e] = P[e]
    BY <1>2
  <2> HIDE DEF P
  <2>2. Q[e] \in {"out", "freed"}
    BY <1>1, <2>1
  <2> QED BY <2>2 DEF Left
<1>3. ASSUME NEW d \in Events, NEW to, Q = [P EXCEPT ![d] = to],
             to = "freed" \/ P[d] \notin {"out", "freed"}
      PROVE  Left(e)'
  <2> HIDE DEF P
  <2>1. Q[e] = IF e = d THEN to ELSE P[e]
    <3>1. P = [x \in Events |-> P[x]]
      BY DEF P
    <3> HIDE DEF Q
    <3> QED BY <1>3, <3>1
  <2>2. Q[e] \in {"out", "freed"}
    <3> HIDE DEF Q
    <3> QED BY <1>1, <1>3, <2>1
  <2> QED BY <2>2 DEF Left
<1>4. CASE \E d \in Events : \/ Lifecycle!Create(d) \/ Lifecycle!Accept(d) \/ Lifecycle!Enter(d)
                            \/ Lifecycle!Leave(d) \/ Lifecycle!Free(d)
  <2>1. PICK d \in Events : \/ Lifecycle!Create(d) \/ Lifecycle!Accept(d) \/ Lifecycle!Enter(d)
                            \/ Lifecycle!Leave(d) \/ Lifecycle!Free(d)
    BY <1>4
  <2>2. \/ P[d] \in {"unborn"} /\ Q = [P EXCEPT ![d] = "ready"]
        \/ P[d] \in {"ready"} /\ Q = [P EXCEPT ![d] = "queued"]
        \/ P[d] \in {"queued"} /\ Q = [P EXCEPT ![d] = "watched"]
        \/ P[d] \in {"watched"} /\ Q = [P EXCEPT ![d] = "out"]
        \/ P[d] \in {"ready", "out"} /\ Q = [P EXCEPT ![d] = "freed"]
    BY <2>1 DEF Lifecycle!Create, Lifecycle!Accept, Lifecycle!Enter, Lifecycle!Leave,
       Lifecycle!Free, Lifecycle!Move
  <2>3. PICK to \in {"ready", "queued", "watched", "out", "freed"} :
          Q = [P EXCEPT ![d] = to] /\ (to = "freed" \/ P[d] \notin {"out", "freed"})
    <3> HIDE DEF P, Q
    <3> QED BY <2>2
  <2> QED BY <1>3, <2>3
<1>5. CASE \E unused \in SUBSET Events : Lifecycle!Shutdown(unused)
  <2>1. PICK unused \in SUBSET Events : Lifecycle!Shutdown(unused)
    BY <1>5
  <2>2. Q = [d \in Events |-> IF P[d] # "watched" THEN P[d]
                             ELSE IF d \in unused THEN "freed" ELSE "out"]
    BY <2>1 DEF Lifecycle!Shutdown
  <2> HIDE DEF P
  <2>3. Q[e] \in {"out", "freed"}
    <3> HIDE DEF Q
    <3> QED BY <1>1, <2>2
  <2> QED BY <2>3 DEF Left
<1>6. CASE \/ \E d \in Events : Lifecycle!Serve(d)
           \/ Lifecycle!Served \/ Lifecycle!Close \/ UNCHANGED Lifecycle!vars
  BY <1>2, <1>6 DEF Lifecycle!Serve, Lifecycle!Served, Lifecycle!Close, Lifecycle!vars
<1> QED BY <1>4, <1>5, <1>6 DEF Lifecycle!Next

\* Once the loop has let go of an event its callback never begins again, not for what was
\* already queued or read, nor through memory that was freed (h6_ev.c 409-450, 601-618).
THEOREM NoCallbackOnceOut ==
  ASSUME NEW e \in Events
  PROVE  Spec => [](Left(e) => []~InCallback(e))
<1>1. IInv /\ [Next]_vars /\ Left(e) => Left(e)'
  BY StepRefines, LeftStays
<1>2. IInv /\ Left(e) => ~InCallback(e)
  <2> SUFFICES ASSUME IInv, Left(e), Handling, cur = e PROVE FALSE
    BY DEF InCallback
  <2>1. in_loop[e] /\ mem[e] = "live"
    BY IInvImplies DEF HandledEventInLoop
  <2> QED BY <2>1 DEF Left, PhaseOf
<1> QED BY <1>1, <1>2, Invariance, PTL DEF Spec
=============================================================================

-------------------------------- MODULE H6Ev --------------------------------
(***************************************************************************)
(* The event loop of src/src/h6_ev.c: reference-counted events (h6_ev_t),  *)
(* the queue of asynchronous operations that any thread pushes under       *)
(* loop->lock and the loop thread executes, the wake-up pipe between them, *)
(* and the dispatch of I/O and timer callbacks.                            *)
(*                                                                         *)
(* Every section the code runs under loop->lock is one action; what it     *)
(* reads or writes outside the lock (loop_quited in h6_ev_loop_run, the    *)
(* read-modify-write of event->events, the reference dropped by            *)
(* h6_ev_loop_exec_operations) is a step of its own.  libev and the pipe   *)
(* are external: libev calls back only for watchers that are started, on   *)
(* the loop thread, one at a time.                                         *)
(***************************************************************************)
EXTENDS Integers, Sequences, FiniteSets

CONSTANTS Events,      \* the h6_ev_t objects
          Threads,     \* threads other than the loop's
          LoopThread,  \* the thread that calls h6_ev_loop_run
          Bits,        \* EV_READ, EV_WRITE
          NoEvent,     \* ops->event of the quit operation
          MaxOps       \* bound: operations queued or about to be queued

ASSUME ThreadsAssumption == IsFiniteSet(Threads) /\ LoopThread \notin Threads
ASSUME NoEventAssumption == NoEvent \notin Events
ASSUME MaxOpsAssumption == MaxOps \in Nat

VARIABLES
  mem,              \* [Events -> {"unborn", "live", "freed"}]
  ref_count,        \* event->ref_count
  holder,           \* threads that own a reference of their own (ghost)
  attached,         \* event->opt->loop # NULL
  events,           \* event->events, the bits the user asked for
  timeout,          \* event->timeout: -1 none, 0 one-shot, 1 any positive value
  in_loop,          \* event->flags & FLAGS_EVENT_IN_LOOP
  io,               \* bits the started ev_io watches, {} when stopped
  timer,            \* the ev_timer is started
  ev_list,          \* number of nodes of loop->ev_list that hold the event
  operations,       \* loop->operations
  request_pending,  \* loop->wakeup.request_pending
  pipe,             \* bytes in the wake-up pipe
  loop_quited,      \* loop->loop_quited
  broken,           \* ev_break(EVBREAK_ALL) has been called
  loop_pc,          \* where the loop thread is
  cur,              \* the event its callback or its operation is about
  call              \* per thread, a call in progress on event->events

eventVars == <<mem, ref_count, holder, attached, timeout>>
watchVars == <<in_loop, io, timer, ev_list>>
queueVars == <<operations, request_pending, pipe, loop_quited>>
loopVars  == <<broken, loop_pc, cur>>
vars == <<eventVars, events, watchVars, queueVars, loopVars, call>>

Procs == Threads \cup {LoopThread}
Timeouts == {-1, 0, 1}
Op(func, e) == [func |-> func, event |-> e]
QuitOp == Op("quit", NoEvent)
Ops == {Op(f, e) : f \in {"add", "remove", "modify"}, e \in Events} \cup {QuitOp}
NoCall == [at |-> "idle", event |-> NoEvent, value |-> {}, sync |-> FALSE]
Calls == {NoCall} \cup [at : {"store", "push", "apply"}, event : Events,
                        value : SUBSET Bits, sync : BOOLEAN]

TypeOK ==
  /\ mem \in [Events -> {"unborn", "live", "freed"}]
  /\ ref_count \in [Events -> Int]
  /\ holder \in [Events -> SUBSET Procs]
  /\ attached \in [Events -> BOOLEAN]
  /\ events \in [Events -> SUBSET Bits]
  /\ timeout \in [Events -> Timeouts]
  /\ in_loop \in [Events -> BOOLEAN]
  /\ io \in [Events -> SUBSET Bits]
  /\ timer \in [Events -> BOOLEAN]
  /\ ev_list \in [Events -> Nat]
  /\ operations \in Seq(Ops)
  /\ request_pending \in BOOLEAN
  /\ pipe \in Nat
  /\ loop_quited \in BOOLEAN
  /\ broken \in BOOLEAN
  /\ loop_pc \in {"start", "poll", "drop", "exec", "io", "timer", "done"}
  /\ cur \in Events \cup {NoEvent}
  /\ call \in [Procs -> Calls]

Init ==
  /\ mem = [e \in Events |-> "unborn"]
  /\ ref_count = [e \in Events |-> 0]
  /\ holder = [e \in Events |-> {}]
  /\ attached = [e \in Events |-> FALSE]
  /\ events = [e \in Events |-> {}]
  /\ timeout = [e \in Events |-> -1]
  /\ in_loop = [e \in Events |-> FALSE]
  /\ io = [e \in Events |-> {}]
  /\ timer = [e \in Events |-> FALSE]
  /\ ev_list = [e \in Events |-> 0]
  /\ operations = <<>>
  /\ request_pending = FALSE
  /\ pipe = 0
  /\ loop_quited = FALSE
  /\ broken = FALSE
  /\ loop_pc = "start"
  /\ cur = NoEvent
  /\ call = [t \in Procs |-> NoCall]

-----------------------------------------------------------------------------
(* Who may call what.  A thread works on an event it holds a reference to; *)
(* the dispatch callback also works on the event it is called for.         *)

Handling == loop_pc \in {"io", "timer"}

Free(t) ==
  /\ call[t] = NoCall
  /\ t = LoopThread => Handling

MayUse(t, e) ==
  /\ Free(t)
  /\ t \in holder[e] \/ (t = LoopThread /\ cur = e)

Room == Len(operations) + Cardinality({t \in Procs : call[t] # NoCall}) < MaxOps

-----------------------------------------------------------------------------
(* References *)

h6_ev_new(t, e, b) ==
  /\ Free(t)
  /\ mem[e] = "unborn"
  /\ mem' = [mem EXCEPT ![e] = "live"]
  /\ ref_count' = [ref_count EXCEPT ![e] = 1]
  /\ holder' = [holder EXCEPT ![e] = {t}]
  /\ events' = [events EXCEPT ![e] = b]
  /\ UNCHANGED <<attached, timeout, watchVars, queueVars, loopVars, call>>

\* t takes a reference and hands it to u
h6_ev_ref(t, u, e) ==
  /\ MayUse(t, e)
  /\ u \notin holder[e]
  /\ ref_count' = [ref_count EXCEPT ![e] = @ + 1]
  /\ holder' = [holder EXCEPT ![e] = @ \cup {u}]
  /\ UNCHANGED <<mem, attached, events, timeout, watchVars, queueVars, loopVars, call>>

\* the counter and the memory after h6_ev_unref(e)
Unref(e) ==
  /\ ref_count' = [ref_count EXCEPT ![e] = @ - 1]
  /\ mem' = [mem EXCEPT ![e] = IF ref_count[e] = 1 THEN "freed" ELSE @]

h6_ev_unref(t, e) ==
  /\ Free(t)
  /\ t \in holder[e]
  /\ Unref(e)
  /\ holder' = [holder EXCEPT ![e] = @ \ {t}]
  /\ UNCHANGED <<attached, events, timeout, watchVars, queueVars, loopVars, call>>

\* The check of opt->loop takes no lock ("race against h6_ev_loop_attach()"):
\* callers set the timeout before they share the event.
h6_ev_set_timeout(t, e, to) ==
  /\ MayUse(t, e)
  /\ holder[e] = {t}
  /\ ~attached[e]
  /\ timeout' = [timeout EXCEPT ![e] = to]
  /\ UNCHANGED <<mem, ref_count, holder, attached, events, watchVars, queueVars, loopVars, call>>

-----------------------------------------------------------------------------
(* Operations pushed under loop->lock *)

h6_ev_loop_wakeup ==
  /\ request_pending' = TRUE
  /\ pipe' = IF request_pending THEN pipe ELSE pipe + 1

Push(op) ==
  /\ operations' = Append(operations, op)
  /\ h6_ev_loop_wakeup

\* [mutant] queues the event without a reference
PushRef_borrowed(func, e) ==
  /\ Push(Op(func, e))
  /\ UNCHANGED ref_count

\* the reference that the queued operation owns
PushRef(func, e) ==
  /\ Push(Op(func, e))
  /\ ref_count' = [ref_count EXCEPT ![e] = @ + 1]

\* [mutant] attaches an event again
h6_ev_loop_attach_again(t, e) ==
  /\ MayUse(t, e) /\ Room
  /\ ~loop_quited
  /\ attached' = [attached EXCEPT ![e] = TRUE]
  /\ PushRef("add", e)
  /\ UNCHANGED <<mem, holder, timeout, events, watchVars, loop_quited, loopVars, call>>

\* After h6_ev_loop_quit the calls below take the lock and change nothing.
h6_ev_loop_attach(t, e) ==
  /\ MayUse(t, e) /\ Room
  /\ ~attached[e]
  /\ ~loop_quited
  /\ attached' = [attached EXCEPT ![e] = TRUE]
  /\ PushRef("add", e)
  /\ UNCHANGED <<mem, holder, timeout, events, watchVars, loop_quited, loopVars, call>>

h6_ev_loop_remove(t, e) ==
  /\ MayUse(t, e) /\ Room
  /\ attached[e]
  /\ ~loop_quited
  /\ PushRef("remove", e)
  /\ UNCHANGED <<mem, holder, attached, timeout, events, watchVars, loop_quited, loopVars, call>>

h6_ev_loop_quit(t) ==
  /\ Free(t)
  /\ ~loop_quited
  /\ loop_quited' = TRUE
  /\ Push(QuitOp)
  /\ UNCHANGED <<eventVars, events, watchVars, loopVars, call>>

-----------------------------------------------------------------------------
(* Changing event->events: the bits are read, then stored, without a lock; *)
(* then a modify operation is pushed, or, in the loop thread, the watcher  *)
(* is changed at once.                                                     *)

Begin(t, e, b, s) ==
  /\ call' = [call EXCEPT ![t] = [at |-> "store", event |-> e, value |-> b, sync |-> s]]
  /\ UNCHANGED <<eventVars, events, watchVars, queueVars, loopVars>>

h6_ev_add_events(t, e, b) ==
  /\ MayUse(t, e) /\ Room
  /\ ~(b \subseteq events[e])
  /\ Begin(t, e, events[e] \cup b, FALSE)

h6_ev_remove_events(t, e, b) ==
  /\ MayUse(t, e) /\ Room
  /\ b \cap events[e] # {}
  /\ Begin(t, e, events[e] \ b, FALSE)

h6_ev_add_events_sync(e, b) ==
  /\ Handling /\ cur = e /\ call[LoopThread] = NoCall /\ Room
  /\ ~(b \subseteq events[e])
  /\ Begin(LoopThread, e, events[e] \cup b, TRUE)

h6_ev_remove_events_sync(e, b) ==
  /\ Handling /\ cur = e /\ call[LoopThread] = NoCall /\ Room
  /\ b \cap events[e] # {}
  /\ Begin(LoopThread, e, events[e] \ b, TRUE)

StoreEvents(t) ==
  /\ call[t].at = "store"
  /\ events' = [events EXCEPT ![call[t].event] = call[t].value]
  /\ call' = [call EXCEPT ![t].at = IF call[t].sync THEN "apply" ELSE "push"]
  /\ UNCHANGED <<eventVars, watchVars, queueVars, loopVars>>

h6_ev_loop_modify_event(t) ==
  /\ call[t].at = "push"
  /\ IF attached[call[t].event] /\ ~loop_quited
       THEN PushRef("modify", call[t].event)
       ELSE UNCHANGED <<operations, request_pending, pipe, ref_count>>
  /\ call' = [call EXCEPT ![t] = NoCall]
  /\ UNCHANGED <<mem, holder, attached, timeout, events, watchVars, loop_quited, loopVars>>

\* [mutant] does not stop the watcher first
h6_ev_loop_sync_io_modified_nostop(e) ==
  io' = [io EXCEPT ![e] = IF in_loop[e] THEN @ \cup events[e] ELSE @]

\* ev_io_stop, then ev_io_start when there are bits left; nothing when the
\* event is not in the loop
h6_ev_loop_sync_io_modified(e) ==
  io' = [io EXCEPT ![e] = IF in_loop[e] THEN events[e] ELSE @]

SyncIoModified(t) ==
  /\ call[t].at = "apply"
  /\ h6_ev_loop_sync_io_modified(call[t].event)
  /\ call' = [call EXCEPT ![t] = NoCall]
  /\ UNCHANGED <<eventVars, events, in_loop, timer, ev_list, queueVars, loopVars>>

h6_ev_mod_timer_sync(e) ==
  /\ Handling /\ cur = e /\ call[LoopThread] = NoCall
  /\ timeout' = [timeout EXCEPT ![e] = 1]
  /\ timer' = [timer EXCEPT ![e] = TRUE]
  /\ UNCHANGED <<mem, ref_count, holder, attached, events, in_loop, io, ev_list,
                 queueVars, loopVars, call>>

-----------------------------------------------------------------------------
(* Operations executed by the loop thread, under loop->lock *)

\* [mutant] the list takes no reference of its own
h6_ev_loop_ops_add_borrowed(e) ==
  /\ ev_list' = [ev_list EXCEPT ![e] = @ + 1]
  /\ in_loop' = [in_loop EXCEPT ![e] = TRUE]
  /\ io' = [io EXCEPT ![e] = events[e]]
  /\ timer' = [timer EXCEPT ![e] = @ \/ timeout[e] >= 0]
  /\ UNCHANGED <<ref_count, mem, broken>>

h6_ev_loop_ops_add(e) ==
  /\ ev_list' = [ev_list EXCEPT ![e] = @ + 1]
  /\ ref_count' = [ref_count EXCEPT ![e] = @ + 1]
  /\ in_loop' = [in_loop EXCEPT ![e] = TRUE]
  /\ io' = [io EXCEPT ![e] = events[e]]
  /\ timer' = [timer EXCEPT ![e] = @ \/ timeout[e] >= 0]
  /\ UNCHANGED <<mem, broken>>

\* [mutant] leaves the timer running
SyncRemove_timer_runs(S) ==
  /\ in_loop' = [e \in Events |-> in_loop[e] /\ e \notin S]
  /\ io' = [e \in Events |-> IF e \in S THEN {} ELSE io[e]]
  /\ UNCHANGED timer

\* h6_ev_loop_sync_remove for every event of S; the timer is only stopped
\* when event->timeout says that there is one
SyncRemove(S) ==
  /\ in_loop' = [e \in Events |-> in_loop[e] /\ e \notin S]
  /\ io' = [e \in Events |-> IF e \in S THEN {} ELSE io[e]]
  /\ timer' = [e \in Events |-> timer[e] /\ ~(e \in S /\ timeout[e] >= 0)]

\* [mutant] does not ask whether the event is in the list
h6_ev_loop_ops_remove_unchecked(e) ==
  /\ ev_list' = [ev_list EXCEPT ![e] = @ - 1]
  /\ SyncRemove({e})
  /\ Unref(e)
  /\ UNCHANGED broken

h6_ev_loop_ops_remove(e) ==
  IF ev_list[e] > 0
    THEN /\ ev_list' = [ev_list EXCEPT ![e] = @ - 1]
         /\ SyncRemove({e})
         /\ Unref(e)
         /\ UNCHANGED broken
    ELSE UNCHANGED <<watchVars, ref_count, mem, broken>>

\* [mutant] does nothing
h6_ev_loop_ops_modify_lost(e) ==
  UNCHANGED <<io, in_loop, timer, ev_list, ref_count, mem, broken>>

h6_ev_loop_ops_modify(e) ==
  /\ h6_ev_loop_sync_io_modified(e)
  /\ UNCHANGED <<in_loop, timer, ev_list, ref_count, mem, broken>>

\* [mutant] does not break out of ev_run
h6_ev_loop_ops_quit_nobreak ==
  /\ SyncRemove({e \in Events : ev_list[e] > 0})
  /\ ref_count' = [e \in Events |-> ref_count[e] - ev_list[e]]
  /\ mem' = [e \in Events |->
               IF ev_list[e] > 0 /\ ref_count[e] = ev_list[e] THEN "freed" ELSE mem[e]]
  /\ ev_list' = [e \in Events |-> 0]
  /\ UNCHANGED broken

\* h6_ev_realse_one on every node of loop->ev_list, then ev_break
h6_ev_loop_ops_quit ==
  /\ SyncRemove({e \in Events : ev_list[e] > 0})
  /\ ref_count' = [e \in Events |-> ref_count[e] - ev_list[e]]
  /\ mem' = [e \in Events |->
               IF ev_list[e] > 0 /\ ref_count[e] = ev_list[e] THEN "freed" ELSE mem[e]]
  /\ ev_list' = [e \in Events |-> 0]
  /\ broken' = TRUE

RunOp(op) ==
  \/ op.func = "add" /\ h6_ev_loop_ops_add(op.event)
  \/ op.func = "remove" /\ h6_ev_loop_ops_remove(op.event)
  \/ op.func = "modify" /\ h6_ev_loop_ops_modify(op.event)
  \/ op.func = "quit" /\ h6_ev_loop_ops_quit

\* queue_pop_head and (*ops->func)(loop, ops), between two unlocks
PopAndRun ==
  /\ operations # <<>>
  /\ operations' = Tail(operations)
  /\ RunOp(Head(operations))
  /\ cur' = Head(operations).event
  /\ loop_pc' = IF Head(operations).event = NoEvent THEN "exec" ELSE "drop"
  /\ UNCHANGED <<holder, attached, timeout, events, loop_quited, call>>

\* the queue is empty: h6_ev_loop_exec_operations returns to libev
QueueDrained ==
  /\ operations = <<>>
  /\ loop_pc' = "poll"
  /\ cur' = NoEvent
  /\ UNCHANGED <<eventVars, events, watchVars, operations, loop_quited, broken, call>>

\* [mutant] leaves request_pending set
h6_ev_loop_wakeup_cb_pending ==
  /\ loop_pc = "poll" /\ ~broken
  /\ pipe > 0
  /\ pipe' = pipe - 1
  /\ UNCHANGED request_pending
  /\ PopAndRun \/ QueueDrained

h6_ev_loop_wakeup_cb ==
  /\ loop_pc = "poll" /\ ~broken
  /\ pipe > 0
  /\ request_pending' = FALSE
  /\ pipe' = pipe - 1
  /\ PopAndRun \/ QueueDrained

\* [mutant] keeps the reference of the operation
DropOp_leak ==
  /\ loop_pc = "drop"
  /\ loop_pc' = "exec"
  /\ UNCHANGED <<eventVars, events, watchVars, queueVars, broken, cur, call>>

\* the reference of the executed operation is dropped without the lock
DropOp ==
  /\ loop_pc = "drop"
  /\ Unref(cur)
  /\ loop_pc' = "exec"
  /\ UNCHANGED <<holder, attached, timeout, events, watchVars, queueVars, broken, cur, call>>

\* [mutant] executes one operation per wake-up
h6_ev_loop_exec_operations_once ==
  /\ loop_pc = "exec"
  /\ loop_pc' = "poll"
  /\ cur' = NoEvent
  /\ UNCHANGED <<eventVars, events, watchVars, queueVars, broken, call>>

\* Before this step the code still reads ops->event->ref_count for its trace,
\* although DropOp may have freed the event.
h6_ev_loop_exec_operations ==
  /\ loop_pc = "exec"
  /\ PopAndRun \/ QueueDrained
  /\ UNCHANGED <<request_pending, pipe>>

-----------------------------------------------------------------------------
(* Running the loop and dispatching *)

h6_ev_loop_run ==
  /\ loop_pc = "start"
  /\ loop_pc' = IF loop_quited THEN "done" ELSE "poll"
  /\ UNCHANGED <<eventVars, events, watchVars, queueVars, broken, cur, call>>

\* ev_run returns after ev_break
RunReturns ==
  /\ loop_pc = "poll"
  /\ broken
  /\ loop_pc' = "done"
  /\ UNCHANGED <<eventVars, events, watchVars, queueVars, broken, cur, call>>

h6_ev_cb_io(e) ==
  /\ loop_pc = "poll"
  /\ io[e] # {}
  /\ loop_pc' = "io"
  /\ cur' = e
  /\ UNCHANGED <<eventVars, events, watchVars, queueVars, broken, call>>

\* libev stops a timer that does not repeat when it fires
h6_ev_cb_timeout(e) ==
  /\ loop_pc = "poll"
  /\ timer[e]
  /\ timer' = [timer EXCEPT ![e] = timeout[e] # 0]
  /\ loop_pc' = "timer"
  /\ cur' = e
  /\ UNCHANGED <<eventVars, events, in_loop, io, ev_list, queueVars, broken, call>>

\* The callback returns; ok is its result.  After I/O the timer is armed again.
HandlerReturns(ok) ==
  /\ Handling
  /\ call[LoopThread] = NoCall
  /\ timer' = [timer EXCEPT ![cur] = @ \/ (loop_pc = "io" /\ ok /\ timeout[cur] > 0)]
  /\ loop_pc' = "poll"
  /\ cur' = NoEvent
  /\ UNCHANGED <<eventVars, events, in_loop, io, ev_list, queueVars, broken, call>>

-----------------------------------------------------------------------------
ApiStep(t, e) ==
  \/ \E b \in SUBSET Bits : h6_ev_new(t, e, b)
  \/ \E u \in Procs : h6_ev_ref(t, u, e)
  \/ h6_ev_unref(t, e)
  \/ \E to \in Timeouts : h6_ev_set_timeout(t, e, to)
  \/ h6_ev_loop_attach(t, e)
  \/ h6_ev_loop_remove(t, e)
  \/ \E b \in SUBSET Bits : h6_ev_add_events(t, e, b) \/ h6_ev_remove_events(t, e, b)

SyncStep(e) ==
  \/ \E b \in SUBSET Bits : h6_ev_add_events_sync(e, b) \/ h6_ev_remove_events_sync(e, b)
  \/ h6_ev_mod_timer_sync(e)

CallStep(t) == StoreEvents(t) \/ h6_ev_loop_modify_event(t) \/ SyncIoModified(t)

LoopStep ==
  \/ h6_ev_loop_run
  \/ DropOp
  \/ h6_ev_loop_exec_operations
  \/ RunReturns

Dispatch(e) == h6_ev_cb_io(e) \/ h6_ev_cb_timeout(e)

Return == \E ok \in BOOLEAN : HandlerReturns(ok)

Next ==
  \/ \E t \in Procs, e \in Events : ApiStep(t, e)
  \/ \E t \in Procs : h6_ev_loop_quit(t) \/ CallStep(t)
  \/ \E e \in Events : SyncStep(e) \/ Dispatch(e)
  \/ LoopStep
  \/ h6_ev_loop_wakeup_cb
  \/ Return

Spec == Init /\ [][Next]_vars

\* A thread in the middle of a call goes on; the loop thread goes on; a
\* callback returns; libev serves every ready descriptor of an iteration, so a
\* readable wake-up pipe is not passed over for ever by other events.
Fairness ==
  /\ \A t \in Procs : WF_vars(CallStep(t))
  /\ WF_vars(LoopStep)
  /\ SF_vars(h6_ev_loop_wakeup_cb)
  /\ SF_vars(Return)

FairSpec == Spec /\ Fairness

-----------------------------------------------------------------------------
(* Safety *)

\* queued operations that hold a reference to e
OpsIn(q, e) == {i \in DOMAIN q : q[i].event = e}
OpsOn(e) == OpsIn(operations, e)

\* the operation being executed holds one too, until DropOp
Executing(e) == IF loop_pc = "drop" /\ cur = e THEN 1 ELSE 0

\* Every reference counted has exactly one owner: a thread, a queued or
\* executing operation, or a node of ev_list (h6_ev.c:356, 384).
RefConservation ==
  \A e \in Events :
    ref_count[e] = Cardinality(holder[e]) + Cardinality(OpsOn(e)) + ev_list[e] + Executing(e)

\* The event is freed by the last h6_ev_unref and only then.
LiveIffReferenced == \A e \in Events : mem[e] = "live" <=> ref_count[e] > 0

\* ev_list holds an event once, exactly while it is flagged FLAGS_EVENT_IN_LOOP.
ListedOnce == \A e \in Events : ev_list[e] = IF in_loop[e] THEN 1 ELSE 0

\* A watcher that libev may call back belongs to an event of the loop: no
\* callback runs for an event that was removed or freed (container_of at 604).
WatchedInLoop == \A e \in Events : (io[e] # {} \/ timer[e]) => in_loop[e]

\* While a callback runs, and when its timer is armed again after it
\* (h6_ev_cb_io), the event is in the loop and its memory is there, whatever
\* other threads removed or released meanwhile.
HandledEventInLoop == Handling => cur \in Events /\ in_loop[cur] /\ mem[cur] = "live"

\* The add operation of an event is the first operation on it and the only
\* add, and before it nothing refers to the event: remove and modify never run
\* ahead of it (h6_ev_loop_attach sets opt->loop and pushes under one lock).
AddFirst ==
  /\ \A i \in DOMAIN operations : operations[i].func = "add" =>
       LET e == operations[i].event IN
         /\ attached[e] /\ ~in_loop[e]
         /\ \A j \in DOMAIN operations : operations[j].event = e /\ j # i =>
              j > i /\ operations[j].func # "add"
  /\ \A e \in Events : ~attached[e] => OpsOn(e) = {} /\ ~in_loop[e] /\ Executing(e) = 0

\* A thread in the middle of a change to event->events keeps the event alive:
\* it holds a reference, or it runs the event's callback.
CallerKeepsEvent ==
  \A t \in Procs : call[t] # NoCall =>
    \/ t \in holder[call[t].event]
    \/ t = LoopThread /\ Handling /\ cur = call[t].event

\* The byte in the pipe and request_pending say the same: h6_ev_block_woken_up
\* never blocks in read and bytes never pile up.
PipeMatchesPending == pipe = IF request_pending THEN 1 ELSE 0

\* No lost wake-up: operations wait in the queue only when a wake-up is
\* pending or the loop thread is draining the queue.
NoLostWakeup == operations # <<>> => request_pending \/ loop_pc \in {"drop", "exec"}

\* Nothing is queued behind the quit operation, and once it has run nothing is
\* queued, in the loop or watched any more.
QuitIsLast ==
  /\ \A i \in DOMAIN operations : operations[i] = QuitOp => i = Len(operations)
  /\ loop_quited <=> (broken \/ \E i \in DOMAIN operations : operations[i] = QuitOp)
  /\ broken => operations = <<>> /\ \A e \in Events : ev_list[e] = 0

\* The bits libev watches follow the bits the user asked for: they differ only
\* while a modify operation is queued or about to be, or after a quit.
ModifyPending(e) ==
  \/ Op("modify", e) \in {operations[i] : i \in DOMAIN operations}
  \/ \E t \in Procs : call[t].event = e /\ call[t].at \in {"push", "apply"}

IoInSync ==
  \A e \in Events : in_loop[e] => io[e] = events[e] \/ ModifyPending(e) \/ loop_quited

\* The memory of a freed event is never written again.
FreedUntouched ==
  [][\A e \in Events : mem[e] = "freed" =>
       /\ mem'[e] = "freed" /\ ref_count'[e] = ref_count[e]
       /\ <<events'[e], io'[e], timer'[e], in_loop'[e]>>
            = <<events[e], io[e], timer[e], in_loop[e]>>]_vars

-----------------------------------------------------------------------------
(* The inductive invariant: the properties above, and what they rest on    *)

TimerHasTimeout == \A e \in Events : timer[e] => timeout[e] >= 0

DropHasEvent == loop_pc = "drop" => cur \in Events

UnbornFresh == \A e \in Events : mem[e] = "unborn" => ~attached[e]

WakeupInv == PipeMatchesPending /\ NoLostWakeup

WatchInv ==
  /\ AddFirst
  /\ ListedOnce
  /\ WatchedInLoop
  /\ TimerHasTimeout
  /\ DropHasEvent
  /\ Handling => cur \in Events /\ in_loop[cur]

RefInv ==
  /\ RefConservation
  /\ LiveIffReferenced
  /\ CallerKeepsEvent
  /\ UnbornFresh

\* Together they survive every step of the loop and of its callers.
IInv == TypeOK /\ WakeupInv /\ QuitIsLast /\ WatchInv /\ RefInv /\ IoInSync

-----------------------------------------------------------------------------
(* Liveness, under FairSpec *)

\* h6_ev_loop_quit makes h6_ev_loop_run return.
QuitEndsRun == loop_quited ~> loop_pc = "done"

Running == loop_pc \notin {"start", "done"}

\* A remove operation queued to a running loop takes the event out of it.
RemoveTakesEffect ==
  \A e \in Events :
    (Running /\ in_loop[e] /\ Op("remove", e) \in {operations[i] : i \in DOMAIN operations})
      ~> ~in_loop[e]

\* Once a loop that ran is told to quit, an event that no thread refers to is
\* freed: the loop keeps no reference to it.
QuitReleasesEvents ==
  \A e \in Events :
    (Running /\ loop_quited /\ mem[e] = "live" /\ holder[e] = {})
      ~> (mem[e] = "freed" \/ holder[e] # {})

\* The loop adopts the bits a caller asked for, or the event leaves it.
IoConverges ==
  \A e \in Events : Running ~> (io[e] = events[e] \/ ~in_loop[e])

=============================================================================

# Verification of h6

TLA+ models of h6 (a proxy and relay server in C on top of libev and pthreads),
their TLC runs, and proofs checked by TLAPS. Line numbers refer to `src/src/*.c`
and `src/include/*.h`.

## 1. The system

| Part | State | Operations | Interacts with |
|---|---|---|---|
| event loop (`h6_ev.c`) | per event: reference count, requested bits, timeout, flags, libev watchers; per loop: queue of operations, `ev_list`, wake-up pipe, `loop_quited`, a lock | new, ref, unref, set_timeout, attach, remove, add/remove events (queued or sync), mod_timer_sync, run, quit | any thread queues operations under `loop->lock`; the loop thread executes them when the pipe wakes it, and dispatches callbacks |
| scheduler (`h6_sched.c`) | loops with weights, list of placed events, a lock | new, add, remove, free | one thread per loop; attaches to and removes from loops |
| listener, listener set (`listener.c`) | counted objects in a locked list | alloc, bind, kill, add, del | the server owns the set; the set owns a reference to each listener |
| h6 listener (`h6_listener.c`) | socket, port, event | set_port, fin, callback on_event | event loop through the scheduler; its callback adds clients to the server |
| server (`h6_basic_server.c`, `h6_local_proxy_server.c`, `main.c`) | `run` flag, scheduler, two sets | alloc, run, bind_port, remove_port, kill | everything above |
| client, client set (`client.c`) | counted objects in a locked list, back pointer | alloc, attach, kill, add, del | proto watch through network_client |
| proto watch (`proto_watch.c`, not built) | connecting flag, write buffer, backlog, window, killed state, a lock | write, set_dst, attach, kill, dispatch | an event of the loop; callbacks run outside its lock |
| network client (`network_client.c`, not built) | killed state, pointer to its watch | send, consumable, kill, closed/error callbacks | proto watch and client |
| memory blocks (`mem_block.c`) | cache of free blocks | alloc, free, gather | proto watch |
| trace (`trace.c`) | ring buffer, positions with lap counters, semaphore, worker thread | write, print, free | every thread traces |
| objects, lists, queue (`obj.c`, `queue.c`, `list.h`) | counters, links | ref, unref, insert, remove, push, pop | used by all |

The rest is I/O (`unix_sock.c`), tables of functions (`proto_parser.c`,
`h6_factory*.c`), or early code that is not in `src/Makefile.am` and does not
compile against the present headers (`h6_client*.c`, `h6_server.c`,
`h6_listen_server.c`, `h6_relay_set.c`; of it only `h6_client_new` is modelled).

What is hard here: events are shared between threads by reference counting while
the loop thread calls back into them; removal is asynchronous, so a callback may
run after its owner asked for removal; event bits are changed without a lock;
shutdown races everything; the trace ring releases its lock between looking at
the free space and using it. The full list, with lines, is `hazards` in
`PROJECT.json`.

What makes each part correct:

* event loop: references are conserved; a callback runs only for an event that
  is in the loop and alive; operations run in the order of the calls; no
  wake-up is lost; quit is the last operation, ends the run and lets go of
  every event; libev watches what was asked for.
* scheduler: weights add up; an event is removed from the loop it was added to;
  the least loaded loop is chosen.
* listeners, clients, sets, server: an object is a member of one set, is freed
  once, after its last callback; kill of the set and kill of a member do not
  meet in a deadlock.
* proto watch: bytes leave in order, the backlog counter matches the backlog,
  EV_WRITE is requested whenever there is text to send, and every message block
  is freed once.
* lists and queue: links agree in both directions, and what they hold is a
  sequence.
* trace: text is printed once, in order, completely, and the worker ends.

## 2. Modules

| Module | Models |
|---|---|
| `H6Ev` | the event loop: the core of the project |
| `EvLifecycle` | what the event loop promises about each event, without threads, counters or queue |
| `H6EvRefinement` | the mapping from `H6Ev` to `EvLifecycle` |
| `H6EvProofs` | theorems about `H6Ev` |
| `H6EvRefinementProofs` | theorems that `H6Ev` implements `EvLifecycle`, and what follows for callbacks |
| `TraceRing` | the trace ring, its writers and its worker |
| `H6Sched` | the scheduler, and the loops and threads it owns, as operators over its state |
| `LocalProxy` | the server, its listener set and its listeners, composed with `H6Sched` |
| `ProtoWatch` | a connection: the proto watch, its event, the network client |
| `ClientSet` | the clients of a server and their set, with the references between client, watch and loop, and the kill of the server |
| `Lists` | what `queue.c` promises: a queue and lists, as sequences |
| `H6Queue` | `queue.c` on a heap of linked nodes, and its mapping to `Lists` |
| `Sums` | the sum of a function over a finite set, for weights and bytes |
| `DataLemmas` | lemmas the proofs share: lists without repetitions, induction over finite sets, numbers and lists, recursion along a list, finite sums |
| `TraceRingProofs`, `LocalProxyProofs`, `ProtoWatchProofs`, `ClientSetProofs`, `H6QueueProofs` | theorems about the module of the same name |
| `MC*` | instances for TLC |

### H6Ev

One action per section that the code runs under `loop->lock`; the accesses that
the code makes outside it are steps of their own:

* `h6_ev_loop_attach`, `h6_ev_loop_remove`, `h6_ev_loop_quit`,
  `h6_ev_loop_modify_event` push an operation and wake the loop up
  (`Push`, `h6_ev_loop_wakeup`).
* `h6_ev_add_events` and its three relatives read `event->events`
  (`Begin`), store the new value (`StoreEvents`), and then push a modify
  operation or change the watcher at once (`SyncIoModified`): three steps, since
  the read-modify-write has no lock.
* `h6_ev_loop_wakeup_cb` takes the byte and the first operation in one locked
  section; each further operation is `h6_ev_loop_exec_operations`; between two
  operations the lock is free and the reference of the executed one is dropped
  (`DropOp`).
* `h6_ev_cb_io`, `h6_ev_cb_timeout`, `HandlerReturns`: libev dispatches a started
  watcher, the callback may call any function of the API (the actions above with
  `t = LoopThread`), and returns; after I/O the timer may be armed again.

Who may call what is a precondition, `MayUse`: a thread works on an event it
holds a reference to, and the loop thread also on the event whose callback it
runs. `holder` is the ghost that records it. `h6_ev_set_timeout` checks
`opt->loop` without the lock ("race against h6_ev_loop_attach()"); its callers
(`h6_listener.c:200`, `proto_watch.c:405`) call it before the event is shared, and
so does the model. Timeouts are -1 (none), 0 (one shot) and 1 (any positive
value), event bits are sets, every event has a descriptor. libev is external: it
calls back only for a started watcher, one at a time, on the loop thread;
`ev_timer` repeats iff its timeout is positive; `ev_run` returns after
`ev_break` when the pending callback is finished.

`EvLifecycle` is the abstract promise: `unborn -> ready -> queued -> watched ->
out -> freed`, an event enters once and only while the loop is open, its callback
runs only while it is watched, it neither leaves nor is freed under its
callback, and shutdown happens when nothing is left queued. `ImplementsLifecycle`
says that `H6Ev` implements it.

### TraceRing

Every section under `buf->mutex`, every `sem_getvalue`, `sem_post` and
`sem_wait` is one action. Positions are unsigned words modulo `Word`, and so are
the lap counters, so wrap-around of the counters is reached in the small
instances. A line is a number of equal bytes. Two ghosts: `pending` is the text
written and not printed yet; `crowded` says whether a copy was ever made that fills the
whole ring, or that takes room which another thread has seen free and is about to copy
into (`Crowds`), which is what `trace.c:234` lets happen. `cycle` in `trace_print_until_zero` is not
initialised; it starts with any value of `Garbage`.

### H6Sched and LocalProxy

`H6Sched` has the weights of the loops, the list of placed events, and what a loop
does with an event. The loops are abstract: they follow `EvLifecycle`, which
`H6Ev` implements, and `FollowsLifecycle` checks that the composition uses them
within that promise. A loop here also has a thread, created by `h6_sched_new`,
that may find the loop told to quit before it runs (`h6_ev.c:246`).

`LocalProxy` extends it with the calls of `main.c`: run, bind_port, remove_port and
kill_unref, made by one thread. Each is cut where a loop's thread can meet it:
`bind_port` creates the listener and its event, places the event
(`h6_listener_set_port`, from where the callback may run), adds the listener to
the set and drops its own reference; a listener's finalizer asks the loop to
remove the event, releases the event, closes the socket and frees the listener,
without waiting for the loop. The server gives its listeners no operations, so no
client is generated (`h6_local_proxy_server.c:118`); `ClientSet` models what happens
with listeners that have them. Two reads of memory that was
never assigned or was released (`listener.c:88`, `h6_local_proxy_server.c:42`) are a
choice between an abort and going on. A third, `lt->ops` in the destroy
notification of the event (`h6_listener.c:64`), is not: `Notified` goes on with no effect,
as it does while the freed memory keeps the listener's NULL, and that freed listeners
are used is the disagreement `local_proxy_callback`.

### ProtoWatch

The state is that of `struct __proto_watch` and of its event, the pending call of
each thread and where the loop thread is. `MayCall` says who calls: another thread
between its calls, and the loop thread inside a callback of the client, when the
lock is released. A call of another thread runs under `w->lock` in one action; the
loop thread, which holds the lock in `__proto_watch_write_pending`, is cut at each
`send` and around the change of `event->events`, and `LockFree` keeps the others
out. `h6_ev_add_events` runs without the lock, in three steps: look at the bit,
set it, queue the modify operation. The event is in a loop that follows
`EvLifecycle` and is not told to quit; operations on it are counted (`ev.modify`,
`ev.asked`), and each holds a reference.

Messages have a number, a sequence number, a size, how much was sent, and the
droppable flag. `due` is the one ghost: the message of every byte that was taken and
neither sent nor dropped, so that `StreamIntact` compares it with the buffers. A
send takes any part, asks to come back, or fails; a connection that failed stays
failed. The parser and the client's own callbacks are external: they may do
nothing, deliver a message, or end the connection. `out` counts the message blocks
in use (`alloc_memblock`, `free_memblock`), and `MessagesAccounted` compares it with
the messages that buffers and calls hold.

### ClientSet

`ProtoWatch` looks into one connection; `ClientSet` looks at several from outside.
A client has its counter, its killed state, the pointer to its watch, the back
pointer `c->cs` and its links; a watch has its counter and the loop that has it.
The actions follow an accepted client: `listener_generate`, `client_set_add`,
`network_client_attach` (which reads `nc->proto_watch` without the lock) and
`proto_watch_attach` on the accepting loop, then its uses by other threads
(`network_client_ref`, `network_client_send_msg`, `ReturnWatch`), and the kill, which
any thread may do: `network_client_self_kill`, `proto_watch_kill`,
`proto_watch_unref`, `client_set_del`, `client_unref`, each a step of its own. A callback
has its steps, too: `proto_watch_dispath` finds the watch alive, `network_client_msg_recv`
the client, and `conn_closed` takes its reference, so a kill may come between any two.

The main thread kills the server. `client_set_self_kill` takes the set's lock and keeps
it while it kills one client after the other (`KillNext`), `client_set_unlock` releases
it, `client_set_fin_this` looks at the list without it and asserts that it is empty, and
`client_set_free` frees the set: an accept that waits for the lock may enter the set
before each of the last two. If before the assertion, the process aborts; if behind it,
the set goes with a member, whose watch may still be attached and served (`Listed`
names it in `ReferencesCounted`). Then one loop after the other is told to quit
(`h6_ev_loop_quit`), executes what is queued, lets go of its events
(`h6_ev_realse_one`), returns (`LoopEnds`) and is joined and freed (`JoinLoop`); which is
first is left open, since the accepting loop may be any. A loop told to quit refuses
watches (`PlaceWatch`) and removals. Loops are running when they are told: the one that
is told before its thread runs is in `LocalProxy`.

Six steps use freed memory: the set's lock in `client_set_add` and `client_set_del`
(`AddToFreedSet`, `DelFromFreedSet`), the watch that a kill took from an accept
(`AttachFreed`), and a loop that is gone, at attach, at a write and at a kill
(`AttachToFreedLoop`, `WriteInFreedLoop`, `KillInFreedLoop`). After them nothing more is
said (`undefined`), and `ReferencesCounted` says when they can happen at all. A kill never
meets a watch that was refused (`BUG_ON` at `h6_ev.c:463`): only the kill of the set
could find one, and it is over. That every handler may keep a client that it gets in a
callback, with `network_client_ref`, is how the code means handlers to be written;
their implementations are not in the repository.

### H6Queue and Lists

A heap of nodes (`data`, `next`, `prev`), the queue with its head, tail and count, and
bare lists. The operators named after the functions of `queue.c` are the heap after
the call, pointer by pointer; a walk is `Path`. The abstract side, `Lists`, has
sequences. `queue_pop_tail` compares `queue->tail` with itself and so forgets every
node but the last (`queue.c:354`): the heap calls them "lost", `forgotten` is what the
count still counts of them, and in `Lists` the queue is empty afterwards. Nothing in
the repository calls it.

## 3. Runs

| Run | Question | Bounds |
|---|---|---|
| `ev_loop` | references, dispatch, wake-up, quit and event bits; the inductive invariant; the life cycle; do queued operations take effect, does quit end the run and free the events | two threads and the loop, one event, two bits, `MaxOps` = 2 operations queued or about to be |
| `trace_one_writer` | order, completeness, wake-up, shutdown; progress of the writer and of the text | ring of 3 bytes, lines of 1 and 2, two texts, words of 8 values |
| `trace_exit_garbage`, `trace_full_line`, `trace_overrun` | disagreements, section 5 | one thread; a line as long as the ring; two threads |
| `local_proxy` | do weights, lists, reference counts and lifetimes agree through bind, remove and kill; does a kill end and leave nothing behind | two listeners, two ports, two loops |
| `local_proxy_callback` | disagreement, section 5 | one listener, one port, one loop |
| `client_set` | references of clients and watches, membership, and the end of every kill, against the kill of the server | two clients, two loops, one other thread |
| `client_set_kill`, `client_set_fin` | disagreements, section 5 | one client, one loop |
| `h6_queue` | well-formed links; lists and queue implement sequences | four nodes, two data, a queue and two lists |
| `proto_watch` | order and completeness of the bytes, backlog and window, message blocks, EV_WRITE, references, silence after a kill; progress of text and of a kill | a thread and the loop, two messages of 1 or 2 bytes, backlog of 2, window of 1, sequence numbers that wrap between the two |

Why the bounds are enough. One event with two other threads shows the races on an
event. Events interact only through the order of the queue and the shutdown, and
the theorems of section 4 hold for any number of events, threads and operations;
among the properties of `ev_loop` only the four of liveness rest on the run. The same
is true of `trace_one_writer`, `local_proxy`, `proto_watch`, `client_set` and `h6_queue`:
their safety properties are proved for every instance (order and completeness of the
trace until a copy crowds the ring, which one thread with short lines never does). Two
operations in flight are enough for every pair (add, remove, modify, quit) to meet
in the queue while a third has just been executed. `MaxOps` bounds operations
queued or about to be, in the guard `Room`; `h6_ev_loop_quit` is not bounded since it
happens once. In `TraceRing` the positions take every value from 0 to
the size in every combination, and `Word` is a little more than twice the size,
the least that keeps the sums of the code within a word.

In `local_proxy` two listeners on two loops are the least for which placement is a
choice, and a listener is used once: the code never reuses one. In `proto_watch` two
messages reach a full backlog (2 and 1 bytes), a drop by the window (the first
waits for the connection, the second is two numbers on), a partial send with a
message behind it, and a `send` that races the removal of EV_WRITE; three bytes are
enough to see a byte lost, doubled or out of place. `proto_watch_set_dst`, which
nothing in the repository calls, happens before the first write and before attach.

In `client_set` two clients let one be killed while the other is in every other
stage, two loops let a client be closed by a loop while it is accepted by the
other, and one further thread lets three parties kill at once with the main
thread; one of the two may enter the set late, while the other has left it. In
`h6_queue` four nodes reach a removal from the middle, the head and the
tail of a list of three while another list has one, and every way to join two
lists; nodes and data are symmetric, since they are compared for equality only,
and the run has no liveness property.

CHECK_DEADLOCK is FALSE in every run: a loop that returned, with every event
freed, a ring that was freed, a killed server and a killed connection stop, and
so does a kill of a client set that waits for its own lock, or whose assertion fails.
(In `h6_queue` calls
never end.)

### Fairness

`H6Ev!Fairness`: a thread inside a call goes on (`CallStep`), the loop thread goes
on (`LoopStep`), both weakly. `h6_ev_loop_wakeup_cb` is strongly fair because libev
collects all ready descriptors of an iteration and calls back for each of them:
other events cannot keep a readable pipe from being served for ever, although each
callback makes the action momentarily disabled. `Return` is strongly fair: a
callback returns; between its calls into the API it is momentarily not
returning. Nothing is assumed of the callers: nobody has to attach, remove or
quit, and events need not become ready.

`TraceRing!FairSpec`: the worker and a writer inside `async_ring_buf_write` are
scheduled (weak fairness). Nobody has to trace or to shut down.

`LocalProxy!FairSpec`: a call of the main thread goes on; each loop's thread is
scheduled, a callback returns, and the loop's operations are strongly fair for the
reason given for `h6_ev_loop_wakeup_cb`, all while the process lives (an assertion
that fails stops it).

`ProtoWatch!FairSpec`: calls in progress and the loop thread go on; the loop's
operations and the dispatch of a writable socket are strongly fair, since libev
serves every ready descriptor of an iteration. `conn_closed` and `conn_error` kill
the client (`network_client.c:134`). Of the peer it assumes that it keeps reading
(`Send`) and pauses in its own sending (`ParseNothing`), without which the loop
`__parse_again` need not end; a peer that does neither ends the connection's
progress in the code too, until its timer fires.

`ClientSet!FairSpec`: a call in progress goes on, by whichever thread; a loop's queued
removal and its quit operation are strongly fair, as above, since between its callbacks
the loop executes what is queued. Nobody has to connect, close, kill or let go of a client.

## 4. Proofs

### H6Ev

`H6EvProofs` proves for any set of events and bits, any finite set of threads and
any `MaxOps`: types (`TypeCorrect`), wake-up (`WakeupCorrect`), quit
(`QuitCorrect`), and the inductive invariant `IInv` (`Invariance`), from which
follow `ReferencesCorrect`, `DispatchCorrect`, `IoCorrect`, `OrderCorrect`, and the
action property `FreedCorrect`. `H6EvRefinementProofs` proves `LifecycleCorrect`: the
event loop implements `EvLifecycle`. The assumptions are those of `H6Ev`: threads are
finitely many and the loop thread is not among them, `NoEvent` is not an event.

The argument. `TypeOK`, `WakeupInv` and `QuitIsLast` are inductive by themselves.
The rest is not, and `IInv` is their closure:

* `RefConservation` counts the owners of an event: threads (`holder`), queued
  operations, the operation being executed, nodes of `ev_list`. The lemmas on
  `OpsIn` say how appending to and popping from the queue change the number of
  operations of an event; a push adds an owner and a reference in one locked
  step, and popping turns a queued operation into the executing one.
* `LiveIffReferenced` then says that whoever is counted finds the event alive,
  and `CallerKeepsEvent` that a thread between the steps of a call is counted.
* `HandledEventInLoop` needs `ListedOnce` (being in the loop means owning a
  reference through `ev_list`) and `WatchedInLoop` (only events of the loop have
  started watchers), and `WatchedInLoop` needs `TimerHasTimeout`, because
  `h6_ev_loop_sync_remove` stops a timer only when `event->timeout` says there is
  one. Nothing leaves the loop under a callback because only the loop thread
  executes operations.
* `ListedOnce` needs `AddFirst`: at most one add operation is ever queued for an
  event, and it comes before all others.
* `IoInSync` needs a queued modify operation to be popped in order, and the store
  to precede the push.

The refinement. The mapped phase of an event, `PhaseOf`, is read off whether
it is allocated, whether it was attached, its place in the queue, and `in_loop`. The initial phases agree. For the steps,
`IInv` holds before and after each, and the proof has one step per action: most
change nothing that `PhaseOf` looks at and are stutters of the abstract
specification; `h6_ev_new`, `h6_ev_loop_attach`, the execution of an add and of a
remove operation, the last unref, dispatch and return, and the quit operation are
the abstract steps. `AddFirst` is what lets an executed add find its event in phase
"queued", `ListedOnce` what lets a remove find it watched, and `QuitIsLast` what lets
the shutdown find nothing queued.

What the life cycle is for is `NoCallbackOnceOut`: once an event is out of the loop,
removed or let go by the shutdown, its callback never begins again. `LeftStays` says of
`EvLifecycle` alone that there is no way back; the refinement carries it to the threads,
the queue and the buffers of `H6Ev`.

### ClientSet

`ClientSetProofs` proves `TypeCorrect`, `ReferencesCorrect` and `MembersCorrect` for any
clients, and any finite set of loops and of other threads, from the three assumptions
of `ClientSet`: the accepting loop is a loop, the three kinds of threads are distinct,
and both sets of threads are finite. `ReferencesCounted` says that counters equal numbers of
threads; a step moves one thread, and `CountMove` says how moving one thread changes
the number of those that are at a client or hold its watch. It and `MembersLinked`
are not inductive by themselves. `IInv` adds:

* `Placed`: which thread can be where. A step that gives up a reference has one
  because of where its thread is.
* `Owned`: a client that is not yet in the set belongs to the accepting loop
  alone, so `client_set_add` and `network_client_attach` change a client nobody else
  counts; and a client has its watch exactly until it is marked as killed.
* `SetHeld`: the main thread has the set's lock from `client_set_self_kill` until it
  has found the list empty; the set is there until `client_set_free`; a loop is told to
  quit only afterwards, its thread is idle from its quit operation on, and one that has
  ended has no watch. So when the server is gone no loop holds a watch.

What is left of the watches then is one that somebody has, or one whose client is in
the list: its accept came after the assertion. No lemma relies on the set being
empty when it is freed. `MembersLinked` holds across that point, too: the links and the
list agree however late a client enters.

`KillOfMembersHangs` is the disagreement `client_set_kill` for every size: once the
main thread has taken a client out of the set's list, no step of any thread
moves it on to the next one. It is an action property, `KeepsHands`, stated in
the proof module, since it holds only because of what section 5 reports.
`AcceptedNeverFreed` is there for the same reason: no client that was ever in the
set is freed, by any interleaving, for its counter always includes the reference in
the set's name, which nothing drops.

### LocalProxy

`LocalProxyProofs` proves all its safety properties for any number of loops and any
events, listeners and ports, assuming that there is at least one loop and that
`NoEvent` is not an event. `PlacementAccounted`
is about sums of weights: `Total` of `Sums` is what the scheduler's own walk over its
list adds up (`TotalSumsUp`), and adding or deleting an entry changes the weight of one
loop by one (`TotalSplit`, `TotalReindex`, `TotalDifference`). `IInv` adds:

* `MainPlaced`, `Joined`: how far the main thread's call is says what there is of
  scheduler, sets and threads; loops are told to quit and joined in their order.
* `Life`, `Entries`: a listener is being bound, in the list, or being finalized, and
  the scheduler has an entry for it while one of the first two holds.
* `EventPlaced`, `LoopPlaced`: an event and the loop that has it agree; a thread that
  has not run has its events queued, and one that has ended has none.

`ServerOutlivesThreads` and `NothingLeftBehind` follow from `IInv` without a further
invariant. `LifecycleFollowed` is the refinement `FollowsLifecycle`: one step per action, for the
first and the last loop; steps of other loops are stutters, since `PhaseIn` shows an
event of another loop as "ready", which it stays. `EveryLoopFollows` states the same of
each loop, where the run checks two.

Two more theorems are about what `IInv` implies. `LightestLoopFound`:
`h6_find_best_loop` compares with the total weight first and falls back on loop 0, yet it
finds the first of the lightest loops, because the total is the sum of the loops' weights
and two loops never weigh more than it. `KillOfListenersAborts` is the second disagreement of
section 5 about listeners, for every size: from a kill that finds a listener in the
list, no step of any thread leads to the end of the kill.

### ProtoWatch

`ProtoWatchProofs` proves all its safety properties for any finite set of threads,
any sizes of messages, backlog, window and words, with sequence numbers that wrap
(`LimitsAssumption` asks only that the window is smaller than a word).

`MessagesAccounted` and `ReferencesConserved` are sums and counts; they need `Numbered`
(a message that is being written is not in the backlog, and no two threads write
the same one) and `Attached` (the event is with the scheduler from attach to the kill,
and asked to leave once). `NoStrandedText` is not inductive: it allows a thread to
be about to ask (`Asking`), and does not say what that thread finds. `Heard` says
that EV_WRITE is set or about to be while text waits, that the loop has heard of
it or will, and that the loop thread takes it back only when no text is there
and under the lock; `NoStrandedText` follows. `SilenceAfterKill` holds since every `send`
is under the lock, which a kill waits for.

`StreamIntact` compares `due`, which is about bytes, with two buffers of messages.
It needs `Apart`: messages that wait have different numbers and nothing was sent of
those in the backlog. Then taking a message out of a list takes exactly its bytes
out of the list's bytes (`BytesWithout`), which is what the window does when it drops
one, and a partial send takes a prefix (`RestBytes`). These are proved by induction
along the list.

### TraceRing

`TraceRingProofs` proves for any writers, any size of ring, line and word
(`SizeAssumption`: a line fits the ring, two rings are less than a word):
`TypeCorrect`, which is that no position leaves the ring and no more is put into the
worker's string than it holds, and `NoSleep`. `IInv` adds `TextAnnounced`, of
which `NoSleepOnText` is the part that concerns a worker that sleeps, and `LastLook`,
which says that the worker's last look comes after the last writer.

Order and completeness (`InOrder`, `NoOverrun`, `AllPrinted`) hold, for any number of
writers and any lines, until a copy crowds the ring: the code prevents neither way of
crowding, and each loses text. `trace_overrun` shows two threads of which one takes the room
that the other saw, `trace_full_line` a line as long as the ring. The theorems say that
these are the only ways: whatever else the threads do, text stays in order, and the
assertion of `async_ring_buf_read` holds. `OrderIInv` says that until then the writers are at
most a ring ahead (`OneLapAhead`), that the space each of them saw is still there when it
copies (`RoomStays`), and the order itself; `CopyInOrder` shows that a copy that does
not crowd leaves the others their room. The lemmas on remainders say how positions and
laps move together when both wrap. One thread with short lines never crowds, so the run
`trace_one_writer` checks the same properties without the condition.

### H6Queue

`H6QueueProofs` proves for any finite set of nodes, any data and any lists that the
links stay well formed (`LinksCorrect`) and that the linked nodes implement `Lists`
(`ListsCorrect`). The assumptions are that NULL is neither a node nor data, and that nodes
are finitely many, since a walk along the links is counted by them.

`WellLinked` says of pointers what its proof needs of sequences: `Linked(h, n, p)` is that
n starts the list p in the heap h. The inductive invariant `Inv` is that there is a list
for each owner, with the queue as one more owner next to the lists (`Structure`), that
no node has two of them, and that the allocated nodes are theirs. One lemma per function of
`queue.c` says which list it turns one into (`InsertHeadLinks`, `InsertTailLinks`,
`TakenLinks`, `FreeLinks`, `RemoveAllLinks`) and that it leaves every other node alone
(`Replaces`); `OwnerChanges` then keeps the lists of the others. `list_concat` changes
two owners at once and is proved by itself. The walk itself is a recursive function:
`WalkIs` shows that it is one, and `PathIs` that it yields the list.

The refinement maps a list to what its nodes point to (`Values`). `FindIs` says that
`list_find` finds the node whose removal is the abstract removal, and `RemoveAllLinks` goes
along the list together with the abstract `Others`. `queue_pop_tail` is the one
operation that loses nodes, and the abstract queue is empty after it.

### Induction

The theorems of the library that state induction take an operator as a parameter,
which the installed provers do not instantiate. `DataLemmas` states induction
for a set of sets, of numbers or of lists instead (`SetInduction`, `NatSetInduction`,
`ListInduction`), and `ListRecursion` says that a recursive function along a list is
well defined.

### Only model-checked

* Liveness, of every component (`ev_loop`, `trace_one_writer`, `local_proxy`, `proto_watch`,
  `client_set`): the prover has no rules for fairness and ENABLED.
* The disagreements of section 5 that have a run, as counterexamples.
  `KillOfMembersHangs` proves one of them for every size.

## 5. Disagreements found

* `trace_exit_garbage`: the worker may spin for ever on an uninitialised `cycle`
  (`trace.c:95`), and shutdown hangs in `pthread_join`.
* `trace_full_line`: a line as long as the ring, written when both positions are at
  the end, is lost (`trace.c:264`).
* `trace_overrun`: two tracing threads overrun the ring until `assert(0)`
  (`trace.c:79`, `trace.c:232`).
* `local_proxy_callback`: `h6_ev_unref` in a listener's finalizer does not destroy the
  event; its callback may still run and finds the listener freed (`h6_listener.c:117`).
* Killing a server with a bound port fails the assertion of the listener's finalizer,
  since `list_del` leaves the links NULL (`listener.c:271`, `listener.c:17`). No run: it is
  sequential, and the theorem `KillOfListenersAborts` says it of every size.
* `client_set_kill`: `client_set_self_kill` holds the set's lock when the client it
  kills locks it again (`client.c:224`), so the kill of a set with a client never
  reaches the assertion that the set is empty (`client.c:218`).
* `client_set_fin`: the kill of an empty set releases the lock (`client.c:226`) before
  it releases the set (`client.c:239`), whose finalizer asserts without the lock that the
  list is empty (`client.c:152`). A callback that waits at `client.c:262` adds its client in
  between, and the assertion fails; one that gets the lock behind the assertion
  enters a set that is about to be freed.

Seen while modelling, and not a run: the trace after the last `h6_ev_unref` of an
executed operation reads the counter of the freed event (`h6_ev.c:554`); the
reference a closed client has in its set's name is dropped by nobody, so accepted
clients are never freed (`network_client.c:135`, theorem `AcceptedNeverFreed`); `queue_pop_tail` loses the rest of
the queue (`queue.c:354`); an accept that says -EAGAIN falls through to a client on
a negative descriptor (`h6_listener.c:26`).

A loop that is told to quit before its thread runs returns at once and leaves its
queued operations, with the references they own, unexecuted (`h6_ev.c:246`). No text
of the repository denies it, so it is not a run of its own; `NothingLeftBehind` and
`RemovedEventFreed` name it as their one exception.

## 6. Plan

Done: `H6Ev` with its abstract specification and refinement; `TraceRing`; `H6Sched` and
`LocalProxy`; `ProtoWatch`; `ClientSet`; `Lists` and `H6Queue` with the refinement between
them; all with the proofs of their safety properties.
Next, in this order:

1. `TraceRing` with NUL as a byte of its own (`trace.c:73`).
2. Descriptors that are reused after a close (`proto_watch.c:45`).

Not modelled:

* The parts listed as such in `PROJECT.json`: system calls, the format of messages
  and the parsers (tables of functions without implementations), the factories,
  and the early client and relay server, which are not built.
* Failed allocations, and an accept or a bind that fails half-way.
* The reuse of a closed descriptor's number.
* Reads that only a trace makes, and the text of traces.

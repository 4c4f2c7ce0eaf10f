------------------------------- MODULE ClientSet -------------------------------
(***************************************************************************)
(* The clients of a server: client.c with its set, the part of             *)
(* network_client.c that creates, attaches and kills a client with its     *)
(* watch, the callback that accepts them (h6_listener.c), and the server's *)
(* kill of its set (h6_local_proxy_server.c).  What passes through a       *)
(* connection is in ProtoWatch; here a watch is referenced by its client,  *)
(* by a call in progress and by the loop that has it.                      *)
(*                                                                         *)
(* The threads of the loops accept clients, in one loop, and find          *)
(* connections closed; handlers of messages give clients to other threads, *)
(* which send and kill; the main thread kills the server: its set, then    *)
(* one loop after the other.  A thread is cut at the locks, at reads that  *)
(* take none, at assertions, and where references are dropped and memory   *)
(* is freed.  After a failed assertion nothing happens any more; after a   *)
(* use of freed memory nothing more is said ("undefined").                 *)
(***************************************************************************)
EXTENDS Integers, Sequences, SequencesExt, FiniteSets

CONSTANTS Clients,
          Loops,       \* the threads of the loops
          AcceptLoop,  \* the one that has the listener's event
          Users,       \* threads that handlers of messages give clients to
          Main,        \* the thread that kills the server
          NoOne        \* neither a client nor a thread

ASSUME ThreadsAssumption ==
  AcceptLoop \in Loops /\ Main \notin Loops \cup Users /\ Loops \cap Users = {}
ASSUME FiniteAssumption == IsFiniteSet(Loops) /\ IsFiniteSet(Users)
ASSUME NoOneAssumption == NoOne \notin Clients \cup Loops \cup Users \cup {Main}

VARIABLES
  client,     \* per client: [mem, refs, killed, watch, cs, node]
  watch,      \* per client, its watch: [mem, refs, killed, asked, home]
  c_list,     \* set->c_list, its first entry first
  set,        \* the set: [mem, lock]
  thread,     \* per thread: [pc, c]
  loop,       \* per loop, how far h6_sched_free is with it
  undefined   \* freed memory was used

vars == <<client, watch, c_list, set, thread, loop, undefined>>

Threads == Loops \cup Users \cup {Main}
Mem == {"unborn", "live", "freed"}
At(pc, c) == [pc |-> pc, c |-> c]
Idle == At("idle", NoOne)

\* client.watch: nc->proto_watch is not NULL; client.cs: c->cs is set; client.node as
\* after INIT_LIST_HEAD ("self"), list_add ("linked"), list_del ("null"); watch.home:
\* the loop that has it; watch.asked: its removal is queued there; watch.loop: its
\* opt->loop, which nobody clears
ClientRecords == [mem : Mem, refs : Nat, killed : BOOLEAN, watch : BOOLEAN,
                  cs : BOOLEAN, node : {"self", "linked", "null"}]
WatchRecords == [mem : Mem, refs : Nat, killed : BOOLEAN,
                 asked : BOOLEAN, home : Loops \cup {NoOne}, loop : Loops \cup {NoOne}]
OutPcs == {"idle", "set_kill", "next", "set_unref", "set_free", "sched_free", "done", "aborted"}
AcceptPcs == {"add", "attach", "proto_watch_attach"}
DispatchPcs == {"dispatched", "handles"}
UsePcs == {"holds", "lent"}
KillPcs == {"kill", "pw_kill", "pw_unref", "set_del", "unref"}
Places == [c : Clients \cup {NoOne},
           pc : OutPcs \cup AcceptPcs \cup DispatchPcs \cup UsePcs \cup KillPcs]

\* told to quit, in its quit operation, its run returned, joined and freed
LoopStates == {"runs", "quit", "leaves", "ended", "freed"}

TypeOK ==
  /\ client \in [Clients -> ClientRecords]
  /\ watch \in [Clients -> WatchRecords]
  /\ c_list \in Seq(Clients)
  /\ set \in [mem : Mem, lock : Threads \cup {NoOne}]
  /\ thread \in [Threads -> Places]
  /\ loop \in [Loops -> LoopStates]
  /\ undefined \in BOOLEAN

Init ==
  /\ client = [c \in Clients |-> [mem |-> "unborn", refs |-> 0, killed |-> FALSE,
                                  watch |-> FALSE, cs |-> FALSE, node |-> "self"]]
  /\ watch = [c \in Clients |-> [mem |-> "unborn", refs |-> 0, killed |-> FALSE,
                                 asked |-> FALSE, home |-> NoOne, loop |-> NoOne]]
  /\ c_list = <<>>
  /\ set = [mem |-> "live", lock |-> NoOne]
  /\ thread = [t \in Threads |-> Idle]
  /\ loop = [k \in Loops |-> "runs"]
  /\ undefined = FALSE

-----------------------------------------------------------------------------
Goto(t, pc) == thread' = [thread EXCEPT ![t].pc = pc]
On(t, pc) == thread[t].pc = pc /\ thread[Main].pc # "aborted" /\ ~undefined
Undefined == undefined' = TRUE /\ UNCHANGED <<client, watch, c_list, set, thread, loop>>

\* the loop executes operations and calls back
Serves(t) == loop[t] \in {"runs", "quit"}

\* obj_unref, in the table of clients k
ClientUnref(k, c) ==
  [k EXCEPT ![c].refs = @ - 1, ![c].mem = IF k[c].refs = 1 THEN "freed" ELSE @]

\* h6_ev_unref of the watch: the last one runs proto_watch_on_finalize, which drops
\* the reference to the client that network_client_init took for it
WatchUnref(c, w) ==
  /\ watch' = [watch EXCEPT ![c] = [w EXCEPT !.refs = @ - 1,
                                             !.mem = IF w.refs = 1 THEN "freed" ELSE @]]
  /\ client' = IF w.refs = 1 THEN ClientUnref(client, c) ELSE client

-----------------------------------------------------------------------------
(* Accepting *)

\* [mutant] the watch takes no reference to its client
network_client_init_borrowed(c) ==
  /\ client' = [client EXCEPT ![c].mem = "live", ![c].refs = 1, ![c].watch = TRUE]
  /\ watch' = [watch EXCEPT ![c].mem = "live", ![c].refs = 1]

\* init_this: the creator's reference, and the one of the watch
network_client_init(c) ==
  /\ client' = [client EXCEPT ![c].mem = "live", ![c].refs = 2, ![c].watch = TRUE]
  /\ watch' = [watch EXCEPT ![c].mem = "live", ![c].refs = 1]

\* When the client's own init fails, h6_client_new kills the client again, and
\* listener_generate returns none.
h6_client_new(t, c) ==
  /\ client[c].mem = "unborn"
  /\ network_client_init(c)
  /\ \E pc \in {"add", "kill"} : thread' = [thread EXCEPT ![t] = At(pc, c)]

\* h6_listener_on_event up to the client that it generates
listener_generate(t, c) ==
  /\ t = AcceptLoop /\ Serves(t)
  /\ On(t, "idle")
  /\ h6_client_new(t, c)
  /\ UNCHANGED <<c_list, set, loop, undefined>>

\* client_set_add takes the lock of a set that may be gone, or releases it
AddToFreedSet(t) == (On(t, "add") \/ On(t, "attach")) /\ set.mem = "freed" /\ Undefined

client_set_add(t) ==
  /\ On(t, "add") /\ set.mem = "live" /\ set.lock = NoOne
  /\ LET c == thread[t].c
     IN /\ client' = [client EXCEPT ![c].cs = TRUE, ![c].node = "linked"]
        /\ c_list' = Cons(c, c_list)
  /\ Goto(t, "attach")
  /\ UNCHANGED <<watch, set, loop, undefined>>

\* __network_client_attach reads nc->proto_watch without the lock
network_client_attach(t) ==
  /\ On(t, "attach")
  /\ thread' = [thread EXCEPT ![t] = IF client[thread[t].c].watch
                                       THEN At("proto_watch_attach", thread[t].c) ELSE Idle]
  /\ UNCHANGED <<client, watch, c_list, set, loop, undefined>>

AttachFreed(t) ==
  /\ On(t, "proto_watch_attach")
  /\ watch[thread[t].c].mem = "freed"
  /\ Undefined

\* h6_sched_add chooses a loop, which may be gone
AttachToFreedLoop(t) ==
  /\ On(t, "proto_watch_attach") /\ ~watch[thread[t].c].killed
  /\ \E k \in Loops : loop[k] = "freed"
  /\ Undefined

\* h6_ev_loop_add refuses the watch when the loop was told to quit, which nobody hears of
PlaceWatch(c, k) ==
  watch' = IF loop[k] = "runs"
             THEN [watch EXCEPT ![c].refs = @ + 1, ![c].home = k, ![c].loop = k]
             ELSE watch

proto_watch_attach(t) ==
  /\ On(t, "proto_watch_attach")
  /\ LET c == thread[t].c
     IN /\ watch[c].mem = "live"
        /\ \/ watch[c].killed /\ UNCHANGED watch
           \/ /\ ~watch[c].killed
              /\ \E k \in Loops : loop[k] # "freed" /\ PlaceWatch(c, k)
  /\ thread' = [thread EXCEPT ![t] = Idle]
  /\ UNCHANGED <<client, c_list, set, loop, undefined>>

-----------------------------------------------------------------------------
(* Using a client *)

\* libev calls back for the watch, which is not killed at this moment
proto_watch_dispath(t, c) ==
  /\ On(t, "idle") /\ Serves(t)
  /\ watch[c].home = t /\ ~watch[c].killed
  /\ thread' = [thread EXCEPT ![t] = At("dispatched", c)]
  /\ UNCHANGED <<client, watch, c_list, set, loop, undefined>>

\* a message has come, for a client that is not killed at this moment
network_client_msg_recv(t) ==
  /\ On(t, "dispatched") /\ ~client[thread[t].c].killed
  /\ Goto(t, "handles")
  /\ UNCHANGED <<client, watch, c_list, set, loop, undefined>>

DispatchReturns(t) ==
  /\ On(t, "dispatched") \/ On(t, "handles")
  /\ thread' = [thread EXCEPT ![t] = Idle]
  /\ UNCHANGED <<client, watch, c_list, set, loop, undefined>>

\* called by the handler of a message, for the thread that it gives the client to
network_client_ref(u, c) ==
  /\ On(u, "idle")
  /\ \E t \in Loops : thread[t] = At("handles", c)
  /\ client' = [client EXCEPT ![c].refs = @ + 1]
  /\ thread' = [thread EXCEPT ![u] = At("holds", c)]
  /\ UNCHANGED <<watch, c_list, set, loop, undefined>>

\* [mutant] does not look whether the client was killed
network_client_send_msg_blind(u) ==
  /\ On(u, "holds")
  /\ watch' = [watch EXCEPT ![thread[u].c].refs = @ + 1]
  /\ Goto(u, "lent")
  /\ UNCHANGED <<client, c_list, set, loop, undefined>>

\* under nc->lock, a client that is not killed lends its watch; network_client_send_mb
\* and network_client_consumable do the same
network_client_send_msg(u) ==
  /\ On(u, "holds") /\ ~client[thread[u].c].killed
  /\ watch' = [watch EXCEPT ![thread[u].c].refs = @ + 1]
  /\ Goto(u, "lent")
  /\ UNCHANGED <<client, c_list, set, loop, undefined>>

\* the write asks the watch's loop for EV_WRITE, unless all of it was sent
WriteInFreedLoop(u) ==
  /\ On(u, "lent")
  /\ \E k \in Loops : watch[thread[u].c].loop = k /\ loop[k] = "freed"
  /\ Undefined

\* proto_watch_unref after the write
ReturnWatch(u) ==
  /\ On(u, "lent")
  /\ WatchUnref(thread[u].c, watch[thread[u].c])
  /\ Goto(u, "holds")
  /\ UNCHANGED <<c_list, set, loop, undefined>>

\* network_client_kill_unref
LetGo(u) ==
  /\ On(u, "holds")
  /\ Goto(u, "kill")
  /\ UNCHANGED <<client, watch, c_list, set, loop, undefined>>

DropClient(t) ==
  /\ client' = ClientUnref(client, thread[t].c)
  /\ thread' = [thread EXCEPT ![t] = Idle]
  /\ UNCHANGED <<watch, c_list, set, loop, undefined>>

\* or client_unref alone
network_client_unref(u) == On(u, "holds") /\ DropClient(u)

-----------------------------------------------------------------------------
(* Killing one client: network_client_kill_unref, by any thread *)

\* what was dispatched is the end of the connection
conn_closed(t) ==
  /\ On(t, "dispatched")
  /\ client' = [client EXCEPT ![thread[t].c].refs = @ + 1]
  /\ Goto(t, "kill")
  /\ UNCHANGED <<watch, c_list, set, loop, undefined>>

\* under nc->lock: whoever kills first takes the watch
network_client_self_kill(t) ==
  /\ On(t, "kill")
  /\ LET c == thread[t].c
     IN /\ Goto(t, IF client[c].watch THEN "pw_kill" ELSE "set_del")
        /\ client' = [client EXCEPT ![c].killed = TRUE, ![c].watch = FALSE]
  /\ UNCHANGED <<watch, c_list, set, loop, undefined>>

\* [mutant] the watch stays in its loop
proto_watch_kill_forgets(t) ==
  /\ On(t, "pw_kill")
  /\ watch' = [watch EXCEPT ![thread[t].c].killed = TRUE]
  /\ Goto(t, "pw_unref")
  /\ UNCHANGED <<client, c_list, set, loop, undefined>>

\* the scheduler asks the loop of the watch, which may be gone
KillInFreedLoop(t) ==
  /\ On(t, "pw_kill")
  /\ \E k \in Loops : watch[thread[t].c].loop = k /\ loop[k] = "freed"
  /\ Undefined

\* under w->lock; a loop that was told to quit takes no more operations
proto_watch_kill(t) ==
  /\ On(t, "pw_kill")
  /\ LET c == thread[t].c
     IN /\ \A k \in Loops : watch[c].loop = k => loop[k] # "freed"
        /\ watch' = [watch EXCEPT ![c].killed = TRUE,
              ![c].asked = \E k \in Loops : watch[c].home = k /\ loop[k] = "runs"]
  /\ Goto(t, "pw_unref")
  /\ UNCHANGED <<client, c_list, set, loop, undefined>>

proto_watch_unref(t) ==
  /\ On(t, "pw_unref")
  /\ WatchUnref(thread[t].c, watch[thread[t].c])
  /\ Goto(t, "set_del")
  /\ UNCHANGED <<c_list, set, loop, undefined>>

\* [mutant] list_del in place of list_del_init
Unlink_del(c) ==
  /\ client' = [client EXCEPT ![c].node = "null"]
  /\ c_list' = RemoveFirst(c_list, c)

\* list_del_init
Unlink(c) ==
  /\ client' = [client EXCEPT ![c].node = "self"]
  /\ c_list' = RemoveFirst(c_list, c)

\* c->cs points to the set as long as the client lives; the lock is taken and released
DelFromFreedSet(t) ==
  /\ On(t, "set_del") \/ On(t, "unref")
  /\ client[thread[t].c].cs /\ set.mem = "freed"
  /\ Undefined

\* client_self_kill: client_set_del, for a client that was added; its lock is not
\* recursive
client_set_del(t) ==
  /\ On(t, "set_del")
  /\ LET c == thread[t].c
     IN /\ client[c].cs => set.lock = NoOne /\ set.mem = "live"
        /\ IF client[c].cs /\ client[c].node # "self" THEN Unlink(c)
                                                      ELSE UNCHANGED <<client, c_list>>
  /\ Goto(t, "unref")
  /\ UNCHANGED <<watch, set, loop, undefined>>

\* the caller's reference; the main thread would go on with the next member
client_unref(t) ==
  /\ On(t, "unref")
  /\ client' = ClientUnref(client, thread[t].c)
  /\ thread' = [thread EXCEPT ![t] = IF t = Main THEN At("next", NoOne) ELSE Idle]
  /\ UNCHANGED <<watch, c_list, set, loop, undefined>>

\* the queued remove operation
LoopRemoves(t, c) ==
  /\ On(t, "idle") /\ Serves(t)
  /\ watch[c].home = t /\ watch[c].asked
  /\ WatchUnref(c, [watch[c] EXCEPT !.asked = FALSE, !.home = NoOne])
  /\ UNCHANGED <<c_list, set, thread, loop, undefined>>

-----------------------------------------------------------------------------
(* Killing the server *)

h6_local_proxy_svr_kill ==
  /\ On(Main, "idle")
  /\ Goto(Main, "set_kill")
  /\ UNCHANGED <<client, watch, c_list, set, loop, undefined>>

client_set_self_kill ==
  /\ On(Main, "set_kill") /\ set.lock = NoOne
  /\ set' = [set EXCEPT !.lock = Main]
  /\ Goto(Main, "next")
  /\ UNCHANGED <<client, watch, c_list, loop, undefined>>

\* list_del, then client_kill_unref, with the lock held
KillNext ==
  /\ On(Main, "next") /\ c_list # <<>>
  /\ client' = [client EXCEPT ![Head(c_list)].node = "null"]
  /\ c_list' = Tail(c_list)
  /\ thread' = [thread EXCEPT ![Main] = At("kill", Head(c_list))]
  /\ UNCHANGED <<watch, set, loop, undefined>>

\* the list is empty: the lock is released
client_set_unlock ==
  /\ On(Main, "next") /\ c_list = <<>>
  /\ set' = [set EXCEPT !.lock = NoOne]
  /\ Goto(Main, "set_unref")
  /\ UNCHANGED <<client, watch, c_list, loop, undefined>>

\* client_set_unref, the only reference: the finalizer looks at the list without the lock
client_set_fin_this ==
  /\ On(Main, "set_unref")
  /\ Goto(Main, IF c_list = <<>> THEN "set_free" ELSE "aborted")
  /\ UNCHANGED <<client, watch, c_list, set, loop, undefined>>

\* and destroys the lock and frees the set, whoever holds the one or has entered the other
client_set_free ==
  /\ On(Main, "set_free")
  /\ set' = [set EXCEPT !.mem = "freed"]
  /\ Goto(Main, "sched_free")
  /\ UNCHANGED <<client, watch, c_list, loop, undefined>>

Advance(k, state) ==
  /\ loop' = [loop EXCEPT ![k] = state]
  /\ UNCHANGED <<client, watch, c_list, set, thread, undefined>>

\* h6_sched_free takes one loop after the other; which one is first is left open
h6_ev_loop_quit(k) ==
  /\ On(Main, "sched_free")
  /\ loop[k] = "runs" /\ \A j \in Loops : loop[j] \in {"runs", "freed"}
  /\ Advance(k, "quit")

\* The quit operation is the last one in the queue.  (The loop was running: one that is
\* told to quit before its thread runs, h6_ev.c:246, is in LocalProxy.)
h6_ev_loop_ops_quit(t) ==
  /\ On(t, "idle") /\ loop[t] = "quit"
  /\ \A c \in Clients : ~(watch[c].home = t /\ watch[c].asked)
  /\ Advance(t, "leaves")

h6_ev_realse_one(t, c) ==
  /\ On(t, "idle") /\ loop[t] = "leaves"
  /\ watch[c].home = t
  /\ WatchUnref(c, [watch[c] EXCEPT !.home = NoOne])
  /\ UNCHANGED <<c_list, set, thread, loop, undefined>>

\* nothing is left in ev_list: ev_break, and the run returns
LoopEnds(t) ==
  /\ On(t, "idle") /\ loop[t] = "leaves"
  /\ \A c \in Clients : watch[c].home # t
  /\ Advance(t, "ended")

\* pthread_join and h6_ev_loop_unref
JoinLoop(k) ==
  /\ On(Main, "sched_free") /\ loop[k] = "ended"
  /\ Advance(k, "freed")

h6_sched_free ==
  /\ On(Main, "sched_free") /\ \A k \in Loops : loop[k] = "freed"
  /\ Goto(Main, "done")
  /\ UNCHANGED <<client, watch, c_list, set, loop, undefined>>

-----------------------------------------------------------------------------
Accepts(t) == AddToFreedSet(t) \/ client_set_add(t) \/ network_client_attach(t)
                \/ AttachFreed(t) \/ AttachToFreedLoop(t) \/ proto_watch_attach(t)

Kills(t) == network_client_self_kill(t) \/ KillInFreedLoop(t) \/ proto_watch_kill(t)
              \/ proto_watch_unref(t) \/ DelFromFreedSet(t) \/ client_set_del(t) \/ client_unref(t)

LeavesLoop(t) == LoopEnds(t) \/ \E c \in Clients : h6_ev_realse_one(t, c)

KillsServer == \/ client_set_self_kill \/ KillNext \/ client_set_unlock
               \/ client_set_fin_this \/ client_set_free
               \/ (\E k \in Loops : h6_ev_loop_quit(k) \/ JoinLoop(k)) \/ h6_sched_free

Next ==
  \/ \E t \in Loops :
       \/ \E c \in Clients :
            listener_generate(t, c) \/ proto_watch_dispath(t, c) \/ LoopRemoves(t, c)
       \/ Accepts(t) \/ network_client_msg_recv(t) \/ conn_closed(t) \/ DispatchReturns(t)
       \/ h6_ev_loop_ops_quit(t) \/ LeavesLoop(t)
  \/ \E u \in Users : \/ \E c \in Clients : network_client_ref(u, c)
                      \/ network_client_send_msg(u) \/ WriteInFreedLoop(u) \/ ReturnWatch(u)
                      \/ LetGo(u) \/ network_client_unref(u)
  \/ \E t \in Threads : Kills(t)
  \/ h6_local_proxy_svr_kill \/ KillsServer

Spec == Init /\ [][Next]_vars

\* A thread inside a call goes on, a callback returns, and a loop executes what is queued
\* although it serves others.  Nobody has to connect, close, kill or let go.
GoesOn(t) == \/ t \in Loops /\ (Accepts(t) \/ DispatchReturns(t) \/ LeavesLoop(t))
             \/ t \in Users /\ ReturnWatch(t)
             \/ t = Main /\ KillsServer
             \/ Kills(t)

FairSpec ==
  /\ Spec
  /\ \A t \in Threads : WF_vars(GoesOn(t))
  /\ \A t \in Loops : /\ SF_vars(\E c \in Clients : LoopRemoves(t, c))
                      /\ SF_vars(h6_ev_loop_ops_quit(t))

-----------------------------------------------------------------------------
(* Safety *)

One(b) == IF b THEN 1 ELSE 0
WatchPcs == {"lent", "pw_kill", "pw_unref"}

\* a thread t at place p uses c or kills it in a call of its own; it has the watch of c
Calls(t, p, c) == t # Main /\ p.c = c /\ p.pc \in KillPcs \cup UsePcs
Has(p, c) == p.c = c /\ p.pc \in WatchPcs
Callers(c) == {t \in Threads : Calls(t, thread[t], c)}
HasWatch(c) == {t \in Threads : Has(thread[t], c)}

\* the counters of a client k and of its watch w
Counts(k, w, callers, holders) ==
  /\ k.refs = One(k.mem = "live") + One(w.mem = "live") + (IF k.cs THEN callers ELSE 0)
  /\ w.refs = One(k.watch) + holders + One(w.home # NoOne)
  /\ (k.refs = 0) <=> (k.mem # "live")
  /\ (w.refs = 0) <=> (w.mem # "live")
  /\ k.mem = "freed" => ~k.cs

Counted(c) == Counts(client[c], watch[c], Cardinality(Callers(c)), Cardinality(HasWatch(c)))

Listed(c) == \E i \in DOMAIN c_list : c_list[i] = c

\* the main thread waits for the lock that it holds
Stuck == set.lock = Main /\ thread[Main].pc = "set_del"

\* A client is counted by its creator, whose reference the set inherits, by its watch,
\* by users and by every callback that found the connection closed; a watch by its
\* client or whoever took it from there, by calls that it is lent to, and by its loop.
\* Nothing that a thread works on is freed under it, and a watch never outlives its
\* client.  The server's watches end with it, but for those that somebody has and those
\* of members that entered the set between its finalizer's look and its end.  Freed memory is
\* used only when the set's kill hangs, by the accept that races it, or when the set is gone
\* (network_client.c 122-205, 277-331; client.c 58-116, 140-240; obj.c 60-80).  What a
\* closed client leaves in the set's name nobody drops: accepted clients are never freed.
ReferencesCounted ==
  /\ \A c \in Clients :
       /\ Counted(c)
       /\ thread[Main].pc = "done" /\ watch[c].mem = "live" => HasWatch(c) # {} \/ Listed(c)
  /\ \A t \in Threads : thread[t].c # NoOne => client[thread[t].c].mem = "live"
  /\ undefined => Stuck \/ set.mem = "freed"

\* The links of a client say whether the set's list holds it; only the kill of the set,
\* under its lock, leaves a client unlinked (client.c 204-227, 242-290).  Every
\* connection that a loop serves is one that the kill of the set would reach.
MembersLinked ==
  /\ IsInjective(c_list)
  /\ \A c \in Clients :
       /\ Listed(c) <=> client[c].node = "linked"
       /\ client[c].node = "null" => set.lock = Main /\ thread[Main].c = c
       /\ watch[c].home # NoOne /\ ~client[c].killed => client[c].node # "self"

-----------------------------------------------------------------------------
(* The inductive invariant of the proofs *)

\* Where each thread can be, that a callback is for a watch that its loop has, and that a
\* kill goes on after it has marked the client.  The main thread never comes back from the
\* removal of a client from the set.
Placed(t) ==
  /\ thread[t].c = NoOne <=> thread[t].pc \in OutPcs
  /\ thread[t].pc \in OutPcs \ {"idle"} => t = Main
  /\ thread[t].pc \in AcceptPcs => t = AcceptLoop
  /\ thread[t].pc \in DispatchPcs => t \in Loops /\ watch[thread[t].c].home = t
  /\ thread[t].pc \in UsePcs => t \in Users
  /\ thread[t].pc \in {"pw_kill", "pw_unref", "set_del", "unref"} => client[thread[t].c].killed
  /\ thread[t].pc = "unref" => t # Main

\* Who has the set's lock, until when there is a set, and how far the loops are.
SetHeld ==
  /\ set.lock = IF thread[Main].pc \in {"next"} \cup KillPcs THEN Main ELSE NoOne
  /\ set.mem = IF thread[Main].pc \in {"sched_free", "done"} THEN "freed" ELSE "live"
  /\ thread[Main].c # NoOne => client[thread[Main].c].cs /\ client[thread[Main].c].node = "null"
  /\ thread[Main].pc = "done" => \A t \in Loops : loop[t] = "freed"
  /\ \A t \in Loops :
       /\ loop[t] # "runs" => set.mem = "freed"
       /\ loop[t] \in {"leaves", "ended", "freed"} => thread[t].pc = "idle"
       /\ loop[t] \in {"ended", "freed"} => \A c \in Clients : watch[c].home # t

\* the kill of the set has begun with c and never ends
Claimed(c) == thread[Main].c = c /\ thread[Main].pc \in {"pw_kill", "pw_unref", "set_del"}

\* A client before it is in the set belongs to the thread that accepts it; until its
\* watch is in a loop only the kill of the set can reach it.
Owned(c) ==
  /\ client[c].mem = "unborn" => ~client[c].cs /\ ~client[c].watch /\ ~client[c].killed
  /\ client[c].mem # "unborn" => (client[c].watch <=> ~client[c].killed)
  /\ ~client[c].cs =>
       /\ client[c].node = "self" /\ watch[c].home = NoOne
       /\ \A t \in Threads \ {AcceptLoop} : thread[t].c # c
       /\ client[c].mem = "live" => thread[AcceptLoop].c = c
  /\ client[c].cs /\ ~client[c].killed => client[c].node # "self"
  /\ thread[AcceptLoop].c = c /\ thread[AcceptLoop].pc = "add" => ~client[c].cs /\ ~client[c].killed
  /\ thread[AcceptLoop].c = c /\ thread[AcceptLoop].pc \in {"attach", "proto_watch_attach"} =>
       /\ client[c].cs /\ client[c].node # "self" /\ watch[c].home = NoOne
       /\ client[c].killed => Claimed(c)
       /\ \A t \in Threads \ {Main, AcceptLoop} : thread[t].c # c

IInv == /\ TypeOK /\ SetHeld /\ (\A t \in Threads : Placed(t)) /\ (\A c \in Clients : Owned(c))
        /\ ReferencesCounted /\ MembersLinked

-----------------------------------------------------------------------------
(* Liveness, under FairSpec *)

\* A client that was killed leaves the set, and its watch is freed, unless the kill of
\* the server hangs or aborts, or freed memory was used first (network_client.c 297-309,
\* client.c 88-102).
KillCompletes ==
  \A c \in Clients :
    client[c].killed ~> \/ watch[c].mem = "freed" /\ ~Listed(c)
                        \/ Stuck \/ thread[Main].pc = "aborted" \/ undefined

\* "assert(list_empty(&set->c_list))" at the end of __client_set_self_kill
\* (client.c:218): a kill of the set gets there, with every client released.
SetKillEnds == thread[Main].pc = "set_kill" ~> thread[Main].pc = "set_unref" \/ undefined

\* "assert(list_empty(&set->c_list))" in the set's finalizer (client.c:152): the kill has
\* emptied the list, and nobody enters it any more.
SetFinAssert == thread[Main].pc # "aborted"
=============================================================================

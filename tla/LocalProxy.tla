----------------------------- MODULE LocalProxy -----------------------------
(***************************************************************************)
(* The local proxy server: src/src/h6_local_proxy_server.c and             *)
(* h6_basic_server.c with its listener set (listener.c), its listeners     *)
(* (h6_listener.c, obj.c) and its scheduler (H6Sched).                     *)
(*                                                                         *)
(* One thread calls the server's functions (main.c); the threads of the    *)
(* loops run the callbacks of the listeners' events.  The calls of the     *)
(* main thread are cut where another thread can meet them: at the locks of *)
(* the scheduler, the reference counts of events, the life of memory.      *)
(*                                                                         *)
(* A listener and the event it makes have the same name.  The server makes *)
(* its listeners without operations of their own (h6_local_proxy_server.c, *)
(* line 118), so that no client is generated and the client set is empty.  *)
(***************************************************************************)
EXTENDS H6Sched, Sums

CONSTANTS Ports

VARIABLES
  listener,   \* per listener: [mem, refs, port, sock, node]
  lsn_list,   \* svr->lsn_set->lsn_list, its first entry first
  svr,        \* the server: [mem, run, lsn_set, cli_set]
  main        \* the main thread: [pc, lsn, then]

vars == <<schedVars, listener, lsn_list, svr, main>>

Listeners == Events

Mem == {"unborn", "live", "freed"}

\* in mem, refs is ref_count; node is list_node: "self" when initialised,
\* "linked" in the set's list, "null" after list_del
TypeOK ==
  /\ SchedTypeOK
  /\ listener \in [Listeners -> [mem : Mem, refs : 0..2, port : Ports \cup {0},
                                 sock : {"none", "open", "closed"},
                                 node : {"self", "linked", "null"}]]
  /\ lsn_list \in Seq(Listeners)
  /\ svr \in [mem : Mem, run : BOOLEAN, lsn_set : Mem, cli_set : Mem]
  /\ main \in [pc : {"idle", "h6_sched_add", "lsn_set_add", "obj_unref",
                     "h6_sched_remove", "h6_ev_unref", "listener_fin_this",
                     "lsn_set_kill", "h6_sched_free", "svr_fin", "done", "aborted"},
               lsn : Listeners \cup {NoEvent},
               then : {"idle", "lsn_set_kill"}]

Init ==
  /\ SchedInit
  /\ listener = [l \in Listeners |->
       [mem |-> "unborn", refs |-> 0, port |-> 0, sock |-> "none", node |-> "self"]]
  /\ lsn_list = <<>>
  /\ svr = [mem |-> "live", run |-> FALSE, lsn_set |-> "live", cli_set |-> "live"]
  /\ main = [pc |-> "idle", lsn |-> NoEvent, then |-> "idle"]

-----------------------------------------------------------------------------
Goto(pc) == main' = [main EXCEPT !.pc = pc]
Running == main.pc # "aborted"

\* obj_unref: the last reference runs the finalizer, and the caller goes on after it
ObjUnref(lst, l, then) ==
  /\ listener' = [lst EXCEPT ![l].refs = @ - 1]
  /\ main' = [pc |-> IF lst[l].refs = 1 THEN "h6_sched_remove" ELSE then,
              lsn |-> l, then |-> then]

h6_local_proxy_server_run ==
  /\ main.pc = "idle" /\ ~svr.run
  /\ h6_sched_new
  /\ svr' = [svr EXCEPT !.run = TRUE]
  /\ UNCHANGED <<listener, lsn_list, main>>

\* a new listener: one reference, in no set, without a socket
listener_alloc == [mem |-> "live", refs |-> 1, port |-> 0, sock |-> "none", node |-> "self"]

\* h6_listener_set_port opens the socket before it makes the event
Listening(lt, p) == [lt EXCEPT !.port = p, !.sock = "open"]

\* bind_port up to h6_sched_add: the listener, its socket and its event are
\* made.  A failed bind leaves nothing behind.
h6_local_proxy_server_bind_port(l, p) ==
  /\ main.pc = "idle" /\ svr.run
  /\ listener[l].mem = "unborn"
  /\ \A m \in Listeners : ~(listener[m].sock = "open" /\ listener[m].port = p)
  /\ listener' = [listener EXCEPT ![l] = Listening(listener_alloc, p)]
  /\ h6_ev_new(l)
  /\ main' = [main EXCEPT !.pc = "h6_sched_add", !.lsn = l]
  /\ UNCHANGED <<sched, idx, placement, home, asked, open, thread, lsn_list, svr>>

\* from here on the event's callback may run
h6_listener_set_port ==
  /\ main.pc = "h6_sched_add"
  /\ h6_sched_add(main.lsn, 1)
  /\ Goto("lsn_set_add")
  /\ UNCHANGED <<listener, lsn_list, svr>>

\* [mutant] the set takes no reference
lsn_set_add_borrowed ==
  /\ main.pc = "lsn_set_add"
  /\ LET l == main.lsn
     IN /\ listener' = [listener EXCEPT ![l].node = "linked"]
        /\ lsn_list' = Cons(l, lsn_list)
  /\ Goto("obj_unref")
  /\ UNCHANGED <<schedVars, svr>>

lsn_set_add ==
  /\ main.pc = "lsn_set_add"
  /\ LET l == main.lsn
     IN /\ listener' = [listener EXCEPT ![l].node = "linked", ![l].refs = @ + 1]
        /\ lsn_list' = Cons(l, lsn_list)
  /\ Goto("obj_unref")
  /\ UNCHANGED <<schedVars, svr>>

BindPortUnref ==
  /\ main.pc = "obj_unref"
  /\ ObjUnref(listener, main.lsn, "idle")
  /\ UNCHANGED <<schedVars, lsn_list, svr>>

find_listener_by_port(p) == SelectInSeq(lsn_list, LAMBDA l : listener[l].port = p)

\* the listener at place i leaves the list, and the set lets go of it
lsn_set_del(i) ==
  /\ lsn_list' = RemoveAt(lsn_list, i)
  /\ ObjUnref([listener EXCEPT ![lsn_list[i]].node = "self"], lsn_list[i], "idle")

h6_local_proxy_server_remove_port(p) ==
  /\ main.pc = "idle"
  /\ LET i == find_listener_by_port(p) IN i # 0 /\ lsn_set_del(i)
  /\ UNCHANGED <<schedVars, svr>>

-----------------------------------------------------------------------------
(* The finalizer of a listener *)

h6_listener_fin_sched ==
  /\ main.pc = "h6_sched_remove"
  /\ h6_sched_remove(main.lsn)
  /\ Goto("h6_ev_unref")
  /\ UNCHANGED <<listener, lsn_list, svr>>

\* [mutant] the event is not released
h6_listener_fin_unref_never ==
  /\ main.pc = "h6_ev_unref"
  /\ Goto("listener_fin_this")
  /\ UNCHANGED <<schedVars, listener, lsn_list, svr>>

h6_listener_fin_unref ==
  /\ main.pc = "h6_ev_unref"
  /\ h6_ev_unref(main.lsn)
  /\ Goto("listener_fin_this")
  /\ UNCHANGED <<listener, lsn_list, svr>>

\* the socket is closed, assert(list_empty(&l->list_node)), and the memory freed
listener_fin_this ==
  /\ main.pc = "listener_fin_this"
  /\ IF listener[main.lsn].node = "self"
       THEN /\ listener' = [listener EXCEPT ![main.lsn].sock = "closed",
                                            ![main.lsn].mem = "freed"]
            /\ Goto(main.then)
       ELSE /\ Goto("aborted")
            /\ UNCHANGED listener
  /\ UNCHANGED <<schedVars, lsn_list, svr>>

-----------------------------------------------------------------------------
(* h6_local_proxy_server_kill_unref *)

h6_local_proxy_server_kill_unref ==
  /\ main.pc = "idle"
  /\ Goto("lsn_set_kill")
  /\ UNCHANGED <<schedVars, listener, lsn_list, svr>>

\* one listener of lsn_set_self_kill: list_del, then listener_self_kill looks at
\* l->lset, which nothing ever assigned
lsn_set_self_kill ==
  /\ main.pc = "lsn_set_kill" /\ lsn_list # <<>>
  /\ LET l == Head(lsn_list)
         unlinked == [listener EXCEPT ![l].node = "null"]
     IN \/ ObjUnref(unlinked, l, "lsn_set_kill")
        \/ Goto("aborted") /\ listener' = unlinked
  /\ lsn_list' = Tail(lsn_list)
  /\ UNCHANGED <<schedVars, svr>>

\* both sets are empty and are released; then the scheduler, if there is one
h6_local_proxy_svr_kill ==
  /\ main.pc = "lsn_set_kill" /\ lsn_list = <<>>
  /\ svr' = [svr EXCEPT !.lsn_set = "freed", !.cli_set = "freed"]
  /\ IF sched = "up" THEN h6_sched_free /\ Goto("h6_sched_free")
                     ELSE Goto("svr_fin") /\ UNCHANGED schedVars
  /\ UNCHANGED <<listener, lsn_list>>

h6_svr_sched_free ==
  /\ main.pc = "h6_sched_free"
  /\ QuitLoop \/ JoinLoop
  /\ Goto(IF sched' = "freed" THEN "svr_fin" ELSE "h6_sched_free")
  /\ UNCHANGED <<listener, lsn_list, svr>>

\* the finalizer asserts that lists in the released sets are empty
h6_local_proxy_svr_fin_this ==
  /\ main.pc = "svr_fin"
  /\ \/ svr' = [svr EXCEPT !.mem = "freed"] /\ Goto("done")
     \/ svr' = svr /\ Goto("aborted")
  /\ UNCHANGED <<schedVars, listener, lsn_list>>

-----------------------------------------------------------------------------
MainContinues ==
  \/ h6_listener_set_port \/ lsn_set_add \/ BindPortUnref
  \/ h6_listener_fin_sched \/ h6_listener_fin_unref \/ listener_fin_this
  \/ lsn_set_self_kill \/ h6_local_proxy_svr_kill \/ h6_svr_sched_free
  \/ h6_local_proxy_svr_fin_this

MainCalls ==
  \/ h6_local_proxy_server_run
  \/ \E p \in Ports : \/ h6_local_proxy_server_remove_port(p)
                      \/ \E l \in Listeners : h6_local_proxy_server_bind_port(l, p)
  \/ h6_local_proxy_server_kill_unref

Loop == /\ Running
        /\ \E k \in Loops : LoopStep(k)
        /\ UNCHANGED <<listener, lsn_list, svr, main>>

Next == MainCalls \/ MainContinues \/ Loop

Spec == Init /\ [][Next]_vars

\* A call in progress goes on; the loops are fair while the process lives.
FairSpec ==
  /\ Spec
  /\ WF_vars(MainContinues)
  /\ \A k \in Loops :
       /\ WF_vars(Running /\ LoopContinues(k) /\ UNCHANGED <<listener, lsn_list, svr, main>>)
       /\ SF_vars(Running /\ LoopOperation(k) /\ UNCHANGED <<listener, lsn_list, svr, main>>)

-----------------------------------------------------------------------------
(* Safety *)

WeightAt == [i \in DOMAIN w_list |-> w_list[i].w]
Sources == {w_list[i].src : i \in DOMAIN w_list}
PlacedOn(k) == {i \in DOMAIN w_list : w_list[i].loop = k}

\* The weights of the loops and the total are those of the entries of the list
\* (h6_sched_add 248-267 and h6_sched_remove 220-281), at every stage of the
\* removal of a listener and of the server.
WeightsAddUp ==
  sched \in {"none", "up"} =>
    /\ total_weight = Total(WeightAt, DOMAIN w_list)
    /\ \A k \in Loops : weight[k] = Total(WeightAt, PlacedOn(k))

\* The list of the scheduler has one entry for every event that is in a loop or on
\* its way in and whose removal was not asked for, under the loop that has it;
\* so h6_sched_remove asks the right loop, once (185-206), and no event is listed
\* that its loop refused, which h6_loop_add_source (68-77) would not notice.
PlacedWhereListed ==
  sched # "freed" =>
    /\ \A i, j \in DOMAIN w_list : w_list[i].src = w_list[j].src => i = j
    /\ \A i \in DOMAIN w_list : w_list[i].loop = home[w_list[i].src]
    /\ Sources = {e \in Events : phase[e] \in {"queued", "watched"}} \ asked

\* List, sums and loops agree: what h6_find_best_loop compares and what
\* h6_sched_remove asks a loop to do are about the events that are there.
PlacementAccounted == WeightsAddUp /\ PlacedWhereListed

InList(l) == l \in ToSet(lsn_list)
Binding(l) == main.lsn = l /\ main.pc \in {"h6_sched_add", "lsn_set_add", "obj_unref"}

\* A listener is counted by the set and by a bind_port in progress, is linked
\* exactly while the set's list holds it, and is finalized when neither is left
\* (obj.c 61-80 against lsn_set_add, lsn_set_del and bind_port 118-132).
ListenerOwned ==
  Running => \A l \in Listeners :
    /\ listener[l].refs = (IF InList(l) THEN 1 ELSE 0) + (IF Binding(l) THEN 1 ELSE 0)
    /\ InList(l) <=> listener[l].node = "linked"
    /\ InList(l) => /\ listener[l].mem = "live" /\ listener[l].sock = "open"
                    /\ svr.lsn_set = "live" /\ owned[l]

\* A loop is released only after its thread has ended, the server after all of
\* them, and until then callbacks find both (h6_sched_free 137-144 inside
\* h6_local_proxy_svr_kill, before the server's last unref).
ServerOutlivesThreads ==
  \A k \in Loops :
    (k < idx \/ svr.mem = "freed") =>
      thread[k].pc \in {"created", "ended", "skipped"}
      /\ (thread[k].pc = "created" => sched = "none")

NeverRan(k) == k \in Loops /\ thread[k].pc = "skipped"

\* When the server is gone nothing is left: no listener, no open socket, and no
\* event, unless its loop was told to quit before its thread ran (h6_ev.c 246)
\* and the event is still in that loop's queue.
NothingLeftBehind ==
  main.pc = "done" =>
    \A l \in Listeners :
      /\ listener[l].mem \in {"unborn", "freed"} /\ listener[l].sock # "open"
      /\ \/ phase[l] \in {"unborn", "freed"}
         \/ phase[l] = "queued" /\ NeverRan(home[l])

\* What loop k sees of the events
PhaseIn(k, e) ==
  IF home[e] = k \/ phase[e] \in {"unborn", "freed"} THEN phase[e] ELSE "ready"

Serving(k) == IF thread[k].pc \in {"accept", "timer"} THEN thread[k].ev ELSE NoEvent

FirstLoop == INSTANCE EvLifecycle WITH
               phase <- [e \in Events |-> PhaseIn(0, e)],
               serving <- Serving(0), open <- open[0]
LastLoop == INSTANCE EvLifecycle WITH
              phase <- [e \in Events |-> PhaseIn(Amount - 1, e)],
              serving <- Serving(Amount - 1), open <- open[Amount - 1]

\* The loops, the first and the last one, are used as EvLifecycle allows: server and
\* scheduler never make a loop accept an event twice, or accept after quit, or free
\* an event that is in it or under its callback.
FollowsLifecycle == FirstLoop!Spec /\ LastLoop!Spec

-----------------------------------------------------------------------------
(* The inductive invariant of the proofs *)

Finalizing(l) == main.lsn = l /\ main.pc \in {"h6_sched_remove", "h6_ev_unref",
                                             "listener_fin_this"}

\* How far the main thread is says what there is of the scheduler and of the sets.
MainPlaced ==
  /\ svr.run <=> sched # "none"
  /\ main.pc \in {"idle", "lsn_set_kill"} => sched \in {"none", "up"}
  /\ main.pc \in {"h6_sched_add", "lsn_set_add", "obj_unref", "h6_sched_remove",
                  "h6_ev_unref", "listener_fin_this"} => sched = "up" /\ main.lsn # NoEvent
  /\ main.pc = "h6_sched_free" <=> sched \in {"quit", "join"}
  /\ main.pc \in {"svr_fin", "done"} => sched \in {"none", "freed"}
  /\ IsInjective(lsn_list)
  /\ main.pc \in {"h6_sched_free", "svr_fin", "done"} => lsn_list = <<>>
  /\ main.pc \notin {"h6_sched_free", "svr_fin", "done", "aborted"} => svr.lsn_set = "live"
  /\ svr.mem = "freed" => main.pc = "done"

\* A listener is on its way into the list, in it, or on its way out; it has its
\* event and its socket from bind_port to the end of its finalizer.
Life(l) ==
  /\ listener[l].mem = "unborn" <=> phase[l] = "unborn"
  /\ listener[l].mem = "unborn" => ~owned[l] /\ listener[l].sock = "none"
  /\ listener[l].mem = "live" => listener[l].sock = "open"
  /\ listener[l].mem = "freed" => listener[l].sock = "closed"
  /\ Running => /\ listener[l].mem = "live" <=> InList(l) \/ Binding(l) \/ Finalizing(l)
                /\ owned[l] <=> /\ listener[l].mem = "live"
                                /\ main.pc = "listener_fin_this" => main.lsn # l
                /\ Binding(l) /\ main.pc # "obj_unref" => ~InList(l)
                /\ Finalizing(l) => ~InList(l)

\* The scheduler has entries only while it is up, for the listeners that are bound and
\* that no finalizer has removed.
Entries ==
  /\ sched # "up" => w_list = <<>>
  /\ Running => Sources =
       {l \in Listeners : InList(l)
                          \/ /\ main.lsn = l
                             /\ main.pc \in {"lsn_set_add", "obj_unref", "h6_sched_remove"}}

\* An event and the loop that has it: a loop that has not run, or never will, only
\* keeps it queued, and one that has ended has let go of it.
EventPlaced(e) ==
  /\ sched = "none" => phase[e] = "unborn"
  /\ home[e] = NoLoop <=> phase[e] \in {"unborn", "ready"}
  /\ phase[e] = "ready" => main.pc = "h6_sched_add" /\ main.lsn = e
  /\ main.pc = "h6_sched_add" /\ main.lsn = e => phase[e] = "ready"
  /\ e \in asked => phase[e] \in {"queued", "watched"}
  /\ home[e] # NoLoop =>
       /\ thread[home[e]].pc \in {"created", "skipped"} => phase[e] = "queued"
       /\ thread[home[e]].pc = "ended" => phase[e] \notin {"queued", "watched"}
       /\ phase[e] = "out" /\ ~owned[e] =>
            thread[home[e]].ev = e /\ thread[home[e]].pc \in {"drop", "notify"}

LoopPlaced(k) ==
  /\ thread[k].ev # NoEvent <=> thread[k].pc \in {"accept", "timer", "drop", "notify"}
  /\ thread[k].ev # NoEvent => home[thread[k].ev] = k
  /\ thread[k].pc \in {"accept", "timer"} => phase[thread[k].ev] = "watched"
  /\ thread[k].pc \in {"drop", "notify"} => phase[thread[k].ev] = "out"
  /\ thread[k].pc = "notify" => ~owned[thread[k].ev]
  /\ thread[k].pc \in {"ended", "skipped"} => ~open[k]
  /\ sched = "none" => thread[k].pc = "created"
  /\ k < idx => thread[k].pc \in {"ended", "skipped"}
  /\ open[k] <=> sched \in {"none", "up"} \/ k > idx \/ (k = idx /\ sched = "quit")

Joined ==
  /\ sched \in {"none", "up"} => idx = 0
  /\ sched \in {"quit", "join"} => idx < Amount
  /\ sched = "freed" => idx = Amount

IInv == /\ TypeOK /\ PlacementAccounted /\ ListenerOwned
        /\ MainPlaced /\ (\A l \in Listeners : Life(l)) /\ Entries
        /\ (\A e \in Events : EventPlaced(e)) /\ (\A k \in Loops : LoopPlaced(k)) /\ Joined

-----------------------------------------------------------------------------
(* What the source says and the code does not do *)

\* "destroy ev" (h6_listener.c:117): the event goes with its listener, so a
\* callback that uses the listener finds it.
ServedListenerAlive ==
  \A k \in Loops : thread[k].pc = "accept" => listener[thread[k].ev].mem # "freed"

-----------------------------------------------------------------------------
(* Liveness, under FairSpec *)

\* A kill ends: the loops quit and h6_sched_free joins their threads (137-144),
\* or an assertion of the finalizers aborts the program.
KillEnds == main.pc = "lsn_set_kill" ~> main.pc \in {"done", "aborted"}

\* The event of a removed port is freed, unless its loop never ran.
RemovedEventFreed ==
  \A l \in Listeners :
    main.pc = "listener_fin_this" /\ main.lsn = l ~>
      phase[l] = "freed" \/ NeverRan(home[l]) \/ main.pc = "aborted"
=============================================================================

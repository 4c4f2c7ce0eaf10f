------------------------------ MODULE H6Sched ------------------------------
(***************************************************************************)
(* The scheduler of src/src/h6_sched.c: it places events on Amount event   *)
(* loops, each with a thread of its own, and takes the loops down.         *)
(*                                                                         *)
(* What an event loop does with an event is the promise of EvLifecycle,    *)
(* which H6Ev implements; here a loop also has a thread that is started,   *)
(* that may be told to quit before it runs, and that lets go of events and *)
(* notifies their owner.  Sections under sched->lock are one action.       *)
(* h6_sched_free takes no lock and is an action per loop and call.         *)
(***************************************************************************)
EXTENDS Naturals, FiniteSets, Sequences, SequencesExt

CONSTANTS Events, NoEvent,
          Amount    \* sched->amount = sched->count, the number of loops

ASSUME AmountAssumption == Amount \in Nat \ {0}
ASSUME NoEventAssumption == NoEvent \notin Events

VARIABLES
  sched,         \* where the life of the scheduler is
  idx,           \* the local of h6_sched_free
  weight,        \* sched->loops[k].weight
  total_weight,  \* sched->total_weight
  w_list,        \* sched->w_list, its head first
  phase,         \* where the life of an event is, as in EvLifecycle
  home,          \* event->opt->loop
  owned,         \* the maker of the event has not released its reference
  asked,         \* events with a remove operation queued
  open,          \* ~loop_quited, per loop
  thread         \* per loop: what its thread does, and about which event

placement == <<weight, total_weight, w_list>>
schedVars == <<sched, idx, placement, phase, home, owned, asked, open, thread>>

Loops == 0..(Amount - 1)
NoLoop == Amount
At(pc, e) == [pc |-> pc, ev |-> e]
Weight(w, src, k) == [w |-> w, src |-> src, loop |-> k]

SchedTypeOK ==
  /\ sched \in {"none", "up", "quit", "join", "freed"}
  /\ idx \in 0..Amount
  /\ weight \in [Loops -> Nat] /\ total_weight \in Nat
  /\ w_list \in Seq([w : Nat, src : Events, loop : Loops])
  /\ phase \in [Events -> {"unborn", "ready", "queued", "watched", "out", "freed"}]
  /\ home \in [Events -> Loops \cup {NoLoop}]
  /\ owned \in [Events -> BOOLEAN]
  /\ asked \subseteq Events
  /\ open \in [Loops -> BOOLEAN]
  /\ thread \in [Loops -> [pc : {"created", "poll", "accept", "timer", "drop", "notify",
                                 "ended", "skipped"},
                           ev : Events \cup {NoEvent}]]

SchedInit ==
  /\ sched = "none" /\ idx = 0
  /\ weight = [k \in Loops |-> 0] /\ total_weight = 0 /\ w_list = <<>>
  /\ phase = [e \in Events |-> "unborn"]
  /\ home = [e \in Events |-> NoLoop]
  /\ owned = [e \in Events |-> FALSE]
  /\ asked = {}
  /\ open = [k \in Loops |-> TRUE]
  /\ thread = [k \in Loops |-> At("created", NoEvent)]

-----------------------------------------------------------------------------
(* Calls of the scheduler *)

h6_sched_new ==
  /\ sched = "none"
  /\ sched' = "up"
  /\ UNCHANGED <<idx, placement, phase, home, owned, asked, open, thread>>

\* the first of the lightest loops
h6_find_best_loop ==
  LET lighter == {k \in Loops : weight[k] < total_weight}
  IN IF lighter = {} THEN 0
     ELSE CHOOSE k \in lighter : \A j \in lighter :
            weight[k] < weight[j] \/ (weight[k] = weight[j] /\ k <= j)

h6_loop_add_source(k, e, w) ==
  /\ IF open[k] THEN /\ phase' = [phase EXCEPT ![e] = "queued"]
                     /\ home' = [home EXCEPT ![e] = k]
                ELSE UNCHANGED <<phase, home>>
  /\ weight' = [weight EXCEPT ![k] = @ + w]

h6_sched_add(e, w) ==
  /\ h6_loop_add_source(h6_find_best_loop, e, w)
  /\ total_weight' = total_weight + w
  /\ w_list' = Cons(Weight(w, e, h6_find_best_loop), w_list)
  /\ UNCHANGED <<sched, idx, owned, asked, open, thread>>

\* [mutant] keeps the entry of the list
h6_sched_remove_keeps(e) ==
  LET i == SelectInSeq(w_list, LAMBDA sw : sw.src = e)
  IN /\ IF i = 0 THEN UNCHANGED <<placement, asked>>
        ELSE LET sw == w_list[i]
             IN /\ asked' = IF open[sw.loop] THEN asked \cup {e} ELSE asked
                /\ weight' = [weight EXCEPT ![sw.loop] = @ - sw.w]
                /\ total_weight' = total_weight - sw.w
                /\ UNCHANGED w_list
     /\ UNCHANGED <<sched, idx, phase, home, owned, open, thread>>

\* [mutant] takes the weight off the first loop
h6_sched_remove_first(e) ==
  LET i == SelectInSeq(w_list, LAMBDA sw : sw.src = e)
  IN /\ IF i = 0 THEN UNCHANGED <<placement, asked>>
        ELSE LET sw == w_list[i]
             IN /\ asked' = IF open[sw.loop] THEN asked \cup {e} ELSE asked
                /\ weight' = [weight EXCEPT ![0] = @ - sw.w]
                /\ total_weight' = total_weight - sw.w
                /\ w_list' = RemoveAt(w_list, i)
     /\ UNCHANGED <<sched, idx, phase, home, owned, open, thread>>

h6_sched_remove(e) ==
  LET i == SelectInSeq(w_list, LAMBDA sw : sw.src = e)
  IN /\ IF i = 0 THEN UNCHANGED <<placement, asked>>
        ELSE LET sw == w_list[i]
             IN /\ asked' = IF open[sw.loop] THEN asked \cup {e} ELSE asked
                /\ weight' = [weight EXCEPT ![sw.loop] = @ - sw.w]
                /\ total_weight' = total_weight - sw.w
                /\ w_list' = RemoveAt(w_list, i)
     /\ UNCHANGED <<sched, idx, phase, home, owned, open, thread>>

\* h6_sched_free begins with loop 0
h6_sched_free ==
  /\ sched = "up"
  /\ sched' = "quit"
  /\ idx' = 0
  /\ UNCHANGED <<placement, phase, home, owned, asked, open, thread>>

\* [mutant] does not tell the loop
QuitLoop_silent ==
  /\ sched = "quit"
  /\ sched' = "join"
  /\ UNCHANGED <<open, idx, placement, phase, home, owned, asked, thread>>

QuitLoop ==
  /\ sched = "quit"
  /\ open' = [open EXCEPT ![idx] = FALSE]
  /\ sched' = "join"
  /\ UNCHANGED <<idx, placement, phase, home, owned, asked, thread>>

\* [mutant] does not wait for the thread
JoinLoop_detached ==
  /\ sched = "join"
  /\ idx' = idx + 1
  /\ sched' = IF idx + 1 < Amount THEN "quit" ELSE "freed"
  /\ w_list' = IF idx + 1 < Amount THEN w_list ELSE <<>>
  /\ UNCHANGED <<weight, total_weight, phase, home, owned, asked, open, thread>>

JoinLoop ==
  /\ sched = "join"
  /\ thread[idx].pc \in {"ended", "skipped"}
  /\ idx' = idx + 1
  /\ sched' = IF idx + 1 < Amount THEN "quit" ELSE "freed"
  /\ w_list' = IF idx + 1 < Amount THEN w_list ELSE <<>>
  /\ UNCHANGED <<weight, total_weight, phase, home, owned, asked, open, thread>>

-----------------------------------------------------------------------------
(* The owner of an event *)

h6_ev_new(e) ==
  /\ phase[e] = "unborn"
  /\ phase' = [phase EXCEPT ![e] = "ready"]
  /\ owned' = [owned EXCEPT ![e] = TRUE]

\* no operation and no loop refers to the event
Unused(e) ==
  /\ phase[e] \in {"ready", "out"} /\ e \notin asked
  /\ \A k \in Loops : thread[k] # At("drop", e)

h6_ev_unref(e) ==
  /\ owned[e]
  /\ owned' = [owned EXCEPT ![e] = FALSE]
  /\ phase' = IF Unused(e) THEN [phase EXCEPT ![e] = "freed"] ELSE phase
  /\ UNCHANGED <<sched, idx, placement, home, asked, open, thread>>

-----------------------------------------------------------------------------
(* The thread of a loop *)

Go(k, pc, e) == thread' = [thread EXCEPT ![k] = At(pc, e)]
Idle(k) == thread[k].pc = "poll"
elsewhere == <<sched, idx, placement, home, owned, open>>

\* h6_ev_loop_run returns at once when the loop was told to quit
h6_loop_thread_fun(k) ==
  /\ sched # "none"
  /\ thread[k].pc = "created"
  /\ Go(k, IF open[k] THEN "poll" ELSE "skipped", NoEvent)
  /\ UNCHANGED <<elsewhere, phase, asked>>

Enter(k, e) ==
  /\ Idle(k) /\ home[e] = k
  /\ phase[e] = "queued"
  /\ phase' = [phase EXCEPT ![e] = "watched"]
  /\ UNCHANGED <<elsewhere, asked, thread>>

\* [mutant] the operation holds no reference
Leave_borrowed(k, e) ==
  /\ Idle(k) /\ home[e] = k
  /\ e \in asked /\ phase[e] = "watched"
  /\ phase' = [phase EXCEPT ![e] = IF owned[e] THEN "out" ELSE "freed"]
  /\ asked' = asked \ {e}
  /\ UNCHANGED <<elsewhere, thread>>

\* the remove operation is executed; its reference is dropped next
Leave(k, e) ==
  /\ Idle(k) /\ home[e] = k
  /\ e \in asked /\ phase[e] = "watched"
  /\ phase' = [phase EXCEPT ![e] = "out"]
  /\ asked' = asked \ {e}
  /\ Go(k, "drop", e)
  /\ UNCHANGED elsewhere

\* [mutant] the reference stays
Drop_leak(k) ==
  /\ thread[k].pc = "drop"
  /\ Go(k, "poll", NoEvent)
  /\ UNCHANGED <<elsewhere, phase, asked>>

\* the operation's reference is dropped: the last one calls the event's destroy
Drop(k) ==
  /\ thread[k].pc = "drop"
  /\ LET e == thread[k].ev
     IN IF owned[e] THEN Go(k, "poll", NoEvent) ELSE Go(k, "notify", e)
  /\ UNCHANGED <<elsewhere, phase, asked>>

Notified(k) ==
  /\ thread[k].pc = "notify"
  /\ phase' = [phase EXCEPT ![thread[k].ev] = "freed"]
  /\ Go(k, "poll", NoEvent)
  /\ UNCHANGED <<elsewhere, asked>>

Serve(k, e) ==
  /\ Idle(k) /\ home[e] = k
  /\ phase[e] = "watched"
  /\ Go(k, "accept", e) \/ Go(k, "timer", e)
  /\ UNCHANGED <<elsewhere, phase, asked>>

Served(k) ==
  /\ thread[k].pc \in {"accept", "timer"}
  /\ Go(k, "poll", NoEvent)
  /\ UNCHANGED <<elsewhere, phase, asked>>

\* the quit operation, behind all others, lets go of what is watched
LoopQuits(k) ==
  /\ Idle(k) /\ ~open[k]
  /\ \A e \in Events : home[e] = k => phase[e] # "queued" /\ e \notin asked
  /\ phase' = [e \in Events |->
                 IF home[e] = k /\ phase[e] = "watched"
                 THEN IF owned[e] THEN "out" ELSE "freed"
                 ELSE phase[e]]
  /\ Go(k, "ended", NoEvent)
  /\ UNCHANGED <<elsewhere, asked>>

LoopOperation(k) == LoopQuits(k) \/ \E e \in Events : Enter(k, e) \/ Leave(k, e)
LoopContinues(k) == h6_loop_thread_fun(k) \/ Drop(k) \/ Notified(k) \/ Served(k)
LoopStep(k) == LoopOperation(k) \/ LoopContinues(k) \/ \E e \in Events : Serve(k, e)

\* A loop thread is scheduled, and a callback returns.  The operations are
\* strongly fair as in H6Ev: libev serves every ready descriptor of an iteration.
LoopFairness(k) == SF_schedVars(LoopOperation(k)) /\ WF_schedVars(LoopContinues(k))
=============================================================================

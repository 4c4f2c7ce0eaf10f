----------------------------- MODULE EvLifecycle -----------------------------
(***************************************************************************)
(* What the event loop of h6_ev.c promises about each event, without       *)
(* reference counts, queue, pipe or threads:                               *)
(*                                                                         *)
(*   unborn -> ready -> queued -> watched -> out -> freed                  *)
(*                  \----------------------------->/                       *)
(*                                                                         *)
(* An event enters the loop once, and only while the loop accepts events;  *)
(* its callback runs only while it is watched; it neither leaves the loop  *)
(* nor is freed under its callback; and shutting the loop down first takes *)
(* in everything that was accepted, then lets go of everything at once.    *)
(***************************************************************************)
CONSTANTS Events,
          NoEvent   \* not an event

VARIABLES phase,    \* [Events -> Phases]
          serving,  \* the event whose callback runs, or NoEvent
          open      \* the loop still accepts events

vars == <<phase, serving, open>>

Phases == {"unborn", "ready", "queued", "watched", "out", "freed"}

Init ==
  /\ phase = [e \in Events |-> "unborn"]
  /\ serving = NoEvent
  /\ open = TRUE

Move(e, from, to) ==
  /\ phase[e] \in from
  /\ phase' = [phase EXCEPT ![e] = to]

Create(e) == Move(e, {"unborn"}, "ready") /\ UNCHANGED <<serving, open>>

Accept(e) == open /\ Move(e, {"ready"}, "queued") /\ UNCHANGED <<serving, open>>

Enter(e) == serving = NoEvent /\ Move(e, {"queued"}, "watched") /\ UNCHANGED <<serving, open>>

Leave(e) == serving = NoEvent /\ Move(e, {"watched"}, "out") /\ UNCHANGED <<serving, open>>

Free(e) == serving # e /\ Move(e, {"ready", "out"}, "freed") /\ UNCHANGED <<serving, open>>

Serve(e) ==
  /\ serving = NoEvent
  /\ phase[e] = "watched"
  /\ serving' = e
  /\ UNCHANGED <<phase, open>>

Served ==
  /\ serving # NoEvent
  /\ serving' = NoEvent
  /\ UNCHANGED <<phase, open>>

Close == open /\ open' = FALSE /\ UNCHANGED <<phase, serving>>

\* the events of unused have no other user and are freed on the way out
Shutdown(unused) ==
  /\ ~open /\ serving = NoEvent
  /\ \A e \in Events : phase[e] # "queued"
  /\ phase' = [e \in Events |->
                 IF phase[e] # "watched" THEN phase[e]
                 ELSE IF e \in unused THEN "freed" ELSE "out"]
  /\ UNCHANGED <<serving, open>>

Next ==
  \/ \E e \in Events : \/ Create(e) \/ Accept(e) \/ Enter(e)
                       \/ Leave(e) \/ Free(e) \/ Serve(e)
  \/ Served
  \/ Close
  \/ \E unused \in SUBSET Events : Shutdown(unused)

Spec == Init /\ [][Next]_vars
=============================================================================

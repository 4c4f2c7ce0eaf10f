--------------------------- MODULE H6EvRefinement ---------------------------
(* The event loop implements the life cycle it promises (EvLifecycle). *)
EXTENDS H6Ev

Queued(e) == \E i \in DOMAIN operations : operations[i] = Op("add", e)

PhaseOf(e) ==
  CASE mem[e] = "unborn" -> "unborn"
    [] mem[e] = "freed"  -> "freed"
    [] OTHER -> IF ~attached[e] THEN "ready"
                ELSE IF Queued(e) THEN "queued"
                ELSE IF in_loop[e] THEN "watched" ELSE "out"

Lifecycle == INSTANCE EvLifecycle WITH
               phase   <- [e \in Events |-> PhaseOf(e)],
               serving <- IF Handling THEN cur ELSE NoEvent,
               open    <- ~loop_quited

\* Every step of h6_ev.c is a step of the life cycle, or invisible to it: an
\* event is accepted at most once and not after h6_ev_loop_quit, is called back
\* only inside the loop, and is never removed or freed under its callback; and
\* the quit operation finds every accepted event already in the loop.
ImplementsLifecycle == Lifecycle!Spec
=============================================================================

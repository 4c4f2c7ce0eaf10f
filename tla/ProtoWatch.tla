----------------------------- MODULE ProtoWatch -----------------------------
(***************************************************************************)
(* A connection: the proto watch of src/src/proto_watch.c and the network  *)
(* client (network_client.c) that owns it.  Threads send messages and kill *)
(* the client; the thread of the loop dispatches the watch's event, sends  *)
(* what was left over, and calls the client back with the lock released,   *)
(* where it may send and kill too.                                         *)
(*                                                                         *)
(* A section under w->lock is one action, except the loop thread's, which  *)
(* is cut at the system calls and at the unlocked accesses to the event's  *)
(* bits.  The watch's event follows EvLifecycle in a loop that is not told *)
(* to quit; EV_WRITE is the one bit that changes.  A message is a number   *)
(* of bytes; a send takes some of them, asks to come back, or fails, and   *)
(* a connection that failed stays failed.                                  *)
(***************************************************************************)
EXTENDS Integers, FiniteSets, Sequences, SequencesExt, Sums

CONSTANTS Threads,      \* threads that use the client
          LoopThread,
          Sizes,        \* sizes of messages
          MaxBacklog,   \* MAX_BACKLOG_SIZE
          Window,       \* w->window_size, 0 for none
          Word,         \* number of values of a uint32_t
          FirstSeq,     \* the sequence number before the first that is given
          MaxMsgs       \* bound: messages written

ASSUME ThreadsAssumption == IsFiniteSet(Threads) /\ LoopThread \notin Threads
ASSUME SizesAssumption == Sizes \subseteq Nat \ {0}
ASSUME LimitsAssumption ==
  MaxBacklog \in Nat /\ Window \in Nat /\ Word \in Nat /\ Window < Word /\ MaxMsgs \in Nat
ASSUME FirstSeqAssumption == FirstSeq \in 0..(Word - 1)

VARIABLES
  pw,            \* the watch: [mem, killed, connecting, sched, fd]
  write_buffer,  \* w->write_buffer, <<>> or <<mb>>
  backlog_list, backlog_size,
  ev,            \* its event: [phase, asked, want, io, modify]
  refs,          \* event->ref_count
  nc_killed,     \* nc->state = STATE_KILLED, and nc->proto_watch = NULL
  proc,          \* per thread: [pc, mb]
  loop,          \* the loop thread: [pc, revents]
  broken,        \* sends fail (external)
  seq,           \* the sequence number the client gave last
  written,       \* number of messages written
  sent,          \* number of bytes sent (external)
  out,           \* number of memory blocks allocated and not freed (mem_block.c)
  due            \* the message of every byte taken and not sent, but for the
                 \* droppable messages that were dropped (ghost)

buffers == <<write_buffer, backlog_list, backlog_size, out, due>>
given == <<seq, written>>
vars == <<pw, buffers, ev, refs, nc_killed, proc, loop, broken, given, sent>>

Procs == Threads \cup {LoopThread}
MbIds == 1..MaxMsgs
Mb == [n : MbIds, seq : 0..(Word - 1), size : Sizes, off : Nat, drop : BOOLEAN]
At(pc, mb) == [pc |-> pc, mb |-> mb]
Idle == At("idle", <<>>)

WatchType == [mem : {"live", "freed"}, killed : BOOLEAN, connecting : BOOLEAN,
              sched : BOOLEAN, fd : {"open", "closed"}]
\* asked: a remove operation is queued; want: EV_WRITE is in event->events;
\* io: libev watches for it; modify: modify operations queued
EventType == [phase : {"ready", "queued", "watched", "out", "freed"}, asked : BOOLEAN,
              want : BOOLEAN, io : BOOLEAN, modify : Nat]
ThreadType == [pc : {"idle", "write", "want", "set", "push", "unref", "kill"}, mb : Seq(Mb)]
LoopType == [pc : {"poll", "dispatch", "write", "empty", "apply", "read", "recv",
                   "closing", "drop"},
             revents : SUBSET {"READ", "WRITE", "TIMER"}]

TypeOK ==
  /\ pw \in WatchType
  /\ write_buffer \in Seq(Mb) /\ Len(write_buffer) <= 1
  /\ backlog_list \in Seq(Mb) /\ backlog_size \in Nat
  /\ ev \in EventType /\ refs \in Nat /\ nc_killed \in BOOLEAN
  /\ proc \in [Procs -> ThreadType] /\ loop \in LoopType
  /\ broken \in BOOLEAN /\ seq \in 0..(Word - 1) /\ written \in 0..MaxMsgs
  /\ sent \in Nat /\ out \in Int /\ due \in Seq(MbIds)

\* network_client_new: the client owns the watch
Init ==
  /\ pw = [mem |-> "live", killed |-> FALSE, connecting |-> FALSE, sched |-> FALSE,
           fd |-> "open"]
  /\ write_buffer = <<>> /\ backlog_list = <<>> /\ backlog_size = 0
  /\ ev = [phase |-> "ready", asked |-> FALSE, want |-> FALSE, io |-> FALSE, modify |-> 0]
  /\ refs = 1 /\ nc_killed = FALSE
  /\ proc = [t \in Procs |-> Idle]
  /\ loop = [pc |-> "poll", revents |-> {}]
  /\ broken = FALSE
  /\ seq = FirstSeq /\ written = 0
  /\ sent = 0 /\ out = 0 /\ due = <<>>

-----------------------------------------------------------------------------
\* [mutant] the lock is released before EV_WRITE is taken back
LockFree_early == loop.pc # "write"

\* the loop thread keeps w->lock between two of its steps
LockFree == loop.pc \notin {"write", "empty", "apply"}

\* a thread between two calls; the loop thread only in a callback of the client
MayCall(t) ==
  /\ proc[t].pc = "idle"
  /\ t = LoopThread => loop.pc \in {"recv", "closing"}

Step(t, from, to) == proc[t].pc = from /\ proc' = [proc EXCEPT ![t].pc = to]

Text == write_buffer \o backlog_list

\* a block comes from the cache of freed ones or from malloc, and goes back
alloc_memblock == out' = out + 1
free_memblock(k) == out' = out - k

SizeOf(list) == Total([i \in DOMAIN list |-> list[i].size], DOMAIN list)

\* proto_watch_fin_self, when the last reference is dropped
Release ==
  IF refs > 1
    THEN /\ refs' = refs - 1
         /\ UNCHANGED <<pw, buffers>>
    ELSE /\ refs' = 0
         /\ pw' = [pw EXCEPT !.mem = "freed", !.fd = "closed"]
         /\ write_buffer' = <<>> /\ backlog_list' = <<>> /\ due' = <<>>
         /\ free_memblock(Len(Text))
         /\ UNCHANGED backlog_size

Finalized(e) == IF refs > 1 THEN e ELSE [e EXCEPT !.phase = "freed"]

-----------------------------------------------------------------------------
(* Sending *)

\* A block is filled and, under nc->lock, a client that is not killed lends its
\* watch; a killed one frees the block at once, which leaves everything as it was.
\* alloc_gather_memblock leaves mb->flags as they are: droppable or not.
network_client_send_mb(t) ==
  /\ MayCall(t) /\ ~nc_killed /\ written < MaxMsgs
  /\ alloc_memblock
  /\ refs' = refs + 1
  /\ written' = written + 1
  /\ \E size \in Sizes, drop \in BOOLEAN, step \in {1, Window + 1} :
       /\ seq' = (seq + step) % Word
       /\ proc' = [proc EXCEPT ![t] = At("write",
            <<[n |-> written', seq |-> seq', size |-> size, off |-> 0, drop |-> drop]>>)]
  /\ UNCHANGED <<pw, write_buffer, backlog_list, backlog_size, due, ev, nc_killed,
                 loop, broken, sent>>

MbOf(t) == proc[t].mb[1]
WriteEnds(t, pc) == proc' = [proc EXCEPT ![t] = At(pc, <<>>)]
Writes(t) == proc[t].pc = "write" /\ LockFree

Bytes(mb, k) == [i \in 1..k |-> mb.n]
Rest(bytes, k) == SubSeq(bytes, k + 1, Len(bytes))

WriteKilled(t) ==
  /\ Writes(t) /\ pw.killed
  /\ WriteEnds(t, "unref")
  /\ free_memblock(1)
  /\ UNCHANGED <<pw, write_buffer, backlog_list, backlog_size, due, ev, refs, nc_killed,
                 loop, broken, given, sent>>

\* [mutant] does not look at the backlog
Direct_hasty == ~pw.connecting /\ write_buffer = <<>>

Direct == ~pw.connecting /\ Text = <<>>

\* The first k bytes go at once; the rest, if send() would block, waits in the
\* write buffer; the block is freed when all is sent, and when send() fails.
WriteDirectly(t) ==
  /\ Writes(t) /\ ~pw.killed /\ Direct
  /\ LET mb == MbOf(t)
     IN \E k \in 0..mb.size :
          /\ k > 0 => pw.fd = "open" /\ ~broken
          /\ sent' = sent + k
          /\ \/ /\ k = mb.size
                /\ due' = Rest(due \o Bytes(mb, mb.size), k)
                /\ WriteEnds(t, "unref")
                /\ free_memblock(1)
                /\ UNCHANGED <<write_buffer, broken>>
             \/ /\ k < mb.size /\ pw.fd = "open" /\ ~broken
                /\ write_buffer' = <<[mb EXCEPT !.off = k]>>
                /\ due' = Rest(due \o Bytes(mb, mb.size), k)
                /\ WriteEnds(t, "want")
                /\ UNCHANGED <<broken, out>>
             \/ /\ k < mb.size
                /\ broken' = TRUE
                /\ WriteEnds(t, "unref")
                /\ free_memblock(1)
                /\ UNCHANGED <<write_buffer, due>>
  /\ UNCHANGED <<pw, backlog_list, backlog_size, ev, refs, nc_killed, loop, given>>

InWindow(mb, s) == (s - mb.seq) % Word <= Window

\* what is dropped: the droppable messages before the first that is in the window
proto_watch_adjust_window(s) ==
  LET OutOfWindow(k) == /\ backlog_list[k].drop
                        /\ \A i \in 1..k : backlog_list[i].drop => ~InWindow(backlog_list[i], s)
  IN IF Window = 0 THEN {}
     ELSE {backlog_list[k] : k \in {i \in DOMAIN backlog_list : OutOfWindow(i)}}

Without(list, S) ==
  LET kept[i \in 0..Len(list)] == IF i = 0 THEN <<>>
                                  ELSE IF list[i] \in S THEN kept[i - 1]
                                       ELSE Append(kept[i - 1], list[i])
  IN kept[Len(list)]

Fits(size, mb) == size + mb.size <= MaxBacklog

WriteBacklog(t) ==
  /\ Writes(t) /\ ~pw.killed /\ ~Direct
  /\ LET mb == MbOf(t)
         dropped == proto_watch_adjust_window(mb.seq)
         kept == Without(backlog_list, dropped)
         size == backlog_size - Total([m \in dropped |-> m.size], dropped)
         left == Without(due, {m.n : m \in dropped})
     IN IF Fits(size, mb)
          THEN /\ backlog_list' = Append(kept, mb)
               /\ backlog_size' = size + mb.size
               /\ due' = left \o Bytes(mb, mb.size)
               /\ free_memblock(Cardinality(dropped))
               /\ WriteEnds(t, "want")
          ELSE /\ backlog_list' = kept
               /\ backlog_size' = size
               /\ due' = left
               /\ free_memblock(Cardinality(dropped) + 1)
               /\ WriteEnds(t, "unref")
  /\ UNCHANGED <<pw, write_buffer, ev, refs, nc_killed, loop, broken, given, sent>>

\* h6_ev_add_events, outside the lock: look at the bit, set it, ask the loop
AddEventsLook(t) ==
  /\ Step(t, "want", IF ev.want THEN "unref" ELSE "set")
  /\ UNCHANGED <<pw, buffers, ev, refs, nc_killed, loop, broken, given, sent>>

AddEventsSet(t) ==
  /\ Step(t, "set", "push")
  /\ ev' = [ev EXCEPT !.want = TRUE]
  /\ UNCHANGED <<pw, buffers, refs, nc_killed, loop, broken, given, sent>>

\* [mutant] forgets to tell the loop
AddEventsPush_silent(t) ==
  /\ Step(t, "push", "unref")
  /\ UNCHANGED <<refs, ev, pw, buffers, nc_killed, loop, broken, given, sent>>

\* [mutant] the operation takes no reference
AddEventsPush_borrowed(t) ==
  /\ Step(t, "push", "unref")
  /\ ev' = IF ev.phase # "ready" THEN [ev EXCEPT !.modify = @ + 1] ELSE ev
  /\ UNCHANGED <<refs, pw, buffers, nc_killed, loop, broken, given, sent>>

AddEventsPush(t) ==
  /\ Step(t, "push", "unref")
  /\ IF ev.phase # "ready" THEN ev' = [ev EXCEPT !.modify = @ + 1] /\ refs' = refs + 1
                           ELSE UNCHANGED <<ev, refs>>
  /\ UNCHANGED <<pw, buffers, nc_killed, loop, broken, given, sent>>

proto_watch_unref(t) ==
  /\ Step(t, "unref", "idle")
  /\ Release
  /\ ev' = Finalized(ev)
  /\ UNCHANGED <<nc_killed, loop, broken, given, sent>>

-----------------------------------------------------------------------------
(* Attaching, connecting, killing *)

\* proto_watch_attach, by a thread that keeps the client from being killed
proto_watch_attach(t) ==
  /\ MayCall(t) /\ ~nc_killed /\ LockFree
  /\ ~pw.sched
  /\ pw' = [pw EXCEPT !.sched = TRUE]
  /\ ev' = [ev EXCEPT !.phase = "queued"]
  /\ refs' = refs + 1
  /\ UNCHANGED <<buffers, nc_killed, proc, loop, broken, given, sent>>

\* connect is in progress, before anything is written or attached
proto_watch_set_dst(t) ==
  /\ MayCall(t) /\ ~nc_killed /\ LockFree
  /\ written = 0 /\ ~pw.connecting /\ ev.phase = "ready"
  /\ pw' = [pw EXCEPT !.connecting = TRUE]
  /\ ev' = [ev EXCEPT !.want = TRUE]
  /\ UNCHANGED <<buffers, refs, nc_killed, proc, loop, broken, given, sent>>

\* under nc->lock: the watch is taken from the client
network_client_self_kill(t) ==
  /\ MayCall(t) /\ ~nc_killed
  /\ nc_killed' = TRUE
  /\ proc' = [proc EXCEPT ![t] = At("kill", <<>>)]
  /\ UNCHANGED <<pw, buffers, ev, refs, loop, broken, given, sent>>

\* [mutant] the event stays with the scheduler
proto_watch_kill_forgets(t) ==
  /\ LockFree
  /\ Step(t, "kill", "unref")
  /\ pw' = [pw EXCEPT !.killed = TRUE, !.sched = FALSE]
  /\ UNCHANGED <<ev, refs, buffers, nc_killed, loop, broken, given, sent>>

proto_watch_kill(t) ==
  /\ LockFree
  /\ Step(t, "kill", "unref")
  /\ pw' = [pw EXCEPT !.killed = TRUE, !.sched = FALSE]
  /\ IF pw.sched THEN ev' = [ev EXCEPT !.asked = TRUE] /\ refs' = refs + 1
                 ELSE UNCHANGED <<ev, refs>>
  /\ UNCHANGED <<buffers, nc_killed, loop, broken, given, sent>>

-----------------------------------------------------------------------------
(* The event in its loop *)

Polls == loop.pc = "poll"
Turn(pc) == loop' = [pc |-> pc, revents |-> IF pc \in {"write", "empty", "apply"}
                                           THEN loop.revents ELSE {}]
data == <<nc_killed, proc, broken, given, sent>>

Enter ==
  /\ Polls /\ ev.phase = "queued"
  /\ ev' = [ev EXCEPT !.phase = "watched", !.io = ev.want]
  /\ UNCHANGED <<pw, buffers, refs, loop, data>>

Modify ==
  /\ Polls /\ ev.modify > 0 /\ ev.phase \in {"watched", "out"}
  /\ Release
  /\ ev' = Finalized([ev EXCEPT !.modify = @ - 1,
                                !.io = IF ev.phase = "watched" THEN ev.want ELSE @])
  /\ UNCHANGED <<loop, data>>

\* the reference of ev_list; that of the operation is dropped next
Leave ==
  /\ Polls /\ ev.asked /\ ev.phase = "watched"
  /\ ev' = [ev EXCEPT !.phase = "out", !.asked = FALSE, !.io = FALSE]
  /\ refs' = refs - 1
  /\ Turn("drop")
  /\ UNCHANGED <<pw, buffers, data>>

Drop ==
  /\ loop.pc = "drop"
  /\ Release
  /\ ev' = Finalized(ev)
  /\ Turn("poll")
  /\ UNCHANGED data

\* libev calls back
Dispatch(revents) ==
  /\ Polls /\ ev.phase = "watched"
  /\ "TIMER" \notin revents => pw.fd = "open"
  /\ "WRITE" \in revents => ev.io
  /\ loop' = [pc |-> "dispatch", revents |-> revents]
  /\ UNCHANGED <<pw, buffers, ev, refs, data>>

AfterWrite == IF "READ" \in loop.revents THEN "read" ELSE "poll"

\* [mutant] does not look whether the watch was killed
proto_watch_dispath_blind ==
  /\ loop.pc = "dispatch"
  /\ \/ "TIMER" \in loop.revents /\ Turn("closing") /\ UNCHANGED pw
     \/ /\ "TIMER" \notin loop.revents /\ "WRITE" \notin loop.revents
        /\ Turn("read") /\ UNCHANGED pw
     \/ /\ "WRITE" \in loop.revents /\ pw.connecting
        /\ pw' = [pw EXCEPT !.connecting = FALSE]
        /\ Turn(AfterWrite) \/ Turn("closing")
     \/ "WRITE" \in loop.revents /\ ~pw.connecting /\ Turn("write") /\ UNCHANGED pw
  /\ UNCHANGED <<buffers, ev, refs, data>>

proto_watch_dispath ==
  /\ loop.pc = "dispatch"
  /\ \/ pw.killed /\ Turn("poll") /\ UNCHANGED pw
     \/ ~pw.killed /\ "TIMER" \in loop.revents /\ Turn("closing") /\ UNCHANGED pw
     \/ /\ ~pw.killed /\ loop.revents = {"READ"}
        /\ Turn("read") /\ UNCHANGED pw
     \/ /\ ~pw.killed /\ "WRITE" \in loop.revents /\ pw.connecting
        /\ pw' = [pw EXCEPT !.connecting = FALSE]
        /\ Turn(AfterWrite) \/ Turn("closing")
     \/ /\ ~pw.killed /\ "WRITE" \in loop.revents /\ ~pw.connecting
        /\ Turn("write") /\ UNCHANGED pw
  /\ UNCHANGED <<buffers, ev, refs, data>>

\* __proto_watch_write_pending
WriteNext ==
  /\ loop.pc = "write" /\ write_buffer = <<>> /\ backlog_list # <<>>
  /\ write_buffer' = <<Head(backlog_list)>>
  /\ backlog_list' = Tail(backlog_list)
  /\ backlog_size' = backlog_size - Head(backlog_list).size
  /\ UNCHANGED <<out, due, pw, ev, refs, loop, data>>

WriteEmpty ==
  /\ loop.pc = "write" /\ Text = <<>>
  /\ IF ev.want THEN Turn("empty") ELSE Turn(AfterWrite)
  /\ UNCHANGED <<pw, buffers, ev, refs, data>>

\* [mutant] frees the message when a part of it is sent
Send_frees ==
  /\ loop.pc = "write" /\ write_buffer # <<>> /\ ~broken
  /\ LET mb == write_buffer[1]
     IN \E k \in 1..(mb.size - mb.off) :
          /\ sent' = sent + k /\ due' = Rest(due, k)
          /\ write_buffer' = IF mb.off + k = mb.size THEN <<>>
                             ELSE <<[mb EXCEPT !.off = @ + k]>>
          /\ free_memblock(1)
  /\ UNCHANGED <<pw, backlog_list, backlog_size, ev, refs, nc_killed, proc, loop,
                 broken, given>>

\* [mutant] counts a message off the backlog when it is sent
Send_counted ==
  /\ loop.pc = "write" /\ write_buffer # <<>> /\ ~broken
  /\ LET mb == write_buffer[1]
     IN \E k \in 1..(mb.size - mb.off) :
          /\ sent' = sent + k /\ due' = Rest(due, k)
          /\ write_buffer' = IF mb.off + k = mb.size THEN <<>>
                             ELSE <<[mb EXCEPT !.off = @ + k]>>
          /\ backlog_size' = IF mb.off + k = mb.size THEN backlog_size - mb.size
                             ELSE backlog_size
          /\ IF mb.off + k = mb.size THEN free_memblock(1) ELSE UNCHANGED out
  /\ UNCHANGED <<pw, backlog_list, ev, refs, nc_killed, proc, loop, broken, given>>

\* send() of what is left of the write buffer
Send ==
  /\ loop.pc = "write" /\ write_buffer # <<>> /\ ~broken
  /\ LET mb == write_buffer[1]
     IN \E k \in 1..(mb.size - mb.off) :
          /\ sent' = sent + k /\ due' = Rest(due, k)
          /\ write_buffer' = IF mb.off + k = mb.size THEN <<>>
                             ELSE <<[mb EXCEPT !.off = @ + k]>>
          /\ IF mb.off + k = mb.size THEN free_memblock(1) ELSE UNCHANGED out
  /\ UNCHANGED <<pw, backlog_list, backlog_size, ev, refs, nc_killed, proc, loop,
                 broken, given>>

SendAgain ==
  /\ loop.pc = "write" /\ write_buffer # <<>> /\ ~broken
  /\ Turn(AfterWrite)
  /\ UNCHANGED <<pw, buffers, ev, refs, data>>

SendFails ==
  /\ loop.pc = "write" /\ write_buffer # <<>>
  /\ broken' = TRUE
  /\ Turn("closing")
  /\ UNCHANGED <<pw, buffers, ev, refs, nc_killed, proc, given, sent>>

\* h6_ev_remove_events_sync: the bit is cleared, then libev told
RemoveEventsClear ==
  /\ loop.pc = "empty"
  /\ ev' = [ev EXCEPT !.want = FALSE]
  /\ Turn("apply")
  /\ UNCHANGED <<pw, buffers, refs, data>>

RemoveEventsApply ==
  /\ loop.pc = "apply"
  /\ ev' = [ev EXCEPT !.io = ev.want]
  /\ Turn(AfterWrite)
  /\ UNCHANGED <<pw, buffers, refs, data>>

\* the parser: nothing more, a message for the client, an end of the connection
Parse ==
  /\ loop.pc = "read"
  /\ Turn("poll") \/ Turn("recv") \/ Turn("closing")
  /\ UNCHANGED <<pw, buffers, ev, refs, data>>

ParseNothing == Parse /\ loop'.pc = "poll"

\* the client's callback returns, and more is parsed, unless it refused
RecvReturns ==
  /\ loop.pc = "recv" /\ proc[LoopThread] = Idle
  /\ Turn("read") \/ Turn("closing")
  /\ UNCHANGED <<pw, buffers, ev, refs, data>>

\* conn_closed and conn_error have killed the client, or found it killed
Close ==
  /\ loop.pc = "closing" /\ proc[LoopThread] = Idle /\ nc_killed
  /\ pw' = [pw EXCEPT !.fd = "closed"]
  /\ Turn("poll")
  /\ UNCHANGED <<buffers, ev, refs, data>>

-----------------------------------------------------------------------------
Call(t) == \/ network_client_send_mb(t) \/ proto_watch_attach(t)
           \/ proto_watch_set_dst(t) \/ network_client_self_kill(t)

Continue(t) ==
  \/ WriteKilled(t) \/ WriteDirectly(t) \/ WriteBacklog(t)
  \/ AddEventsLook(t) \/ AddEventsSet(t) \/ AddEventsPush(t)
  \/ proto_watch_unref(t) \/ proto_watch_kill(t)

LoopOperation == Enter \/ Modify \/ Leave

LoopContinues ==
  \/ Drop \/ proto_watch_dispath \/ WriteNext \/ WriteEmpty \/ Send \/ SendAgain
  \/ SendFails \/ RemoveEventsClear \/ RemoveEventsApply \/ Parse \/ RecvReturns \/ Close

DispatchIo == \E revents \in SUBSET {"READ", "WRITE"} : revents # {} /\ Dispatch(revents)

Next ==
  \/ \E t \in Procs : Call(t) \/ Continue(t)
  \/ LoopOperation \/ LoopContinues
  \/ DispatchIo \/ Dispatch({"TIMER"})

Spec == Init /\ [][Next]_vars

\* Calls in progress and the loop go on; conn_closed kills the client; the loop
\* executes operations and serves a writable socket although it serves others;
\* the peer keeps reading, and pauses in its own sending.
FairSpec ==
  /\ Spec
  /\ \A t \in Procs : WF_vars(Continue(t))
  /\ WF_vars(LoopContinues)
  /\ WF_vars(loop.pc = "closing" /\ network_client_self_kill(LoopThread))
  /\ SF_vars(LoopOperation)
  /\ SF_vars(Dispatch({"WRITE"}))
  /\ SF_vars(Send) /\ SF_vars(ParseNothing)

-----------------------------------------------------------------------------
(* Safety *)

Held == Cardinality({t \in Procs : proc[t].mb # <<>>})

\* Every message is accounted for: its block is with the thread that writes it or
\* in one of the buffers, and is freed once when it is sent, dropped, refused or
\* left behind in a watch that is freed; and backlog_size is the size of the
\* backlog and never exceeds its limit (113-146, 276-340, 501-581).
MessagesAccounted ==
  /\ out = Len(Text) + Held
  /\ pw.mem = "live" => backlog_size = SizeOf(backlog_list) /\ backlog_size <= MaxBacklog

Unsent(mb) == Bytes(mb, mb.size - mb.off)
BytesOf(list) ==
  LET bytes[i \in 0..Len(list)] == IF i = 0 THEN <<>> ELSE bytes[i - 1] \o Unsent(list[i])
  IN bytes[Len(list)]

\* While sends succeed, what waits in the buffers is what was taken, in order, but
\* for the bytes sent and the droppable messages that the window dropped whole:
\* nothing else is lost, and nothing is doubled, mixed or cut, whoever sends it
\* (71-146, 501-571).
StreamIntact == ~broken /\ pw.mem = "live" => due = BytesOf(Text)

Asking == \E t \in Procs : proc[t].pc \in {"want", "set"}
Pushing == \E t \in Procs : proc[t].pc = "push"

\* Text never waits without EV_WRITE: libev watches for it, or an operation that
\* makes it is queued or about to be.  It is asked for after the lock is released
\* (572-578), and taken back by the loop thread (124).
NoStrandedText ==
  Text # <<>> /\ ev.phase \in {"ready", "queued", "watched"} =>
    Asking \/ (ev.want /\ (ev.io \/ ev.modify > 0 \/ ev.phase # "watched" \/ Pushing))

One(b) == IF b THEN 1 ELSE 0

\* The references of the watch are those of its client, of the calls in progress,
\* of the loop and of the operations queued; it is freed with the last, and no
\* callback of it is running then (network_client.c 277-295, 380-455).
ReferencesConserved ==
  /\ refs = One(~nc_killed) + Cardinality({t \in Procs : proc[t] # Idle})
              + One(ev.phase \in {"queued", "watched"}) + One(ev.asked)
              + ev.modify + One(loop.pc = "drop")
  /\ (refs = 0) <=> (pw.mem = "freed")
  /\ pw.mem = "freed" => loop.pc = "poll"

\* Nothing is sent once the watch is killed, by the loop thread neither, which
\* releases the lock in callbacks and goes on (40-42, 149-166, 265-270).
SilentAfterKill == [][pw.killed => sent' = sent]_vars

-----------------------------------------------------------------------------
(* The inductive invariant of the proofs *)

Writing(t) == proc[t].pc = "write"

\* A thread has one message while it writes it and none otherwise; messages have
\* different numbers, and none waits twice.
Numbered ==
  /\ \A t \in Procs : /\ Len(proc[t].mb) <= 1
                      /\ Writing(t) <=> proc[t].mb # <<>>
                      /\ Writing(t) => /\ MbOf(t).n <= written
                                       /\ \A mb \in ToSet(backlog_list) : mb.n # MbOf(t).n
  /\ \A t, u \in Procs : Writing(t) /\ Writing(u) /\ MbOf(t).n = MbOf(u).n => t = u
  /\ \A mb \in ToSet(backlog_list) : mb.n <= written
  /\ IsInjective(backlog_list)

Killing == \E t \in Procs : proc[t].pc = "kill"

\* The event is with the scheduler from attach to the kill, is asked to leave by the kill
\* alone, and is watched while the loop thread works on it.
Attached ==
  /\ ~nc_killed => (pw.sched <=> ev.phase # "ready") /\ ~ev.asked /\ ~Killing
  /\ ev.asked => ~pw.sched
  /\ loop.pc \notin {"poll", "drop"} => ev.phase = "watched"
  /\ ev.phase = "freed" <=> pw.mem = "freed"

\* EV_WRITE is there, or asked for, while text waits, and the loop will hear of it; the
\* loop thread takes it back only with the lock and with no text, and a kill waits for
\* the lock.
Heard ==
  /\ Text # <<>> /\ ev.phase \in {"ready", "queued", "watched"} =>
       ev.want \/ Asking
  /\ ev.want /\ ev.phase = "watched" => ev.io \/ ev.modify > 0 \/ Pushing
  /\ loop.pc \in {"empty", "apply"} => Text = <<>>
  /\ ~LockFree => ~pw.killed

IInv == /\ TypeOK /\ MessagesAccounted /\ ReferencesConserved
        /\ Numbered /\ Attached /\ Heard

\* Only a message in the write buffer was sent in part, and the messages that wait have
\* different numbers, so that what the window drops takes no byte of another with it.
Apart ==
  /\ \A a, b \in ToSet(backlog_list) : a.n = b.n => a = b
  /\ \A a \in ToSet(backlog_list) : a.off = 0
  /\ \A a \in ToSet(write_buffer) :
       /\ a.off < a.size /\ a.n <= written
       /\ \A b \in ToSet(backlog_list) : b.n # a.n
       /\ \A t \in Procs : Writing(t) => MbOf(t).n # a.n
  /\ \A t \in Procs : Writing(t) => MbOf(t).off = 0

-----------------------------------------------------------------------------
(* Liveness, under FairSpec *)

\* Text of an attached watch is sent, or the connection ends.
TextLeaves ==
  Text # <<>> /\ ev.phase = "watched" ~> Text = <<>> \/ nc_killed \/ pw.fd = "closed"

\* A client killed lets go of its watch, and the last reference frees it, with its
\* descriptor and its text.
KillFinalizes == nc_killed ~> pw.mem = "freed" /\ pw.fd = "closed"
=============================================================================

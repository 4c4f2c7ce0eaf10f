----------------------------- MODULE TraceRing -----------------------------
(***************************************************************************)
(* The asynchronous trace of src/src/trace.c: threads write lines into a   *)
(* ring of Size bytes, a worker thread prints them.  Positions and the     *)
(* counters of their wrap-arounds are unsigned words (modulo Word, 2^32 in *)
(* the program); a semaphore tells the worker that there is text.          *)
(*                                                                         *)
(* Every section under buf->mutex is one action, and so is every           *)
(* sem_getvalue, sem_post and sem_wait, which the code calls outside it.   *)
(* A line is a number of equal bytes; bytes are told apart by their text.  *)
(***************************************************************************)
EXTENDS Integers, Sequences

CONSTANTS Writers,   \* threads that call trace()
          Size,      \* TRACE_MAX_BUF, the size of the ring
          LineMax,   \* TRACE_LINE_MAX_SIZE, the size of the worker's string
          Word,      \* number of values of a uint32_t
          Lens,      \* lengths of the lines that are written
          Texts,     \* what the bytes of a line may be
          Garbage    \* values an uninitialised `cycle' may have

ASSUME SizeAssumption ==
  /\ Size \in Nat /\ LineMax \in Nat /\ Word \in Nat
  /\ 1 < LineMax /\ LineMax <= Size /\ 2 * Size < Word
ASSUME LensAssumption == Lens \subseteq 1..LineMax
ASSUME GarbageAssumption == Garbage \subseteq BOOLEAN /\ Garbage # {}

VARIABLES
  start,          \* the bytes of the ring
  read_pos, read_reverse,
  write_pos, write_reverse,
  sem,            \* value of the semaphore
  worker,         \* the worker: where it is, its locals string and cycle,
                  \* and whether it is in its last trace_print_until_zero
  writer,         \* per thread: where async_ring_buf_write is, and its line
  exit,           \* buf->exit
  closer,         \* where async_ring_buf_free is
  pending,        \* bytes written and not printed yet, in order (ghost)
  crowded         \* a copy took more than its share of the ring (ghost)

ring == <<start, read_pos, read_reverse, write_pos, write_reverse>>
vars == <<ring, sem, worker, writer, exit, closer, pending, crowded>>

Byte == Texts \cup {""}      \* "" is a byte never written
Line(n, c) == [i \in 1..n |-> c]
Lines == {Line(n, c) : n \in Lens, c \in Texts}

WorkerType == [pc : {"sem_wait", "read", "print", "exit?", "done", "assert"},
               string : Seq(Byte), cycle : BOOLEAN, last : BOOLEAN]
WriterType == [pc : {"idle", "full", "recheck", "copy", "value", "post"},
               line : Lines \cup {<<>>}]

TypeOK ==
  /\ start \in [0..(Size - 1) -> Byte]
  /\ read_pos \in 0..Size /\ write_pos \in 0..Size
  /\ read_reverse \in 0..(Word - 1) /\ write_reverse \in 0..(Word - 1)
  /\ sem \in Nat
  /\ worker \in WorkerType /\ Len(worker.string) < LineMax
  /\ writer \in [Writers -> WriterType]
  /\ exit \in BOOLEAN
  /\ closer \in {"none", "post", "join", "freed"}
  /\ pending \in Seq(Byte)
  /\ crowded \in BOOLEAN

Init ==
  /\ start = [i \in 0..(Size - 1) |-> ""]
  /\ read_pos = 0 /\ read_reverse = 0
  /\ write_pos = 0 /\ write_reverse = 0
  /\ sem = 0
  /\ worker = [pc |-> "sem_wait", string |-> <<>>, cycle |-> FALSE, last |-> FALSE]
  /\ writer = [t \in Writers |-> [pc |-> "idle", line |-> <<>>]]
  /\ exit = FALSE
  /\ closer = "none"
  /\ pending = <<>>
  /\ crowded = FALSE

-----------------------------------------------------------------------------
(* The ring *)

SameLap == write_reverse = read_reverse
NextLap == (write_reverse - read_reverse) % Word = 1

async_ring_buf_get_free_space ==
  IF SameLap THEN (Size - write_pos + read_pos) % Word
  ELSE IF NextLap THEN (read_pos - write_pos) % Word
  ELSE 0

async_ring_buf_get_used_space ==
  IF SameLap THEN (write_pos - read_pos) % Word
  ELSE IF NextLap THEN (Size - read_pos + write_pos) % Word
  ELSE Size

\* [mutant] does not wrap
Advance_straight(pos, n) == pos + n

\* [mutant] counts a wrap one byte early
Laps_early(pos, reverse, n) == IF pos + n >= Size THEN (reverse + 1) % Word ELSE reverse

\* a position, and the counter of its wraps, after n more bytes
Advance(pos, n) == IF pos + n > Size THEN (pos + n) % Size ELSE pos + n
Laps(pos, reverse, n) == IF pos + n > Size THEN (reverse + 1) % Word ELSE reverse

\* the n bytes of the ring from pos on
Bytes(pos, n) == [i \in 1..n |-> start[(pos + i - 1) % Size]]

-----------------------------------------------------------------------------
(* A thread that traces *)

Goto(t, pc) == writer' = [writer EXCEPT ![t].pc = pc]

\* the free space is looked at under the lock, and the lock released
async_ring_buf_write(t) ==
  /\ writer[t].pc = "idle"
  /\ closer = "none"
  /\ \E line \in Lines :
       writer' = [writer EXCEPT ![t] =
         [pc |-> IF async_ring_buf_get_free_space < Len(line) THEN "full" ELSE "copy",
          line |-> line]]
  /\ UNCHANGED <<ring, sem, worker, exit, closer, pending, crowded>>

\* [mutant] waits for the semaphore to be up
SemValueZero_up(t) ==
  /\ writer[t].pc = "full"
  /\ sem > 0
  /\ Goto(t, "recheck")
  /\ UNCHANGED <<ring, sem, worker, exit, closer, pending, crowded>>

\* "if semaphore's value is zero, its free space existe"
SemValueZero(t) ==
  /\ writer[t].pc = "full"
  /\ sem = 0
  /\ Goto(t, "recheck")
  /\ UNCHANGED <<ring, sem, worker, exit, closer, pending, crowded>>

Recheck(t) ==
  /\ writer[t].pc = "recheck"
  /\ Goto(t, IF async_ring_buf_get_free_space < Len(writer[t].line) THEN "full" ELSE "copy")
  /\ UNCHANGED <<ring, sem, worker, exit, closer, pending, crowded>>

\* the line of t fills the ring, or takes room that another thread has seen before the
\* lock was released and counts on
Crowds(t) ==
  LET n == Len(writer[t].line)
  IN \/ n = Size
     \/ \E s \in Writers \ {t} : /\ writer[s].pc = "copy"
                                /\ n + Len(writer[s].line) > async_ring_buf_get_free_space

Copy(t) ==
  /\ writer[t].pc = "copy"
  /\ crowded' = (crowded \/ Crowds(t))
  /\ LET line == writer[t].line
         n == Len(line)
     IN /\ start' = [k \in DOMAIN start |->
                       IF (k - write_pos) % Size < n THEN line[1 + ((k - write_pos) % Size)]
                       ELSE start[k]]
        /\ write_pos' = Advance(write_pos, n)
        /\ write_reverse' = Laps(write_pos, write_reverse, n)
        /\ pending' = pending \o line
  /\ Goto(t, "value")
  /\ UNCHANGED <<read_pos, read_reverse, sem, worker, exit, closer>>

\* [mutant] posts when the semaphore is already up
SemGetValue_up(t) ==
  /\ writer[t].pc = "value"
  /\ writer' = [writer EXCEPT ![t] =
       IF sem > 0 THEN [@ EXCEPT !.pc = "post"] ELSE [pc |-> "idle", line |-> <<>>]]
  /\ UNCHANGED <<ring, sem, worker, exit, closer, pending, crowded>>

SemGetValue(t) ==
  /\ writer[t].pc = "value"
  /\ writer' = [writer EXCEPT ![t] =
       IF sem = 0 THEN [@ EXCEPT !.pc = "post"] ELSE [pc |-> "idle", line |-> <<>>]]
  /\ UNCHANGED <<ring, sem, worker, exit, closer, pending, crowded>>

SemPost(t) ==
  /\ writer[t].pc = "post"
  /\ sem' = sem + 1
  /\ writer' = [writer EXCEPT ![t] = [pc |-> "idle", line |-> <<>>]]
  /\ UNCHANGED <<ring, worker, exit, closer, pending, crowded>>

-----------------------------------------------------------------------------
(* The worker *)

\* trace_print_until_zero is entered: cycle is not initialised
Enter(last) ==
  \E garbage \in Garbage :
    worker' = [pc |-> "read", string |-> <<>>, cycle |-> garbage, last |-> last]

SemWait ==
  /\ worker.pc = "sem_wait"
  /\ sem > 0
  /\ sem' = sem - 1
  /\ Enter(FALSE)
  /\ UNCHANGED <<ring, writer, exit, closer, pending, crowded>>

AfterLoop(cycle, last) == IF cycle THEN "read" ELSE IF last THEN "done" ELSE "exit?"

\* one locked section of trace_print_until_zero
async_ring_buf_read ==
  /\ worker.pc = "read"
  /\ LET used == async_ring_buf_get_used_space
         n == IF used > LineMax - 1 THEN LineMax - 1 ELSE used
     IN IF used = 0
          THEN /\ worker' = [worker EXCEPT !.pc = AfterLoop(worker.cycle, worker.last)]
               /\ UNCHANGED ring
        ELSE IF ~SameLap /\ ~NextLap
          THEN /\ worker' = [worker EXCEPT !.pc = "assert"]
               /\ UNCHANGED ring
        ELSE /\ worker' = [worker EXCEPT !.pc = "print", !.string = Bytes(read_pos, n),
                                         !.cycle = used > LineMax - 1]
             /\ read_pos' = Advance(read_pos, n)
             /\ read_reverse' = Laps(read_pos, read_reverse, n)
             /\ UNCHANGED <<start, write_pos, write_reverse>>
  /\ UNCHANGED <<sem, writer, exit, closer, pending, crowded>>

\* fprintf, outside the lock; then the loop's condition
PrintString ==
  /\ worker.pc = "print"
  /\ pending' = SubSeq(pending, Len(worker.string) + 1, Len(pending))
  /\ worker' = [worker EXCEPT !.pc = AfterLoop(worker.cycle, worker.last), !.string = <<>>]
  /\ UNCHANGED <<ring, sem, writer, exit, closer, crowded>>

\* [mutant] ends without looking at the ring once more
CheckExit_at_once ==
  /\ worker.pc = "exit?"
  /\ worker' = [worker EXCEPT !.pc = IF exit THEN "done" ELSE "sem_wait"]
  /\ UNCHANGED <<ring, sem, writer, exit, closer, pending, crowded>>

CheckExit ==
  /\ worker.pc = "exit?"
  /\ IF exit THEN Enter(TRUE) ELSE worker' = [worker EXCEPT !.pc = "sem_wait"]
  /\ UNCHANGED <<ring, sem, writer, exit, closer, pending, crowded>>

-----------------------------------------------------------------------------
(* Shutting down: async_trace_destroy runs when no thread traces any more *)

SetExit ==
  /\ closer = "none"
  /\ \A t \in Writers : writer[t].pc = "idle"
  /\ exit' = TRUE
  /\ closer' = "post"
  /\ UNCHANGED <<ring, sem, worker, writer, pending, crowded>>

PostExit ==
  /\ closer = "post"
  /\ sem' = sem + 1
  /\ closer' = "join"
  /\ UNCHANGED <<ring, worker, writer, exit, pending, crowded>>

async_ring_buf_free ==
  /\ closer = "join"
  /\ worker.pc = "done"
  /\ closer' = "freed"
  /\ UNCHANGED <<ring, sem, worker, writer, exit, pending, crowded>>

-----------------------------------------------------------------------------
WriteStep(t) == SemValueZero(t) \/ Recheck(t) \/ Copy(t) \/ SemGetValue(t) \/ SemPost(t)

trace_thread_worker == SemWait \/ async_ring_buf_read \/ PrintString \/ CheckExit

Next ==
  \/ \E t \in Writers : async_ring_buf_write(t) \/ WriteStep(t)
  \/ trace_thread_worker
  \/ SetExit \/ PostExit \/ async_ring_buf_free

Spec == Init /\ [][Next]_vars

\* Threads run: a writer that waits for space wakes from its sleep, the worker
\* is scheduled.  Nobody has to trace or to shut down.
FairSpec ==
  /\ Spec
  /\ WF_vars(trace_thread_worker)
  /\ \A t \in Writers : WF_vars(WriteStep(t))
  /\ WF_vars(PostExit) /\ WF_vars(async_ring_buf_free)

-----------------------------------------------------------------------------
(* Safety *)

\* what the worker would read
Contents == Bytes(read_pos, async_ring_buf_get_used_space)

\* Unless a copy crowded the ring, text comes out as it went in: what was written
\* and not printed is what the worker holds followed by what the ring holds
\* (async_ring_buf_write 251-270 against async_ring_buf_read).
FirstInFirstOut == pending = worker.string \o Contents

\* The worker does not sleep on text: when it waits on the semaphore with text
\* in the ring, the semaphore is up or a writer is about to look at it
\* (sem_getvalue and sem_post at 272-274 are two steps).
NoSleepOnText ==
  worker.pc = "sem_wait" /\ async_ring_buf_get_used_space > 0 =>
    sem > 0 \/ \E t \in Writers : writer[t].pc \in {"value", "post"}

\* "check whether there are still buffer needing to print" (trace.c:150): when
\* the worker is done, everything that was written has been printed.
AllPrintedAtExit == worker.pc = "done" => pending = <<>>

\* assert(0) in async_ring_buf_read (trace.c:79): the writers are never two
\* laps ahead of the worker.
ReadAssert == worker.pc # "assert"

-----------------------------------------------------------------------------
(* The inductive invariant *)

\* Text in the ring is announced by the semaphore, or a writer is about to look at
\* it, or the worker is about to look at the ring.
TextAnnounced ==
  async_ring_buf_get_used_space > 0 =>
    \/ sem > 0
    \/ \E t \in Writers : writer[t].pc \in {"value", "post"}
    \/ worker.pc \in {"read", "assert"}
    \/ worker.pc = "print" /\ worker.cycle

\* The worker is in its last look at the ring only when nobody traces any more,
\* and that look empties the ring.
LastLook ==
  /\ exit <=> closer # "none"
  /\ exit => \A t \in Writers : writer[t].pc = "idle"
  /\ worker.last => exit /\ worker.pc \in {"read", "print", "done", "assert"}
  /\ worker.pc = "done" => worker.last
  /\ worker.last /\ (worker.pc = "done" \/ (worker.pc = "print" /\ ~worker.cycle)) =>
       async_ring_buf_get_used_space = 0
  /\ worker.pc # "print" => worker.string = <<>>

IInv == TypeOK /\ TextAnnounced /\ LastLook

\* The writer is not more than a ring ahead of the worker.
OneLapAhead == \/ SameLap /\ read_pos <= write_pos
               \/ NextLap /\ write_pos <= read_pos

\* The space that a writer saw is still there when it copies.
RoomStays ==
  \A t \in Writers : writer[t].pc = "copy" => Len(writer[t].line) <= async_ring_buf_get_free_space

\* Until a copy crowds the ring, text stays in order.
Fifo == ReadAssert /\ OneLapAhead /\ RoomStays /\ FirstInFirstOut

OrderIInv == IInv /\ (~crowded => Fifo)

-----------------------------------------------------------------------------
(* Liveness, under FairSpec *)

\* Text in the ring is eventually handed to the worker.
TextIsPrinted == async_ring_buf_get_used_space > 0 ~> worker.pc = "print"

\* A thread that waits for space eventually gets its line in.
WriterReturns == \A t \in Writers : writer[t].pc = "full" ~> writer[t].pc = "idle"

\* "0 - don't exit; 1 - thread exit" (trace.h:30): the worker ends once exit is
\* set, so pthread_join in async_ring_buf_free returns.
ExitEndsWorker == exit ~> worker.pc = "done"
=============================================================================

----------------------------- MODULE AsyncWriter -----------------------------
(* The background telemetry writer of rfsn_v10/async_writer.py, on top of  *)
(* the client: callers fill a batch, the batch goes to a bounded queue when *)
(* it is full, when the task changes, when the timer fires or at stop, and  *)
(* one worker takes batches from the queue and hands them to the client.    *)
(*                                                                          *)
(* Callers, the timer and stop() exclude each other by the lock; the worker *)
(* does not take it, and runs between any two steps of theirs.  An accepted *)
(* event is its number in Load.                                             *)
EXTENDS ClickHouseClient, FiniteSetsExt

CONSTANTS
    Load,         \* bound: the events written, by their task ids, in the order of the calls
    BatchSize,    \* batch_size
    QueueSize,    \* max_queue_size: batches
    MaxRetries,   \* max_retries
    DropOldest,   \* backpressure_policy is DROP_OLDEST_BATCH
    Unsendable,   \* events with a sensitive field and no key to hash it with
    NoBatch, Sentinel

ASSUME WriterAssumption ==
    /\ BatchSize \in Nat \ {0}
    /\ QueueSize \in Nat \ {0}
    /\ MaxRetries \in Nat
    /\ Unsendable \subseteq Nat
    /\ DropOldest \in BOOLEAN
    /\ Load \in Seq(ToSet(Load))
    /\ {NoBatch, Sentinel} \cap [task : ToSet(Load), events : Seq(Nat)] = {}

VARIABLES
    accepted,     \* how many events were written so far
    batch,        \* _current_batch
    queue,        \* _queue
    holder,       \* the flush in progress under _lock
    timer,        \* _flush_timer and its thread
    worker,       \* where the worker is, with its batch and its attempts
    stop,         \* where the call of stop() is
    stopEvent,    \* _stop_event
    late,         \* the deadline of stop() has passed
    running,      \* the process has not ended
    eventsWritten, eventsDropped,
    dropped,      \* history: the events that a line of the code counts as dropped
    handed        \* history: the events handed to the client, in order

writerVars == <<accepted, batch, queue, holder, timer, worker, stop, stopEvent,
                late, running, eventsWritten, eventsDropped, dropped, handed>>
vars == <<clientVars, writerVars>>

Free == [step |-> "free"]
Polling == [step |-> "poll"]
Ended == [step |-> "ended"]

Init ==
    /\ ClientInit
    /\ accepted = 0
    /\ batch = NoBatch
    /\ queue = <<>>
    /\ holder = Free
    /\ timer = "armed"
    /\ worker = Polling
    /\ stop = "no"
    /\ stopEvent = FALSE
    /\ late = FALSE
    /\ running = TRUE
    /\ eventsWritten = 0
    /\ eventsDropped = 0
    /\ dropped = {}
    /\ handed = <<>>

-----------------------------------------------------------------------------
(* _flush_current_batch, for whom holds the lock                           *)

HasEvents(b) == b # NoBatch /\ b.events # <<>>

\* A mutant of BeginFlush: the batch is put in the queue and kept.
BeginFlushKept(who, b, first) ==
    /\ batch' = b
    /\ holder' = [step |-> "put", who |-> who, out |-> b, first |-> first,
                  base |-> 0, lost |-> <<>>]

\* The flush begins: the batch is taken out, an empty one stays in its place.
\* `first` is the event that the caller adds when the flush is over, 0 for none.
BeginFlush(who, b, first) ==
    /\ batch' = [b EXCEPT !.events = <<>>]
    /\ holder' = [step |-> "put", who |-> who, out |-> b, first |-> first,
                  base |-> 0, lost |-> <<>>]

\* A batch with one event, which is full already when batches hold one.
OpenBatch(task, e) ==
    LET b == [task |-> task, events |-> <<e>>]
    IN  IF BatchSize = 1
        THEN BeginFlush("caller", b, 0)
        ELSE batch' = b /\ holder' = Free

\* The flush ends: a caller goes on with its event, the timer re-arms, stop()
\* sends the sentinel; the lock is given back.
EndFlush ==
    /\ IF holder.first # 0
       THEN OpenBatch(Load[holder.first], holder.first)
       ELSE holder' = Free /\ UNCHANGED batch
    /\ timer' = IF holder.who = "timer" THEN "fired" ELSE timer
    /\ stop' = IF holder.who = "stop" THEN "sentinel" ELSE stop

\* A mutant of Put: the queue has no bound.
PutUnbounded ==
    /\ holder.step \in {"put", "putAgain"}
    /\ queue' = Append(queue, holder.out)
    /\ EndFlush
    /\ UNCHANGED <<clientVars, accepted, worker, stopEvent, late, running,
                   eventsWritten, eventsDropped, dropped, handed>>

\* put_nowait succeeds.
Put ==
    /\ holder.step \in {"put", "putAgain"}
    /\ Len(queue) < QueueSize
    /\ queue' = Append(queue, holder.out)
    /\ EndFlush
    /\ UNCHANGED <<clientVars, accepted, worker, stopEvent, late, running,
                   eventsWritten, eventsDropped, dropped, handed>>

\* queue.Full: the policy says whether the oldest batch goes or this one.
PutFull ==
    /\ holder.step = "put"
    /\ Len(queue) = QueueSize
    /\ holder' = [holder EXCEPT !.step = IF DropOldest THEN "makeRoom" ELSE "discard"]
    /\ UNCHANGED <<clientVars, accepted, batch, queue, timer, worker, stop, stopEvent,
                   late, running, eventsWritten, eventsDropped, dropped, handed>>

\* events_dropped += len(events) begins: the value is read.
BeginCount(events, step) ==
    /\ dropped' = dropped \cup ToSet(events)
    /\ holder' = [holder EXCEPT !.step = step, !.base = eventsDropped, !.lost = events]

\* get_nowait takes the oldest entry, which may be the sentinel of stop().
MakeRoom ==
    /\ holder.step = "makeRoom"
    /\ queue # <<>>
    /\ queue' = Tail(queue)
    /\ \/ /\ Head(queue) = Sentinel
          /\ holder' = [holder EXCEPT !.step = "putAgain"]
          /\ UNCHANGED dropped
       \/ /\ Head(queue) # Sentinel
          /\ BeginCount(Head(queue).events, "countOldest")
    /\ UNCHANGED <<clientVars, accepted, batch, timer, worker, stop, stopEvent,
                   late, running, eventsWritten, eventsDropped, handed>>

\* The policy is to discard, or the worker has emptied the queue meanwhile
\* (queue.Empty), or the sentinel of stop() has taken the room (queue.Full):
\* the batch of the flush itself is dropped.
Discard ==
    /\ \/ holder.step = "discard"
       \/ holder.step = "makeRoom" /\ queue = <<>>
       \/ holder.step = "putAgain" /\ Len(queue) = QueueSize
    /\ BeginCount(holder.out.events, "countOwn")
    /\ UNCHANGED <<clientVars, accepted, batch, queue, timer, worker, stop, stopEvent,
                   late, running, eventsWritten, eventsDropped, handed>>

\* A mutant of CountOldest: the batch that replaces the oldest is counted too.
CountBoth ==
    /\ holder.step = "countOldest"
    /\ eventsDropped' = holder.base + Len(holder.lost) + Len(holder.out.events)
    /\ holder' = [holder EXCEPT !.step = "putAgain"]
    /\ UNCHANGED <<clientVars, accepted, batch, queue, timer, worker, stop, stopEvent,
                   late, running, eventsWritten, dropped, handed>>

\* ... and the sum is written, whatever the worker has added meanwhile.
CountOldest ==
    /\ holder.step = "countOldest"
    /\ eventsDropped' = holder.base + Len(holder.lost)
    /\ holder' = [holder EXCEPT !.step = "putAgain"]
    /\ UNCHANGED <<clientVars, accepted, batch, queue, timer, worker, stop, stopEvent,
                   late, running, eventsWritten, dropped, handed>>

CountOwn ==
    /\ holder.step = "countOwn"
    /\ eventsDropped' = holder.base + Len(holder.lost)
    /\ EndFlush
    /\ UNCHANGED <<clientVars, accepted, queue, worker, stopEvent, late, running,
                   eventsWritten, dropped, handed>>

Flush == Put \/ PutFull \/ MakeRoom \/ Discard \/ CountOldest \/ CountOwn

-----------------------------------------------------------------------------
(* The callers and the timer                                               *)

\* write: an event of a task.
Write ==
    LET e == accepted + 1
        task == Load[e]
    IN  /\ running
        /\ accepted < Len(Load)
        /\ holder = Free
        /\ accepted' = e
        /\ IF batch = NoBatch \/ batch.task # task \/ Len(batch.events) >= BatchSize
           THEN IF HasEvents(batch)
                THEN BeginFlush("caller", batch, e)
                ELSE OpenBatch(task, e)
           ELSE LET b == [batch EXCEPT !.events = Append(@, e)]
                IN  IF Len(b.events) >= BatchSize
                    THEN BeginFlush("caller", b, 0)
                    ELSE batch' = b /\ holder' = Free
        /\ UNCHANGED <<clientVars, queue, timer, worker, stop, stopEvent, late,
                       running, eventsWritten, eventsDropped, dropped, handed>>

\* _flush_timeout, on the timer's thread.
TimerFires ==
    /\ timer = "armed"
    /\ holder = Free
    /\ IF HasEvents(batch)
       THEN BeginFlush("timer", batch, 0) /\ timer' = "flushing"
       ELSE timer' = "fired" /\ UNCHANGED <<batch, holder>>
    /\ UNCHANGED <<clientVars, accepted, queue, worker, stop, stopEvent, late,
                   running, eventsWritten, eventsDropped, dropped, handed>>

\* _schedule_flush looks at the stop event, then starts the next timer.
ScheduleFlush ==
    /\ \/ timer = "fired" /\ timer' = IF stopEvent THEN "off" ELSE "rearming"
       \/ timer = "rearming" /\ timer' = "armed"
    /\ UNCHANGED <<clientVars, accepted, batch, queue, holder, worker, stop, stopEvent,
                   late, running, eventsWritten, eventsDropped, dropped, handed>>

-----------------------------------------------------------------------------
(* _worker_loop                                                            *)

WorkerUnchanged ==
    UNCHANGED <<accepted, batch, holder, timer, stop, stopEvent, late, running>>

WorkerGets ==
    /\ worker.step = "poll"
    /\ queue # <<>>
    /\ queue' = Tail(queue)
    /\ worker' = IF Head(queue) = Sentinel
                 THEN Ended
                 ELSE [step |-> "send", events |-> Head(queue).events, tried |-> 0]
    /\ WorkerUnchanged
    /\ UNCHANGED <<clientVars, eventsWritten, eventsDropped, dropped, handed>>

\* The poll ends with queue.Empty; then the stop event is looked at.
WorkerPollsEmpty ==
    /\ worker.step = "poll"
    /\ queue = <<>>
    /\ worker' = [step |-> "empty"]
    /\ WorkerUnchanged
    /\ UNCHANGED <<clientVars, queue, eventsWritten, eventsDropped, dropped, handed>>

WorkerLooksAtStop ==
    /\ worker.step = "empty"
    /\ worker' = IF stopEvent THEN Ended ELSE Polling
    /\ WorkerUnchanged
    /\ UNCHANGED <<clientVars, queue, eventsWritten, eventsDropped, dropped, handed>>

\* The client raises on the whole batch, before it sends anything.
Raises == ToSet(worker.events) \cap Unsendable # {}

\* _write_batch_with_retries hands the batch to the client.
WorkerSends ==
    /\ worker.step = "send"
    /\ ~Raises
    /\ StartCall(worker.events)
    /\ handed' = handed \o worker.events
    /\ worker' = [worker EXCEPT !.step = "sending"]
    /\ WorkerUnchanged
    /\ UNCHANGED <<pending, rows, file, registered, handler, faults, signals,
                   queue, eventsWritten, eventsDropped, dropped>>

WorkerSent ==
    /\ worker.step = "sending"
    /\ call.phase = "returned"
    /\ call' = Idle
    /\ eventsWritten' = eventsWritten + Len(worker.events)
    /\ worker' = Polling
    /\ WorkerUnchanged
    /\ UNCHANGED <<pending, rows, file, registered, handler, faults, signals,
                   queue, eventsDropped, dropped, handed>>

\* Retry, and drop at the end.
WorkerRetries ==
    /\ worker.step = "send"
    /\ Raises
    /\ \/ /\ worker.tried < MaxRetries
          /\ worker' = [worker EXCEPT !.tried = @ + 1]
          /\ UNCHANGED dropped
       \/ /\ worker.tried = MaxRetries
          /\ worker' = [step |-> "count", events |-> worker.events, base |-> eventsDropped]
          /\ dropped' = dropped \cup ToSet(worker.events)
    /\ WorkerUnchanged
    /\ UNCHANGED <<clientVars, queue, eventsWritten, eventsDropped, handed>>

WorkerCountsDropped ==
    /\ worker.step = "count"
    /\ eventsDropped' = worker.base + Len(worker.events)
    /\ worker' = Polling
    /\ WorkerUnchanged
    /\ UNCHANGED <<clientVars, queue, eventsWritten, dropped, handed>>

WorkerCall == ClientStep /\ UNCHANGED writerVars

Worker ==
    \/ WorkerGets
    \/ WorkerPollsEmpty
    \/ WorkerLooksAtStop
    \/ WorkerSends
    \/ WorkerSent
    \/ WorkerRetries
    \/ WorkerCountsDropped
    \/ WorkerCall

-----------------------------------------------------------------------------
(* stop, the signal handler and the end of the process                     *)

StopUnchanged ==
    UNCHANGED <<accepted, worker, running, eventsWritten, eventsDropped, dropped, handed>>

StopBegins ==
    /\ running
    /\ stop = "no"
    /\ stop' = "cancel"
    /\ stopEvent' = TRUE
    /\ StopUnchanged
    /\ UNCHANGED <<clientVars, batch, queue, holder, timer, late>>

StopCancels ==
    /\ stop = "cancel"
    /\ stop' = "flush"
    /\ timer' = IF timer = "armed" THEN "off" ELSE timer
    /\ StopUnchanged
    /\ UNCHANGED <<clientVars, batch, queue, holder, stopEvent, late>>

StopFlushes ==
    /\ stop = "flush"
    /\ holder = Free
    /\ IF HasEvents(batch)
       THEN BeginFlush("stop", batch, 0) /\ stop' = "flushing"
       ELSE stop' = "sentinel" /\ UNCHANGED <<batch, holder>>
    /\ StopUnchanged
    /\ UNCHANGED <<clientVars, queue, timer, stopEvent, late>>

\* The sentinel goes in when there is room, and is given up at the deadline;
\* the mutant waits for room.
StopAwaitsRoom ==
    /\ stop = "sentinel"
    /\ Len(queue) < QueueSize
    /\ queue' = Append(queue, Sentinel)
    /\ stop' = "join"
    /\ StopUnchanged
    /\ UNCHANGED <<clientVars, batch, holder, timer, stopEvent, late>>

StopSendsSentinel ==
    /\ stop = "sentinel"
    /\ \/ Len(queue) < QueueSize /\ queue' = Append(queue, Sentinel)
       \/ Len(queue) = QueueSize /\ late /\ UNCHANGED queue
    /\ stop' = "join"
    /\ StopUnchanged
    /\ UNCHANGED <<clientVars, batch, holder, timer, stopEvent, late>>

StopJoins ==
    /\ stop = "join"
    /\ worker = Ended \/ late
    /\ stop' = "close"
    /\ StopUnchanged
    /\ UNCHANGED <<clientVars, batch, queue, holder, timer, stopEvent, late>>

StopCloses ==
    /\ stop = "close"
    /\ Close
    /\ stop' = "done"
    /\ StopUnchanged
    /\ UNCHANGED <<pending, rows, file, call, handler, faults, signals,
                   batch, queue, holder, timer, stopEvent, late>>

Stop ==
    \/ StopCancels
    \/ StopFlushes
    \/ StopSendsSentinel
    \/ StopJoins
    \/ StopCloses

Deadline ==
    /\ stop \in {"sentinel", "join"}
    /\ ~late
    /\ late' = TRUE
    /\ StopUnchanged
    /\ UNCHANGED <<clientVars, batch, queue, holder, timer, stop, stopEvent>>

\* SIGTERM is handled on the main thread.
Signal ==
    /\ running
    /\ SignalSaves \/ SignalClears
    /\ UNCHANGED writerVars

\* The main thread ends; the worker and the timer are daemon threads.
Exit ==
    /\ running
    /\ stop \in {"no", "done"}
    /\ holder = Free
    /\ handler = "idle"
    /\ ExitSaves
    /\ running' = FALSE
    /\ batch' = NoBatch
    /\ queue' = <<>>
    /\ timer' = "off"
    /\ worker' = Ended
    /\ UNCHANGED <<accepted, holder, stop, stopEvent, late,
                   eventsWritten, eventsDropped, dropped, handed>>

Next ==
    \/ Write
    \/ Flush
    \/ TimerFires
    \/ ScheduleFlush
    \/ Worker
    \/ StopBegins
    \/ Stop
    \/ Deadline
    \/ Signal
    \/ Exit

Spec == Init /\ [][Next]_vars

\* Threads are scheduled, clocks advance, requests end within their timeout.
\* Nobody has to write, stop, send a signal or end the process.
Fairness ==
    /\ WF_vars(Flush)
    /\ WF_vars(Worker)
    /\ WF_vars(Stop)
    /\ WF_vars(Deadline)
    /\ WF_vars(Signal /\ handler = "saved")

FairSpec == Spec /\ Fairness

-----------------------------------------------------------------------------
(* Properties                                                              *)

EventIn(s) == ToSet(s) \subseteq 0..accepted

\* The variables have the types the code gives them; who is in a flush holds
\* the lock, and the client is called only by a worker that sends.
TypeOK ==
    /\ EventIn(pending) /\ EventIn(rows) /\ EventIn(handed)
    /\ file = NoFile \/ EventIn(file)
    /\ registered \in BOOLEAN /\ stopEvent \in BOOLEAN
    /\ late \in BOOLEAN /\ running \in BOOLEAN
    /\ call.phase \in {"idle", "insert", "drain", "returned"}
    /\ handler \in {"idle", "saved"}
    /\ faults \in 0..MaxFaults /\ signals \in 0..MaxSignals
    /\ accepted \in 0..Len(Load)
    /\ batch # NoBatch => batch.task \in ToSet(Load) /\ Len(batch.events) < BatchSize
    /\ Len(queue) <= QueueSize
    /\ \A b \in ToSet(queue) \ {Sentinel} : b.task \in ToSet(Load) /\ Len(b.events) \in 1..BatchSize
    /\ timer \in {"armed", "flushing", "fired", "rearming", "off"}
    /\ timer = "flushing" => holder # Free /\ holder.who = "timer"
    /\ stop \in {"no", "cancel", "flush", "flushing", "sentinel", "join", "close", "done"}
    /\ stop = "flushing" => holder # Free /\ holder.who = "stop"
    /\ (call # Idle) <=> (worker.step = "sending")
    /\ dropped \subseteq 1..accepted

\* Where the events of this process are.
InMemory ==
    UNION {
        IF batch = NoBatch THEN {} ELSE ToSet(batch.events),
        UNION {ToSet(b.events) : b \in ToSet(queue) \ {Sentinel}},
        IF holder.step \in {"put", "makeRoom", "countOldest", "putAgain", "discard"}
            THEN ToSet(holder.out.events) ELSE {},
        IF holder = Free THEN {} ELSE {holder.first} \ {0},
        IF worker.step = "send" \/ call.phase = "insert" THEN ToSet(worker.events) ELSE {},
        ToSet(pending)}
Kept == InMemory \cup ToSet(rows) \cup dropped \cup (IF file = NoFile THEN {} ELSE ToSet(file))

\* While the process runs no event vanishes without a trace - it is in memory,
\* in the file, with the server, or counted as dropped - whatever the queue, the
\* retries and the drain do with it.  Only a signal can lose one: its handler
\* replaces a file that was saved before, and clears what came after the save.
NothingVanishes ==
    [][\A e \in Kept : e \in Kept' \/ ~running' \/ handler # handler']_vars

\* The events between write() and the client, oldest first: with the worker, in
\* the queue, in the flush, in the batch, and with the caller that flushes.
AtWorker(w) == IF w.step = "send" THEN w.events ELSE <<>>
EventsOf(b) == IF b = Sentinel THEN <<>> ELSE b.events
Queued(q) == FlattenSeq([i \in 1..Len(q) |-> EventsOf(q[i])])
InFlush(h) == IF h.step \in {"free", "countOwn"} THEN <<>> ELSE h.out.events
InBatch(b) == IF b = NoBatch THEN <<>> ELSE b.events
Waiting(h) == IF h = Free \/ h.first = 0 THEN <<>> ELSE <<h.first>>
Transit ==
    AtWorker(worker) \o Queued(queue) \o InFlush(holder) \o InBatch(batch) \o Waiting(holder)

Channel == INSTANCE LossyChannel WITH transit <- Transit, delivered <- handed

\* The hand-overs between callers, timer, queue, worker and stop() keep the
\* order of the events and repeat none, whichever batches are dropped.
ChannelSpec == Channel!Spec

\* What the statistics report never exceeds what happened: concurrent updates
\* of events_dropped may lose a count, and nothing is counted twice, as written
\* and as dropped, or before it happened.
StatsNeverOvercount ==
    /\ eventsDropped <= Cardinality(dropped)
    /\ running => eventsWritten = Len(handed) - (IF worker.step = "sending"
                                                 THEN Len(worker.events) ELSE 0)
    /\ ToSet(handed) \cap dropped = {}

\* stop() returns and the worker ends, although the server fails, the queue is
\* full, the worker leaves before the last batch, or a flush drops the sentinel.
StopEnds == stop # "no" ~> stop = "done" /\ worker = Ended
=============================================================================

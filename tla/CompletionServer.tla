-------------------------- MODULE CompletionServer --------------------------
(***************************************************************************)
(* POST /v1/chat/completions of rfsn_v10/server/app.py: the concurrency    *)
(* gate, the worker threads, and the queue that carries the tokens of a    *)
(* stream from its thread to the event loop.                               *)
(*                                                                         *)
(* The handlers run on one event loop, so the code between two awaits is   *)
(* one action.  A worker thread takes its steps in between.  The client of *)
(* a stream may go away at any await.  Deadlines are not timed: one may    *)
(* pass at any moment.  The semaphore is asyncio's, cancellation of a      *)
(* stream is starlette's; both are modelled from the way app.py uses them. *)
(***************************************************************************)
EXTENDS Integers, FiniteSets, SequencesExt

CONSTANTS
    Request,
    Slots,        \* max_concurrent_requests
    MaxTokens     \* max_tokens of every request

ASSUME CompletionServerAssumption ==
    /\ IsFiniteSet(Request)
    /\ Slots \in Nat \ {0}
    /\ MaxTokens \in Nat \ {0}

VARIABLES
    phase,        \* where the handler of the request is
    permits,      \* the value of ServerState.semaphore
    waiters,      \* its waiters, in order
    granted,      \* the waiters that were handed a permit and did not run yet
    worker,       \* the generating thread of the request
    generated,    \* tokens_generated in the thread
    stopped,      \* stop_event
    queue,        \* what the thread put for the event loop, while the stream is open
    sent          \* what the client was sent, while the stream is open

gate == <<permits, waiters, granted>>
thread == <<worker, generated>>
vars == <<phase, permits, waiters, granted, worker, generated, stopped, queue, sent>>

Token(n) == [type |-> "token", n |-> n]
Final(n) == [type |-> "final", n |-> n]   \* finish_reason is "length" iff n = MaxTokens
Raised == [type |-> "exception", n |-> 0]
End == [type |-> "end", n |-> 0]          \* None
Error == [type |-> "error", n |-> 0]
Done == [type |-> "done", n |-> 0]

Init ==
    /\ phase = [r \in Request |-> "new"]
    /\ permits = Slots
    /\ waiters = <<>>
    /\ granted = {}
    /\ worker = [r \in Request |-> "none"]
    /\ generated = [r \in Request |-> 0]
    /\ stopped = [r \in Request |-> FALSE]
    /\ queue = [r \in Request |-> <<>>]
    /\ sent = [r \in Request |-> <<>>]

Become(r, p) == phase' = [phase EXCEPT ![r] = p]

-----------------------------------------------------------------------------
(* asyncio.Semaphore.                                                      *)

locked == permits = 0 \/ waiters # <<>>

\* The place in ws of the first waiter without a permit, 0 if there is none.
FirstAsleep(ws, others) == SelectInSeq(ws, LAMBDA w : w \notin others)

\* _wake_up_next, with so many permits free and ws waiting, of which others were
\* handed a permit.
WakeNext(free, ws, others) ==
    LET i == FirstAsleep(ws, others)
    IN  IF i = 0
        THEN permits' = free /\ granted' = others
        ELSE permits' = free - 1 /\ granted' = others \cup {ws[i]}

release == WakeNext(permits + 1, waiters, granted) /\ UNCHANGED waiters

Without(r) == RemoveFirst(waiters, r)

-----------------------------------------------------------------------------
(* chat_completions, up to its first await.                                *)

\* The gate is shut: 429.
Busy(r) ==
    /\ phase[r] = "new"
    /\ locked
    /\ Become(r, "refused")
    /\ UNCHANGED <<gate, thread, stopped, queue, sent>>

\* The model cannot be loaded (400, 503), the prompt is too large (413) or
\* max_tokens is (400).
Reject(r) ==
    /\ phase[r] = "new"
    /\ ~ locked
    /\ Become(r, "refused")
    /\ UNCHANGED <<gate, thread, stopped, queue, sent>>

\* A StreamingResponse goes back; the permit is left for _sse_stream to take.
Stream(r) ==
    /\ phase[r] = "new"
    /\ ~ locked
    /\ Become(r, "admitted")
    /\ UNCHANGED <<gate, thread, stopped, queue, sent>>

\* Mutant of Collect: the permit is not taken.
CollectUngated(r) ==
    /\ phase[r] = "new"
    /\ ~ locked
    /\ worker' = [worker EXCEPT ![r] = "collecting"]
    /\ Become(r, "collecting")
    /\ UNCHANGED <<gate, generated, stopped, queue, sent>>

\* Without streaming there is no await before the permit is taken.
Collect(r) ==
    /\ phase[r] = "new"
    /\ ~ locked
    /\ permits' = permits - 1
    /\ worker' = [worker EXCEPT ![r] = "collecting"]
    /\ Become(r, "collecting")
    /\ UNCHANGED <<waiters, granted, generated, stopped, queue, sent>>

-----------------------------------------------------------------------------
(* The rest of a request that is not streamed.                             *)

\* async with: the permit is back on every way out.
Answer(r) ==
    /\ phase[r] = "collecting"
    /\ worker[r] = "finished"
    /\ release
    /\ Become(r, "ended")
    /\ UNCHANGED <<thread, stopped, queue, sent>>

\* Mutant of CollectTimesOut: the handler of the timeout gives the permit back,
\* and async with does it again.
CollectTimesOutTwice(r) ==
    /\ phase[r] = "collecting"
    /\ WakeNext(permits + 2, waiters, granted)
    /\ Become(r, "ended")
    /\ UNCHANGED <<waiters, thread, stopped, queue, sent>>

\* wait_for gives up (504); a thread that runs cannot be cancelled.
CollectTimesOut(r) ==
    /\ phase[r] = "collecting"
    /\ release
    /\ Become(r, "ended")
    /\ UNCHANGED <<thread, stopped, queue, sent>>

\* _collect_complete_tokens returns or raises; nothing tells it to stop.
CollectEnds(r) ==
    /\ worker[r] = "collecting"
    /\ worker' = [worker EXCEPT ![r] = "finished"]
    /\ UNCHANGED <<phase, gate, generated, stopped, queue, sent>>

-----------------------------------------------------------------------------
(* _sse_stream, the coroutine.                                             *)

\* The permit is there: the thread starts.
StartThread(r) ==
    /\ worker' = [worker EXCEPT ![r] = "streaming"]
    /\ Become(r, "streaming")

Acquire(r) ==
    /\ phase[r] = "admitted"
    /\ IF locked
       THEN /\ waiters' = Append(waiters, r)
            /\ Become(r, "waiting")
            /\ UNCHANGED <<permits, worker>>
       ELSE /\ permits' = permits - 1
            /\ StartThread(r)
            /\ UNCHANGED waiters
    /\ UNCHANGED <<granted, generated, stopped, queue, sent>>

\* A call that was handed a permit runs; those that came while it waited to run
\* queued behind it although a permit was free, so it wakes one of them.
Resume(r) ==
    /\ phase[r] = "waiting"
    /\ r \in granted
    /\ waiters' = Without(r)
    /\ IF permits > 0
       THEN WakeNext(permits, Without(r), granted \ {r})
       ELSE granted' = granted \ {r} /\ UNCHANGED permits
    /\ StartThread(r)
    /\ UNCHANGED <<generated, stopped, queue, sent>>

\* A chunk goes from the queue to the client.
Yield(r) ==
    /\ phase[r] = "streaming"
    /\ queue[r] # <<>>
    /\ Head(queue[r]).type \in {"token", "final"}
    /\ queue' = [queue EXCEPT ![r] = Tail(@)]
    /\ sent' = [sent EXCEPT ![r] = Append(@, Head(queue[r]))]
    /\ UNCHANGED <<phase, gate, thread, stopped>>

\* None: the stream is complete.
Complete(r) ==
    /\ phase[r] = "streaming"
    /\ queue[r] # <<>>
    /\ Head(queue[r]) = End
    /\ queue' = [queue EXCEPT ![r] = Tail(@)]
    /\ sent' = [sent EXCEPT ![r] = Append(@, Done)]
    /\ Become(r, "closing")
    /\ UNCHANGED <<gate, thread, stopped>>

\* The deadline passed, whatever is in the queue.
TimesOut(r) ==
    /\ phase[r] = "streaming"
    /\ sent' = [sent EXCEPT ![r] = @ \o <<Error, Done>>]
    /\ Become(r, "closing")
    /\ UNCHANGED <<gate, thread, stopped, queue>>

\* Mutant of Finally: the thread is stopped, the permit is lost.
FinallyUnreleased(r, p) ==
    /\ stopped' = [stopped EXCEPT ![r] = TRUE]
    /\ queue' = [queue EXCEPT ![r] = <<>>]
    /\ sent' = [sent EXCEPT ![r] = <<>>]
    /\ Become(r, p)
    /\ UNCHANGED <<gate, thread>>

\* finally: the thread is told to stop and the permit goes back.  Nobody looks
\* at the queue again.
Finally(r, p) ==
    /\ stopped' = [stopped EXCEPT ![r] = TRUE]
    /\ queue' = [queue EXCEPT ![r] = <<>>]
    /\ sent' = [sent EXCEPT ![r] = <<>>]
    /\ release
    /\ Become(r, p)
    /\ UNCHANGED thread

\* The thread's exception is raised again, and breaks the response off.
Break(r) ==
    /\ phase[r] = "streaming"
    /\ queue[r] # <<>>
    /\ Head(queue[r]) = Raised
    /\ Finally(r, "ended")

Close(r) ==
    /\ phase[r] = "closing"
    /\ Finally(r, "ended")

-----------------------------------------------------------------------------
(* The client of a stream goes away: its task is cancelled.                *)

LeaveAdmitted(r) ==
    /\ phase[r] = "admitted"
    /\ Become(r, "gone")
    /\ UNCHANGED <<gate, thread, stopped, queue, sent>>

\* acquire hands on a permit that it was granted and cannot use.
LeaveWaiting(r) ==
    /\ phase[r] = "waiting"
    /\ waiters' = Without(r)
    /\ IF r \in granted
       THEN WakeNext(permits + 1, Without(r), granted \ {r})
       ELSE UNCHANGED <<permits, granted>>
    /\ Become(r, "gone")
    /\ UNCHANGED <<thread, stopped, queue, sent>>

\* While it waits for the queue, the generator is cancelled itself.
LeaveStreaming(r) ==
    /\ phase[r] = "streaming"
    /\ Finally(r, "gone")

\* While a chunk is sent, the sender is: the generator stays at its yield
\* until it is collected and closed.
LeaveSending(r) ==
    /\ phase[r] \in {"streaming", "closing"}
    /\ sent[r] # <<>>
    /\ Become(r, "abandoned")
    /\ UNCHANGED <<gate, thread, stopped, queue, sent>>

Collected(r) ==
    /\ phase[r] = "abandoned"
    /\ Finally(r, "gone")

-----------------------------------------------------------------------------
(* _sse_stream, the thread.                                                *)

\* Mutant of Ending: the end marker overtakes the final chunk.
EndingFirst(n) == <<End, Final(n)>>

\* What the thread puts on every way out.
Ending(n) == <<Final(n), End>>

\* What is put when the coroutine has left its loop stays unread.
Put(r, items) ==
    queue' = IF phase[r] = "streaming" THEN [queue EXCEPT ![r] = @ \o items] ELSE queue

Finish(r) == worker' = [worker EXCEPT ![r] = "finished"]

\* A token with no stop sequence in it.
Emit(r) ==
    /\ worker[r] = "streaming"
    /\ ~ stopped[r]
    /\ generated[r] < MaxTokens
    /\ generated' = [generated EXCEPT ![r] = @ + 1]
    /\ Put(r, <<Token(generated[r] + 1)>>)
    /\ UNCHANGED <<phase, gate, worker, stopped, sent>>

\* A token that completes a stop sequence; what precedes the sequence in it,
\* if anything, is sent.
StopSequence(r) ==
    LET n == generated[r] + 1
    IN  /\ worker[r] = "streaming"
        /\ ~ stopped[r]
        /\ n <= MaxTokens
        /\ generated' = [generated EXCEPT ![r] = n]
        /\ stopped' = [stopped EXCEPT ![r] = TRUE]
        /\ \E kept \in {<<>>, <<Token(n)>>} : Put(r, kept \o Ending(n))
        /\ Finish(r)
        /\ UNCHANGED <<phase, gate, sent>>

\* The generator is exhausted, or the thread sees at the next token that
\* stop_event is set.
GeneratorEnds(r) ==
    /\ worker[r] = "streaming"
    /\ Put(r, Ending(generated[r]))
    /\ Finish(r)
    /\ UNCHANGED <<phase, gate, generated, stopped, sent>>

GeneratorRaises(r) ==
    /\ worker[r] = "streaming"
    /\ Put(r, <<Raised>> \o Ending(generated[r]))
    /\ Finish(r)
    /\ UNCHANGED <<phase, gate, generated, stopped, sent>>

-----------------------------------------------------------------------------
Admission(r) == Busy(r) \/ Reject(r) \/ Stream(r) \/ Collect(r)

Handler(r) ==
    \/ Answer(r) \/ CollectTimesOut(r)
    \/ Acquire(r) \/ Resume(r)
    \/ Yield(r) \/ Complete(r) \/ TimesOut(r) \/ Break(r) \/ Close(r)
    \/ Collected(r)

Leave(r) == LeaveAdmitted(r) \/ LeaveWaiting(r) \/ LeaveStreaming(r) \/ LeaveSending(r)

Thread(r) ==
    \/ CollectEnds(r)
    \/ Emit(r) \/ StopSequence(r) \/ GeneratorEnds(r) \/ GeneratorRaises(r)

Next == \E r \in Request : Admission(r) \/ Handler(r) \/ Leave(r) \/ Thread(r)

\* The event loop runs what is ready, timers fire, and abandoned generators
\* are collected.  A thread may hang.
Fairness ==
    \A r \in Request :
        /\ WF_vars(Acquire(r)) /\ WF_vars(Resume(r))
        /\ WF_vars(TimesOut(r)) /\ WF_vars(CollectTimesOut(r))
        /\ WF_vars(Close(r)) /\ WF_vars(Collected(r))

Spec == Init /\ [][Next]_vars

FairSpec == Spec /\ Fairness

-----------------------------------------------------------------------------
(* Properties.                                                             *)

Phases == {"new", "refused", "admitted", "waiting", "collecting", "streaming",
           "closing", "abandoned", "ended", "gone"}
Items == [type : {"token", "final"}, n : 0..MaxTokens] \cup {Raised, End, Error, Done}

\* Every variable has its type; what is sent was queued, or made up for a
\* deadline or the end.
TypeOK ==
    /\ phase \in [Request -> Phases]
    /\ permits \in 0..Slots
    /\ waiters \in Seq(Request)
    /\ granted \in SUBSET Request
    /\ worker \in [Request -> {"none", "collecting", "streaming", "finished"}]
    /\ generated \in [Request -> 0..MaxTokens]
    /\ stopped \in [Request -> BOOLEAN]
    /\ queue \in [Request -> Seq(Items)]
    /\ sent \in [Request -> Seq(Items)]

Inside == {r \in Request : phase[r] \in {"collecting", "streaming", "closing", "abandoned"}}

\* "The semaphore is held for the duration of the stream" (app.py:725): every
\* permit is free, in a handler, or on its way to a waiter, through timeouts,
\* exceptions and clients that leave at any await; and a waiter sleeps while a
\* permit is free only if one that was handed a permit will run and wake it.
PermitsExact ==
    /\ permits + Cardinality(Inside) + Cardinality(granted) = Slots
    /\ IsInjective(waiters)
    /\ ToSet(waiters) = {r \in Request : phase[r] = "waiting"}
    /\ granted \subseteq ToSet(waiters)
    /\ permits > 0 => FirstAsleep(waiters, granted) = 0 \/ granted # {}

InOrder(items) ==
    \A i \in DOMAIN items :
        LET item == items[i]
            before == {items[j].type : j \in 1..(i - 1)}
        IN  /\ item.type = "token" => item.n = i /\ before \subseteq {"token"}
            /\ item.type = "final" => item.n \in {i - 1, i} /\ before \subseteq {"token"}
            /\ item.type = "done" =>
                 i = Len(items) /\ i > 1 /\ items[i - 1].type \in {"final", "error"}
            /\ item.type \in {"error", "exception", "end"} => "done" \notin before

\* The client of a stream sees every token once, in the order the thread made
\* them, none after the final chunk, and [DONE] only after a final chunk that
\* covers all tokens, or an error.
StreamInOrder == \A r \in Request : InOrder(sent[r])

\* Whatever the generating threads do, every call is answered or given up.
EveryCallEnds ==
    \A r \in Request : phase[r] # "new" ~> phase[r] \in {"refused", "ended", "gone"}

\* "Send final chunk with finish_reason" (app.py:823): one per stream.  When
\* the deadline passes between the final chunk and the end marker, an error
\* chunk with a second finish_reason follows.
OneFinish ==
    \A r \in Request :
        Cardinality({i \in DOMAIN sent[r] : sent[r][i].type \in {"final", "error"}}) <= 1
=============================================================================

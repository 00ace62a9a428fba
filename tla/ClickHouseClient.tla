-------------------------- MODULE ClickHouseClient --------------------------
(* The telemetry client of rfsn_v10/clickhouse_client.py: an INSERT with   *)
(* retries, a queue of the events the server did not take, and the file    *)
(* into which a signal or the exit of the process saves that queue.        *)
(*                                                                         *)
(* One thread at a time writes (the worker of AsyncWriter); the handler of *)
(* SIGTERM runs on the main thread, between any two of its steps.  Events  *)
(* are numbers, in the order in which they were accepted.                  *)
EXTENDS Naturals, Sequences, SequencesExt, FiniteSets

CONSTANTS
    Attempts,     \* _max_retries: how often one INSERT is tried
    MaxFaults,    \* bound: requests that fail or whose answer is lost
    MaxSignals,   \* bound: signals delivered to a process
    NoFile

ASSUME ClientAssumption ==
    /\ Attempts \in Nat \ {0}
    /\ MaxFaults \in Nat
    /\ MaxSignals \in Nat

VARIABLES
    pending,      \* _pending_queue
    rows,         \* what the server holds, in the order it came
    file,         \* the flush file, NoFile when there is none
    registered,   \* the handlers of exit and SIGTERM know this client
    call,         \* the write_telemetry_batch in progress
    handler,      \* the flush of the queue to the file in progress
    faults, signals

clientVars == <<pending, rows, file, registered, call, handler,
                faults, signals>>

Idle == [phase |-> "idle"]

\* write_telemetry_batch writes to one table; event 0 stands for an event of
\* another table, saved by an earlier process.
Table(e) == IF e = 0 THEN "rfsn_kv_cache_events" ELSE "rfsn_attention_events"

\* A new client replays the file into its queue and removes it; the removal
\* may fail, and the file stays as it was.
Replayed ==
    \/ pending = <<>> /\ file = NoFile
    \/ pending = <<0>> /\ file \in {NoFile, <<0>>}

ClientInit ==
    /\ rows = <<>>
    /\ Replayed
    /\ registered = TRUE
    /\ call = Idle
    /\ handler = "idle"
    /\ faults = 0
    /\ signals = 0

-----------------------------------------------------------------------------
(* write_telemetry_batch                                                   *)

StartCall(events) ==
    call' = [phase |-> "insert", events |-> events, tried |-> 0]

TablesOf(events) == {Table(e) : e \in ToSet(events)}
\* The events of a table, gathered one by one.
OfTable(events, t) ==
    LET taken[n \in 0..Len(events)] ==
          IF n = 0 THEN <<>>
          ELSE IF Table(events[n]) = t THEN Append(taken[n - 1], events[n])
               ELSE taken[n - 1]
    IN  taken[Len(events)]

\* The tables of the queue are served in the order in which they appear.
NextTable ==
    Table(call.events[SelectInSeq(call.events, LAMBDA e : Table(e) \in call.left)])

\* The INSERT succeeds.  When events are waiting they are tried again too.
Insert ==
    /\ call.phase = "insert"
    /\ rows' = rows \o call.events
    /\ call' = IF pending = <<>>
               THEN [phase |-> "returned"]
               ELSE [phase |-> "drain", events |-> pending,
                     left |-> TablesOf(pending), allFlushed |-> TRUE]
    /\ UNCHANGED <<pending, file, registered, handler, faults, signals>>

\* A request fails, before the server did its work or after: then the rows
\* are in, and the answer is lost.
Fails(events) ==
    /\ faults < MaxFaults
    /\ faults' = faults + 1
    /\ rows' \in {rows, rows \o events}

\* The INSERT fails; after the last attempt the events wait in the queue and
\* the call returns as if it had succeeded.
InsertFails ==
    /\ call.phase = "insert"
    /\ Fails(call.events)
    /\ \/ /\ call.tried + 1 < Attempts
          /\ call' = [call EXCEPT !.tried = @ + 1]
          /\ UNCHANGED pending
       \/ /\ call.tried + 1 = Attempts
          /\ pending' = pending \o call.events
          /\ call' = [phase |-> "returned"]
    /\ UNCHANGED <<file, registered, handler, signals>>

\* _drain_pending_queue sends one INSERT per table.
DrainTable ==
    /\ call.phase = "drain"
    /\ call.left # {}
    /\ call' = [call EXCEPT !.left = @ \ {NextTable}]
    /\ rows' = rows \o OfTable(call.events, NextTable)
    /\ UNCHANGED <<pending, file, registered, handler, faults, signals>>

DrainTableFails ==
    /\ call.phase = "drain"
    /\ call.left # {}
    /\ call' = [call EXCEPT !.left = @ \ {NextTable}, !.allFlushed = FALSE]
    /\ Fails(OfTable(call.events, NextTable))
    /\ UNCHANGED <<pending, file, registered, handler, signals>>

\* A mutant of DrainEnds: the queue is cleared whatever the tables answered.
DrainForgets ==
    /\ call.phase = "drain"
    /\ call.left = {}
    /\ pending' = <<>>
    /\ call' = [phase |-> "returned"]
    /\ UNCHANGED <<rows, file, registered, handler, faults, signals>>

\* The queue is cleared, as it is by now, when each table took its events.
DrainEnds ==
    /\ call.phase = "drain"
    /\ call.left = {}
    /\ pending' = IF call.allFlushed THEN <<>> ELSE pending
    /\ call' = [phase |-> "returned"]
    /\ UNCHANGED <<rows, file, registered, handler, faults, signals>>

ClientStep ==
    \/ Insert
    \/ InsertFails
    \/ DrainTable
    \/ DrainTableFails
    \/ DrainEnds

-----------------------------------------------------------------------------
(* The flush file                                                          *)

\* SIGTERM: the dispatcher flushes the queue of a registered client.  The
\* process goes on: nothing in the handler ends it.
SignalSaves ==
    /\ registered
    /\ handler = "idle"
    /\ signals < MaxSignals
    /\ signals' = signals + 1
    /\ pending # <<>>
    /\ file' = pending
    /\ handler' = "saved"
    /\ UNCHANGED <<pending, rows, registered, call, faults>>

\* ... and the clear that follows the replacement of the file.
SignalClears ==
    /\ handler = "saved"
    /\ pending' = <<>>
    /\ handler' = "idle"
    /\ UNCHANGED <<rows, file, registered, call, faults, signals>>

\* close: the handlers forget the client, and what waits stays where it is.
Close == registered' = FALSE

\* The process ends: the exit handler saves the queue of a registered client.
ExitSaves ==
    /\ file' = IF registered /\ pending # <<>> THEN pending ELSE file
    /\ pending' = <<>>
    /\ call' = Idle
    /\ handler' = "idle"
    /\ registered' = FALSE
    /\ UNCHANGED <<rows, faults, signals>>
=============================================================================

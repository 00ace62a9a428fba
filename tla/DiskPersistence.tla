--------------------------- MODULE DiskPersistence ---------------------------
(* The disk cache of rfsn_v10/disk_persistence.py: a data file and a metadata *)
(* file per entry, and a write-ahead log that is removed when an operation     *)
(* completes.  One caller at a time; the process may end, or an operation on a *)
(* file fail, between any two operations on files, and what was written stays. *)
(*                                                                             *)
(* What a file holds is the version that was persisted, which also stands for   *)
(* the checksum and the timestamp in the metadata.                              *)
EXTENDS Naturals, Sequences, SequencesExt, FiniteSets

CONSTANTS
    Key,
    MaxFiles,     \* max_cache_size, in data files
    TargetFiles,  \* 80% of it
    RotateAt,     \* max_file_size of the log, in lines
    MaxVersion,   \* bound: calls of persist
    MaxFaults,    \* bound: crashes and failures
    NoFile, Torn, Garbled, NoOp

\* Where persist or evict may be, named for the next operation on a file.
Places == {"append", "openData", "writeData", "openMeta", "writeMeta",
           "unlinkData", "unlinkMeta", "truncate"}

ASSUME DiskAssumption ==
    /\ MaxFiles \in Nat /\ TargetFiles \in Nat /\ TargetFiles <= MaxFiles
    /\ RotateAt \in Nat \ {0}
    /\ MaxVersion \in Nat /\ MaxFaults \in Nat
    /\ {NoFile, Torn} \cap Nat = {} /\ NoFile # Torn
    /\ Torn # Garbled
    /\ NoOp \notin [kind : {"write", "delete"}, at : Places, key : Key]
    /\ NoOp \notin [kind : {"quota"}, at : {"next", "quotaMeta"},
                    left : SUBSET Key, skipped : SUBSET Key]

VARIABLES
    data,         \* Key -> the .cache file: a version, NoFile, or Torn while it is not all written
    meta,         \* Key -> the .meta file
    log,          \* the lines of wal.log
    op,           \* the operation in progress
    clock,        \* versions persisted so far
    faults,
    latest,       \* history: Key -> the last version whose write reached the data file
    broken        \* history: the keys whose last write was cut off before its metadata

files == <<data, meta>>
vars == <<data, meta, log, op, clock, faults, latest, broken>>

Busy == op # NoOp
OnDisk(k) == data[k] # NoFile
Readable(k) == meta[k] \in Nat

\* A directory without entries.
Init ==
    /\ data = [k \in Key |-> NoFile]
    /\ meta = [k \in Key |-> NoFile]
    /\ log = <<>>
    /\ op = NoOp
    /\ clock = 0
    /\ faults = 0
    /\ latest = [k \in Key |-> 0]
    /\ broken = {}

-----------------------------------------------------------------------------
(* The write-ahead log, and what is read from the directory                 *)

Line(action, k) == [action |-> action, key |-> k]

\* Mutants of Appended: the log is rotated with the new line in it, or never.
AppendedFirst(line) ==
    LET lines == IF log # <<>> /\ Last(log) = Torn THEN Append(Front(log), Garbled)
                 ELSE Append(log, line)
    IN  IF Len(lines) > RotateAt THEN <<>> ELSE lines

AppendedUnrotated(line) ==
    IF log # <<>> /\ Last(log) = Torn THEN Append(Front(log), Garbled) ELSE Append(log, line)

\* append: a log of full size is rotated away first; a line that follows a torn
\* one ends up on the same line, which read_entries then skips.
Appended(line) ==
    LET lines == IF Len(log) >= RotateAt THEN <<>> ELSE log
    IN  IF lines # <<>> /\ Last(lines) = Torn
        THEN Append(Front(lines), Garbled)
        ELSE Append(lines, line)

\* load: what it answers to a caller whose metadata has the checksum of a version.
\* Data without metadata is not verified; torn metadata raises JSONDecodeError.
Load(k, version) ==
    CASE ~OnDisk(k) -> NoFile
      [] OnDisk(k) /\ meta[k] = Torn -> Torn
      [] OnDisk(k) /\ meta[k] \notin {NoFile, Torn, version} -> NoFile
      [] OnDisk(k) /\ meta[k] \in {NoFile, version} -> data[k]

\* recover: the entries whose data file exists.
Recovered ==
    {k \in Key : Line("write", k) \in ToSet(log) /\ OnDisk(k)}

-----------------------------------------------------------------------------
(* persist and evict                                                        *)

BeginPersist(k) ==
    /\ ~Busy
    /\ clock < MaxVersion
    /\ clock' = clock + 1
    /\ op' = [kind |-> "write", at |-> "append", key |-> k]
    /\ UNCHANGED <<files, log, faults, latest, broken>>

BeginEvict(k) ==
    /\ ~Busy
    /\ op' = [kind |-> "delete", at |-> "append", key |-> k]
    /\ UNCHANGED <<files, log, clock, faults, latest, broken>>

At(place) == Busy /\ op.at = place
Goes(place) == op' = [op EXCEPT !.at = place]

LogEntry ==
    /\ At("append")
    /\ log' = Appended(Line(op.kind, op.key))
    /\ Goes(IF op.kind = "write" THEN "openData" ELSE "unlinkData")
    /\ UNCHANGED <<files, clock, faults, latest, broken>>

\* The data file is opened for writing, which empties it.
OpenData ==
    /\ At("openData")
    /\ data' = [data EXCEPT ![op.key] = Torn]
    /\ latest' = [latest EXCEPT ![op.key] = clock]
    /\ Goes("writeData")
    /\ UNCHANGED <<meta, log, clock, faults, broken>>

WriteData ==
    /\ At("writeData")
    /\ data' = [data EXCEPT ![op.key] = clock]
    /\ Goes("openMeta")
    /\ UNCHANGED <<meta, log, clock, faults, latest, broken>>

OpenMeta ==
    /\ At("openMeta")
    /\ meta' = [meta EXCEPT ![op.key] = Torn]
    /\ Goes("writeMeta")
    /\ UNCHANGED <<data, log, clock, faults, latest, broken>>

WriteMeta ==
    /\ At("writeMeta")
    /\ meta' = [meta EXCEPT ![op.key] = clock]
    /\ broken' = broken \ {op.key}
    /\ Goes("truncate")
    /\ UNCHANGED <<data, log, clock, faults, latest>>

\* A mutant of UnlinkData: the metadata goes first.
UnlinkMetaFirst ==
    /\ At("unlinkData")
    /\ meta' = [meta EXCEPT ![op.key] = NoFile]
    /\ Goes("unlinkMeta")
    /\ UNCHANGED <<data, log, clock, faults, latest, broken>>

UnlinkData ==
    /\ At("unlinkData")
    /\ data' = [data EXCEPT ![op.key] = NoFile]
    /\ broken' = broken \ {op.key}
    /\ Goes("unlinkMeta")
    /\ UNCHANGED <<meta, log, clock, faults, latest>>

UnlinkMeta ==
    /\ At("unlinkMeta")
    /\ meta' = [meta EXCEPT ![op.key] = NoFile]
    /\ Goes("truncate")
    /\ UNCHANGED <<data, log, clock, faults, latest, broken>>

\* The operation completes: the whole log goes, whoever wrote its lines.
Truncate ==
    /\ At("truncate")
    /\ log' = <<>>
    /\ op' = NoOp
    /\ UNCHANGED <<files, clock, faults, latest, broken>>

-----------------------------------------------------------------------------
(* enforce_quota                                                            *)

Size == Cardinality({k \in Key : OnDisk(k)})

\* A mutant of Oldest: the newest entries come first.
Newest(left) == CHOOSE k \in left : \A j \in left : meta[j] <= meta[k]

\* The next of the entries, which are sorted by their timestamps: what is left of
\* them keeps its metadata until its turn.
Oldest(left) == CHOOSE k \in left : \A j \in left : meta[k] <= meta[j]

\* The entries with readable metadata.
BeginQuota ==
    /\ ~Busy
    /\ Size > MaxFiles
    /\ op' = [kind |-> "quota", at |-> "next", left |-> {k \in Key : Readable(k)}, skipped |-> {}]
    /\ UNCHANGED <<files, log, clock, faults, latest, broken>>

QuotaUnlinksData ==
    /\ At("next")
    /\ op.left # {}
    /\ Size > TargetFiles
    /\ data' = [data EXCEPT ![Oldest(op.left)] = NoFile]
    /\ broken' = broken \ {Oldest(op.left)}
    /\ Goes("quotaMeta")
    /\ UNCHANGED <<meta, log, clock, faults, latest>>

QuotaUnlinksMeta ==
    /\ At("quotaMeta")
    /\ meta' = [meta EXCEPT ![Oldest(op.left)] = NoFile]
    /\ op' = [op EXCEPT !.at = "next", !.left = @ \ {Oldest(@)}]
    /\ UNCHANGED <<data, log, clock, faults, latest, broken>>

\* A file that cannot be removed: the entry is passed over.
QuotaSkips ==
    /\ Busy /\ op.at \in {"next", "quotaMeta"}
    /\ op.left # {}
    /\ op.at = "next" => Size > TargetFiles
    /\ faults < MaxFaults
    /\ faults' = faults + 1
    /\ op' = [op EXCEPT !.at = "next", !.left = @ \ {Oldest(@)}, !.skipped = @ \cup {Oldest(op.left)}]
    /\ UNCHANGED <<files, log, clock, latest, broken>>

QuotaEnds ==
    /\ At("next")
    /\ op.left = {} \/ Size <= TargetFiles
    /\ op' = NoOp
    /\ UNCHANGED <<files, log, clock, faults, latest, broken>>

-----------------------------------------------------------------------------
(* Crashes and failures                                                     *)

\* The process ends and starts again, or a file operation raises: persist and
\* evict then return False.  The files are as the last step left them.
Interrupted ==
    /\ Busy
    /\ faults < MaxFaults
    /\ faults' = faults + 1
    /\ broken' = IF op.at \in {"writeData", "openMeta", "writeMeta"}
                 THEN broken \cup {op.key} ELSE broken
    /\ op' = NoOp
    /\ UNCHANGED <<files, log, clock, latest>>

\* ... in the middle of a line of the log.
LineTorn ==
    /\ At("append")
    /\ faults < MaxFaults
    /\ faults' = faults + 1
    /\ log' = Appended(Torn)
    /\ op' = NoOp
    /\ UNCHANGED <<files, clock, latest, broken>>

Next ==
    \/ \E k \in Key : BeginPersist(k) \/ BeginEvict(k)
    \/ LogEntry
    \/ OpenData
    \/ WriteData
    \/ OpenMeta
    \/ WriteMeta
    \/ UnlinkData
    \/ UnlinkMeta
    \/ Truncate
    \/ BeginQuota
    \/ QuotaUnlinksData
    \/ QuotaUnlinksMeta
    \/ QuotaSkips
    \/ QuotaEnds
    \/ Interrupted
    \/ LineTorn

Spec == Init /\ [][Next]_vars

-----------------------------------------------------------------------------
(* Properties                                                               *)

\* The variables have the types the code gives them.
TypeOK ==
    /\ \A k \in Key : {data[k], meta[k]} \subseteq {NoFile, Torn} \cup 1..clock
    /\ \A i \in DOMAIN log : /\ log[i] \in {Torn, Garbled} \cup [action : {"write", "delete"}, key : Key]
                             /\ log[i] = Torn => i = Len(log)
    /\ Len(log) <= RotateAt
    /\ clock \in 0..MaxVersion
    /\ broken \subseteq Key

Writing(k) == Busy /\ op.kind = "write" /\ op.key = k /\ op.at \in {"writeData", "openMeta", "writeMeta"}

\* load answers with the data that its caller's checksum stands for, and does so
\* whenever the entry is there, unless a write of the key was cut off: no crash in
\* an eviction, by the caller or for the quota, leaves data that load returns
\* unverified, or metadata that hides what was persisted later.
LoadsSound ==
    \A k \in Key, version \in 1..clock : ~Writing(k) /\ k \notin broken =>
        Load(k, version) = IF OnDisk(k) /\ version = latest[k] THEN version ELSE NoFile

\* disk_persistence.py:112 ("Write to WAL first"): whenever a crash would leave
\* a key's files torn or in disagreement, recover() names the key - unless its
\* line was lost behind a line that an earlier crash tore.
RecoverNamesWrites ==
    \A k \in Key : Writing(k) => k \in Recovered \/ Garbled \in ToSet(log)

\* enforce_quota removes an entry only while the directory is too large and only
\* after every older one with readable metadata, and it ends below the target or
\* with no entry left that it can tell the age of; failures aside.
QuotaSound ==
    [][Busy /\ op.kind = "quota" =>
        /\ \A k \in Key : data'[k] # data[k] =>
            /\ Size > TargetFiles
            /\ \A j \in Key : OnDisk(j) /\ Readable(j) /\ meta[j] < meta[k] => j \in op.skipped
        /\ op' = NoOp /\ faults' = faults =>
            \/ Size <= TargetFiles
            \/ \A k \in Key : OnDisk(k) /\ Readable(k) => k \in op.skipped]_vars
=============================================================================

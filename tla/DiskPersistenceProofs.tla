------------------------ MODULE DiskPersistenceProofs ------------------------
(* Proofs about DiskPersistence, for every set of keys, every size of the log *)
(* and of the directory and every number of crashes: what load() returns is   *)
(* what its caller's checksum stands for, recover() names the key whose files *)
(* a crash would leave in disagreement, and the quota removes the oldest      *)
(* entries first and only as many as it has to.                               *)
EXTENDS DiskPersistence, PoolLemmas

-----------------------------------------------------------------------------
(* The inductive invariant                                                  *)

ALine == [action : {"write", "delete"}, key : Key]
AWrite ==
    [kind : {"write"}, key : Key,
     at : {"append", "openData", "writeData", "openMeta", "writeMeta", "truncate"}]
ADelete == [kind : {"delete"}, key : Key, at : {"append", "unlinkData", "unlinkMeta", "truncate"}]
AQuota == [kind : {"quota"}, at : {"next", "quotaMeta"}, left : SUBSET Key, skipped : SUBSET Key]

Types ==
    /\ clock \in 0..MaxVersion
    /\ data \in [Key -> {NoFile, Torn} \cup 1..clock]
    /\ meta \in [Key -> {NoFile, Torn} \cup 1..clock]
    /\ latest \in [Key -> 0..clock]
    /\ broken \subseteq Key
    /\ faults \in Nat

\* The log has a bounded number of lines, and only its last one may be torn.
LogShape ==
    /\ log \in Seq({Torn, Garbled} \cup ALine)
    /\ Len(log) <= RotateAt
    /\ \A i \in 1..Len(log) : log[i] = Torn => i = Len(log)

OpShape == Busy => op \in AWrite \/ op \in ADelete \/ op \in AQuota

\* What the operation in progress has done so far.
Progress ==
    /\ Busy /\ op \in AWrite =>
        /\ clock > 0
        /\ op.at \in {"writeData", "openMeta", "writeMeta"} =>
            /\ OnDisk(op.key)
            /\ latest[op.key] = clock
        /\ op.at \in {"openMeta", "writeMeta"} => data[op.key] = clock
        /\ op.at \in {"openData", "writeData", "openMeta", "writeMeta"} =>
            Line("write", op.key) \in ToSet(log) \/ Garbled \in ToSet(log)
    /\ Busy /\ op \in ADelete /\ op.at = "unlinkMeta" => ~OnDisk(op.key)
    /\ Busy /\ op \in AQuota =>
        /\ \A k \in op.left : Readable(k)
        /\ \A k \in Key : OnDisk(k) /\ Readable(k) => k \in op.left \cup op.skipped
        /\ op.at = "quotaMeta" => op.left # {} /\ ~OnDisk(Oldest(op.left))

\* An entry that no write was cut off for is whole.
Whole ==
    \A k \in Key : OnDisk(k) /\ ~Writing(k) /\ k \notin broken =>
                        data[k] = latest[k] /\ meta[k] = latest[k]

IInv == Types /\ LogShape /\ OpShape /\ Progress /\ Whole

-----------------------------------------------------------------------------
(* The log                                                                  *)

\* A line that is appended is in the log, or has spoilt the torn line before it;
\* the log keeps its shape.
LEMMA AppendedShape ==
    ASSUME LogShape, NEW line \in {Torn} \cup ALine
    PROVE  /\ Appended(line) \in Seq({Torn, Garbled} \cup ALine)
           /\ Len(Appended(line)) <= RotateAt
           /\ \A i \in 1..Len(Appended(line)) : Appended(line)[i] = Torn => i = Len(Appended(line))
           /\ line \in ToSet(Appended(line)) \/ Garbled \in ToSet(Appended(line))
<1> DEFINE Lines == {Torn, Garbled} \cup ALine
           lines == IF Len(log) >= RotateAt THEN <<>> ELSE log
<1>1. /\ lines \in Seq(Lines)
      /\ Len(lines) \in Nat /\ RotateAt \in Nat /\ Len(lines) < RotateAt
      /\ \A i \in 1..Len(lines) : lines[i] = Torn => i = Len(lines)
  <2>1. Len(<<>>) = 0 /\ <<>> \in Seq(Lines) /\ Len(log) \in Nat
    BY EmptySeq, LenProperties DEF LogShape
  <2>2. CASE Len(log) >= RotateAt
    <3>1. lines = <<>>
      BY <2>2
    <3> HIDE DEF lines, Lines
    <3> QED BY <2>1, <3>1, DiskAssumption
  <2>3. CASE ~(Len(log) >= RotateAt)
    <3>1. lines = log
      BY <2>3
    <3>2. log \in Seq(Lines) /\ \A i \in 1..Len(log) : log[i] = Torn => i = Len(log)
      BY DEF LogShape
    <3> HIDE DEF lines, Lines
    <3> QED BY <2>1, <2>3, <3>1, <3>2, DiskAssumption
  <2> QED BY <2>2, <2>3
<1>2. Appended(line) = IF lines # <<>> /\ Last(lines) = Torn
                       THEN Append(Front(lines), Garbled) ELSE Append(lines, line)
  BY DEF Appended
<1> HIDE DEF lines
<1>3. CASE lines # <<>> /\ Last(lines) = Torn
  <2>1. Len(lines) > 0
    BY <1>1, <1>3, EmptySeq
  <2>2. /\ Front(lines) \in Seq(Lines)
        /\ Len(Front(lines)) = Len(lines) - 1
        /\ \A i \in 1..(Len(lines) - 1) : Front(lines)[i] = lines[i]
    <3>1. \A i \in 1..(Len(lines) - 1) : lines[i] \in Lines
      BY <1>1, <2>1, LenProperties
    <3>2. Front(lines) = SubSeq(lines, 1, Len(lines) - 1)
      BY DEF Front
    <3>3. Len(lines) - 1 \in Int /\ 1 \in Int
      <4>1. Len(lines) \in Nat
        BY <1>1, Zenon
      <4> QED BY <4>1
    <3> HIDE DEF Lines
    <3>4. /\ SubSeq(lines, 1, Len(lines) - 1) \in Seq(Lines)
          /\ Len(SubSeq(lines, 1, Len(lines) - 1)) =
                IF 1 <= Len(lines) - 1 THEN (Len(lines) - 1) - 1 + 1 ELSE 0
      BY <3>1, <3>3, SubSeqProperties
    <3>5. Len(SubSeq(lines, 1, Len(lines) - 1)) = Len(lines) - 1
      <4>1. Len(lines) \in Nat
        BY <1>1, Zenon
      <4>2. \A m, n : m \in Nat /\ m > 0 /\ n = (IF 1 <= m - 1 THEN (m - 1) - 1 + 1 ELSE 0) => n = m - 1
        OBVIOUS
      <4> QED BY <2>1, <3>4, <4>1, <4>2, Zenon
    <3>6. \A i \in 1..(Len(lines) - 1) : SubSeq(lines, 1, Len(lines) - 1)[i] = lines[i]
      BY <1>1, <2>1, <3>3, <3>5
    <3> QED BY <3>2, <3>4, <3>5, <3>6, Zenon
  <2>3. Garbled \in Lines
    OBVIOUS
  <2> DEFINE new == Append(Front(lines), Garbled)
  <2>4. /\ new \in Seq(Lines)
        /\ Len(new) = Len(lines)
        /\ new[Len(lines)] = Garbled
        /\ \A i \in 1..(Len(lines) - 1) : new[i] = lines[i]
    <3> HIDE DEF Lines
    <3> QED BY <1>1, <2>1, <2>2, <2>3
  <2>5. \A i \in 1..Len(new) : new[i] # Torn
    <3>1. \A i \in 1..(Len(lines) - 1) : lines[i] # Torn
      BY <1>1, <2>1
    <3> HIDE DEF new
    <3> QED BY <1>1, <2>1, <2>4, <3>1, DiskAssumption
  <2>6. Garbled \in ToSet(new)
    <3> HIDE DEF new, Lines
    <3>1. Len(lines) \in DOMAIN new
      BY <1>1, <2>1, <2>4, LenProperties
    <3> QED BY <2>4, <3>1, Zenon DEF ToSet
  <2> QED BY <1>1, <1>2, <1>3, <2>4, <2>5, <2>6
<1>4. CASE ~(lines # <<>> /\ Last(lines) = Torn)
  <2>1. line \in Lines
    OBVIOUS
  <2> DEFINE new == Append(lines, line)
  <2>2. /\ new \in Seq(Lines)
        /\ Len(new) = Len(lines) + 1
        /\ new[Len(lines) + 1] = line
        /\ \A i \in 1..Len(lines) : new[i] = lines[i]
    <3> HIDE DEF Lines
    <3> QED BY <1>1, <2>1
  <2>3. \A i \in 1..Len(lines) : lines[i] # Torn
    <3>1. SUFFICES ASSUME NEW i \in 1..Len(lines), lines[i] = Torn PROVE FALSE
      OBVIOUS
    <3>2. i = Len(lines) /\ lines # <<>>
      BY <1>1, <3>1, EmptySeq
    <3> QED BY <1>4, <3>1, <3>2 DEF Last
  <2>4. line \in ToSet(new)
    <3> HIDE DEF new, Lines
    <3>1. Len(lines) + 1 \in DOMAIN new
      BY <1>1, <2>2, LenProperties
    <3> QED BY <2>2, <3>1, Zenon DEF ToSet
  <2>5. \A i \in 1..Len(new) : new[i] = Torn => i = Len(new)
    <3> HIDE DEF new
    <3> QED BY <1>1, <2>2, <2>3
  <2> QED BY <1>1, <1>2, <1>4, <2>2, <2>4, <2>5
<1> QED BY <1>3, <1>4

-----------------------------------------------------------------------------
(* Operations in progress                                                   *)

\* What kind an operation has tells which of them it is.
LEMMA Kinds ==
    /\ \A o \in AWrite : o.kind = "write" /\ o.key \in Key /\ o # NoOp
    /\ \A o \in ADelete : o.kind = "delete" /\ o.key \in Key /\ o # NoOp
    /\ \A o \in AQuota : o.kind = "quota"
<1>1. ASSUME NEW o \in AWrite \cup ADelete
      PROVE  o # NoOp
  <2>1. o = [kind |-> o.kind, at |-> o.at, key |-> o.key]
    BY DEF AWrite, ADelete
  <2>2. o.key \in Key /\ o.kind \in {"write", "delete"}
    BY DEF AWrite, ADelete
  <2>3. o.at \in Places
    BY DEF AWrite, ADelete, Places
  <2> QED BY <2>1, <2>2, <2>3, DiskAssumption
<1> QED BY <1>1 DEF AWrite, ADelete, AQuota

\* A write or a delete that goes on is one still.
LEMMA GoesOn ==
    ASSUME NEW o \in AWrite \cup ADelete, NEW place
    PROVE  LET next == [o EXCEPT !.at = place]
           IN  /\ o \in AWrite /\ place \in {"openData", "writeData", "openMeta", "writeMeta", "truncate"} =>
                    next \in AWrite /\ next.key = o.key /\ next.at = place
               /\ o \in ADelete /\ place \in {"unlinkData", "unlinkMeta", "truncate"} =>
                    next \in ADelete /\ next.key = o.key /\ next.at = place
BY DEF AWrite, ADelete

\* There is an oldest entry of those whose metadata can be read.
LEMMA OldestIs ==
    ASSUME NEW left \in SUBSET Key, left # {}, \A k \in left : Readable(k)
    PROVE  Oldest(left) \in left /\ \A j \in left : meta[Oldest(left)] <= meta[j]
<1> DEFINE times == {meta[k] : k \in left}
<1>1. times \in SUBSET Nat /\ times # {}
  BY DEF Readable
<1>2. PICK n \in times : \A m \in times : n <= m
  <2> HIDE DEF times
  <2> QED BY <1>1, Least
<1>3. \E k \in left : \A j \in left : meta[k] <= meta[j]
  BY <1>2
<1> QED BY <1>3 DEF Oldest

LEMMA InvInit == Init => IInv
<1> SUFFICES ASSUME Init PROVE IInv
  OBVIOUS
<1>1. Types /\ OpShape /\ Progress /\ Whole
  BY DiskAssumption DEF Init, Types, OpShape, Progress, Whole, Busy, OnDisk
<1>2. LogShape
  BY EmptySeq, DiskAssumption DEF Init, LogShape
<1> QED BY <1>1, <1>2 DEF IInv

-----------------------------------------------------------------------------
(* The steps                                                                *)

\* Beginning an operation, ending one between two of its writes.
LEMMA BeginInv ==
    ASSUME IInv, NEW k \in Key, BeginPersist(k) \/ BeginEvict(k)
    PROVE  IInv'
<1>1. CASE BeginPersist(k)
  <2>1. op' \in AWrite /\ op'.at = "append" /\ clock' = clock + 1 /\ clock \in Nat
    <3>1. op' \in AWrite /\ op'.at = "append"
      BY <1>1 DEF BeginPersist, AWrite
    <3> QED BY <1>1, <3>1 DEF BeginPersist, IInv, Types
  <2>2. clock' \in 0..MaxVersion /\ 0..clock \subseteq 0..clock' /\ 1..clock \subseteq 1..clock' /\ clock' > 0
    BY <1>1, <2>1, DiskAssumption DEF BeginPersist, IInv, Types
  <2>3. Types'
    BY <1>1, <2>2 DEF IInv, Types, BeginPersist, files
  <2>4. LogShape' /\ OpShape'
    BY <1>1, <2>1 DEF IInv, LogShape, OpShape, BeginPersist, ALine
  <2>5. Progress'
    BY <2>1, <2>2, Kinds DEF Progress
  <2>6. Whole'
    BY <1>1, <2>1, Kinds DEF IInv, Whole, BeginPersist, OnDisk, Writing, Busy, files
  <2> QED BY <2>3, <2>4, <2>5, <2>6 DEF IInv
<1>2. CASE BeginEvict(k)
  <2>1. op' \in ADelete /\ op'.at = "append"
    BY <1>2 DEF BeginEvict, ADelete
  <2>2. Types' /\ LogShape' /\ OpShape'
    BY <1>2, <2>1 DEF IInv, Types, LogShape, OpShape, BeginEvict, ALine, files
  <2>3. Progress'
    BY <2>1, Kinds DEF Progress
  <2>4. Whole'
    BY <1>2, <2>1, Kinds DEF IInv, Whole, BeginEvict, OnDisk, Writing, Busy, files
  <2> QED BY <2>2, <2>3, <2>4 DEF IInv
<1> QED BY <1>1, <1>2

\* Where an operation is tells what it is.
LEMMA Where ==
    ASSUME OpShape, Busy
    PROVE  /\ op.at \in {"openData", "writeData", "openMeta", "writeMeta"} => op \in AWrite
           /\ op.at \in {"unlinkData", "unlinkMeta"} => op \in ADelete
           /\ op.at \in {"append", "truncate"} => op \in AWrite \cup ADelete
           /\ op.at \in {"next", "quotaMeta"} => op \in AQuota
BY DEF OpShape, AWrite, ADelete, AQuota

LEMMA LogInv ==
    ASSUME IInv, LogEntry
    PROVE  IInv'
<1>1. Busy /\ op.at = "append" /\ op \in AWrite \cup ADelete
  BY Where DEF IInv, LogEntry, At
<1> DEFINE line == Line(op.kind, op.key)
<1>2. line \in ALine
  BY <1>1, Kinds DEF Line, ALine
<1>3. log' = Appended(line) /\ UNCHANGED <<data, meta, clock, faults, latest, broken>>
  BY DEF LogEntry, files
<1>4. LogShape' /\ (line \in ToSet(log') \/ Garbled \in ToSet(log'))
  <2>1. LogShape'
    BY <1>2, <1>3, AppendedShape DEF IInv, LogShape, ALine
  <2> QED BY <1>2, <1>3, <2>1, AppendedShape DEF IInv
<1> HIDE DEF line
<1>5. CASE op \in AWrite
  <2>1. op' = [op EXCEPT !.at = "openData"]
    BY <1>5, Kinds DEF LogEntry, Goes
  <2>2. op' \in AWrite /\ op'.at = "openData" /\ op'.key = op.key
    BY <1>5, <2>1, GoesOn
  <2>3. line = Line("write", op'.key)
    BY <1>5, <2>2, Kinds DEF line
  <2>4. Types' /\ OpShape'
    BY <1>3, <2>2 DEF IInv, Types, OpShape
  <2>5. Progress'
    BY <1>1, <1>3, <1>4, <1>5, <2>2, <2>3, Kinds DEF IInv, Progress, Types
  <2>6. Whole'
    BY <1>1, <1>3, <2>2, Kinds DEF IInv, Whole, OnDisk, Writing, Busy
  <2> QED BY <1>4, <2>4, <2>5, <2>6 DEF IInv
<1>6. CASE op \in ADelete
  <2>1. op' = [op EXCEPT !.at = "unlinkData"]
    BY <1>6, Kinds DEF LogEntry, Goes
  <2>2. op' \in ADelete /\ op'.at = "unlinkData" /\ op'.key = op.key
    BY <1>6, <2>1, GoesOn
  <2>3. Types' /\ OpShape'
    BY <1>3, <2>2 DEF IInv, Types, OpShape
  <2>4. Progress'
    BY <2>2, Kinds DEF Progress
  <2>5. Whole'
    BY <1>1, <1>3, <2>2, Kinds DEF IInv, Whole, OnDisk, Writing, Busy
  <2> QED BY <1>4, <2>3, <2>4, <2>5 DEF IInv
<1> QED BY <1>1, <1>5, <1>6

LEMMA OpenDataInv ==
    ASSUME IInv, OpenData
    PROVE  IInv'
<1>1. Busy /\ op.at = "openData" /\ op \in AWrite /\ op.key \in Key
  BY Where, Kinds DEF IInv, OpenData, At
<1>2. op' \in AWrite /\ op'.at = "writeData" /\ op'.key = op.key
  BY <1>1, GoesOn DEF OpenData, Goes
<1>3. /\ data' = [data EXCEPT ![op.key] = Torn]
      /\ latest' = [latest EXCEPT ![op.key] = clock]
      /\ UNCHANGED <<meta, log, clock, faults, broken>>
  BY DEF OpenData
<1>4. clock \in Nat /\ clock > 0 /\ NoFile # Torn
  BY <1>1, DiskAssumption DEF IInv, Types, Progress
<1>5. Types' /\ LogShape' /\ OpShape'
  BY <1>1, <1>2, <1>3, <1>4 DEF IInv, Types, LogShape, OpShape, ALine
<1>6. Progress'
  BY <1>1, <1>2, <1>3, <1>4, Kinds DEF IInv, Types, Progress, OnDisk
<1>7. Whole'
  BY <1>1, <1>2, <1>3, Kinds DEF IInv, Types, Whole, OnDisk, Writing, Busy
<1> QED BY <1>5, <1>6, <1>7 DEF IInv

LEMMA WriteDataInv ==
    ASSUME IInv, WriteData
    PROVE  IInv'
<1>1. Busy /\ op.at = "writeData" /\ op \in AWrite /\ op.key \in Key
  BY Where, Kinds DEF IInv, WriteData, At
<1>2. op' \in AWrite /\ op'.at = "openMeta" /\ op'.key = op.key
  BY <1>1, GoesOn DEF WriteData, Goes
<1>3. /\ data' = [data EXCEPT ![op.key] = clock]
      /\ UNCHANGED <<meta, log, clock, faults, latest, broken>>
  BY DEF WriteData
<1>4. clock \in Nat /\ clock > 0 /\ NoFile # clock
  BY <1>1, DiskAssumption DEF IInv, Types, Progress
<1>5. Types' /\ LogShape' /\ OpShape'
  BY <1>1, <1>2, <1>3, <1>4 DEF IInv, Types, LogShape, OpShape, ALine
<1>6. Progress'
  BY <1>1, <1>2, <1>3, <1>4, Kinds DEF IInv, Types, Progress, OnDisk
<1>7. Whole'
  BY <1>1, <1>2, <1>3, Kinds DEF IInv, Types, Whole, OnDisk, Writing, Busy
<1> QED BY <1>5, <1>6, <1>7 DEF IInv

LEMMA OpenMetaInv ==
    ASSUME IInv, OpenMeta
    PROVE  IInv'
<1>1. Busy /\ op.at = "openMeta" /\ op \in AWrite /\ op.key \in Key
  BY Where, Kinds DEF IInv, OpenMeta, At
<1>2. op' \in AWrite /\ op'.at = "writeMeta" /\ op'.key = op.key
  BY <1>1, GoesOn DEF OpenMeta, Goes
<1>3. /\ meta' = [meta EXCEPT ![op.key] = Torn]
      /\ UNCHANGED <<data, log, clock, faults, latest, broken>>
  BY DEF OpenMeta
<1>4. Types' /\ LogShape' /\ OpShape'
  BY <1>1, <1>2, <1>3 DEF IInv, Types, LogShape, OpShape, ALine
<1>5. Progress'
  BY <1>1, <1>2, <1>3, Kinds DEF IInv, Types, Progress, OnDisk
<1>6. Whole'
  BY <1>1, <1>2, <1>3, Kinds DEF IInv, Types, Whole, OnDisk, Writing, Busy
<1> QED BY <1>4, <1>5, <1>6 DEF IInv

LEMMA WriteMetaInv ==
    ASSUME IInv, WriteMeta
    PROVE  IInv'
<1>1. Busy /\ op.at = "writeMeta" /\ op \in AWrite /\ op.key \in Key
  BY Where, Kinds DEF IInv, WriteMeta, At
<1>2. op' \in AWrite /\ op'.at = "truncate" /\ op'.key = op.key
  BY <1>1, GoesOn DEF WriteMeta, Goes
<1>3. /\ meta' = [meta EXCEPT ![op.key] = clock]
      /\ broken' = broken \ {op.key}
      /\ UNCHANGED <<data, log, clock, faults, latest>>
  BY DEF WriteMeta
<1>4. /\ clock \in Nat /\ clock > 0
      /\ data[op.key] = clock /\ latest[op.key] = clock
  BY <1>1, DiskAssumption DEF IInv, Types, Progress
<1>5. Types' /\ LogShape' /\ OpShape'
  BY <1>1, <1>2, <1>3, <1>4 DEF IInv, Types, LogShape, OpShape, ALine
<1>6. Progress'
  BY <1>1, <1>2, <1>3, <1>4, Kinds DEF IInv, Types, Progress, OnDisk
<1>7. Whole'
  BY <1>1, <1>2, <1>3, <1>4, Kinds DEF IInv, Types, Whole, OnDisk, Writing, Busy
<1> QED BY <1>5, <1>6, <1>7 DEF IInv

LEMMA UnlinkInv ==
    ASSUME IInv, UnlinkData \/ UnlinkMeta
    PROVE  IInv'
<1>1. Busy /\ op \in ADelete /\ op.key \in Key
  BY Where, Kinds DEF IInv, UnlinkData, UnlinkMeta, At
<1>2. CASE UnlinkData
  <2>1. op' \in ADelete /\ op'.at = "unlinkMeta" /\ op'.key = op.key
    BY <1>1, <1>2, GoesOn DEF UnlinkData, Goes
  <2>2. /\ data' = [data EXCEPT ![op.key] = NoFile]
        /\ broken' = broken \ {op.key}
        /\ UNCHANGED <<meta, log, clock, faults, latest>>
    BY <1>2 DEF UnlinkData
  <2>3. Types' /\ LogShape' /\ OpShape'
    BY <1>1, <2>1, <2>2 DEF IInv, Types, LogShape, OpShape, ALine
  <2>4. Progress'
    BY <1>1, <2>1, <2>2, Kinds DEF IInv, Types, Progress, OnDisk
  <2>5. Whole'
    BY <1>1, <2>1, <2>2, Kinds DEF IInv, Types, Whole, OnDisk, Writing, Busy
  <2> QED BY <2>3, <2>4, <2>5 DEF IInv
<1>3. CASE UnlinkMeta
  <2>1. op' \in ADelete /\ op'.at = "truncate" /\ op'.key = op.key
    BY <1>1, <1>3, GoesOn DEF UnlinkMeta, Goes
  <2>2. /\ meta' = [meta EXCEPT ![op.key] = NoFile]
        /\ UNCHANGED <<data, log, clock, faults, latest, broken>>
    BY <1>3 DEF UnlinkMeta
  <2>3. ~OnDisk(op.key)
    BY <1>1, <1>3 DEF IInv, Progress, UnlinkMeta, At
  <2>4. Types' /\ LogShape' /\ OpShape'
    BY <1>1, <2>1, <2>2 DEF IInv, Types, LogShape, OpShape, ALine
  <2>5. Progress'
    BY <2>1, Kinds DEF Progress
  <2>6. Whole'
    BY <1>1, <2>1, <2>2, <2>3, Kinds DEF IInv, Types, Whole, OnDisk, Writing, Busy
  <2> QED BY <2>4, <2>5, <2>6 DEF IInv
<1> QED BY <1>2, <1>3

LEMMA TruncateInv ==
    ASSUME IInv, Truncate
    PROVE  IInv'
<1>1. Busy /\ op.at = "truncate" /\ op \in AWrite \cup ADelete
  BY Where DEF IInv, Truncate, At
<1>2. ~Busy' /\ log' = <<>> /\ UNCHANGED <<data, meta, clock, faults, latest, broken>>
  BY DEF Truncate, Busy, files
<1>3. LogShape'
  BY <1>2, EmptySeq, DiskAssumption DEF LogShape
<1>4. Types' /\ OpShape' /\ Progress'
  BY <1>2 DEF IInv, Types, OpShape, Progress
<1>5. Whole'
  BY <1>1, <1>2, Kinds DEF IInv, Whole, OnDisk, Writing
<1> QED BY <1>3, <1>4, <1>5 DEF IInv

\* The quota begins with all entries whose metadata can be read.
LEMMA QuotaBegins ==
    ASSUME IInv, BeginQuota
    PROVE  IInv'
<1>1. /\ op' \in AQuota /\ op'.at = "next"
      /\ op'.left = {k \in Key : Readable(k)} /\ op'.skipped = {}
  BY DEF BeginQuota, AQuota
<1>2. ~Busy /\ UNCHANGED <<data, meta, log, clock, faults, latest, broken>>
  BY DEF BeginQuota, files
<1>3. Types' /\ LogShape' /\ OpShape'
  BY <1>1, <1>2 DEF IInv, Types, LogShape, OpShape, ALine
<1>4. Progress'
  BY <1>1, <1>2, Kinds DEF Progress, OnDisk, Readable
<1>5. Whole'
  BY <1>1, <1>2, Kinds DEF IInv, Whole, OnDisk, Writing
<1> QED BY <1>3, <1>4, <1>5 DEF IInv

LEMMA QuotaDataInv ==
    ASSUME IInv, QuotaUnlinksData
    PROVE  IInv'
<1> DEFINE k == Oldest(op.left)
<1>1. Busy /\ op \in AQuota /\ op.left # {}
  BY Where DEF IInv, QuotaUnlinksData, At
<1>2. op' \in AQuota /\ op'.at = "quotaMeta" /\ op'.left = op.left /\ op'.skipped = op.skipped
  BY <1>1 DEF QuotaUnlinksData, Goes, AQuota
<1>3. /\ data' = [data EXCEPT ![k] = NoFile]
      /\ broken' = broken \ {k}
      /\ UNCHANGED <<meta, log, clock, faults, latest>>
  BY DEF QuotaUnlinksData
<1>4. k \in Key /\ k \in op.left
  BY <1>1, OldestIs DEF IInv, Progress, AQuota
<1>5. Oldest(op.left)' = k
  BY <1>2, <1>3 DEF Oldest
<1> HIDE DEF k
<1>6. Types' /\ LogShape' /\ OpShape'
  BY <1>2, <1>3 DEF IInv, Types, LogShape, OpShape, ALine
<1>7. Progress'
  BY <1>1, <1>2, <1>3, <1>4, <1>5, Kinds DEF IInv, Types, Progress, OnDisk, Readable
<1>8. Whole'
  BY <1>1, <1>2, <1>3, Kinds DEF IInv, Types, Whole, OnDisk, Writing, Busy
<1> QED BY <1>6, <1>7, <1>8 DEF IInv

LEMMA QuotaMetaInv ==
    ASSUME IInv, QuotaUnlinksMeta
    PROVE  IInv'
<1> DEFINE k == Oldest(op.left)
<1>1. Busy /\ op \in AQuota /\ op.at = "quotaMeta"
  BY Where DEF IInv, QuotaUnlinksMeta, At
<1>2. op' \in AQuota /\ op'.at = "next" /\ op'.left = op.left \ {k} /\ op'.skipped = op.skipped
  <2>1. op' = [op EXCEPT !.at = "next", !.left = op.left \ {k}]
    BY <1>1 DEF QuotaUnlinksMeta, AQuota
  <2> HIDE DEF k
  <2> QED BY <1>1, <2>1 DEF AQuota
<1>3. /\ meta' = [meta EXCEPT ![k] = NoFile]
      /\ UNCHANGED <<data, log, clock, faults, latest, broken>>
  BY DEF QuotaUnlinksMeta
<1>4. k \in Key /\ ~OnDisk(k)
  BY <1>1, OldestIs DEF IInv, Progress, AQuota
<1> HIDE DEF k
<1>5. Types' /\ LogShape' /\ OpShape'
  BY <1>2, <1>3 DEF IInv, Types, LogShape, OpShape, ALine
<1>6. Progress'
  BY <1>1, <1>2, <1>3, <1>4, Kinds DEF IInv, Types, Progress, OnDisk, Readable, AQuota
<1>7. Whole'
  BY <1>1, <1>2, <1>3, <1>4, Kinds DEF IInv, Types, Whole, OnDisk, Writing, Busy
<1> QED BY <1>5, <1>6, <1>7 DEF IInv

LEMMA QuotaSkipInv ==
    ASSUME IInv, QuotaSkips
    PROVE  IInv'
<1> DEFINE k == Oldest(op.left)
<1>1. Busy /\ op \in AQuota /\ op.left # {}
  BY Where DEF IInv, QuotaSkips
<1>2. /\ op' \in AQuota /\ op'.at = "next"
      /\ op'.left = op.left \ {k} /\ op'.skipped = op.skipped \cup {k}
  <2>1. op' = [op EXCEPT !.at = "next", !.left = op.left \ {k}, !.skipped = op.skipped \cup {k}]
    BY <1>1 DEF QuotaSkips, AQuota
  <2>2. k \in Key
    BY <1>1, OldestIs DEF IInv, Progress, AQuota
  <2> HIDE DEF k
  <2> QED BY <1>1, <2>1, <2>2 DEF AQuota
<1>3. UNCHANGED <<data, meta, log, clock, latest, broken>>
  BY DEF QuotaSkips, files
<1> HIDE DEF k
<1>4. Types' /\ LogShape' /\ OpShape'
  BY <1>2, <1>3 DEF IInv, Types, LogShape, OpShape, ALine, QuotaSkips
<1>5. Progress'
  BY <1>1, <1>2, <1>3, Kinds DEF IInv, Progress, OnDisk, Readable
<1>6. Whole'
  BY <1>1, <1>2, <1>3, Kinds DEF IInv, Whole, OnDisk, Writing, Busy
<1> QED BY <1>4, <1>5, <1>6 DEF IInv

LEMMA QuotaEndInv ==
    ASSUME IInv, QuotaEnds
    PROVE  IInv'
<1>1. Busy /\ op \in AQuota
  BY Where DEF IInv, QuotaEnds, At
<1>2. ~Busy' /\ UNCHANGED <<data, meta, log, clock, faults, latest, broken>>
  BY DEF QuotaEnds, Busy, files
<1>3. Types' /\ LogShape' /\ OpShape' /\ Progress'
  BY <1>2 DEF IInv, Types, LogShape, OpShape, Progress, ALine
<1>4. Whole'
  BY <1>1, <1>2, Kinds DEF IInv, Whole, OnDisk, Writing
<1> QED BY <1>3, <1>4 DEF IInv

\* A crash or a failure ends an operation where it is; a write that has opened its
\* data file and not written its metadata is remembered as broken.
LEMMA FaultInv ==
    ASSUME IInv, Interrupted \/ LineTorn
    PROVE  IInv'
<1>1. CASE Interrupted
  <2>1. ~Busy' /\ UNCHANGED <<data, meta, log, clock, latest>>
    BY <1>1 DEF Interrupted, Busy, files
  <2>2. Busy /\ op.at \in {"writeData", "openMeta", "writeMeta"} => op.key \in Key
    BY Where, Kinds DEF IInv
  <2>3. Types' /\ LogShape' /\ OpShape' /\ Progress'
    BY <1>1, <2>1, <2>2 DEF IInv, Types, LogShape, OpShape, Progress, ALine, Interrupted
  <2>4. Whole'
    BY <1>1, <2>1 DEF IInv, Whole, OnDisk, Writing, Interrupted
  <2> QED BY <2>3, <2>4 DEF IInv
<1>2. CASE LineTorn
  <2>1. Busy /\ op.at = "append"
    BY <1>2 DEF LineTorn, At
  <2>2. /\ ~Busy' /\ log' = Appended(Torn)
        /\ UNCHANGED <<data, meta, clock, latest, broken>>
    BY <1>2 DEF LineTorn, Busy, files
  <2>3. LogShape'
    BY <2>2, AppendedShape DEF IInv, LogShape, ALine
  <2>4. Types' /\ OpShape' /\ Progress'
    BY <1>2, <2>2 DEF IInv, Types, OpShape, Progress, LineTorn
  <2>5. Whole'
    BY <2>1, <2>2 DEF IInv, Whole, OnDisk, Writing
  <2> QED BY <2>3, <2>4, <2>5 DEF IInv
<1> QED BY <1>1, <1>2

LEMMA InvNext == IInv /\ [Next]_vars => IInv'
<1> SUFFICES ASSUME IInv, [Next]_vars PROVE IInv'
  OBVIOUS
<1>1. CASE UNCHANGED vars
  BY <1>1 DEF vars, files, IInv, Types, LogShape, OpShape, Progress, Whole, ALine,
              Busy, OnDisk, Writing, Readable, Oldest
<1>2. CASE Next
  BY <1>2, BeginInv, LogInv, OpenDataInv, WriteDataInv, OpenMetaInv, WriteMetaInv, UnlinkInv,
     TruncateInv, QuotaBegins, QuotaDataInv, QuotaMetaInv, QuotaSkipInv, QuotaEndInv, FaultInv, Zenon DEF Next
<1> QED BY <1>1, <1>2

-----------------------------------------------------------------------------
(* The theorems                                                             *)

\* The inductive invariant: types, the shape of the log, what the operation in
\* progress has done, and that every entry no write was cut off for is whole.
THEOREM DiskInvariant == Spec => []IInv
BY InvInit, InvNext, PTL DEF Spec

\* Type correctness: in particular the log has a bounded number of lines, and
\* only the last of them is ever torn.
THEOREM DiskTypes == Spec => []TypeOK
<1>1. IInv => TypeOK
  <2> SUFFICES ASSUME IInv PROVE TypeOK
    OBVIOUS
  <2>1. \A k \in Key : {data[k], meta[k]} \subseteq {NoFile, Torn} \cup 1..clock
    BY DEF IInv, Types
  <2>2. DOMAIN log = 1..Len(log) /\ \A i \in 1..Len(log) : log[i] \in {Torn, Garbled} \cup ALine
    BY LenProperties DEF IInv, LogShape
  <2> QED BY <2>1, <2>2 DEF IInv, Types, LogShape, TypeOK, ALine
<1> QED BY <1>1, DiskInvariant, PTL

\* load() answers with the version that its caller's checksum stands for, unless a
\* write of the key was cut off.
THEOREM DiskLoadsSound == Spec => []LoadsSound
<1>1. IInv => LoadsSound
  <2> SUFFICES ASSUME IInv, NEW k \in Key, NEW version \in 1..clock, ~Writing(k), k \notin broken
               PROVE  Load(k, version) = IF OnDisk(k) /\ version = latest[k] THEN version ELSE NoFile
    BY DEF LoadsSound
  <2>1. clock \in Nat /\ version \in Nat /\ latest[k] \in Nat /\ NoFile \notin Nat /\ Torn \notin Nat
    BY DiskAssumption DEF IInv, Types
  <2>2. CASE ~OnDisk(k)
    BY <2>2, Zenon DEF Load
  <2>3. CASE OnDisk(k)
    <3>1. data[k] = latest[k] /\ meta[k] = latest[k]
      BY <2>3 DEF IInv, Whole
    <3> QED BY <2>1, <2>3, <3>1 DEF Load
  <2> QED BY <2>2, <2>3
<1> QED BY <1>1, DiskInvariant, PTL

\* recover() names the key of every write in progress, so of every write that a
\* crash would cut off, unless its line was lost behind a torn one.
THEOREM DiskRecoverNames == Spec => []RecoverNamesWrites
<1>1. IInv => RecoverNamesWrites
  <2> SUFFICES ASSUME IInv, NEW k \in Key, Writing(k)
               PROVE  k \in Recovered \/ Garbled \in ToSet(log)
    BY DEF RecoverNamesWrites
  <2>1. Busy /\ op \in AWrite /\ op.key = k
    BY Where DEF IInv, Writing
  <2> QED BY <2>1 DEF IInv, Progress, Writing, Recovered
<1> QED BY <1>1, DiskInvariant, PTL

\* enforce_quota removes an entry only while the directory is too large, and after
\* every older one that it could read and remove; it ends below its target or with
\* none of these left, whatever fails and wherever.
THEOREM DiskQuotaSound == Spec => QuotaSound
<1> DEFINE Sound ==
        Busy /\ op.kind = "quota" =>
            /\ \A k \in Key : data'[k] # data[k] =>
                /\ Size > TargetFiles
                /\ \A j \in Key : OnDisk(j) /\ Readable(j) /\ meta[j] < meta[k] => j \in op.skipped
            /\ op' = NoOp /\ faults' = faults =>
                \/ Size <= TargetFiles
                \/ \A k \in Key : OnDisk(k) /\ Readable(k) => k \in op.skipped
<1>1. IInv /\ [Next]_vars => [Sound]_vars
  <2> SUFFICES ASSUME IInv, Next, Busy, op.kind = "quota" PROVE Sound
    BY DEF vars
  <2>1. op \in AQuota /\ op.at \in {"next", "quotaMeta"}
    BY Kinds DEF IInv, OpShape, AQuota
  <2>2. /\ \A k \in op.left : Readable(k)
        /\ \A k \in Key : OnDisk(k) /\ Readable(k) => k \in op.left \cup op.skipped
    BY <2>1 DEF IInv, Progress
  <2>3. CASE QuotaUnlinksData
    <3> DEFINE o == Oldest(op.left)
    <3>1. o \in op.left /\ \A j \in op.left : meta[o] <= meta[j]
      BY <2>1, <2>2, <2>3, OldestIs DEF QuotaUnlinksData, AQuota
    <3>2. data' = [data EXCEPT ![o] = NoFile] /\ Size > TargetFiles /\ op'.at = "quotaMeta"
      BY <2>1, <2>3 DEF QuotaUnlinksData, Goes, AQuota
    <3> HIDE DEF o
    <3>3. ASSUME NEW k \in Key, data'[k] # data[k]
          PROVE  k = o
      BY <3>2, <3>3 DEF IInv, Types
    <3>4. ASSUME NEW j \in Key, OnDisk(j), Readable(j), meta[j] < meta[o]
          PROVE  j \in op.skipped
      <4>1. meta[o] \in Nat /\ meta[j] \in Nat
        BY <2>2, <3>1, <3>4 DEF Readable
      <4>2. j \notin op.left
        BY <3>1, <3>4, <4>1
      <4> QED BY <2>2, <3>4, <4>2
    <3>5. op' # NoOp
      <4>1. op' \in AQuota
        BY <2>1, <2>3 DEF QuotaUnlinksData, Goes, AQuota
      <4> QED BY <4>1, DiskAssumption DEF AQuota
    <3> QED BY <3>2, <3>3, <3>4, <3>5
  <2>4. CASE QuotaUnlinksMeta \/ QuotaSkips
    <3>1. UNCHANGED data
      BY <2>4 DEF QuotaUnlinksMeta, QuotaSkips, files
    <3>2. ~(op' = NoOp /\ faults' = faults)
      <4>1. CASE QuotaUnlinksMeta
        <5>1. op' = [op EXCEPT !.at = "next", !.left = op.left \ {Oldest(op.left)}]
          BY <2>1, <4>1 DEF QuotaUnlinksMeta, AQuota
        <5>2. op' \in AQuota
          BY <2>1, <5>1 DEF AQuota
        <5> QED BY <5>2, DiskAssumption DEF AQuota
      <4>2. CASE QuotaSkips
        BY <4>2 DEF QuotaSkips, IInv, Types
      <4> QED BY <2>4, <4>1, <4>2
    <3> QED BY <3>1, <3>2
  <2>5. CASE QuotaEnds
    BY <2>1, <2>2, <2>5 DEF QuotaEnds, files
  <2>6. CASE Interrupted
    BY <2>6 DEF Interrupted, files, IInv, Types
  <2>7. ~(\/ \E k \in Key : BeginPersist(k) \/ BeginEvict(k)
          \/ BeginQuota \/ LogEntry \/ OpenData \/ WriteData \/ OpenMeta \/ WriteMeta
          \/ UnlinkData \/ UnlinkMeta \/ Truncate \/ LineTorn)
    BY <2>1 DEF BeginPersist, BeginEvict, BeginQuota, LogEntry, OpenData, WriteData, OpenMeta,
                WriteMeta, UnlinkData, UnlinkMeta, Truncate, LineTorn, At
  <2> HIDE DEF Sound
  <2> QED BY <2>3, <2>4, <2>5, <2>6, <2>7, Zenon DEF Next
<1> QED BY <1>1, DiskInvariant, PTL DEF Spec, QuotaSound
====

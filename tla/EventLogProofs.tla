--------------------------- MODULE EventLogProofs ---------------------------
(***************************************************************************)
(* The ring of EventLog implements RecentRecords, for every capacity of    *)
(* the log and of its snapshot.                                            *)
(***************************************************************************)
EXTENDS EventLog, TLAPS

N == EVENT_LOG_MAX_ENTRIES

\* The records of a ring, oldest first: log, for any ring.
ring(e, h, c) == [i \in 1..c |-> e[(h + N - 1 - (c - i)) % N]]

\* A ring in which nothing is read that was not written.
IsRing(e, h, c) ==
    /\ e \in [Slots -> event_record_t]
    /\ h \in Slots
    /\ c \in 0..N
    /\ c < N => h = c

-----------------------------------------------------------------------------
(* Slots *)

\* A number below the capacity is a slot, and one below twice the capacity is
\* the slot it exceeds the capacity by.
LEMMA Wrap ==
    ASSUME NEW x \in 0..(2 * N - 1)
    PROVE  x % N = IF x < N THEN x ELSE x - N
  <1>1. N \in Nat \ {0}
    BY EventLogAssumption DEF N
  <1>2. CASE x < N
    BY <1>1, <1>2, SMT
  <1>3. CASE ~(x < N)
    <2>1. PICK k : k = N
      OBVIOUS
    <2>2. x % k = x - k
      BY <1>1, <1>3, <2>1, SMT
    <2> QED
      BY <1>3, <2>1, <2>2
  <1> QED
    BY <1>2, <1>3

\* While a ring is not full its records lie from slot 0 on.
LEMMA RingFilling ==
    ASSUME NEW e, NEW h, NEW c, IsRing(e, h, c), c < N
    PROVE  ring(e, h, c) = [i \in 1..c |-> e[i - 1]]
  <1> SUFFICES ASSUME NEW i \in 1..c
               PROVE  (h + N - 1 - (c - i)) % N = i - 1
    BY DEF ring
  <1>1. N \in Nat \ {0} /\ c \in Nat /\ h = c
    BY EventLogAssumption DEF N, IsRing
  <1>2. h + N - 1 - (c - i) = N + (i - 1) /\ N + (i - 1) \in 0..(2 * N - 1)
    BY <1>1
  <1>3. (N + (i - 1)) % N = i - 1
    BY <1>1, <1>2, Wrap
  <1> QED
    BY <1>2, <1>3

\* In a full ring the oldest record is in the slot that is written next.
LEMMA RingFull ==
    ASSUME NEW e, NEW h, IsRing(e, h, N)
    PROVE  ring(e, h, N) = [i \in 1..N |-> e[IF h + i - 1 < N THEN h + i - 1 ELSE h + i - 1 - N]]
  <1> SUFFICES ASSUME NEW i \in 1..N
               PROVE  (h + N - 1 - (N - i)) % N = IF h + i - 1 < N THEN h + i - 1 ELSE h + i - 1 - N
    BY DEF ring
  <1>1. N \in Nat \ {0} /\ h \in 0..(N - 1)
    BY EventLogAssumption DEF N, IsRing, Slots
  <1>2. PICK x : x = h + i - 1
    OBVIOUS
  <1>3. h + N - 1 - (N - i) = x /\ x \in 0..(2 * N - 1)
    BY <1>1, <1>2
  <1>4. x % N = IF x < N THEN x ELSE x - N
    BY <1>3, Wrap
  <1> QED
    BY <1>1, <1>2, <1>3, <1>4

-----------------------------------------------------------------------------
(* Writing *)

\* evlog_write keeps a ring a ring.
LEMMA WrittenIsRing ==
    ASSUME NEW e, NEW h, NEW c, NEW rec \in event_record_t, IsRing(e, h, c)
    PROVE  IsRing([e EXCEPT ![h] = rec], next_slot(h), counted(c))
  <1>1. N \in Nat \ {0} /\ h \in 0..(N - 1) /\ h + 1 \in 0..(2 * N - 1)
    BY EventLogAssumption DEF N, IsRing, Slots
  <1>2. next_slot(h) = IF h + 1 < N THEN h + 1 ELSE h + 1 - N
    BY <1>1, Wrap DEF next_slot, N
  <1> QED
    BY <1>1, <1>2 DEF IsRing, Slots, counted, N

\* evlog_write appends to the records of the ring and keeps the newest.
LEMMA WrittenAppends ==
    ASSUME NEW e, NEW h, NEW c, NEW rec \in event_record_t, IsRing(e, h, c)
    PROVE  ring([e EXCEPT ![h] = rec], next_slot(h), counted(c))
             = Promise!newest(Append(ring(e, h, c), rec), N)
  <1> DEFINE f == [e EXCEPT ![h] = rec]
             g == next_slot(h)
             s == Append(ring(e, h, c), rec)
  <1>1. N \in Nat \ {0} /\ h \in 0..(N - 1) /\ c \in 0..N /\ h + 1 \in 0..(2 * N - 1)
    BY EventLogAssumption DEF N, IsRing, Slots
  <1>2. g = IF h + 1 < N THEN h + 1 ELSE h + 1 - N
    BY <1>1, Wrap DEF next_slot, N
  <1>3. IsRing(f, g, counted(c))
    BY WrittenIsRing
  <1>7. s = Append(ring(e, h, c), rec)
    OBVIOUS
  <1>4. /\ e \in [0..(N - 1) -> event_record_t]
        /\ \A j \in 0..(N - 1) : f[j] = IF j = h THEN rec ELSE e[j]
    BY DEF IsRing, Slots, N
  <1> HIDE DEF f, g, s
  <1>5. CASE c < N
    <2>1. h = c /\ counted(c) = c + 1
      BY <1>5 DEF IsRing, counted, N
    <2>2. ring(e, h, c) = [i \in 1..c |-> e[i - 1]]
      BY <1>5, RingFilling
    <2>3. ring(f, g, c + 1) = [i \in 1..(c + 1) |-> f[i - 1]]
      <3>1. CASE c + 1 < N
        <4>1. IsRing(f, g, c + 1)
          BY <1>3, <2>1
        <4> QED
          BY <1>1, <3>1, <4>1, RingFilling
      <3>2. CASE ~(c + 1 < N)
        <4>1. c + 1 = N /\ g = 0
          BY <1>1, <1>2, <1>5, <2>1, <3>2
        <4>2. ring(f, g, N) =
                [i \in 1..N |-> f[IF g + i - 1 < N THEN g + i - 1 ELSE g + i - 1 - N]]
          <5>1. IsRing(f, g, N)
            BY <1>3, <2>1, <4>1
          <5> QED
            BY <5>1, RingFull, Zenon
        <4> QED
          BY <1>1, <4>1, <4>2
      <3> QED
        BY <3>1, <3>2
    <2>4. ring(f, g, c + 1) = s
      <3>1. s = [i \in 1..(c + 1) |-> IF i = c + 1 THEN rec ELSE e[i - 1]]
        BY <1>1, <1>7, <2>2
      <3>2. \A i \in 1..(c + 1) : f[i - 1] = IF i = c + 1 THEN rec ELSE e[i - 1]
        BY <1>1, <1>4, <1>5, <2>1
      <3> QED
        BY <2>3, <3>1, <3>2
    <2>5. Len(s) = c + 1 /\ Len(s) <= N
      BY <1>7, <1>1, <1>5, <2>2
    <2> QED
      BY <2>1, <2>4, <2>5 DEF Promise!newest, f, g, s
  <1>6. CASE c = N
    <2>1. counted(c) = N
      BY <1>1, <1>6 DEF counted, N
    <2>2. ring(e, h, N) =
            [i \in 1..N |-> e[IF h + i - 1 < N THEN h + i - 1 ELSE h + i - 1 - N]]
      BY <1>6, RingFull
    <2>3. ring(f, g, N) =
            [i \in 1..N |-> f[IF g + i - 1 < N THEN g + i - 1 ELSE g + i - 1 - N]]
      <3>1. IsRing(f, g, N)
        BY <1>3, <2>1
      <3> QED
        BY <3>1, RingFull, Zenon
    <2>4. Len(s) = N + 1 /\ ~(Len(s) <= N)
      BY <1>7, <1>1, <1>6, <2>2
    <2>5. \A i \in 1..N : s[i + 1] = IF i < N THEN ring(e, h, N)[i + 1] ELSE rec
      BY <1>7, <1>1, <1>6, <2>2
    <2>6. \A i \in 1..N : ring(f, g, N)[i] = s[i + 1]
      <3> SUFFICES ASSUME NEW i \in 1..N
                   PROVE  ring(f, g, N)[i] = s[i + 1]
        OBVIOUS
      <3>1. CASE i = N
        <4>1. (IF g + i - 1 < N THEN g + i - 1 ELSE g + i - 1 - N) = h
          BY <1>1, <1>2, <3>1
        <4> QED
          BY <1>1, <1>4, <2>3, <2>5, <3>1, <4>1
      <3>2. CASE i < N
        <4> DEFINE k == IF h + i < N THEN h + i ELSE h + i - N
        <4>1. (IF g + i - 1 < N THEN g + i - 1 ELSE g + i - 1 - N) = k
          BY <1>1, <1>2, <3>2
        <4>2. k \in 0..(N - 1) /\ k # h
          BY <1>1, <3>2
        <4>3. ring(e, h, N)[i + 1] = e[k]
          BY <1>1, <2>2, <3>2
        <4>4. ring(f, g, N)[i] = f[k]
          BY <2>3, <4>1
        <4> QED
          BY <1>4, <2>5, <3>2, <4>2, <4>3, <4>4
      <3> QED
        BY <1>1, <3>1, <3>2
    <2>7. SubSeq(s, 2, N + 1) = [i \in 1..N |-> s[i + 1]]
      BY <1>7, <1>1, <1>6, <2>2
    <2>8. ring(f, g, N) = [i \in 1..N |-> ring(f, g, N)[i]]
      BY <2>3
    <2>9. ring(f, g, N) = SubSeq(s, 2, N + 1)
      BY <2>6, <2>7, <2>8
    <2>10. Len(s) - N + 1 = 2
      BY <1>1, <2>4
    <2>11. Promise!newest(s, N) = SubSeq(s, 2, N + 1)
      BY <2>4, <2>10 DEF Promise!newest
    <2>12. ring(f, g, counted(c)) = Promise!newest(s, N)
      BY <2>1, <2>9, <2>11
    <2> QED
      BY <2>12 DEF f, g, s
  <1> QED
    BY <1>1, <1>5, <1>6

-----------------------------------------------------------------------------
(* The specification *)

LEMMA RingOKIsRing == RingOK => IsRing(entries, head, count)
  BY DEF RingOK, TypeOK, IsRing, N

\* The restored log is a ring of the records of the snapshot.
LEMMA RestoredIsRing ==
    ASSUME RingOK
    PROVE  /\ IsRing(restored_entries, log_head % EVENT_LOG_MAX_ENTRIES, log_head)
           /\ ring(restored_entries, log_head % EVENT_LOG_MAX_ENTRIES, log_head)
                = [i \in 1..log_head |-> log_entries[i - 1]]
  <1> DEFINE h == log_head % EVENT_LOG_MAX_ENTRIES
  <1>1. /\ N \in Nat \ {0}
        /\ log_head \in 0..N /\ log_head \in 0..(2 * N - 1)
        /\ log_head <= NVM_LOG_SNAPSHOT_ENTRIES /\ NVM_LOG_SNAPSHOT_ENTRIES \in 1..N
    BY EventLogAssumption DEF RingOK, TypeOK, N
  <1>2. h = IF log_head < N THEN log_head ELSE log_head - N
    BY <1>1, Wrap DEF N
  <1>3. restored_entries \in [Slots -> event_record_t]
    BY <1>1 DEF RingOK, TypeOK, restored_entries, Slots, event_record_t, N
  <1>4. \A i \in 1..log_head : restored_entries[i - 1] = log_entries[i - 1]
    BY <1>1 DEF restored_entries, Slots, N
  <1> HIDE DEF h
  <1>5. IsRing(restored_entries, h, log_head)
    BY <1>1, <1>2, <1>3 DEF IsRing, Slots, N
  <1>6. ring(restored_entries, h, log_head) = [i \in 1..log_head |-> restored_entries[i - 1]]
    <2>1. CASE log_head < N
      BY <1>5, <2>1, RingFilling
    <2>2. CASE ~(log_head < N)
      <3>1. log_head = N /\ h = 0
        BY <1>1, <1>2, <2>2
      <3>2. ring(restored_entries, h, N) =
              [i \in 1..N |-> restored_entries[IF h + i - 1 < N THEN h + i - 1 ELSE h + i - 1 - N]]
        BY <1>5, <3>1, RingFull
      <3> QED
        BY <1>1, <3>1, <3>2
    <2> QED
      BY <2>1, <2>2
  <1>7. ring(restored_entries, h, log_head) = [i \in 1..log_head |-> log_entries[i - 1]]
    BY <1>4, <1>6
  <1> QED
    BY <1>5, <1>7 DEF h

LEMMA EmptyRing == ASSUME NEW e, NEW h PROVE ring(e, h, 0) = <<>>
  BY DEF ring

LEMMA LogIsRing ==
    /\ log = ring(entries, head, count)
    /\ log' = ring(entries', head', count')
  BY DEF log, ring, evlog_get_recent, recent_slot, N

\* evlog_get_recent reads a slot of the ring.
LEMMA RecentIsRecord ==
    ASSUME RingOK, NEW b \in 0..(count - 1)
    PROVE  evlog_get_recent(b) \in event_record_t
  <1>1. N \in Nat \ {0} /\ head \in 0..(N - 1) /\ count \in 0..N
    BY EventLogAssumption DEF RingOK, TypeOK, Slots, N
  <1>2. PICK x : x = head + N - 1 - b
    OBVIOUS
  <1>3. x \in 0..(2 * N - 1) /\ head + EVENT_LOG_MAX_ENTRIES - 1 - b = x
    BY <1>1, <1>2 DEF N
  <1>4. x % N = IF x < N THEN x ELSE x - N
    BY <1>3, Wrap
  <1>5. recent_slot(b) \in Slots
    BY <1>1, <1>3, <1>4 DEF recent_slot, Slots, N
  <1> QED
    BY <1>5 DEF evlog_get_recent, RingOK, TypeOK

LEMMA ZeroedRecords == \A n : zeroed(n) \in [0..(n - 1) -> event_record_t]
  BY DEF zeroed, event_record_t

LEMMA InitRingOK == Init => RingOK
  <1> SUFFICES ASSUME Init PROVE RingOK
    OBVIOUS
  <1>1. /\ entries \in [Slots -> event_record_t]
        /\ log_entries \in [0..(NVM_LOG_SNAPSHOT_ENTRIES - 1) -> event_record_t]
    BY ZeroedRecords DEF Init, Slots
  <1>2. head \in Slots /\ count \in 0..EVENT_LOG_MAX_ENTRIES /\ head = count
    BY EventLogAssumption DEF Init, Slots
  <1>3. log_head \in 0..NVM_LOG_SNAPSHOT_ENTRIES
    BY EventLogAssumption DEF Init
  <1>4. nvm_sim_valid \in BOOLEAN
    BY DEF Init
  <1> QED
    BY <1>1, <1>2, <1>3, <1>4 DEF RingOK, TypeOK

LEMMA IsRingRingOK ==
    ASSUME IsRing(entries, head, count)',
           nvm_sim_valid' \in BOOLEAN,
           log_entries' \in [0..(NVM_LOG_SNAPSHOT_ENTRIES - 1) -> event_record_t],
           log_head' \in 0..NVM_LOG_SNAPSHOT_ENTRIES
    PROVE  RingOK'
  BY DEF IsRing, RingOK, TypeOK, N

\* evlog_write as part of a step.
LEMMA WrittenStep ==
    ASSUME NEW e, NEW h, NEW c, NEW rec \in event_record_t, IsRing(e, h, c),
           written(e, h, c, rec)
    PROVE  /\ IsRing(entries, head, count)'
           /\ log' = Promise!newest(Append(ring(e, h, c), rec), N)
  <1>1. /\ IsRing([e EXCEPT ![h] = rec], next_slot(h), counted(c))
        /\ ring([e EXCEPT ![h] = rec], next_slot(h), counted(c))
             = Promise!newest(Append(ring(e, h, c), rec), N)
    BY WrittenIsRing, WrittenAppends
  <1>2. entries' = [e EXCEPT ![h] = rec] /\ head' = next_slot(h) /\ count' = counted(c)
    BY DEF written
  <1>3. IsRing(entries', head', count')
    BY <1>1, <1>2
  <1>4. ring(entries', head', count') = Promise!newest(Append(ring(e, h, c), rec), N)
    BY <1>1, <1>2
  <1> QED
    BY <1>3, <1>4, LogIsRing DEF IsRing

\* evlog_init as part of a step.
LEMMA EmptiedStep ==
    ASSUME evlog_init
    PROVE  IsRing(entries, head, count)' /\ log' = <<>>
  <1>1. entries' \in [Slots -> event_record_t]
    BY ZeroedRecords DEF evlog_init, Slots
  <1>2. 0 \in Slots /\ 0 \in 0..N
    BY EventLogAssumption DEF Slots, N
  <1> QED
    BY <1>1, <1>2, LogIsRing, EmptyRing DEF evlog_init, IsRing

\* What persist_state saves are the newest records of the log.
LEMMA SavedStep ==
    ASSUME RingOK, persist_state
    PROVE  /\ log_entries' \in [0..(NVM_LOG_SNAPSHOT_ENTRIES - 1) -> event_record_t]
           /\ log_head' \in 0..NVM_LOG_SNAPSHOT_ENTRIES
           /\ [i \in 1..log_head' |-> log_entries'[i - 1]]
                = Promise!newest(log, NVM_LOG_SNAPSHOT_ENTRIES)
  <1> DEFINE S == NVM_LOG_SNAPSHOT_ENTRIES
             m == saved_entries
  <1>1. S \in Nat \ {0} /\ count \in Nat
    BY EventLogAssumption DEF RingOK, TypeOK
  <1>2. m = IF count <= S THEN count ELSE S
    BY <1>1 DEF saved_entries
  <1>3. m \in 0..S /\ m \in 0..count
    BY <1>1, <1>2
  <1>4. /\ log_head' = m
        /\ log_entries' = [i \in 0..(S - 1) |-> IF i < m THEN evlog_get_recent(m - 1 - i)
                                                 ELSE ZEROED]
    BY DEF persist_state
  <1> HIDE DEF m
  <1>5. log_entries' \in [0..(S - 1) -> event_record_t]
    <2>1. \A i \in 0..(S - 1) : i < m => m - 1 - i \in 0..(count - 1)
      BY <1>1, <1>3
    <2>2. \A i \in 0..(S - 1) : i < m => evlog_get_recent(m - 1 - i) \in event_record_t
      BY <2>1, RecentIsRecord
    <2>3. ZEROED \in event_record_t
      BY DEF event_record_t
    <2> QED
      BY <1>4, <2>2, <2>3
  <1>6. \A i \in 1..m : log_entries'[i - 1] = evlog_get_recent(m - i)
    <2> SUFFICES ASSUME NEW i \in 1..m
                 PROVE  log_entries'[i - 1] = evlog_get_recent(m - i)
      OBVIOUS
    <2>1. i - 1 \in 0..(S - 1) /\ i - 1 < m /\ m - 1 - (i - 1) = m - i
      BY <1>1, <1>3
    <2> QED
      BY <1>4, <2>1
  <1>7. /\ Len(log) = count
        /\ \A i \in 1..count : log[i] = evlog_get_recent(count - i)
        /\ log = [i \in 1..count |-> log[i]]
    BY <1>1 DEF log
  <1>8. Promise!newest(log, S) = [i \in 1..m |-> evlog_get_recent(m - i)]
    <2>1. CASE count <= S
      <3>1. m = count
        BY <1>2, <2>1
      <3>2. Promise!newest(log, S) = log
        BY <1>7, <2>1 DEF Promise!newest
      <3> QED
        BY <1>7, <3>1, <3>2 DEF log
    <2>2. CASE ~(count <= S)
      <3>1. m = S
        BY <1>2, <2>2
      <3>2. Promise!newest(log, S) = SubSeq(log, count - S + 1, count)
        BY <1>7, <2>2 DEF Promise!newest
      <3>3. SubSeq(log, count - S + 1, count) = [i \in 1..S |-> log[count - S + i]]
        BY <1>1, <1>7, <2>2
      <3>4. \A i \in 1..S : log[count - S + i] = evlog_get_recent(S - i)
        <4> SUFFICES ASSUME NEW i \in 1..S
                     PROVE  log[count - S + i] = evlog_get_recent(S - i)
          OBVIOUS
        <4>1. count - S + i \in 1..count /\ count - (count - S + i) = S - i
          BY <1>1, <2>2
        <4> QED
          BY <1>7, <4>1
      <3> QED
        BY <3>1, <3>2, <3>3, <3>4
    <2> QED
      BY <2>1, <2>2
  <1>9. [i \in 1..log_head' |-> log_entries'[i - 1]] = [i \in 1..m |-> evlog_get_recent(m - i)]
    BY <1>4, <1>6
  <1> QED
    BY <1>3, <1>4, <1>5, <1>8, <1>9

\* Every step keeps the ring and is a step of RecentRecords.
LEMMA NextKeepsAndImplements ==
    ASSUME RingOK, [Next]_vars
    PROVE  RingOK' /\ [Promise!Next]_Promise!vars
  <1> USE DEF Promise!vars
  <1> DEFINE saved == [i \in 1..log_head |-> log_entries[i - 1]]
  <1>1. IsRing(entries, head, count) /\ log = ring(entries, head, count)
    BY RingOKIsRing, LogIsRing
  <1>2. /\ nvm_sim_valid \in BOOLEAN
        /\ log_entries \in [0..(NVM_LOG_SNAPSHOT_ENTRIES - 1) -> event_record_t]
        /\ log_head \in 0..NVM_LOG_SNAPSHOT_ENTRIES
    BY DEF RingOK, TypeOK
  <1>3. CASE Record
    <2>1. PICK r \in Events : written(entries, head, count, r) /\ UNCHANGED nvm_vars
      BY <1>3 DEF Record
    <2>2. r \in event_record_t
      BY DEF event_record_t
    <2>3. /\ IsRing(entries, head, count)'
          /\ log' = Promise!newest(Append(log, r), N)
      BY <1>1, <2>1, <2>2, WrittenStep
    <2>4. UNCHANGED <<nvm_sim_valid, log_entries, log_head>>
      BY <2>1 DEF nvm_vars
    <2>5. RingOK'
      BY <1>2, <2>3, <2>4, IsRingRingOK
    <2>6. Promise!Log(r)
      BY <2>3, <2>4 DEF Promise!Log, N
    <2> QED
      BY <2>5, <2>6 DEF Promise!Next
  <1>4. CASE persist_state
    <2>1. written(entries, head, count, EVT_NVM_WRITE) /\ nvm_sim_valid' = TRUE
      BY <1>4 DEF persist_state
    <2>2. EVT_NVM_WRITE \in event_record_t
      BY DEF event_record_t
    <2>3. /\ IsRing(entries, head, count)'
          /\ log' = Promise!newest(Append(log, EVT_NVM_WRITE), N)
      BY <1>1, <2>1, <2>2, WrittenStep
    <2>4. RingOK'
      BY <1>4, <2>1, <2>3, SavedStep, IsRingRingOK
    <2>5. saved' = Promise!newest(log, NVM_LOG_SNAPSHOT_ENTRIES)
      BY <1>4, SavedStep
    <2>6. Promise!Save
      BY <2>1, <2>3, <2>5 DEF Promise!Save, N
    <2> QED
      BY <2>4, <2>6 DEF Promise!Next
  <1>5. CASE PowerCycle
    <2>1. UNCHANGED <<nvm_sim_valid, log_entries, log_head>>
      BY <1>5 DEF PowerCycle, nvm_vars
    <2>2. CASE nvm_sim_valid
      <3>1. written(restored_entries, log_head % EVENT_LOG_MAX_ENTRIES, log_head, EVT_NVM_RESTORE)
        BY <1>5, <2>2 DEF PowerCycle
      <3>2. EVT_NVM_RESTORE \in event_record_t
        BY DEF event_record_t
      <3>3. /\ IsRing(entries, head, count)'
            /\ log' = Promise!newest(Append(saved, EVT_NVM_RESTORE), N)
        BY <3>1, <3>2, RestoredIsRing, WrittenStep
      <3> QED
        BY <1>2, <2>1, <2>2, <3>3, IsRingRingOK DEF Promise!Next, Promise!Restart, N
    <2>3. CASE ~nvm_sim_valid
      <3>1. evlog_init
        BY <1>5, <2>3 DEF PowerCycle
      <3>2. IsRing(entries, head, count)' /\ log' = <<>>
        BY <3>1, EmptiedStep
      <3> QED
        BY <1>2, <2>1, <2>3, <3>2, IsRingRingOK DEF Promise!Next, Promise!Restart
    <2> QED
      BY <1>2, <2>2, <2>3
  <1>6. CASE FactoryReset
    <2>1. IsRing(entries, head, count)' /\ log' = <<>>
      BY <1>6, EmptiedStep DEF FactoryReset
    <2>2. /\ nvm_sim_valid' = FALSE
          /\ log_entries' = zeroed(NVM_LOG_SNAPSHOT_ENTRIES)
          /\ log_head' = 0
      BY <1>6 DEF FactoryReset
    <2>3. log_head' \in 0..NVM_LOG_SNAPSHOT_ENTRIES
      BY <2>2, EventLogAssumption
    <2>4. RingOK'
      BY <2>1, <2>2, <2>3, ZeroedRecords, IsRingRingOK
    <2>5. saved' = <<>>
      BY <2>2
    <2> QED
      BY <2>1, <2>2, <2>4, <2>5 DEF Promise!Next, Promise!Forget
  <1>7. CASE UNCHANGED vars
    <2>1. log' = log /\ saved' = saved
      BY <1>7 DEF vars, log, evlog_get_recent, recent_slot
    <2> QED
      BY <1>7, <2>1 DEF vars, RingOK, TypeOK
  <1> QED
    BY <1>3, <1>4, <1>5, <1>6, <1>7 DEF Next

LEMMA InitImplements == Init => Promise!Init
  BY LogIsRing, EmptyRing DEF Init, Promise!Init

\* The ring and the snapshot stay well formed (event_log.c, persist_state and
\* the restore of reb_fsm_init).
THEOREM RingCorrect == Spec => []RingOK
  <1>1. RingOK /\ [Next]_vars => RingOK'
    BY NextKeepsAndImplements
  <1> QED
    BY <1>1, InitRingOK, PTL DEF Spec

\* The log shows the newest records in order whatever is written, saved and
\* restarted.
THEOREM LogKeepsRecentRecords == Spec => KeepsRecentRecords
  <1>1. RingOK /\ [Next]_vars => [Promise!Next]_Promise!vars
    BY NextKeepsAndImplements
  <1> QED
    BY <1>1, InitImplements, RingCorrect, PTL DEF Spec, KeepsRecentRecords, Promise!Spec

\* As long as slot order is age order the bridge returns the most recent records
\* (reb_bridge_get_logs), for every capacity and number of records asked for.
THEOREM BridgeInOrder == Spec => []BridgeShowsRecent
  <1>1. RingOK => BridgeShowsRecent
    <2> SUFFICES ASSUME RingOK, count < N \/ head = 0, NEW n \in 1..count
                 PROVE  reb_bridge_get_logs(n) = Promise!newest(log, n)
      BY DEF BridgeShowsRecent, N
    <2>1. N \in Nat \ {0} /\ count \in 0..N /\ IsRing(entries, head, count)
      BY EventLogAssumption, RingOKIsRing DEF N, IsRing
    <2>2. log = ring(entries, head, count)
      BY LogIsRing
    <2>3. log = [i \in 1..count |-> entries[i - 1]]
      <3>1. CASE count < N
        BY <2>1, <2>2, <3>1, RingFilling
      <3>2. CASE ~(count < N)
        <4>1. count = N /\ head = 0
          BY <2>1, <3>2
        <4>2. ring(entries, head, N) =
                [i \in 1..N |-> entries[IF head + i - 1 < N THEN head + i - 1
                                                          ELSE head + i - 1 - N]]
          BY <2>1, <4>1, RingFull
        <4> QED
          BY <2>1, <2>2, <4>1, <4>2
      <3> QED
        BY <3>1, <3>2
    <2>4. reb_bridge_get_logs(n) = [i \in 1..n |-> entries[count - n + i - 1]]
      <3> SUFFICES ASSUME NEW i \in 1..n
                   PROVE  (count - n + i - 1) % N = count - n + i - 1
        BY DEF reb_bridge_get_logs, evlog_get, N
      <3>1. count - n + i - 1 \in 0..(2 * N - 1) /\ count - n + i - 1 < N
        BY <2>1
      <3> QED
        BY <3>1, Wrap
    <2>5. Len(log) = count /\ log \in Seq(event_record_t)
      <3>1. \A i \in 1..count : entries[i - 1] \in event_record_t
        BY <2>1 DEF IsRing, Slots, N
      <3> QED
        BY <2>1, <2>3, <3>1
    <2>6. CASE Len(log) <= n
      BY <2>1, <2>3, <2>4, <2>5, <2>6 DEF Promise!newest
    <2>7. CASE ~(Len(log) <= n)
      <3>1. SubSeq(log, count - n + 1, count) = [i \in 1..n |-> log[count - n + i]]
        BY <2>1, <2>5, <2>7
      <3>2. \A i \in 1..n : log[count - n + i] = entries[count - n + i - 1]
        BY <2>1, <2>3
      <3> QED
        BY <2>4, <2>5, <2>7, <3>1, <3>2 DEF Promise!newest
    <2> QED
      BY <2>6, <2>7
  <1> QED
    BY <1>1, RingCorrect, PTL
=============================================================================

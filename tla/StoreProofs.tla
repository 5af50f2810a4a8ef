---------------------------- MODULE StoreProofs ----------------------------
(***************************************************************************)
(* Lemmas about the operators of Store: what each leaves of a well-formed  *)
(* store.                                                                  *)
(***************************************************************************)
EXTENDS Commands, FoldLemmas

\* No entry is stamped with the epoch of a snapshot still to come.
Dated(s) == \A k \in Keys : s.data[k].copied <= s.epoch

\* The indexes hold exactly the keys they should.
Indexed(s) ==
  /\ Dated(s)
  /\ \A k \in Keys : Present(s, k) \/ s.data[k] = Absent
  /\ s.tracked = KeysOf(s)
  /\ s.volatile = {k \in Keys : Present(s, k) /\ s.data[k].expires_at # NoTTL}

\* Outside K, which the running handler may be changing in place, entries are
\* accounted at their size and no collection is empty.
Sized(s, K) ==
  \A k \in Keys \ K : Present(s, k) =>
    /\ s.data[k].size = EntrySize(s.data[k].n)
    /\ s.data[k].kind = "list" => s.data[k].n > 0

\* The barrier has been passed for K: no key of it is still to be copied.
Guarded(s, K) == s.job # "none" => Uncopied(s, K) = {}

\* The running handler began with the job x.job on the keyspace x.start: the copy
\* is in progress, or has been completed with what was due.
Copying(s, x) ==
  /\ s.job \in {x.job, "none"}
  /\ s.job # "none" => CopyInProgress(s, x.start)
  /\ s.job = "none" /\ x.job # "none" =>
       \A k \in Keys : s.records[k] = Due(x.start, x.started_at, k)

\* What holds between any two calls of a handler that began in context x and that
\* has passed the barrier for K.
Good(s, x, K) ==
  /\ StoreType(s) /\ Indexed(s) /\ Sized(s, K) /\ Guarded(s, K) /\ Copying(s, x)
  /\ s.started_at = x.started_at /\ s.loading = x.loading /\ ~s.failed

-----------------------------------------------------------------------------
(* Sums of sizes.                                                           *)

\* The memory counted for a set of keys is an integer.
LEMMA SumSizesType ==
  ASSUME NEW s, s.data \in [Keys -> Slot], NEW K \in SUBSET Keys
  PROVE  SumSizes(s, K) \in Int
<1> DEFINE f == [k \in K |-> s.data[k].size]
<1>1. IsFiniteSet(K)
  BY KeysAssumption, FS_Subset
<1>2. f \in [K -> Int]
  BY DEF Slot
<1>3. MapThenSumSet(LAMBDA k : f[k], K) \in Int
  BY <1>1, <1>2, SumIsInteger
<1>4. MapThenSumSet(LAMBDA k : f[k], K) = SumSizes(s, K)
  BY DEF SumSizes, MapThenSumSet, MapThenFoldSet
<1> QED BY <1>3, <1>4

-----------------------------------------------------------------------------
(* The copy-on-write barrier.                                               *)

\* Fields that only the snapshot's own operations and the handlers' logging change.
SameFrame(r, s) ==
  /\ r.epoch = s.epoch /\ r.started_at = s.started_at
  /\ r.loading = s.loading /\ r.failed = s.failed

\* No entry is stamped with an epoch that has not begun: preserved when only entries
\* that were stamped before remain (Store._epoch, Entry.copied).
LEMMA StampsStay ==
  ASSUME NEW s, StoreType(s), Dated(s), NEW r, r.epoch = s.epoch,
         \A k \in Keys : r.data[k].copied \in {s.data[k].copied, s.epoch, 0}
  PROVE  Dated(r)
<1> SUFFICES ASSUME NEW k \in Keys PROVE r.data[k].copied <= r.epoch
  BY DEF Dated
<1>1. s.data[k] \in Slot /\ s.epoch \in Nat
  BY DEF StoreType, Stores
<1>2. s.data[k].copied \in Nat /\ s.data[k].copied <= s.epoch
  BY <1>1 DEF Slot, Dated
<1> QED BY <1>1, <1>2

\* What SnapshotJob.take changes: stamps and records, nothing else.
LEMMA TakeFields ==
  ASSUME NEW s, StoreType(s), NEW K \in SUBSET KeysOf(s)
  PROVE  LET r == Take(s, K) IN
         /\ StoreType(r) /\ SameFrame(r, s)
         /\ \A k \in Keys :
              /\ r.data[k] = IF k \in K THEN Stamped(s.data[k], s.epoch) ELSE s.data[k]
              /\ r.records[k] = IF k \in K /\ ~IsExpired(s.data[k], s.started_at)
                   THEN Append(s.records[k], RecordOf(s.data[k])) ELSE s.records[k]
         /\ r.volatile = s.volatile /\ r.tracked = s.tracked /\ r.used = s.used
         /\ r.job = s.job /\ r.pending = s.pending /\ r.out = s.out
<1> DEFINE r == Take(s, K)
           d == [k \in Keys |->
              IF k \in K THEN Stamped(s.data[k], s.epoch) ELSE s.data[k]]
           rec == [k \in Keys |->
              IF k \in K /\ ~IsExpired(s.data[k], s.started_at)
                THEN Append(s.records[k], RecordOf(s.data[k])) ELSE s.records[k]]
<1>1. d \in [Keys -> Slot]
  <2>1. s.epoch \in Nat /\ \A k \in Keys : s.data[k] \in Slot
    BY DEF StoreType, Stores
  <2>2. \A k \in Keys : Stamped(s.data[k], s.epoch) \in Slot
    BY <2>1 DEF Slot, Stamped
  <2> QED BY <2>1, <2>2
<1>2. rec \in [Keys -> Seq(Record)]
  <2> SUFFICES ASSUME NEW k \in Keys PROVE rec[k] \in Seq(Record)
    OBVIOUS
  <2>1. s.records[k] \in Seq(Record)
    BY DEF StoreType, Stores
  <2>2. k \in K => RecordOf(s.data[k]) \in Record
    BY DEF StoreType, Stores, Slot, Record, RecordOf, KeysOf, Present
  <2> QED BY <2>1, <2>2
<1>3. r = [s EXCEPT !.data = d, !.records = rec]
  BY DEF Take
<1> HIDE DEF d, rec, r
<1>4. r.data = d /\ r.records = rec /\ SameFrame(r, s)
  BY <1>3 DEF StoreType, Stores, SameFrame
<1>5. StoreType(r)
  BY <1>1, <1>2, <1>3 DEF StoreType, Stores
<1>6. /\ r.volatile = s.volatile /\ r.tracked = s.tracked /\ r.used = s.used
      /\ r.job = s.job /\ r.pending = s.pending /\ r.out = s.out
  BY <1>3 DEF StoreType, Stores
<1> QED BY <1>4, <1>5, <1>6 DEF d, rec, r

\* A key, once taken, is recorded as it was when the job began.
LEMMA TakeCopies ==
  ASSUME NEW s, StoreType(s), NEW d \in [Keys -> Slot], CopyInProgress(s, d),
         NEW K \in SUBSET Uncopied(s, Keys)
  PROVE  LET r == Take(s, K) IN
         /\ CopyInProgress(r, d)
         /\ Uncopied(r, Keys) = Uncopied(s, Keys) \ K
<1> DEFINE r == Take(s, K)
<1>1. K \in SUBSET KeysOf(s)
  BY DEF Uncopied, KeysOf
<1>2. /\ StoreType(r) /\ SameFrame(r, s) /\ r.pending = s.pending
      /\ \A k \in Keys :
           /\ r.data[k] = IF k \in K THEN Stamped(s.data[k], s.epoch) ELSE s.data[k]
           /\ r.records[k] = IF k \in K /\ ~IsExpired(s.data[k], s.started_at)
                THEN Append(s.records[k], RecordOf(s.data[k])) ELSE s.records[k]
  BY <1>1, TakeFields
<1> HIDE DEF r
<1>3. ASSUME NEW k \in Keys
      PROVE  /\ r.data[k].kind = s.data[k].kind
             /\ RecordOf(r.data[k]) = RecordOf(s.data[k])
             /\ r.data[k].copied = IF k \in K THEN s.epoch ELSE s.data[k].copied
  <2>1. /\ s.data[k] \in Slot
        /\ r.data[k] = IF k \in K THEN Stamped(s.data[k], s.epoch) ELSE s.data[k]
    BY <1>2 DEF StoreType, Stores
  <2> QED BY <2>1 DEF Slot, RecordOf, Stamped
<1>4. Uncopied(r, Keys) = Uncopied(s, Keys) \ K
  BY <1>2, <1>3 DEF Uncopied, Present, SameFrame
<1>5. ASSUME NEW k \in Keys, k \in K
      PROVE  r.records[k] = Due(d, r.started_at, k)
  <2>1. /\ d[k].kind # "none" /\ RecordOf(s.data[k]) = RecordOf(d[k])
        /\ s.records[k] = <<>>
    BY <1>5 DEF CopyInProgress
  <2>2. IsExpired(s.data[k], s.started_at) = IsExpired(d[k], s.started_at)
    BY <2>1 DEF IsExpired, RecordOf
  <2>3. Append(s.records[k], RecordOf(s.data[k])) = <<RecordOf(d[k])>>
    BY <2>1
  <2> QED BY <1>2, <1>5, <2>1, <2>2, <2>3 DEF Due, SameFrame
<1>6. ASSUME NEW k \in Keys, k \notin K
      PROVE  r.records[k] = s.records[k]
  BY <1>2, <1>6
<1>7. CopyInProgress(r, d)
  BY <1>2, <1>3, <1>4, <1>5, <1>6 DEF CopyInProgress, SameFrame
<1> QED BY <1>4, <1>7 DEF r

\* snapshot_barrier keeps the store good, and every key it covers may be changed
\* afterwards.
LEMMA BarrierGood ==
  ASSUME NEW s, NEW x, x.start \in [Keys -> Slot], NEW J \in SUBSET Keys,
         NEW K \in SUBSET Keys, Good(s, x, J)
  PROVE  LET r == SnapshotBarrier(s, K) IN
         /\ Good(r, x, J) /\ Guarded(r, K) /\ SameFrame(r, s)
         /\ r.job = s.job /\ r.pending = s.pending /\ r.out = s.out /\ r.used = s.used
         /\ r.volatile = s.volatile /\ r.tracked = s.tracked /\ KeysOf(r) = KeysOf(s)
         /\ \A k \in Keys : RecordOf(r.data[k]) = RecordOf(s.data[k])
<1> DEFINE r == SnapshotBarrier(s, K)
<1>1. CASE s.job = "none"
  <2>1. r = s
    BY <1>1 DEF SnapshotBarrier
  <2> QED BY <1>1, <2>1 DEF Good, SameFrame, Guarded
<1>2. CASE s.job # "none"
  <2> DEFINE U == Uncopied(s, K)
  <2>1. r = Take(s, U) /\ StoreType(s) /\ CopyInProgress(s, x.start)
    BY <1>2 DEF SnapshotBarrier, Good, Copying
  <2>2. U \in SUBSET KeysOf(s) /\ U \in SUBSET Uncopied(s, Keys)
    BY DEF Uncopied, KeysOf
  <2> HIDE DEF r, U
  <2>3. /\ StoreType(r) /\ SameFrame(r, s)
        /\ \A k \in Keys :
             r.data[k] = IF k \in U THEN Stamped(s.data[k], s.epoch) ELSE s.data[k]
        /\ r.volatile = s.volatile /\ r.tracked = s.tracked /\ r.used = s.used
        /\ r.job = s.job /\ r.pending = s.pending /\ r.out = s.out
    BY <2>1, <2>2, TakeFields
  <2>4. CopyInProgress(r, x.start) /\ Uncopied(r, Keys) = Uncopied(s, Keys) \ U
    BY <2>1, <2>2, TakeCopies
  <2>5. ASSUME NEW k \in Keys
        PROVE  /\ r.data[k].kind = s.data[k].kind /\ r.data[k].n = s.data[k].n
               /\ r.data[k].size = s.data[k].size
               /\ r.data[k].expires_at = s.data[k].expires_at
               /\ k \notin U => r.data[k] = s.data[k]
    <3>1. /\ s.data[k] \in Slot
          /\ r.data[k] = IF k \in U THEN Stamped(s.data[k], s.epoch) ELSE s.data[k]
      BY <2>1, <2>3 DEF StoreType, Stores
    <3> QED BY <3>1 DEF Slot, Stamped
  <2>6. KeysOf(r) = KeysOf(s) /\ \A k \in Keys : RecordOf(r.data[k]) = RecordOf(s.data[k])
    BY <2>5 DEF KeysOf, Present, RecordOf
  <2>7. Indexed(r)
    <3>1. \A k \in Keys : Present(r, k) \/ r.data[k] = Absent
      BY <2>2, <2>5 DEF Good, Indexed, Present, KeysOf
    <3>2. r.tracked = KeysOf(r)
      BY <2>3, <2>6 DEF Good, Indexed
    <3>3. r.volatile = {k \in Keys : Present(r, k) /\ r.data[k].expires_at # NoTTL}
      BY <2>3, <2>5 DEF Good, Indexed, Present
    <3>4. Dated(r)
      <4>1. \A k \in Keys : r.data[k].copied \in {s.data[k].copied, s.epoch, 0}
        <5> TAKE k \in Keys
        <5>1. /\ s.data[k] \in Slot
              /\ r.data[k] = IF k \in U THEN Stamped(s.data[k], s.epoch) ELSE s.data[k]
          BY <2>1, <2>3 DEF StoreType, Stores
        <5> QED BY <5>1 DEF Slot, Stamped
      <4> QED BY <2>1, <2>3, <4>1, StampsStay DEF Good, Indexed, SameFrame
    <3> QED BY <3>1, <3>2, <3>3, <3>4 DEF Indexed
  <2>8. Sized(r, J)
    BY <2>5 DEF Good, Sized, Present
  <2>9. Guarded(r, J) /\ Guarded(r, K)
    <3>1. Uncopied(s, J) = {}
      BY <1>2 DEF Good, Guarded
    <3>2. \A M \in SUBSET Keys : Uncopied(r, M) = Uncopied(r, Keys) \cap M
                               /\ Uncopied(s, M) = Uncopied(s, Keys) \cap M
      BY DEF Uncopied
    <3> QED BY <2>4, <3>1, <3>2 DEF Guarded, U
  <2>10. Copying(r, x)
    BY <1>2, <2>3, <2>4 DEF Good, Copying
  <2> QED BY <2>3, <2>6, <2>7, <2>8, <2>9, <2>10 DEF Good, SameFrame, r
<1> QED BY <1>1, <1>2

\* After the barrier for K, the handler may change the keys of K.
LEMMA BarrierOpens ==
  ASSUME NEW s, NEW x, x.start \in [Keys -> Slot], NEW K \in SUBSET Keys, Good(s, x, {})
  PROVE  Good(SnapshotBarrier(s, K), x, K)
<1> DEFINE r == SnapshotBarrier(s, K)
<1>1. Good(r, x, {}) /\ Guarded(r, K)
  BY BarrierGood
<1> HIDE DEF r
<1>2. Good(r, x, K)
  BY <1>1 DEF Good, Sized
<1> QED BY <1>2 DEF r

\* _remove keeps the store good: the entry, both indexes and the memory go together.
LEMMA RemoveGood ==
  ASSUME NEW s, NEW x, x.start \in [Keys -> Slot], NEW J \in SUBSET Keys,
         NEW K \in SUBSET Keys, Good(s, x, J)
  PROVE  LET r == RemoveKeys(s, K) IN
         /\ Good(r, x, J) /\ SameFrame(r, s)
         /\ r.job = s.job /\ r.out = s.out
         /\ \A k \in Keys : RecordOf(r.data[k]) =
              RecordOf(IF k \in K THEN Absent ELSE s.data[k])
<1> DEFINE r == RemoveKeys(s, K)
           b == SnapshotBarrier(s, K)
<1>1. /\ Good(b, x, J) /\ Guarded(b, K) /\ SameFrame(b, s) /\ b.job = s.job
      /\ b.out = s.out /\ \A k \in Keys : RecordOf(b.data[k]) = RecordOf(s.data[k])
  BY BarrierGood
<1>2. r = [b EXCEPT !.data = [k \in Keys |-> IF k \in K THEN Absent ELSE b.data[k]],
                    !.used = b.used - SumSizes(b, K),
                    !.volatile = b.volatile \ K,
                    !.tracked = b.tracked \ K]
  BY DEF RemoveKeys, Dropped
<1> HIDE DEF b, r
<1>3. StoreType(b)
  BY <1>1 DEF Good
<1>4. SumSizes(b, K) \in Int
  BY <1>3, SumSizesType DEF StoreType, Stores
<1>5. Absent \in Slot
  BY DEF Absent, Slot, NoTTL
<1>6. StoreType(r)
  <2>1. [k \in Keys |-> IF k \in K THEN Absent ELSE b.data[k]] \in [Keys -> Slot]
    BY <1>3, <1>5 DEF StoreType, Stores
  <2>2. b.used - SumSizes(b, K) \in Int /\ b.volatile \ K \in SUBSET Keys
        /\ b.tracked \ K \in SUBSET Keys
    BY <1>3, <1>4 DEF StoreType, Stores
  <2> QED BY <1>2, <1>3, <2>1, <2>2 DEF StoreType, Stores
<1>7. /\ r.data = [k \in Keys |-> IF k \in K THEN Absent ELSE b.data[k]]
      /\ r.volatile = b.volatile \ K /\ r.tracked = b.tracked \ K
      /\ r.job = b.job /\ r.pending = b.pending /\ r.records = b.records
      /\ r.out = b.out /\ SameFrame(r, b)
  BY <1>2, <1>3 DEF StoreType, Stores, SameFrame
<1>8. Absent.kind = "none"
  BY DEF Absent
<1>9. \A k \in Keys : Present(r, k) <=> Present(b, k) /\ k \notin K
  BY <1>7, <1>8 DEF Present
<1>10. Indexed(r)
  <2>1. \A k \in Keys : r.data[k].copied \in {b.data[k].copied, b.epoch, 0}
    BY <1>7 DEF Absent
  <2>2. Dated(r)
    BY <1>1, <1>3, <1>7, <2>1, StampsStay DEF Good, Indexed, SameFrame
  <2> QED BY <1>1, <1>7, <1>9, <2>2 DEF Good, Indexed, KeysOf
<1>11. Sized(r, J)
  BY <1>1, <1>7, <1>9 DEF Good, Sized
<1>12. Uncopied(r, Keys) = Uncopied(b, Keys) \ K
  BY <1>7, <1>9 DEF Uncopied, SameFrame
<1>13. Guarded(r, J)
  BY <1>1, <1>7, <1>9 DEF Good, Guarded, Uncopied, SameFrame
<1>14. Copying(r, x)
  <2>1. CASE b.job = "none"
    BY <1>1, <1>7, <2>1 DEF Good, Copying
  <2>2. CASE b.job # "none"
    <3>1. CopyInProgress(b, x.start) /\ Uncopied(b, K) = {} /\ b.job = x.job
      BY <1>1, <2>2 DEF Good, Copying, Guarded
    <3>2. Uncopied(r, Keys) = Uncopied(b, Keys)
      BY <1>12, <3>1 DEF Uncopied
    <3>3. \A k \in Uncopied(r, Keys) : r.data[k] = b.data[k]
      BY <1>7, <1>12 DEF Uncopied
    <3>4. CopyInProgress(r, x.start)
      BY <1>7, <3>1, <3>2, <3>3 DEF CopyInProgress, SameFrame
    <3> QED BY <1>7, <2>2, <3>1, <3>4 DEF Copying
  <2> QED BY <2>1, <2>2
<1>15. Good(r, x, J)
  BY <1>1, <1>6, <1>7, <1>10, <1>11, <1>13, <1>14 DEF Good, SameFrame
<1>16. \A k \in Keys : RecordOf(r.data[k]) = RecordOf(IF k \in K THEN Absent ELSE s.data[k])
  BY <1>1, <1>7
<1> QED BY <1>1, <1>7, <1>15, <1>16 DEF r, SameFrame

-----------------------------------------------------------------------------
(* The store's methods.                                                     *)

\* Engine.propagate touches the effects only.
LEMMA PropagateGood ==
  ASSUME NEW s, NEW x, NEW J \in SUBSET Keys, NEW c \in Command, Good(s, x, J)
  PROVE  LET r == Propagate(s, c) IN
         /\ Good(r, x, J) /\ SameFrame(r, s) /\ r.data = s.data /\ r.job = s.job
         /\ KeysOf(r) = KeysOf(s)
<1> DEFINE r == Propagate(s, c)
<1>1. CASE s.loading
  <2>1. r = s
    BY <1>1 DEF Propagate
  <2> QED BY <2>1 DEF SameFrame
<1>2. CASE ~s.loading
  <2>1. r = [s EXCEPT !.out = Append(s.out, c)]
    BY <1>2 DEF Propagate
  <2>2. StoreType(s) /\ Append(s.out, c) \in Seq(Command)
    BY DEF Good, StoreType, Stores
  <2> HIDE DEF r
  <2>3. StoreType(r)
    BY <2>1, <2>2 DEF StoreType, Stores
  <2>4. /\ r.data = s.data /\ r.volatile = s.volatile /\ r.tracked = s.tracked
        /\ r.job = s.job /\ r.pending = s.pending /\ r.records = s.records
        /\ SameFrame(r, s)
    BY <2>1, <2>2 DEF StoreType, Stores, SameFrame
  <2>5. \A k \in Keys : Present(r, k) <=> Present(s, k)
    BY <2>4 DEF Present
  <2>6. \A M \in SUBSET Keys : Uncopied(r, M) = Uncopied(s, M)
    BY <2>4, <2>5 DEF Uncopied, SameFrame
  <2>7. KeysOf(r) = KeysOf(s)
    BY <2>5 DEF KeysOf
  <2>8. Indexed(r) /\ Sized(r, J)
    <3>1. Dated(r)
      BY <2>2, <2>4, StampsStay DEF Good, Indexed, SameFrame
    <3> QED BY <2>4, <2>5, <2>7, <3>1 DEF Good, Indexed, Sized
  <2>9. Guarded(r, J)
    BY <2>4, <2>6 DEF Good, Guarded
  <2>10. Copying(r, x)
    BY <2>4, <2>6 DEF Good, Copying, CopyInProgress, SameFrame
  <2> QED BY <2>3, <2>4, <2>7, <2>8, <2>9, <2>10 DEF Good, SameFrame, r
<1> QED BY <1>1, <1>2

\* The DEL that _expire propagates is a command.
LEMMA DelIsCommand ==
  ASSUME NEW K \in SUBSET Keys
  PROVE  [cmd |-> "DEL", keys |-> K] \in Command
  BY DEF Command

\* _expire keeps the store good.
LEMMA ExpireGood ==
  ASSUME NEW s, NEW x, x.start \in [Keys -> Slot], NEW J \in SUBSET Keys,
         NEW K \in SUBSET Keys, Good(s, x, J)
  PROVE  LET r == Expire(s, K) IN
         /\ Good(r, x, J) /\ SameFrame(r, s) /\ r.job = s.job
<1>1. CASE K = {}
  BY <1>1 DEF Expire, SameFrame
<1>2. CASE K # {}
  <2> DEFINE c == [cmd |-> "DEL", keys |-> K]
             u == RemoveKeys(s, K)
             r == Propagate(u, c)
  <2>1. Good(u, x, J) /\ SameFrame(u, s) /\ u.job = s.job
    BY RemoveGood
  <2>2. c \in Command
    BY DelIsCommand
  <2> HIDE DEF u, c
  <2>3. Good(r, x, J) /\ SameFrame(r, u) /\ r.job = u.job
    BY <2>1, <2>2, PropagateGood
  <2>4. Expire(s, K) = r
    BY <1>2 DEF Expire, u, c
  <2> QED BY <2>1, <2>3, <2>4 DEF SameFrame
<1> QED BY <1>1, <1>2

\* purge_expired keeps the store good.
LEMMA PurgeGood ==
  ASSUME NEW s, NEW x, x.start \in [Keys -> Slot], NEW t, Good(s, x, {})
  PROVE  Good(PurgeExpired(s, t), x, {}) /\ PurgeExpired(s, t).job = s.job
<1> DEFINE K == Stale(s, s.volatile, t)
           J == {}
<1>1. K \in SUBSET Keys /\ J \in SUBSET Keys
  BY DEF Good, StoreType, Stores, Stale
<1>2. PurgeExpired(s, t) = RemoveKeys(s, K) /\ Good(s, x, J)
  BY DEF PurgeExpired
<1> HIDE DEF K, J
<1>3. Good(RemoveKeys(s, K), x, J) /\ RemoveKeys(s, K).job = s.job
  BY <1>1, <1>2, RemoveGood
<1> QED BY <1>2, <1>3 DEF J

\* _lookup, which expires what is due, keeps the store good.
LEMMA LookupGood ==
  ASSUME NEW s, NEW x, x.start \in [Keys -> Slot], NEW J \in SUBSET Keys,
         NEW K \in SUBSET Keys, NEW t, Good(s, x, J)
  PROVE  LET r == Lookup(s, K, t) IN
         /\ Good(r, x, J) /\ SameFrame(r, s) /\ r.job = s.job
<1>1. CASE s.loading
  BY <1>1 DEF Lookup, SameFrame
<1>2. CASE ~s.loading
  <2>1. Lookup(s, K, t) = Expire(s, Stale(s, K, t))
    BY <1>2 DEF Lookup
  <2>2. Stale(s, K, t) \in SUBSET Keys
    BY DEF Stale
  <2> QED BY <2>1, <2>2, ExpireGood
<1> QED BY <1>1, <1>2

\* A change confined to keys that have passed the barrier, which leaves them
\* accounted for in the running snapshot.
LEMMA ChangeGood ==
  ASSUME NEW s, NEW x, NEW J \in SUBSET Keys, NEW r, Good(s, x, J),
         StoreType(r), Indexed(r), SameFrame(r, s),
         r.job = s.job, r.pending = s.pending, r.records = s.records,
         \A k \in Keys \ J : r.data[k] = s.data[k],
         s.job # "none" => \A k \in J : Present(r, k) => r.data[k].copied = s.epoch
  PROVE  Good(r, x, J)
<1>1. Sized(r, J)
  BY DEF Good, Sized, Present
<1>2. Guarded(r, J)
  BY DEF Guarded, Uncopied, SameFrame
<1>3. s.job # "none" => Uncopied(r, Keys) = Uncopied(s, Keys)
  BY DEF Good, Guarded, Uncopied, Present, SameFrame
<1>4. s.job # "none" => \A k \in Uncopied(r, Keys) : r.data[k] = s.data[k]
  BY DEF Uncopied, SameFrame
<1>5. Copying(r, x)
  <2>1. CASE s.job = "none"
    BY <2>1 DEF Good, Copying
  <2>2. CASE s.job # "none"
    <3>1. CopyInProgress(s, x.start) /\ s.job = x.job
      BY <2>2 DEF Good, Copying
    <3>2. CopyInProgress(r, x.start)
      BY <1>3, <1>4, <2>2, <3>1 DEF CopyInProgress, SameFrame
    <3> QED BY <2>2, <3>1, <3>2 DEF Copying
  <2> QED BY <2>1, <2>2
<1> QED BY <1>1, <1>2, <1>5 DEF Good, SameFrame

\* The store after set, given the store s in which the keys were looked up.
LEMMA InsertGood ==
  ASSUME NEW s, NEW x, NEW J \in SUBSET Keys, NEW K \in SUBSET J, NEW kind \in Kinds,
         NEW n \in Nat, NEW ttl \in [Keys -> Nat], NEW volatile, Good(s, x, J),
         volatile = (s.volatile \ K) \cup {k \in K : ttl[k] # NoTTL}
  PROVE  LET r == Insert(s, K, kind, n, ttl, volatile) IN
         Good(r, x, J) /\ K \subseteq KeysOf(r)
<1> DEFINE New(k) == [kind |-> kind, n |-> n, expires_at |-> ttl[k],
                      size |-> EntrySize(n), copied |-> s.epoch]
           d == [k \in Keys |-> IF k \in K THEN New(k) ELSE s.data[k]]
           u == s.used - SumSizes(s, K) + Cardinality(K) * EntrySize(n)
           T == s.tracked \cup K
           r == Insert(s, K, kind, n, ttl, volatile)
<1>1. r = [s EXCEPT !.data = d, !.used = u, !.volatile = volatile, !.tracked = T]
  BY DEF Insert
<1>2. StoreType(s)
  BY DEF Good
<1>3. ASSUME NEW k \in Keys
      PROVE  /\ New(k) \in Slot /\ New(k).kind # "none" /\ New(k).copied = s.epoch
             /\ New(k).expires_at = ttl[k] /\ New(k).kind = kind /\ New(k).n = n
  <2>1. ttl[k] \in Nat /\ s.epoch \in Nat
    BY <1>2 DEF StoreType, Stores
  <2> QED BY <2>1 DEF Slot, EntrySize, Kinds
<1> HIDE DEF New, r
<1>4. d \in [Keys -> Slot] /\ \A k \in Keys : d[k] = IF k \in K THEN New(k) ELSE s.data[k]
  BY <1>2, <1>3 DEF StoreType, Stores
<1> HIDE DEF d
<1>5. u \in Int
  <2>1. SumSizes(s, K) \in Int
    BY <1>2, SumSizesType DEF StoreType, Stores
  <2>2. Cardinality(K) \in Nat
    BY KeysAssumption, FS_Subset, FS_CardinalityType
  <2> QED BY <1>2, <2>1, <2>2 DEF StoreType, Stores, EntrySize
<1> HIDE DEF u
<1>6. volatile \in SUBSET Keys /\ T \in SUBSET Keys
  BY <1>2 DEF StoreType, Stores
<1>7. T = s.tracked \cup K
  OBVIOUS
<1> HIDE DEF T
<1>8. StoreType(r)
  BY <1>1, <1>2, <1>4, <1>5, <1>6 DEF StoreType, Stores
<1>9. /\ r.data = d /\ r.volatile = volatile /\ r.tracked = T
      /\ r.job = s.job /\ r.pending = s.pending /\ r.records = s.records
      /\ SameFrame(r, s)
  BY <1>1, <1>2 DEF StoreType, Stores, SameFrame
<1>10. \A k \in Keys : r.data[k] = IF k \in K THEN New(k) ELSE s.data[k]
  BY <1>4, <1>9
<1>11. \A k \in Keys : Present(r, k) <=> k \in K \/ Present(s, k)
  BY <1>3, <1>10 DEF Present
<1>12. Indexed(r)
  <2>1. Dated(r)
    BY <1>2, <1>3, <1>9, <1>10, StampsStay DEF Good, Indexed, SameFrame
  <2>2. r.volatile = {k \in Keys : Present(r, k) /\ r.data[k].expires_at # NoTTL}
    BY <1>3, <1>9, <1>10, <1>11 DEF Good, Indexed
  <2>3. \A k \in Keys : Present(r, k) \/ r.data[k] = Absent
    BY <1>10, <1>11 DEF Good, Indexed
  <2>4. r.tracked = KeysOf(r)
    BY <1>7, <1>9, <1>11 DEF Good, Indexed, KeysOf
  <2> QED BY <2>1, <2>2, <2>3, <2>4 DEF Indexed
<1>13. s.job # "none" => \A k \in J : Present(r, k) => r.data[k].copied = s.epoch
  BY <1>3, <1>10, <1>11 DEF Good, Guarded, Uncopied
<1>14. \A k \in Keys \ J : r.data[k] = s.data[k]
  BY <1>10
<1>15. Good(r, x, J)
  BY <1>8, <1>9, <1>12, <1>13, <1>14, ChangeGood
<1>16. K \subseteq KeysOf(r)
  BY <1>11 DEF KeysOf
<1> QED BY <1>15, <1>16 DEF r

\* set without keep_ttl.
LEMMA SetGoodKeys ==
  ASSUME NEW s, NEW x, NEW J \in SUBSET Keys, NEW K \in SUBSET J, NEW kind \in Kinds,
         NEW n \in Nat, Good(s, x, J)
  PROVE  LET r == SetValue(s, K, kind, n) IN
         Good(r, x, J) /\ K \subseteq KeysOf(r)
<1> DEFINE ttl == [k \in Keys |-> NoTTL]
           v == s.volatile \ K
           r == Insert(s, K, kind, n, ttl, v)
<1>1. ttl \in [Keys -> Nat] /\ v = (s.volatile \ K) \cup {k \in K : ttl[k] # NoTTL}
  BY DEF NoTTL
<1>2. SetValue(s, K, kind, n) = r
  BY DEF SetValue
<1> HIDE DEF ttl, v
<1>3. Good(r, x, J) /\ K \subseteq KeysOf(r)
  BY <1>1, InsertGood
<1> QED BY <1>2, <1>3

\* ... and of a single key.
LEMMA SetOneGood ==
  ASSUME NEW s, NEW x, NEW J \in SUBSET Keys, NEW key \in J, NEW kind \in Kinds,
         NEW n \in Nat, Good(s, x, J)
  PROVE  LET r == SetValue(s, {key}, kind, n) IN Good(r, x, J) /\ Present(r, key)
<1> DEFINE r == SetValue(s, {key}, kind, n)
<1>1. {key} \in SUBSET J
  OBVIOUS
<1>2. Good(r, x, J) /\ {key} \subseteq KeysOf(r)
  BY <1>1, SetGoodKeys
<1> HIDE DEF r
<1>3. Good(r, x, J) /\ Present(r, key)
  BY <1>2 DEF KeysOf
<1> QED BY <1>3 DEF r

\* set with keep_ttl, for the single key that INCR and SET name.
LEMMA SetKeepGood ==
  ASSUME NEW s, NEW x, x.start \in [Keys -> Slot], NEW J \in SUBSET Keys,
         NEW key \in J, NEW kind \in Kinds, NEW n \in Nat, NEW t, Good(s, x, J)
  PROVE  LET r == SetKeepTtl(s, {key}, kind, n, t) IN Good(r, x, J) /\ Present(r, key)
<1> DEFINE K == {key}
           l == Lookup(s, K, t)
           ttl == [k \in Keys |-> l.data[k].expires_at]
           r == Insert(l, K, kind, n, ttl, l.volatile)
<1>1. SetKeepTtl(s, {key}, kind, n, t) = r
  BY DEF SetKeepTtl, Overwrite
<1>2. K \in SUBSET Keys /\ K \in SUBSET J /\ key \in K
  OBVIOUS
<1>3. Good(l, x, J)
  BY <1>2, LookupGood
<1> HIDE DEF l, K
<1>4. ttl \in [Keys -> Nat]
  <2>1. \A k \in Keys : l.data[k].expires_at \in Nat
    BY <1>3 DEF Good, StoreType, Stores, Slot
  <2> QED BY <2>1
<1>5. l.volatile = (l.volatile \ K) \cup {k \in K : ttl[k] # NoTTL}
  <2>1. \A k \in Keys : k \in l.volatile <=> l.data[k].expires_at # NoTTL
    BY <1>3 DEF Good, Indexed, Absent
  <2> QED BY <1>2, <2>1
<1> HIDE DEF ttl
<1>6. Good(r, x, J) /\ K \subseteq KeysOf(r)
  BY <1>2, <1>3, <1>4, <1>5, InsertGood
<1> HIDE DEF r
<1> QED BY <1>1, <1>2, <1>6 DEF KeysOf

\* set_expiry and persist keep the store good.
LEMMA SetExpiryGood ==
  ASSUME NEW s, NEW x, NEW J \in SUBSET Keys, NEW key \in J, NEW at \in Nat,
         Good(s, x, J), Present(s, key)
  PROVE  LET r == SetExpiry(s, key, at) IN
         Good(r, x, J) /\ SameFrame(r, s) /\ r.job = s.job
<1> DEFINE r == SetExpiry(s, key, at)
           new == [s.data[key] EXCEPT !.expires_at = at]
           d == [s.data EXCEPT ![key] = new]
           v == IF at = NoTTL THEN s.volatile \ {key} ELSE s.volatile \cup {key}
<1>1. r = [s EXCEPT !.data = d, !.volatile = v]
  BY DEF SetExpiry
<1>2. StoreType(s)
  BY DEF Good
<1>3. new \in Slot /\ new.kind = s.data[key].kind /\ new.expires_at = at
      /\ new.copied = s.data[key].copied
  BY <1>2 DEF StoreType, Stores, Slot
<1> HIDE DEF new, r
<1>4. d \in [Keys -> Slot] /\ \A k \in Keys : d[k] = IF k = key THEN new ELSE s.data[k]
  BY <1>2, <1>3 DEF StoreType, Stores
<1> HIDE DEF d
<1>5. v \in SUBSET Keys
  BY <1>2 DEF StoreType, Stores
<1>6. StoreType(r)
  BY <1>1, <1>2, <1>4, <1>5 DEF StoreType, Stores
<1>7. /\ r.data = d /\ r.volatile = v /\ r.tracked = s.tracked
      /\ r.job = s.job /\ r.pending = s.pending /\ r.records = s.records
      /\ SameFrame(r, s)
  BY <1>1, <1>2 DEF StoreType, Stores, SameFrame
<1>8. \A k \in Keys : r.data[k] = IF k = key THEN new ELSE s.data[k]
  BY <1>4, <1>7
<1>9. \A k \in Keys : Present(r, k) <=> Present(s, k)
  BY <1>3, <1>8 DEF Present
<1>10. Indexed(r)
  <2>1. Dated(r)
    BY <1>2, <1>3, <1>7, <1>8, StampsStay DEF Good, Indexed, SameFrame
  <2> QED BY <1>3, <1>7, <1>8, <1>9, <2>1 DEF Good, Indexed, KeysOf
<1>11. s.job # "none" => \A k \in J : Present(r, k) => r.data[k].copied = s.epoch
  BY <1>3, <1>8, <1>9 DEF Good, Guarded, Uncopied
<1>12. \A k \in Keys \ J : r.data[k] = s.data[k]
  BY <1>8
<1>13. Good(r, x, J)
  BY <1>6, <1>7, <1>10, <1>11, <1>12, ChangeGood
<1> QED BY <1>7, <1>13 DEF r

\* A handler that changes a value it took from write_target keeps the store good.
LEMMA MutateGood ==
  ASSUME NEW s, NEW x, NEW J \in SUBSET Keys, NEW key \in J, NEW n \in Nat,
         Good(s, x, J), Present(s, key)
  PROVE  LET r == Mutate(s, key, n) IN
         Good(r, x, J) /\ SameFrame(r, s) /\ r.job = s.job
<1> DEFINE r == Mutate(s, key, n)
           new == [s.data[key] EXCEPT !.n = n]
           d == [s.data EXCEPT ![key] = new]
<1>1. r = [s EXCEPT !.data = d]
  BY DEF Mutate
<1>2. StoreType(s)
  BY DEF Good
<1>3. new \in Slot /\ new.kind = s.data[key].kind /\ new.copied = s.data[key].copied
      /\ new.expires_at = s.data[key].expires_at
  BY <1>2 DEF StoreType, Stores, Slot
<1> HIDE DEF new, r
<1>4. d \in [Keys -> Slot] /\ \A k \in Keys : d[k] = IF k = key THEN new ELSE s.data[k]
  BY <1>2, <1>3 DEF StoreType, Stores
<1> HIDE DEF d
<1>5. StoreType(r)
  BY <1>1, <1>2, <1>4 DEF StoreType, Stores
<1>6. /\ r.data = d /\ r.volatile = s.volatile /\ r.tracked = s.tracked
      /\ r.job = s.job /\ r.pending = s.pending /\ r.records = s.records
      /\ SameFrame(r, s)
  BY <1>1, <1>2 DEF StoreType, Stores, SameFrame
<1>7. \A k \in Keys : r.data[k] = IF k = key THEN new ELSE s.data[k]
  BY <1>4, <1>6
<1>8. \A k \in Keys : Present(r, k) <=> Present(s, k)
  BY <1>3, <1>7 DEF Present
<1>9. Indexed(r)
  <2>1. Dated(r)
    BY <1>2, <1>3, <1>6, <1>7, StampsStay DEF Good, Indexed, SameFrame
  <2> QED BY <1>3, <1>6, <1>7, <1>8, <2>1 DEF Good, Indexed, KeysOf
<1>10. s.job # "none" => \A k \in J : Present(r, k) => r.data[k].copied = s.epoch
  BY <1>3, <1>7, <1>8 DEF Good, Guarded, Uncopied
<1>11. \A k \in Keys \ J : r.data[k] = s.data[k]
  BY <1>7
<1>12. Good(r, x, J)
  BY <1>5, <1>6, <1>9, <1>10, <1>11, ChangeGood
<1> QED BY <1>6, <1>12 DEF r

\* refresh closes the window in which a command's keys may be empty or mis-sized.
LEMMA RefreshGood ==
  ASSUME NEW s, NEW x, x.start \in [Keys -> Slot], NEW J \in SUBSET Keys, Good(s, x, J)
  PROVE  LET r == Refresh(s, J) IN
         Good(r, x, {}) /\ SameFrame(r, s) /\ r.job = s.job
<1> DEFINE E == {k \in J : s.data[k].kind = "list" /\ s.data[k].n = 0}
           b == RemoveKeys(s, E)
           L == {k \in J : Present(b, k)}
           New(k) == [b.data[k] EXCEPT !.size = EntrySize(b.data[k].n)]
           d == [k \in Keys |-> IF k \in L THEN New(k) ELSE b.data[k]]
           u == b.used - SumSizes(b, L) + SumSizes([data |-> d], L)
           r == Refresh(s, J)
<1>1. r = [b EXCEPT !.data = d, !.used = u]
  BY DEF Refresh, DropEmpty, Account
<1>2. E \in SUBSET Keys /\ L \in SUBSET Keys
  OBVIOUS
<1>3. /\ Good(b, x, J) /\ SameFrame(b, s) /\ b.job = s.job
      /\ \A k \in Keys : RecordOf(b.data[k]) = RecordOf(IF k \in E THEN Absent ELSE s.data[k])
  BY <1>2, RemoveGood
<1>4. ASSUME NEW k \in L PROVE b.data[k].kind = "list" => b.data[k].n > 0
  <2>1. RecordOf(b.data[k]) = RecordOf(IF k \in E THEN Absent ELSE s.data[k])
    BY <1>2, <1>3
  <2>2. b.data[k].kind # "none" /\ k \in J /\ k \in Keys
    BY DEF Present
  <2>3. k \notin E
    BY <2>1, <2>2 DEF RecordOf, Absent
  <2>4. b.data[k].kind = s.data[k].kind /\ b.data[k].n = s.data[k].n
    BY <2>1, <2>3 DEF RecordOf
  <2>5. s.data[k].n \in Nat
    BY <2>2 DEF Good, StoreType, Stores, Slot
  <2>6. ~(s.data[k].kind = "list" /\ s.data[k].n = 0)
    BY <2>2, <2>3, Zenon DEF E
  <2> HIDE DEF E, b
  <2> QED BY <2>4, <2>5, <2>6
<1> HIDE DEF E, b, r
<1>5. StoreType(b)
  BY <1>3 DEF Good
<1>6. ASSUME NEW k \in L
      PROVE  /\ New(k) \in Slot /\ New(k).kind = b.data[k].kind
             /\ New(k).n = b.data[k].n /\ New(k).expires_at = b.data[k].expires_at
             /\ New(k).copied = b.data[k].copied /\ New(k).size = EntrySize(New(k).n)
  <2>1. b.data[k] \in Slot
    BY <1>2, <1>5 DEF StoreType, Stores
  <2> QED BY <2>1 DEF Slot, EntrySize
<1> HIDE DEF New
<1>7. d \in [Keys -> Slot]
  BY <1>5, <1>6 DEF StoreType, Stores
<1>8. u \in Int
  <2>1. SumSizes(b, L) \in Int
    BY <1>2, <1>5, SumSizesType DEF StoreType, Stores
  <2>2. [data |-> d].data \in [Keys -> Slot]
    BY <1>7
  <2>3. SumSizes([data |-> d], L) \in Int
    BY <1>2, <2>2, SumSizesType
  <2> QED BY <1>5, <2>1, <2>3 DEF StoreType, Stores
<1> HIDE DEF u
<1>9. StoreType(r)
  BY <1>1, <1>5, <1>7, <1>8 DEF StoreType, Stores
<1>10. /\ r.data = d /\ r.volatile = b.volatile /\ r.tracked = b.tracked
       /\ r.job = b.job /\ r.pending = b.pending /\ r.records = b.records
       /\ SameFrame(r, b)
  BY <1>1, <1>5 DEF StoreType, Stores, SameFrame
<1>11. \A k \in Keys : r.data[k] = IF k \in L THEN New(k) ELSE b.data[k]
  BY <1>10
<1>12. \A k \in Keys : /\ Present(r, k) <=> Present(b, k)
                       /\ r.data[k].kind = b.data[k].kind /\ r.data[k].n = b.data[k].n
                       /\ r.data[k].expires_at = b.data[k].expires_at
                       /\ r.data[k].copied = b.data[k].copied
  BY <1>6, <1>11 DEF Present
<1>13. Indexed(r)
  <2>1. \A k \in Keys : Present(r, k) \/ r.data[k] = Absent
    BY <1>3, <1>11, <1>12 DEF Good, Indexed
  <2>2. Dated(r)
    BY <1>3, <1>5, <1>10, <1>12, StampsStay DEF Good, Indexed, SameFrame
  <2> QED BY <1>3, <1>10, <1>12, <2>1, <2>2 DEF Good, Indexed, KeysOf
<1>14. b.job # "none" => \A k \in J : Present(r, k) => r.data[k].copied = b.epoch
  BY <1>3, <1>12 DEF Good, Guarded, Uncopied
<1>15. \A k \in Keys \ J : r.data[k] = b.data[k]
  BY <1>11
<1>16. Good(r, x, J)
  BY <1>3, <1>9, <1>10, <1>13, <1>14, <1>15, ChangeGood
<1>17. Sized(r, {})
  <2> SUFFICES ASSUME NEW k \in Keys, Present(r, k)
               PROVE  /\ r.data[k].size = EntrySize(r.data[k].n)
                      /\ r.data[k].kind = "list" => r.data[k].n > 0
    BY DEF Sized
  <2>1. CASE k \in J
    <3>1. k \in L
      BY <1>12, <2>1
    <3> QED BY <1>4, <1>6, <1>11, <1>12, <3>1
  <2>2. CASE k \notin J
    BY <1>16, <2>2 DEF Good, Sized
  <2> QED BY <2>1, <2>2
<1>18. Guarded(r, {})
  BY DEF Guarded, Uncopied
<1>19. Good(r, x, {})
  BY <1>16, <1>17, <1>18 DEF Good
<1> QED BY <1>3, <1>10, <1>19 DEF r, SameFrame

\* A slice of the job keeps the copy in progress; the last one completes it with
\* exactly what was due.
LEMMA StepJobGood ==
  ASSUME NEW s, NEW x, x.start \in [Keys -> Slot], NEW K \in SUBSET s.pending,
         Good(s, x, {}), s.job # "none"
  PROVE  LET r == StepJob(s, K) IN
         /\ Good(r, x, {}) /\ SameFrame(r, s) /\ r.out = s.out
         /\ r.job = IF s.pending \ K = {} THEN "none" ELSE s.job
<1> DEFINE U == Uncopied(s, K)
           b == Take(s, U)
           j == IF s.pending \ K = {} THEN "none" ELSE s.job
           r == StepJob(s, K)
<1>1. StoreType(s) /\ CopyInProgress(s, x.start) /\ K \in SUBSET Keys
  BY DEF Good, Copying, StoreType, Stores
<1>2. b = SnapshotBarrier(s, K)
  BY DEF SnapshotBarrier
<1>3. /\ Good(b, x, {}) /\ SameFrame(b, s)
      /\ b.job = s.job /\ b.pending = s.pending /\ b.out = s.out
  BY <1>1, <1>2, BarrierGood
<1>4. U \in SUBSET Uncopied(s, Keys)
  BY <1>1 DEF Uncopied
<1>5. CopyInProgress(b, x.start) /\ Uncopied(b, Keys) = Uncopied(s, Keys) \ U
  BY <1>1, <1>4, TakeCopies
<1>6. r = [b EXCEPT !.pending = s.pending \ K, !.job = j]
  BY DEF StepJob
<1>7. StoreType(b) /\ j \in Consumers \cup {"none"} /\ s.pending \ K \in SUBSET Keys
  BY <1>1, <1>3 DEF Good, StoreType, Stores
<1>8. \A k \in Uncopied(b, Keys) : k \in s.pending \ K
  <2>1. \A k \in Uncopied(b, Keys) : k \in s.pending
    BY <1>3, <1>5 DEF CopyInProgress, Uncopied
  <2> QED BY <1>5, <2>1 DEF Uncopied
<1> HIDE DEF b, j, r, U
<1>9. StoreType(r)
  BY <1>6, <1>7 DEF StoreType, Stores
<1>10. /\ r.data = b.data /\ r.volatile = b.volatile /\ r.tracked = b.tracked
       /\ r.job = j /\ r.pending = s.pending \ K /\ r.records = b.records
       /\ r.out = b.out /\ SameFrame(r, b)
  BY <1>6, <1>7 DEF StoreType, Stores, SameFrame
<1>11. \A k \in Keys : Present(r, k) <=> Present(b, k)
  BY <1>10 DEF Present
<1>12. Indexed(r) /\ Sized(r, {})
  BY <1>3, <1>10, <1>11 DEF Good, Indexed, Sized, KeysOf, Dated, SameFrame
<1>13. Uncopied(r, Keys) = Uncopied(b, Keys)
  BY <1>10, <1>11 DEF Uncopied, SameFrame
<1>14. Guarded(r, {})
  BY DEF Guarded, Uncopied
<1>15. j = "none" => Uncopied(b, Keys) = {}
  BY <1>8 DEF j
<1>16. \A k \in Keys \ Uncopied(b, Keys) : r.records[k] = Due(x.start, x.started_at, k)
  <2> TAKE k \in Keys \ Uncopied(b, Keys)
  <2>1. b.records[k] = Due(x.start, b.started_at, k)
    BY <1>5, Zenon DEF CopyInProgress
  <2> QED BY <1>3, <1>10, <2>1 DEF Good
<1>17. r.started_at = x.started_at
  BY <1>3, <1>10 DEF Good, SameFrame
<1>18. CASE j = "none"
  <2>1. Copying(r, x)
    BY <1>10, <1>15, <1>16, <1>18 DEF Copying
  <2> QED BY <1>3, <1>9, <1>10, <1>12, <1>14, <1>17, <2>1 DEF Good, SameFrame, r, j
<1>19. CASE j # "none"
  <2>1. r.job = s.job
    BY <1>10, <1>19 DEF j
  <2>2. ASSUME NEW k \in Keys, k \in Uncopied(r, Keys)
        PROVE  /\ k \in r.pending /\ x.start[k].kind # "none"
               /\ RecordOf(r.data[k]) = RecordOf(x.start[k]) /\ r.records[k] = <<>>
    <3>1. k \in Uncopied(b, Keys)
      BY <1>13, <2>2
    <3>2. /\ x.start[k].kind # "none" /\ RecordOf(b.data[k]) = RecordOf(x.start[k])
          /\ b.records[k] = <<>>
      BY <1>5, <3>1, Zenon DEF CopyInProgress
    <3> QED BY <1>8, <1>10, <3>1, <3>2
  <2>3. CopyInProgress(r, x.start)
    BY <1>13, <1>16, <1>17, <2>2 DEF CopyInProgress
  <2>4. Copying(r, x)
    BY <1>19, <1>10, <2>1, <2>3 DEF Copying, Good
  <2> QED BY <1>3, <1>9, <1>10, <1>12, <1>14, <1>17, <2>4 DEF Good, SameFrame, r, j
<1> QED BY <1>18, <1>19

\* clear empties the keyspace after the running job has copied the rest.
LEMMA ClearGood ==
  ASSUME NEW s, NEW x, x.start \in [Keys -> Slot], Good(s, x, {})
  PROVE  LET r == Clear(s) IN
         Good(r, x, {}) /\ SameFrame(r, s) /\ r.job = "none" /\ r.out = s.out
<1> DEFINE b == IF s.job = "none" THEN s ELSE StepJob(s, s.pending)
           d == [k \in Keys |-> Absent]
           r == Clear(s)
<1>1. Good(b, x, {}) /\ SameFrame(b, s) /\ b.job = "none" /\ b.out = s.out
  <2>1. CASE s.job = "none"
    BY <2>1 DEF SameFrame
  <2>2. CASE s.job # "none"
    <3>1. s.pending \in SUBSET s.pending /\ s.pending \ s.pending = {}
      OBVIOUS
    <3> QED BY <2>2, <3>1, StepJobGood
  <2> QED BY <2>1, <2>2
<1>2. r = [b EXCEPT !.data = d, !.volatile = {}, !.tracked = {}, !.used = 0]
  BY DEF Clear
<1> HIDE DEF b, r
<1>3. StoreType(b)
  BY <1>1 DEF Good
<1>4. d \in [Keys -> Slot] /\ \A k \in Keys : d[k] = Absent
  BY DEF Absent, Slot, NoTTL
<1> HIDE DEF d
<1>5. StoreType(r)
  <2> DEFINE none == {}
             zero == 0
  <2>1. none \in SUBSET Keys /\ zero \in Int
    OBVIOUS
  <2>2. r = [b EXCEPT !.data = d, !.volatile = none, !.tracked = none, !.used = zero]
    BY <1>2
  <2> HIDE DEF none, zero
  <2> QED BY <1>3, <1>4, <2>1, <2>2 DEF StoreType, Stores
<1>6. /\ r.data = d /\ r.volatile = {} /\ r.tracked = {} /\ r.job = b.job
      /\ r.records = b.records /\ r.out = b.out /\ SameFrame(r, b)
  BY <1>2, <1>3 DEF StoreType, Stores, SameFrame
<1>7. \A k \in Keys : ~Present(r, k) /\ r.data[k] = Absent
  BY <1>4, <1>6 DEF Present, Absent
<1>8. Dated(r)
  <2>1. \A k \in Keys : r.data[k].copied \in {b.data[k].copied, b.epoch, 0}
    BY <1>7 DEF Absent
  <2> QED BY <1>1, <1>3, <1>6, <2>1, StampsStay DEF Good, Indexed, SameFrame
<1>9. Indexed(r) /\ Sized(r, {}) /\ Guarded(r, {})
  BY <1>6, <1>7, <1>8 DEF Indexed, Sized, Guarded, Uncopied, KeysOf
<1>10. Copying(r, x)
  BY <1>1, <1>6 DEF Good, Copying
<1>11. Good(r, x, {})
  BY <1>1, <1>5, <1>6, <1>9, <1>10 DEF Good, SameFrame
<1> QED BY <1>1, <1>6, <1>11 DEF r, SameFrame

\* A new snapshot has everything still to copy.
LEMMA BeginSnapshotGood ==
  ASSUME NEW s, NEW x, Good(s, x, {}), s.job = "none",
         NEW consumer \in Consumers, NEW t \in Nat
  PROVE  LET r == BeginSnapshot(s, consumer, t)
             y == [start |-> s.data, job |-> consumer, started_at |-> t,
                   loading |-> s.loading]
         IN  Good(r, y, {}) /\ r.out = s.out /\ r.job = consumer /\ r.data = s.data
             /\ r.loading = s.loading /\ r.pending = KeysOf(s)
<1> DEFINE r == BeginSnapshot(s, consumer, t)
           y == [start |-> s.data, job |-> consumer, started_at |-> t,
                 loading |-> s.loading]
<1>1. r = [s EXCEPT !.epoch = s.epoch + 1, !.job = consumer, !.pending = KeysOf(s),
                    !.records = NoRecords, !.started_at = t]
  BY DEF BeginSnapshot
<1> HIDE DEF r
<1>2. StoreType(s) /\ KeysOf(s) \in SUBSET Keys /\ NoRecords \in [Keys -> Seq(Record)]
      /\ \A k \in Keys : NoRecords[k] = <<>>
  BY DEF Good, KeysOf, NoRecords
<1>3. StoreType(r)
  <2> DEFINE e == s.epoch + 1
             K == KeysOf(s)
  <2>1. e \in Nat /\ K \in SUBSET Keys
    BY <1>2 DEF StoreType, Stores
  <2>2. r = [s EXCEPT !.epoch = e, !.job = consumer, !.pending = K,
                      !.records = NoRecords, !.started_at = t]
    BY <1>1
  <2> HIDE DEF e, K
  <2> QED BY <1>2, <2>1, <2>2 DEF StoreType, Stores
<1>4. /\ r.data = s.data /\ r.volatile = s.volatile /\ r.tracked = s.tracked
      /\ r.epoch = s.epoch + 1 /\ r.job = consumer /\ r.pending = KeysOf(s)
      /\ r.records = NoRecords /\ r.started_at = t /\ r.loading = s.loading
      /\ r.failed = s.failed /\ r.out = s.out
  BY <1>1, <1>2 DEF StoreType, Stores
<1>5. \A k \in Keys : Present(r, k) <=> Present(s, k)
  BY <1>4 DEF Present
<1>6. ASSUME NEW k \in Keys PROVE s.data[k].copied < r.epoch
  <2>1. s.data[k] \in Slot /\ s.epoch \in Nat
    BY <1>2 DEF StoreType, Stores
  <2>2. s.data[k].copied \in Nat /\ s.data[k].copied <= s.epoch
    BY <2>1 DEF Slot, Good, Indexed, Dated
  <2> QED BY <1>4, <2>1, <2>2
<1>7. Dated(r) /\ \A k \in Keys : r.data[k].copied # r.epoch
  <2> SUFFICES ASSUME NEW k \in Keys
               PROVE  r.data[k].copied <= r.epoch /\ r.data[k].copied # r.epoch
    BY DEF Dated
  <2>1. s.data[k] \in Slot /\ r.epoch \in Nat
    BY <1>2, <1>3 DEF StoreType, Stores
  <2>2. s.data[k].copied \in Nat
    BY <2>1 DEF Slot
  <2> QED BY <1>4, <1>6, <2>1, <2>2
<1>8. Indexed(r) /\ Sized(r, {}) /\ Guarded(r, {})
  BY <1>4, <1>5, <1>7 DEF Good, Indexed, Sized, Guarded, Uncopied, KeysOf
<1>9. Uncopied(r, Keys) = KeysOf(s)
  BY <1>5, <1>7 DEF Uncopied, KeysOf
<1>10. CopyInProgress(r, s.data)
  BY <1>2, <1>4, <1>9 DEF CopyInProgress, KeysOf, Present, Due
<1>11. Copying(r, y)
  BY <1>4, <1>10 DEF Copying, Consumers
<1>12. Good(r, y, {})
  BY <1>3, <1>4, <1>8, <1>11 DEF Good
<1> QED BY <1>4, <1>12 DEF r

-----------------------------------------------------------------------------
(* Loading a snapshot file.                                                 *)

\* The context of a store being loaded: no snapshot is running.
Loading == [start |-> [k \in Keys |-> Absent], job |-> "none", started_at |-> 0,
            loading |-> TRUE]

\* Snapshot records that load_record accepts and that hold no empty collection.
Loadable(records) ==
  /\ records \in [Keys -> Seq(Record)]
  /\ \A k \in Keys : records[k] # <<>> =>
       LET last == records[k][Len(records[k])]
       IN  last.kind = "list" => last.n > 0

\* The empty store a process starts from.
LEMMA EmptyGood ==
  ASSUME NEW x, NEW loading \in BOOLEAN, x.job = "none", x.started_at = 0,
         x.loading = loading
  PROVE  Good(EmptyStore(loading), x, {}) /\ EmptyStore(loading).out = <<>>
<1> DEFINE r == EmptyStore(loading)
           d == [k \in Keys |-> Absent]
           none == {}
           zero == 0
           empty == <<>>
<1>1. r = [data |-> d, volatile |-> none, tracked |-> none, used |-> zero,
           epoch |-> zero, job |-> "none", pending |-> none, records |-> NoRecords,
           started_at |-> zero, loading |-> loading, failed |-> FALSE, out |-> empty]
  BY DEF EmptyStore
<1>2. d \in [Keys -> Slot] /\ \A k \in Keys : d[k] = Absent
  BY DEF Absent, Slot, NoTTL
<1>3. none \in SUBSET Keys /\ zero \in Nat /\ zero \in Int /\ empty \in Seq(Command)
      /\ NoRecords \in [Keys -> Seq(Record)]
  BY DEF NoRecords
<1> HIDE DEF d, r, zero, empty, none
<1>4. StoreType(r)
  BY <1>1, <1>2, <1>3 DEF StoreType, Stores
<1>5. \A k \in Keys : ~Present(r, k) /\ r.data[k] = Absent
  BY <1>1, <1>2 DEF Present, Absent
<1>6. Dated(r)
  BY <1>1, <1>5 DEF Dated, Absent, zero
<1>7. Indexed(r) /\ Sized(r, {}) /\ Guarded(r, {})
  BY <1>1, <1>5, <1>6 DEF Indexed, Sized, Guarded, KeysOf, none
<1>8. Copying(r, x)
  BY <1>1 DEF Copying
<1>9. Good(r, x, {})
  BY <1>1, <1>4, <1>7, <1>8 DEF Good, zero
<1> QED BY <1>1, <1>9 DEF r, empty

\* A snapshot file loads into a well-formed store.
LEMMA LoadGood ==
  ASSUME NEW records, Loadable(records)
  PROVE  Good(LoadRecords(records), Loading, {})
<1> DEFINE K == {k \in Keys : records[k] # <<>>}
           Rec(k) == records[k][Len(records[k])]
           e == EmptyStore(TRUE)
           Made(k) == [kind |-> Rec(k).kind, n |-> Rec(k).n,
                       expires_at |-> Rec(k).expires_at,
                       size |-> EntrySize(Rec(k).n), copied |-> 0]
           d == [k \in Keys |-> IF k \in K THEN Made(k) ELSE Absent]
           u == SumSizes([data |-> d], K)
           v == {k \in K : Rec(k).expires_at # NoTTL}
           r == LoadRecords(records)
<1>1. r = [e EXCEPT !.data = d, !.tracked = K, !.used = u, !.volatile = v]
  BY DEF LoadRecords
<1>2. Good(e, Loading, {}) /\ StoreType(e)
  <2>1. Loading.job = "none" /\ Loading.started_at = 0 /\ Loading.loading = TRUE
    BY DEF Loading
  <2> QED BY <2>1, EmptyGood DEF Good
<1>3. ASSUME NEW k \in K
      PROVE  /\ Made(k) \in Slot /\ Made(k).kind # "none" /\ Made(k).copied = 0
             /\ Made(k).expires_at = Rec(k).expires_at
             /\ Made(k).size = EntrySize(Made(k).n)
             /\ Made(k).kind = "list" => Made(k).n > 0
  <2>1. Rec(k) \in Record
    BY DEF Loadable
  <2>2. Rec(k).kind = "list" => Rec(k).n > 0
    BY DEF Loadable
  <2> HIDE DEF Rec
  <2> QED BY <2>1, <2>2 DEF Record, Slot, EntrySize, Kinds
<1> HIDE DEF Made, e, r
<1>4. Absent \in Slot /\ Absent.kind = "none" /\ Absent.copied = 0
  BY DEF Absent, Slot, NoTTL
<1>5. d \in [Keys -> Slot] /\ \A k \in Keys : d[k] = IF k \in K THEN Made(k) ELSE Absent
  BY <1>3, <1>4
<1> HIDE DEF d
<1>6. K \in SUBSET Keys /\ v \in SUBSET Keys
  OBVIOUS
<1>7. u \in Int
  BY <1>5, <1>6, SumSizesType
<1> HIDE DEF u
<1>8. StoreType(r)
  <2> HIDE DEF K, v
  <2> QED BY <1>1, <1>2, <1>5, <1>6, <1>7 DEF StoreType, Stores
<1>9. /\ r.data = d /\ r.tracked = K /\ r.volatile = v /\ r.job = e.job
      /\ SameFrame(r, e)
  <2> HIDE DEF K, v
  <2> QED BY <1>1, <1>2 DEF StoreType, Stores, SameFrame
<1>10. \A k \in Keys : /\ Present(r, k) <=> k \in K
                       /\ r.data[k] = IF k \in K THEN Made(k) ELSE Absent
  BY <1>3, <1>4, <1>5, <1>9 DEF Present
<1>11. Dated(r)
  <2>1. \A k \in Keys : r.data[k].copied \in {e.data[k].copied, e.epoch, 0}
    BY <1>3, <1>4, <1>10
  <2> QED BY <1>2, <1>9, <2>1, StampsStay DEF Good, Indexed, SameFrame
<1>12. Indexed(r)
  <2>1. r.volatile = {k \in Keys : Present(r, k) /\ r.data[k].expires_at # NoTTL}
    BY <1>3, <1>9, <1>10
  <2> QED BY <1>9, <1>10, <1>11, <2>1 DEF Indexed, KeysOf
<1>13. Sized(r, {})
  BY <1>3, <1>10 DEF Sized
<1>14. r.job = "none" /\ Loading.job = "none"
  BY <1>2, <1>9 DEF Good, Copying, Loading
<1>15. Guarded(r, {}) /\ Copying(r, Loading)
  BY <1>14 DEF Guarded, Copying
<1>16. Good(r, Loading, {})
  BY <1>2, <1>8, <1>9, <1>12, <1>13, <1>15 DEF Good, SameFrame
<1> QED BY <1>16 DEF r
=============================================================================

------------------------------- MODULE Store -------------------------------
(***************************************************************************)
(* The keyspace of a shard node: engine/store.py.                          *)
(*                                                                         *)
(* A handler of the code is a composition of calls on the store, run to    *)
(* its end before any other handler (one event loop, one lock).  So the    *)
(* operators below take a store record s and return the record the call    *)
(* leaves behind, and module Engine makes each handler one atomic step.    *)
(* Operators that the code applies key by key, in an order nothing depends *)
(* on, take a set of keys.                                                 *)
(*                                                                         *)
(* A value is a kind and a number: a string holds the number n (INCR adds  *)
(* one), a list stands for every collection and holds n elements (a push   *)
(* adds one, a pop takes one).  Neither is idempotent, so a replay that    *)
(* starts from the wrong entry, or applies a record twice, shows.          *)
(*                                                                         *)
(* The fields of a store record:                                           *)
(*   data        key -> Slot, Absent for a key that is not in _data       *)
(*   volatile    the keys sampled by active expiry (_volatile)             *)
(*   tracked     the keys the eviction policy knows                        *)
(*   used        used_memory                                               *)
(*   epoch       _snapshot_epoch, also the epoch of a running job: only    *)
(*               begin_snapshot changes it, and it refuses a second job    *)
(*   job         "none", or who receives the running SnapshotJob's result  *)
(*   pending     the job's keys that no slice has reached yet              *)
(*   records     key -> the records the job has appended for it            *)
(*   started_at  the job's start time                                      *)
(*   loading     the engine's _replaying with expiry and eviction off      *)
(*   failed      a replayed record raised an error: start-up is aborted    *)
(*   out         the effects the running handler has propagated            *)
(***************************************************************************)
EXTENDS Integers, Sequences, FiniteSets, FiniteSetsExt

CONSTANTS
  Keys,       \* the keys clients name
  MaxKeys,    \* max_keys, 0 for no limit
  MaxMemory,  \* maxmemory, 0 for no limit
  Evicts      \* whether the eviction policy evicts (all but noeviction do)

ASSUME KeysAssumption == IsFiniteSet(Keys) /\ Keys # {}
ASSUME LimitsAssumption == MaxKeys \in Nat /\ MaxMemory \in Nat /\ Evicts \in BOOLEAN

NoTTL == 0
Kinds == {"string", "list"}
Consumers == {"rewrite", "resync"}

Absent == [kind |-> "none", n |-> 0, expires_at |-> NoTTL, size |-> 0, copied |-> 0]

\* What data holds for a key: an Entry, or Absent.
Slot == [kind : Kinds \cup {"none"}, n : Nat, expires_at : Nat, size : Nat, copied : Nat]
Record == [kind : Kinds, n : Nat, expires_at : Nat]

NoRecords == [k \in Keys |-> <<>>]

EmptyStore(loading) ==
  [data |-> [k \in Keys |-> Absent], volatile |-> {}, tracked |-> {}, used |-> 0,
   epoch |-> 0, job |-> "none", pending |-> {}, records |-> NoRecords, started_at |-> 0,
   loading |-> loading, failed |-> FALSE, out |-> <<>>]

Present(s, k) == s.data[k].kind # "none"
KeysOf(s) == {k \in Keys : Present(s, k)}

IsExpired(e, t) == e.expires_at # NoTTL /\ t >= e.expires_at

\* The keys of K that are still stored although their deadline has passed.
Stale(s, K, t) == {k \in K : Present(s, k) /\ IsExpired(s.data[k], t)}

EntrySize(n) == 1 + n
SumSizes(s, K) == MapThenSumSet(LAMBDA k : s.data[k].size, K)

RecordOf(e) == [kind |-> e.kind, n |-> e.n, expires_at |-> e.expires_at]

\* Effects reach the log (and the replicas) except while loading.
Propagate(s, effect) ==
  IF s.loading THEN s ELSE [s EXCEPT !.out = Append(s.out, effect)]

-----------------------------------------------------------------------------
(* The incremental copy: SnapshotJob and its copy-on-write barrier.         *)

\* The keys of K the running job has yet to copy.
Uncopied(s, K) == {k \in K : Present(s, k) /\ s.data[k].copied # s.epoch}

\* Variant: take forgets to stamp the entry.
StampedForgotten(e, epoch) == e

\* An entry accounted for in the snapshot of the given epoch.
Stamped(e, epoch) == [e EXCEPT !.copied = epoch]

\* SnapshotJob.take for every key of K.
Take(s, K) ==
  [s EXCEPT
     !.data = [k \in Keys |->
       IF k \in K THEN Stamped(s.data[k], s.epoch) ELSE s.data[k]],
     !.records = [k \in Keys |->
       IF k \in K /\ ~IsExpired(s.data[k], s.started_at)
         THEN Append(s.records[k], RecordOf(s.data[k])) ELSE s.records[k]]]

SnapshotBarrier(s, K) == IF s.job = "none" THEN s ELSE Take(s, Uncopied(s, K))

BeginSnapshot(s, consumer, t) ==
  [s EXCEPT !.epoch = s.epoch + 1, !.job = consumer, !.pending = KeysOf(s),
            !.records = NoRecords, !.started_at = t]

\* SnapshotJob.step over the keys K of its list; the last slice ends the job.
StepJob(s, K) ==
  [Take(s, Uncopied(s, K)) EXCEPT
     !.pending = s.pending \ K,
     !.job = IF s.pending \ K = {} THEN "none" ELSE s.job]

\* The copy made in one go: every live key, once.
Snapshot(s, t) ==
  [k \in Keys |-> IF Present(s, k) /\ ~IsExpired(s.data[k], t)
                    THEN <<RecordOf(s.data[k])>> ELSE <<>>]

\* What a snapshot begun on the keyspace d at time t is to hold of key k.
Due(d, t, k) ==
  IF d[k].kind # "none" /\ ~IsExpired(d[k], t) THEN <<RecordOf(d[k])>> ELSE <<>>

\* The state of a copy begun on the keyspace d: a key yet to be copied is on the
\* list of keys a slice will reach, holds what it held then, and has no record;
\* of every other key the records are exactly what is due.
CopyInProgress(s, d) ==
  \A k \in Keys :
    IF k \in Uncopied(s, Keys)
      THEN /\ k \in s.pending
           /\ d[k].kind # "none" /\ RecordOf(s.data[k]) = RecordOf(d[k])
           /\ s.records[k] = <<>>
      ELSE s.records[k] = Due(d, s.started_at, k)

-----------------------------------------------------------------------------
(* The store's methods.                                                     *)

\* _remove for every key of K, all of them stored: the barrier, then the removal.
Dropped(s, K) ==
  [s EXCEPT !.data = [k \in Keys |-> IF k \in K THEN Absent ELSE s.data[k]],
            !.used = s.used - SumSizes(s, K),
            !.volatile = s.volatile \ K,
            !.tracked = s.tracked \ K]

RemoveKeys(s, K) == Dropped(SnapshotBarrier(s, K), K)

\* Variant: an expiry is not propagated.
ExpireSilently(s, K) == RemoveKeys(s, K)

\* _expire: the removal of an expired key is propagated as a DEL.
Expire(s, K) ==
  IF K = {} THEN s ELSE Propagate(RemoveKeys(s, K), [cmd |-> "DEL", keys |-> K])

\* _lookup of every key of K: afterwards a key of K is found iff it is stored.
Lookup(s, K, t) == IF s.loading THEN s ELSE Expire(s, Stale(s, K, t))

\* _insert: a new entry for every key of K, which a running snapshot leaves out.
Insert(s, K, kind, n, ttl, volatile) ==
  [s EXCEPT
     !.data = [k \in Keys |->
       IF k \in K THEN [kind |-> kind, n |-> n, expires_at |-> ttl[k],
                        size |-> EntrySize(n), copied |-> s.epoch]
                  ELSE s.data[k]],
     !.used = s.used - SumSizes(s, K) + Cardinality(K) * EntrySize(n),
     !.volatile = volatile,
     !.tracked = s.tracked \cup K]

\* set: without keep_ttl the entries lose their deadlines, with it they keep them.
SetValue(s, K, kind, n) ==
  Insert(s, K, kind, n, [k \in Keys |-> NoTTL], s.volatile \ K)

Overwrite(s, K, kind, n) ==
  Insert(s, K, kind, n, [k \in Keys |-> s.data[k].expires_at], s.volatile)

SetKeepTtl(s, K, kind, n, t) == Overwrite(Lookup(s, K, t), K, kind, n)

\* Variants: persist leaves the key in _volatile; set_expiry does not add it.
PersistKeepsIndex(s, k, at) ==
  [s EXCEPT !.data = [s.data EXCEPT ![k] = [s.data[k] EXCEPT !.expires_at = at]],
            !.volatile = s.volatile \cup {k}]
SetExpiryUnindexed(s, k, at) ==
  [s EXCEPT !.data = [s.data EXCEPT ![k] = [s.data[k] EXCEPT !.expires_at = at]],
            !.volatile = IF at = NoTTL THEN s.volatile \ {k} ELSE s.volatile]

\* set_expiry and persist of a stored key, in place.
SetExpiry(s, k, at) ==
  [s EXCEPT !.data = [s.data EXCEPT ![k] = [s.data[k] EXCEPT !.expires_at = at]],
            !.volatile = IF at = NoTTL THEN s.volatile \ {k} ELSE s.volatile \cup {k}]

\* A collection is mutated in place: its size is accounted by the Refresh that follows.
Mutate(s, k, n) == [s EXCEPT !.data = [s.data EXCEPT ![k] = [s.data[k] EXCEPT !.n = n]]]

DropEmpty(s, K) == RemoveKeys(s, {k \in K : s.data[k].kind = "list" /\ s.data[k].n = 0})

\* Variant: the size of a changed entry is updated, the total is not.
AccountUncharged(s, K) ==
  [s EXCEPT !.data = [k \in Keys |->
     IF k \in K /\ Present(s, k) THEN [s.data[k] EXCEPT !.size = EntrySize(s.data[k].n)]
                                ELSE s.data[k]]]

Account(s, K) ==
  LET L == {k \in K : Present(s, k)}
      data == [k \in Keys |->
                IF k \in L THEN [s.data[k] EXCEPT !.size = EntrySize(s.data[k].n)]
                           ELSE s.data[k]]
  IN  [s EXCEPT !.data = data,
                !.used = s.used - SumSizes(s, L) + SumSizes([data |-> data], L)]

\* refresh: drop the collections a command left empty, account the others again.
Refresh(s, K) == Account(DropEmpty(s, K), K)

\* Variant: clear ends a running job with what it has.
ClearEndsJob(s) ==
  [s EXCEPT !.data = [k \in Keys |-> Absent], !.volatile = {}, !.tracked = {},
            !.used = 0, !.job = "none", !.pending = {}]

\* clear: a running job first copies everything it still has to.
Clear(s) ==
  [IF s.job = "none" THEN s ELSE StepJob(s, s.pending) EXCEPT
     !.data = [k \in Keys |-> Absent], !.volatile = {}, !.tracked = {}, !.used = 0]

\* Variant: the keys a command is about to create are not counted.
OverLimitToday(s, extra_keys) ==
  \/ MaxKeys # 0 /\ Cardinality(KeysOf(s)) > MaxKeys
  \/ MaxMemory # 0 /\ s.used > MaxMemory

OverLimit(s, extra_keys) ==
  \/ MaxKeys # 0 /\ Cardinality(KeysOf(s)) + extra_keys > MaxKeys
  \/ MaxMemory # 0 /\ s.used > MaxMemory

\* The sets of victims evict_if_needed may take, whatever the policy prefers: it
\* goes on while the store is over its limit and an unprotected key is left.
Victims(s, protect) ==
  LET candidates == s.tracked \ protect
      Over(V) == OverLimit(RemoveKeys(s, V), 0)
  IN  IF s.loading \/ ~Evicts THEN {{}}
      ELSE {V \in SUBSET candidates :
              /\ V = candidates \/ ~Over(V)
              /\ V = {} \/ \E v \in V : Over(V \ {v})}

\* The sets of keys one expire_cycle may reclaim.  A round samples SampleSize of
\* the volatile keys; another follows if over a quarter of the sample had expired.
Reclaimed(s, sample_size, t) ==
  LET stale == Stale(s, s.volatile, t)
      size == IF Cardinality(s.volatile) < sample_size
                THEN Cardinality(s.volatile) ELSE sample_size
      Samples == {S \in SUBSET s.volatile : Cardinality(S) = size}
  IN  {X \in SUBSET stale : \E S \in Samples :
         /\ S \cap stale \subseteq X
         /\ 4 * Cardinality(S \cap stale) <= size => X = S \cap stale}

\* purge_expired, once after loading.  Nothing is propagated.
PurgeExpired(s, t) == RemoveKeys(s, Stale(s, s.volatile, t))

\* load_record for every record of a snapshot file, into an empty loading store.
LoadRecords(records) ==
  LET K == {k \in Keys : records[k] # <<>>}
      Rec(k) == records[k][Len(records[k])]
      s == EmptyStore(TRUE)
      data == [k \in Keys |->
        IF k \in K THEN [kind |-> Rec(k).kind, n |-> Rec(k).n,
                         expires_at |-> Rec(k).expires_at,
                         size |-> EntrySize(Rec(k).n), copied |-> 0]
                   ELSE Absent]
  IN  [s EXCEPT !.data = data, !.tracked = K, !.used = SumSizes([data |-> data], K),
                !.volatile = {k \in K : Rec(k).expires_at # NoTTL}]
=============================================================================

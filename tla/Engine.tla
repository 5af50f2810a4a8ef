------------------------------- MODULE Engine -------------------------------
(***************************************************************************)
(* The engine of a shard node (engine/engine.py): commands, active expiry, *)
(* incremental snapshots, AOF rewrites, shutdown, crash and recovery.      *)
(*                                                                         *)
(* The event loop runs one handler at a time, so each action below is one  *)
(* whole handler.  Between two of them anything else may run: another      *)
(* client's command, a cron tick, a slice of the snapshot being taken, the *)
(* background thread that writes the snapshot file, or a crash.            *)
(*                                                                         *)
(* The log is represented by what recovering from it would load: per.disk  *)
(* is the loading store that the manifest's files replay to, advanced by   *)
(* every propagated effect.  What of the log survives which failure is the *)
(* subject of module Persistence; here a propagated effect is durable.     *)
(***************************************************************************)
EXTENDS Commands

CONSTANTS
  Incremental,   \* incremental_snapshots: copy in slices, or in one go
  AutoRewrite,   \* whether rewrite_percentage lets the cron start a rewrite
  SampleSize,    \* expiry_sample_size
  Ops,           \* the commands clients send
  MaxTime,       \* bound: the clock
  MaxN,          \* bound: the value of a string, the length of a collection
  MaxSnapshots,  \* bound: snapshots begun by one process
  MaxRestarts,   \* bound: crashes and shutdowns
  MaxTail        \* bound: effects logged while one rewrite is running

ASSUME EngineAssumption ==
  /\ Incremental \in BOOLEAN /\ AutoRewrite \in BOOLEAN
  /\ {SampleSize, MaxTime, MaxN, MaxSnapshots, MaxRestarts, MaxTail} \subseteq Nat
  /\ SampleSize > 0

VARIABLES
  store,     \* the keyspace, a store record
  per,       \* the files and the rewrite: disk, tail, rewrite, copy
  gc,        \* holds on CPython's collector: holds, and the flag _gc_held
  now,       \* the wall clock
  up,        \* whether the process is running with its engine open
  restarts,  \* how often it stopped (bounds the model)
  start,     \* history: the keyspace when the running snapshot began
  purged     \* history: the keys purge_expired has dropped at some start

vars == <<store, per, gc, now, up, restarts, start, purged>>

Times == 1 .. MaxTime
Deadlines == 1 .. (MaxTime + 1)
Values == 0 .. MaxN
NoData == [k \in Keys |-> Absent]

\* Replaying effects into a loading store.
Replay(s, effects, t) ==
  LET replayed[i \in 0 .. Len(effects)] ==
        IF i = 0 THEN s ELSE Apply(replayed[i - 1], effects[i], t)
  IN  replayed[Len(effects)]

\* The state of a rewrite: "copying" is _copying set; "writing", "written" and
\* "failed" are the states of the background job.
RewriteStates == {"idle", "copying", "writing", "written", "failed"}

Files == [disk : Stores, tail : Seq(Command), rewrite : RewriteStates,
          copy : [Keys -> Seq(Record)]]

InProgress(p) == p.rewrite # "idle"

\* The rewrite is over: its file names, and what it was to hold, are forgotten.
Forget(p) == [p EXCEPT !.rewrite = "idle", !.tail = <<>>, !.copy = NoRecords]

\* Variant: poll ignores a writer that failed.
PollSuccess(p, t) ==
  IF p.rewrite = "written"
    THEN [Forget(p) EXCEPT !.disk = Replay(LoadRecords(p.copy), p.tail, t)] ELSE p

\* poll and _finish: a complete snapshot file takes the place of the older files,
\* and recovery loads it and replays what was logged since the rewrite began.
Poll(p, t) ==
  CASE p.rewrite = "written" ->
         [Forget(p) EXCEPT !.disk = Replay(LoadRecords(p.copy), p.tail, t)]
    [] p.rewrite = "failed" -> Forget(p)
    [] OTHER -> p

ReleaseGc(g, p) ==
  IF g.held /\ ~InProgress(p) THEN [holds |-> g.holds - 1, held |-> FALSE] ELSE g

\* append: an effect goes to the newest AOF.
Log(p, effects, t) ==
  [p EXCEPT !.disk = Replay(p.disk, effects, t),
            !.tail = IF InProgress(p) THEN p.tail \o effects ELSE p.tail]

\* finish_copy: the copy goes to the thread that writes the snapshot file.
FinishCopy(p, records) == [p EXCEPT !.rewrite = "writing", !.copy = records]

\* Whether the step from s to s1 completed the running snapshot.
Completes(s, s1) == s.job # "none" /\ s1.job = "none"

\* Variant: the hold of a resync's copy is not released.
OnDoneGcOfRewrite(g, s, s1) ==
  IF Completes(s, s1) /\ s.job = "rewrite" THEN [g EXCEPT !.holds = g.holds - 1] ELSE g

\* The callbacks of a completed snapshot: release the collector, then hand the
\* records over.  A resync's records leave this module.
OnDoneGc(g, s, s1) == IF Completes(s, s1) THEN [g EXCEPT !.holds = g.holds - 1] ELSE g
OnDonePer(p, s, s1) ==
  IF Completes(s, s1) /\ s.job = "rewrite" THEN FinishCopy(p, s1.records) ELSE p

\* What is left in the store between two handlers.
Settled(s) == [s EXCEPT !.out = <<>>,
                        !.records = IF s.job = "none" THEN NoRecords ELSE s.records]

\* A handler that turns the store into s1: its effects are logged and the
\* completion of a snapshot is acted upon.
Becomes(s1) ==
  /\ store' = Settled(s1)
  /\ per' = Log(OnDonePer(per, store, s1), s1.out, now)
  /\ gc' = OnDoneGc(gc, store, s1)
  /\ start' = IF s1.job = "none" THEN NoData ELSE start
  /\ UNCHANGED <<now, up, restarts, purged>>

TailBound == ~InProgress(per) \/ Len(per.tail) < MaxTail

-----------------------------------------------------------------------------
(* Commands.                                                                *)

\* evict_if_needed with its DELs, for one choice of victims.
Evict(s, V) == Expire(s, V)

\* Before the handler: the barrier of a write and, with noeviction, the lookups of
\* a command that may need memory, which is refused if it does not fit.
Barred(c) == IF IsWrite(c) THEN SnapshotBarrier(store, NamedKeys(c)) ELSE store
ChecksMemory(c) == DenyOom(c) /\ ~Evicts
Admitted(c) == IF ChecksMemory(c) THEN Lookup(Barred(c), NamedKeys(c), now) ELSE Barred(c)
Refused(s, c) == ChecksMemory(c) /\ OverLimit(s, Cardinality(NamedKeys(c) \ KeysOf(s)))

\* The stores a command may leave behind.  A write that did not raise is followed
\* by evictions.
Evicted(s, protect) == {Evict(s, V) : V \in Victims(s, protect)}
Outcomes(s, c) ==
  IF Refused(s, c) THEN {s}
  ELSE IF IsWrite(c) /\ ~Raises(Lookup(s, LookedUp(c), now), c)
    THEN Evicted(Run(s, c, now), NamedKeys(c))
    ELSE {Run(s, c, now)}

Execute(c) ==
  /\ up /\ TailBound /\ c.cmd \in Ops
  /\ \E s \in Outcomes(Admitted(c), c) : Becomes(s)

Get == \E k \in Keys : Execute([cmd |-> "GET", key |-> k])
KeysAll == Execute([cmd |-> "KEYS"])
Set == \E k \in Keys, n \in Values, cond \in {"any", "NX", "XX"} :
         \/ \E keep \in BOOLEAN :
              Execute([cmd |-> "SET", key |-> k, n |-> n, cond |-> cond,
                       keep_ttl |-> keep, at |-> NoTTL])
         \/ \E at \in Deadlines :
              /\ at > now
              /\ Execute([cmd |-> "SET", key |-> k, n |-> n, cond |-> cond,
                          keep_ttl |-> FALSE, at |-> at])
MSet == \E K \in SUBSET Keys \ {{}}, n \in Values :
          Execute([cmd |-> "MSET", keys |-> K, n |-> n])
IncrBy == \E k \in Keys : store.data[k].n < MaxN /\ Execute([cmd |-> "INCRBY", key |-> k])
RPush == \E k \in Keys : store.data[k].n < MaxN /\ Execute([cmd |-> "RPUSH", key |-> k])
LPop == \E k \in Keys : Execute([cmd |-> "LPOP", key |-> k])
Del == \E K \in SUBSET Keys \ {{}} : Execute([cmd |-> "DEL", keys |-> K])
GetDel == \E k \in Keys : Execute([cmd |-> "GETDEL", key |-> k])
PExpireAt == \E k \in Keys, at \in Deadlines :
               Execute([cmd |-> "PEXPIREAT", key |-> k, at |-> at])
Persist == \E k \in Keys : Execute([cmd |-> "PERSIST", key |-> k])
Restore == \E k \in Keys, kind \in Kinds, n \in Values, at \in Deadlines \cup {NoTTL},
              replace \in BOOLEAN :
             /\ kind = "list" => n > 0
             /\ Execute([cmd |-> "RESTORE", key |-> k, kind |-> kind, n |-> n,
                         at |-> at, replace |-> replace])
FlushAll == Execute([cmd |-> "FLUSHALL"])

ClientCommand ==
  \/ Get \/ KeysAll \/ Set \/ MSet \/ IncrBy \/ RPush \/ LPop \/ Del \/ GetDel
  \/ PExpireAt \/ Persist \/ Restore \/ FlushAll

-----------------------------------------------------------------------------
(* Snapshots and rewrites.                                                  *)

\* begin_snapshot for the given consumer.
BeginCopy(s, p, g, consumer) ==
  /\ store' = BeginSnapshot(s, consumer, now)
  /\ per' = p
  /\ gc' = [g EXCEPT !.holds = g.holds + 1]
  /\ start' = s.data

\* start_rewrite on store s and files p, once it is known not to be refused.
\* begin_rewrite opens a new AOF, so the tail starts here.
StartRewrite(s, p, g) ==
  LET held == [holds |-> g.holds + 1, held |-> TRUE]
      begun == [p EXCEPT !.rewrite = "copying", !.tail = <<>>]
  IN  IF Incremental /\ s.job = "none"
        THEN s.epoch < MaxSnapshots /\ BeginCopy(s, begun, held, "rewrite")
        ELSE /\ store' = s
             /\ per' = FinishCopy(begun, Snapshot(s, now))
             /\ gc' = held
             /\ start' = start

\* BGREWRITEAOF / BGSAVE.  A finished rewrite the cron has not seen is finalized
\* first; a running one refuses the command.
BgRewrite ==
  LET p == Poll(per, now)
      g == ReleaseGc(gc, p)
  IN  /\ up /\ "BGREWRITEAOF" \in Ops
      /\ IF InProgress(p)
           THEN per' = p /\ gc' = g /\ UNCHANGED <<store, start>>
           ELSE StartRewrite(store, p, g)
      /\ UNCHANGED <<now, up, restarts, purged>>

\* A replica asks for a full resync (replication/node.py _begin_snapshot): an
\* incremental copy unless one is running, in which case it is made in one go.
Resync ==
  /\ up /\ "PSYNC" \in Ops /\ Incremental /\ store.job = "none" /\ store.epoch < MaxSnapshots
  /\ BeginCopy(store, per, gc, "resync")
  /\ UNCHANGED <<now, up, restarts, purged>>

\* step_snapshot: one or more slices, until the deadline or the end.
StepSnapshot ==
  /\ up /\ store.job # "none"
  /\ \E K \in SUBSET store.pending :
       /\ K = {} => store.pending = {}
       /\ Becomes(StepJob(store, K))

\* The background thread has written the snapshot file, or failed to.
WriterDone ==
  /\ up /\ per.rewrite = "writing"
  /\ \E outcome \in {"written", "failed"} : per' = [per EXCEPT !.rewrite = outcome]
  /\ UNCHANGED <<store, gc, now, up, restarts, start, purged>>

\* cron: active expiry, then finalize a rewrite, then perhaps start another.
\* Whether the AOF has grown enough for that is left open.
Cron ==
  /\ up
  /\ \E X \in Reclaimed(store, SampleSize, now) :
       LET s == Expire(store, X)
           p == Poll(Log(per, s.out, now), now)
           g == ReleaseGc(gc, p)
       IN  \/ /\ store' = Settled(s) /\ per' = p /\ gc' = g
              /\ start' = start
           \/ AutoRewrite /\ ~InProgress(p) /\ StartRewrite(Settled(s), p, g)
  /\ UNCHANGED <<now, up, restarts, purged>>

\* SAVE: start_rewrite, then wait_rewrite drives whatever copy is running to its
\* end and blocks until the file is written or has failed.
Save ==
  LET p0 == Poll(per, now)
      g0 == ReleaseGc(gc, p0)
      own == Incremental /\ store.job = "none"
      s1 == IF own THEN BeginSnapshot(store, "rewrite", now) ELSE store
      s2 == IF s1.job = "none" THEN s1 ELSE StepJob(s1, s1.pending)
      copy == IF own THEN s2.records ELSE Snapshot(store, now)
      begun == FinishCopy([p0 EXCEPT !.tail = <<>>], copy)
  IN  /\ up /\ "SAVE" \in Ops
      /\ ~InProgress(p0)
      /\ own => store.epoch < MaxSnapshots
      /\ \E outcome \in {"written", "failed"} :
           per' = Poll([begun EXCEPT !.rewrite = outcome], now)
      /\ store' = Settled(s2)
      /\ gc' = OnDoneGc(g0, store, s2)
      /\ start' = NoData
      /\ UNCHANGED <<now, up, restarts, purged>>

-----------------------------------------------------------------------------
(* Stopping and starting.                                                   *)

Stopped(p) ==
  /\ store' = EmptyStore(FALSE)
  /\ per' = p
  /\ start' = NoData
  /\ up' = FALSE
  /\ restarts' = restarts + 1
  /\ UNCHANGED <<now, purged>>

\* close: abandon a running copy, wait for a background write, release the holds.
Close ==
  LET abandoned == IF store.job # "none" /\ per.rewrite = "copying" THEN Forget(per) ELSE per
      g == IF store.job # "none" THEN [gc EXCEPT !.holds = gc.holds - 1] ELSE gc
  IN  /\ up /\ restarts < MaxRestarts
      /\ \E outcome \in {"written", "failed"} :
           LET p == Poll(IF abandoned.rewrite = "writing"
                           THEN [abandoned EXCEPT !.rewrite = outcome] ELSE abandoned, now)
           IN  Stopped(p) /\ gc' = ReleaseGc(g, p)

\* The process dies: its memory is gone, the manifest lists what it listed.
Crash ==
  /\ up /\ restarts < MaxRestarts
  /\ Stopped(Forget(per))
  /\ gc' = [holds |-> 0, held |-> FALSE]

\* open: replay the files, purge what expired meanwhile, evict if the limits ask
\* for it.  An error in the replay aborts the start.
Open ==
  LET loaded == [per.disk EXCEPT !.loading = FALSE]
      s == PurgeExpired(loaded, now)
  IN  /\ ~up /\ ~per.disk.failed
      /\ \E V \in Victims(s, {}) :
           LET s1 == Evict(s, V)
           IN  store' = Settled(s1) /\ per' = Log(per, s1.out, now)
      /\ up' = TRUE
      /\ purged' = purged \cup Stale(loaded, loaded.volatile, now)
      /\ UNCHANGED <<gc, now, restarts, start>>

Tick == now < MaxTime /\ now' = now + 1
        /\ UNCHANGED <<store, per, gc, up, restarts, start, purged>>

Init ==
  /\ store = EmptyStore(FALSE)
  /\ per = [disk |-> EmptyStore(TRUE), tail |-> <<>>, rewrite |-> "idle",
            copy |-> NoRecords]
  /\ gc = [holds |-> 0, held |-> FALSE]
  /\ now = 1 /\ up = TRUE /\ restarts = 0
  /\ start = NoData /\ purged = {}

Next ==
  \/ ClientCommand \/ BgRewrite \/ Resync \/ StepSnapshot \/ WriterDone \/ Cron \/ Save
  \/ Close \/ Crash \/ Open \/ Tick

Spec == Init /\ [][Next]_vars

-----------------------------------------------------------------------------
(* Properties.                                                              *)

\* Type correctness: of the running store, of the one recovery would build, and of
\* the commands and records waiting in the files.
TypeOK ==
  /\ store \in Stores /\ ~store.loading /\ ~store.failed /\ store.out = <<>>
  /\ per \in Files /\ per.disk.loading /\ per.disk.job = "none"
  /\ gc \in [holds : Int, held : BOOLEAN]
  /\ now \in Nat /\ up \in BOOLEAN /\ restarts \in Nat
  /\ start \in [Keys -> Slot]
  /\ purged \subseteq Keys

\* The indexes of store.py agree with _data after every handler: the keys sampled
\* by active expiry are exactly those with a TTL, the eviction policy tracks exactly
\* the stored keys, every entry is accounted at its present size and no empty
\* collection is stored (store.py, the invariants of its module docstring).
IndexesAgree ==
  /\ store.tracked = KeysOf(store)
  /\ store.volatile = {k \in Keys : Present(store, k) /\ store.data[k].expires_at # NoTTL}
  /\ \A k \in KeysOf(store) :
       /\ store.data[k].size = EntrySize(store.data[k].n)
       /\ store.data[k].kind = "list" => store.data[k].n > 0

\* used_memory is the sum of the sizes of the stored entries, whatever mix of
\* inserts, in-place changes, expiry, eviction and FLUSHALL led here.
MemoryAccounted == store.used = SumSizes(store, Keys)

\* With noeviction the store never holds more than max_keys keys: each command that
\* may create keys is refused before it runs, counting keys that have expired as new.
KeyLimit == ~Evicts /\ MaxKeys # 0 => Cardinality(KeysOf(store)) <= MaxKeys

\* The incremental copy is a point-in-time copy (SnapshotJob): while it runs, every
\* key of the keyspace it began on is either still to be reached by a slice, with
\* the value and deadline it had then, or already recorded exactly once with that
\* value; nothing is recorded of keys created since.
PointInTime == store.job # "none" => CopyInProgress(store, start)

\* A step that completes a rewrite's copy hands over what was due when it began.
CopyHandedOver ==
  store.job = "rewrite" /\ store'.job = "none" /\ up' =>
    per'.copy = [k \in Keys |-> Due(start, store.started_at, k)]

\* The copy that a rewrite hands to the snapshot writer, whoever completes it (a
\* slice, or a FLUSHALL that copies the rest), is exactly the live keyspace at the
\* moment the rewrite switched to a new AOF.
CopyExact == [][CopyHandedOver]_vars

\* The entries a process started now would serve, by recovering from the files.
Recovered(k) ==
  LET e == per.disk.data[k]
  IN  IF per.disk.data[k] = Absent \/ IsExpired(e, now) THEN Absent ELSE RecordOf(e)

Served(k) ==
  LET e == store.data[k]
  IN  IF ~Present(store, k) \/ IsExpired(e, now) THEN Absent ELSE RecordOf(e)

\* Replay is deterministic: at any moment, through rewrites, expiry and eviction,
\* recovering from the files gives exactly the keys, values and deadlines that the
\* running node serves (docs/DESIGN.md, "replay is deterministic").
RecoversLive == up => ~per.disk.failed /\ \A k \in Keys : Recovered(k) = Served(k)

\* The same through crashes and restarts, for the keys that no start has purged: a
\* purge is the only removal that reaches memory and not the log.
RecoversUnpurged ==
  up => IF per.disk.failed THEN purged # {}
        ELSE \A k \in Keys \ purged : Recovered(k) = Served(k)

\* Holds on the garbage collector are balanced: one for a running copy, one for a
\* rewrite in progress, none left behind by a refused, failed, completed or
\* abandoned one, nor by a shutdown (gcpolicy.py, Engine._release_gc).
GcBalanced ==
  /\ gc.held = InProgress(per)
  /\ gc.holds = (IF store.job # "none" THEN 1 ELSE 0) + (IF gc.held THEN 1 ELSE 0)
=============================================================================

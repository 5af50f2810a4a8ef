---------------------------- MODULE EngineProofs ----------------------------
(***************************************************************************)
(* Theorems about module Engine, for every value of its constants: type    *)
(* correctness, the agreement of the indexes, the point-in-time copy, what *)
(* a rewrite is handed, and the balance of the holds on the collector.     *)
(*                                                                         *)
(* Each action of Engine is shown to preserve one inductive invariant,     *)
(* IInv; what the actions are made of is in EngineLemmas.                  *)
(***************************************************************************)
EXTENDS EngineLemmas

-----------------------------------------------------------------------------
(* The actions.                                                             *)

\* The context of IInv, in the form the lemmas of StoreProofs use.
LEMMA ContextFields ==
  ASSUME IInv
  PROVE  /\ Context.start \in [Keys -> Slot] /\ Context.start = start
         /\ Context.job = store.job /\ Context.started_at = store.started_at
         /\ Context.loading = FALSE /\ Good(store, Context, {}) /\ store.out = <<>>
         /\ now \in Nat
BY DEF IInv, StoreInv, StartInv, ClockInv, Context

\* A command, whichever way it ends: refused for memory, raising, or done.
LEMMA ExecuteStep ==
  ASSUME IInv, NEW c \in Command, Execute(c)
  PROVE  IInv' /\ CopyHandedOver
<1> DEFINE K == NamedKeys(c)
           g == Barred(c)
           q == Admitted(c)
           ran == Run(q, c, now)
<1>1. /\ up
      /\ \/ Becomes(q)
         \/ Becomes(ran)
         \/ \E V \in Victims(ran, K) : Becomes(Evict(ran, V))
  BY DEF Execute, Outcomes, Evicted
<1>2. K \in SUBSET Keys /\ {} \in SUBSET Keys
  BY NamedKeysType
<1>3. Context.start \in [Keys -> Slot] /\ Good(store, Context, {})
  BY ContextFields
<1>4. Good(g, Context, {}) /\ (IsWrite(c) => Good(g, Context, K))
  <2>1. Good(SnapshotBarrier(store, K), Context, {})
    BY <1>2, <1>3, BarrierGood
  <2>2. Good(SnapshotBarrier(store, K), Context, K)
    BY <1>2, <1>3, BarrierOpens
  <2> QED BY <1>3, <2>1, <2>2 DEF Barred
<1> HIDE DEF g
<1>5. Good(q, Context, {}) /\ (IsWrite(c) => Good(q, Context, K))
  <2>1. q = Lookup(g, K, now) \/ q = g
    BY DEF Admitted, g
  <2> HIDE DEF K, q
  <2> QED BY <1>2, <1>3, <1>4, <2>1, LookupGood
<1> HIDE DEF K
<1> HIDE DEF q
<1>6. Good(ran, Context, {})
  BY <1>3, <1>5, RunGood DEF K
<1> HIDE DEF ran
<1>7. ASSUME NEW V \in Victims(ran, K) PROVE Good(Evict(ran, V), Context, {})
  <2>1. ran.tracked \in SUBSET Keys
    BY <1>6 DEF Good, StoreType, Stores
  <2>2. V \in SUBSET Keys
    BY <2>1 DEF Victims
  <2> QED BY <1>2, <1>3, <1>6, <2>2, ExpireGood DEF Evict
<1>8. \E s : Good(s, Context, {}) /\ Becomes(s)
  BY <1>1, <1>5, <1>6, <1>7
<1>9. PICK s : Good(s, Context, {}) /\ Becomes(s)
  BY <1>8
<1> QED BY <1>1, <1>9, BecomesInv DEF CopyHandedOver

\* Every client command of the model is a command.
LEMMA CommandStep ==
  ASSUME IInv, ClientCommand
  PROVE  IInv' /\ CopyHandedOver
<1>0. Values \subseteq Nat /\ Deadlines \subseteq Nat /\ NoTTL \in Nat
  BY EngineAssumption DEF Values, Deadlines, NoTTL
<1> SUFFICES \E c \in Command : Execute(c)
  BY ExecuteStep
<1>1. CASE Get
  <2>1. PICK k \in Keys : Execute([cmd |-> "GET", key |-> k])
    BY <1>1 DEF Get
  <2> QED BY <2>1 DEF Command
<1>2. CASE KeysAll
  <2>1. [cmd |-> "KEYS"] \in Command
    BY DEF Command
  <2> QED BY <1>2, <2>1 DEF KeysAll
<1>3. CASE Set
  <2>1. PICK k \in Keys, n \in Values, cond \in {"any", "NX", "XX"} :
          \/ \E keep \in BOOLEAN :
               Execute([cmd |-> "SET", key |-> k, n |-> n, cond |-> cond,
                        keep_ttl |-> keep, at |-> NoTTL])
          \/ \E at \in Deadlines :
               Execute([cmd |-> "SET", key |-> k, n |-> n, cond |-> cond,
                        keep_ttl |-> FALSE, at |-> at])
    BY <1>3 DEF Set
  <2>2. PICK keep \in BOOLEAN, at \in Nat :
          Execute([cmd |-> "SET", key |-> k, n |-> n, cond |-> cond,
                   keep_ttl |-> keep, at |-> at])
    BY <1>0, <2>1
  <2>3. [cmd |-> "SET", key |-> k, n |-> n, cond |-> cond,
         keep_ttl |-> keep, at |-> at] \in Command
    BY <1>0 DEF Command
  <2> QED BY <2>2, <2>3
<1>4. CASE MSet
  <2>1. PICK K \in SUBSET Keys, n \in Values : Execute([cmd |-> "MSET", keys |-> K, n |-> n])
    BY <1>4 DEF MSet
  <2>2. [cmd |-> "MSET", keys |-> K, n |-> n] \in Command
    BY <1>0 DEF Command
  <2> QED BY <2>1, <2>2
<1>5. CASE IncrBy
  <2>1. PICK k \in Keys : Execute([cmd |-> "INCRBY", key |-> k])
    BY <1>5 DEF IncrBy
  <2> QED BY <2>1 DEF Command
<1>6. CASE RPush
  <2>1. PICK k \in Keys : Execute([cmd |-> "RPUSH", key |-> k])
    BY <1>6 DEF RPush
  <2> QED BY <2>1 DEF Command
<1>7. CASE LPop
  <2>1. PICK k \in Keys : Execute([cmd |-> "LPOP", key |-> k])
    BY <1>7 DEF LPop
  <2> QED BY <2>1 DEF Command
<1>8. CASE Del
  <2>1. PICK K \in SUBSET Keys : Execute([cmd |-> "DEL", keys |-> K])
    BY <1>8 DEF Del
  <2> QED BY <2>1, DelIsCommand
<1>9. CASE GetDel
  <2>1. PICK k \in Keys : Execute([cmd |-> "GETDEL", key |-> k])
    BY <1>9 DEF GetDel
  <2> QED BY <2>1 DEF Command
<1>10. CASE PExpireAt
  <2>1. PICK k \in Keys, at \in Deadlines : Execute([cmd |-> "PEXPIREAT", key |-> k, at |-> at])
    BY <1>10 DEF PExpireAt
  <2>2. [cmd |-> "PEXPIREAT", key |-> k, at |-> at] \in Command
    BY <1>0 DEF Command
  <2> QED BY <2>1, <2>2
<1>11. CASE Persist
  <2>1. PICK k \in Keys : Execute([cmd |-> "PERSIST", key |-> k])
    BY <1>11 DEF Persist
  <2> QED BY <2>1 DEF Command
<1>12. CASE Restore
  <2>1. PICK k \in Keys, kind \in Kinds, n \in Values, at \in Deadlines \cup {NoTTL},
             replace \in BOOLEAN :
          /\ kind = "list" => n > 0
          /\ Execute([cmd |-> "RESTORE", key |-> k, kind |-> kind, n |-> n,
                      at |-> at, replace |-> replace])
    BY <1>12 DEF Restore
  <2>2. [cmd |-> "RESTORE", key |-> k, kind |-> kind, n |-> n, at |-> at,
         replace |-> replace] \in Command
    BY <1>0, <2>1 DEF Command
  <2> QED BY <2>1, <2>2
<1>13. CASE FlushAll
  <2>1. [cmd |-> "FLUSHALL"] \in Command
    BY DEF Command
  <2> QED BY <1>13, <2>1 DEF FlushAll
<1> QED BY <1>1, <1>2, <1>3, <1>4, <1>5, <1>6, <1>7, <1>8, <1>9, <1>10, <1>11, <1>12, <1>13
   DEF ClientCommand

\* BGREWRITEAOF.
LEMMA BgRewriteStep ==
  ASSUME IInv, BgRewrite
  PROVE  IInv' /\ CopyHandedOver
<1> DEFINE p == Poll(per, now)
           g == ReleaseGc(gc, p)
<1>1. /\ up
      /\ IF InProgress(p) THEN per' = p /\ gc' = g /\ UNCHANGED <<store, start>>
         ELSE StartRewrite(store, p, g)
      /\ UNCHANGED <<now, up, restarts, purged>>
  BY DEF BgRewrite
<1>2. /\ StateOK(store, p, g, start)
      /\ per.rewrite = "copying" => p.rewrite = "copying"
  BY IInvState, PollState
<1>3. per.rewrite = "copying" <=> store.job = "rewrite"
  BY DEF IInv, RewriteInv
<1> HIDE DEF p, g
<1>4. ClockInv' /\ now \in Nat
  BY <1>1 DEF IInv, ClockInv
<1>5. StateOK(store', per', gc', start') /\ CopyHandedOver
  <2>1. CASE InProgress(p)
    BY <1>1, <1>2, <2>1 DEF CopyHandedOver
  <2>2. CASE ~InProgress(p)
    <3>1. StartRewrite(store, p, g)
      BY <1>1, <2>2
    <3>2. StateOK(store', per', gc', start') /\ store.job # "rewrite"
      BY <1>2, <1>4, <2>2, <3>1, StartRewriteOK
    <3> QED BY <3>2 DEF CopyHandedOver
  <2> QED BY <2>1, <2>2
<1> QED BY <1>1, <1>4, <1>5, StateIInv

\* A full resync begins.
LEMMA ResyncStep ==
  ASSUME IInv, Resync
  PROVE  IInv' /\ CopyHandedOver
<1>1. /\ up /\ store.job = "none" /\ BeginCopy(store, per, gc, "resync")
      /\ UNCHANGED <<now, up, restarts, purged>>
  BY DEF Resync
<1>2. StateOK(store, per, gc, start) /\ ClockInv' /\ now \in Nat
  BY <1>1, IInvState DEF IInv, ClockInv
<1>3. per.rewrite # "copying" /\ "resync" \in Consumers
  BY <1>1, <1>2 DEF StateOK, Consumers
<1>4. StateOK(store', per', gc', start')
  BY <1>1, <1>2, <1>3, BeginCopyOK DEF StateOK
<1>5. IInv'
  BY <1>1, <1>2, <1>4, StateIInv
<1> QED BY <1>1, <1>5 DEF CopyHandedOver

\* A slice of the copy.
LEMMA StepSnapshotStep ==
  ASSUME IInv, StepSnapshot
  PROVE  IInv' /\ CopyHandedOver
<1>1. PICK K \in SUBSET store.pending : up /\ store.job # "none" /\ Becomes(StepJob(store, K))
  BY DEF StepSnapshot
<1>2. Good(StepJob(store, K), Context, {})
  BY <1>1, ContextFields, StepJobGood
<1> QED BY <1>1, <1>2, BecomesInv DEF CopyHandedOver

\* The snapshot file is written, or not.
LEMMA WriterDoneStep ==
  ASSUME IInv, WriterDone
  PROVE  IInv' /\ CopyHandedOver
<1>1. PICK outcome \in {"written", "failed"} : per' = [per EXCEPT !.rewrite = outcome]
  BY DEF WriterDone
<1>2. up /\ per.rewrite = "writing" /\ UNCHANGED <<store, gc, now, up, restarts, start, purged>>
  BY DEF WriterDone
<1>3. outcome \in RewriteStates
  BY DEF RewriteStates
<1>4. StateOK(store, per, gc, start)
  BY IInvState
<1>5. FilesOK(per') /\ per'.rewrite = outcome
  BY <1>1, <1>3, <1>4, OutcomeOK DEF StateOK
<1>6. Balanced(store', per', gc')
  BY <1>2, <1>4, <1>5 DEF StateOK, Balanced, InProgress
<1>7. StateOK(store', per', gc', start')
  BY <1>2, <1>4, <1>5, <1>6 DEF StateOK, ContextOf
<1>8. ClockInv'
  BY <1>2 DEF IInv, ClockInv
<1>9. IInv'
  BY <1>2, <1>7, <1>8, StateIInv
<1> QED BY <1>2, <1>9 DEF CopyHandedOver

\* A cron tick: active expiry, the end of a rewrite, the start of another.
LEMMA CronStep ==
  ASSUME IInv, Cron
  PROVE  IInv' /\ CopyHandedOver
<1>1. PICK X \in Reclaimed(store, SampleSize, now) :
        LET s == Expire(store, X)
            p == Poll(Log(per, s.out, now), now)
            g == ReleaseGc(gc, p)
        IN  \/ store' = Settled(s) /\ per' = p /\ gc' = g /\ start' = start
            \/ ~InProgress(p) /\ StartRewrite(Settled(s), p, g)
  BY DEF Cron
<1> DEFINE s == Expire(store, X)
           r == Settled(s)
           l == Log(per, s.out, now)
           p == Poll(l, now)
           g == ReleaseGc(gc, p)
<1>2. up /\ UNCHANGED <<now, up, restarts, purged>>
  BY DEF Cron
<1>3. StateOK(store, per, gc, start) /\ ClockInv' /\ now \in Nat
  BY <1>2, IInvState DEF IInv, ClockInv
<1>4. X \in SUBSET Keys
  <2>1. store.volatile \in SUBSET Keys
    BY <1>3 DEF StateOK, Good, StoreType, Stores
  <2> QED BY <2>1 DEF Reclaimed, Stale
<1>5. /\ Good(s, Context, {}) /\ s.job = store.job /\ s.started_at = store.started_at
      /\ s.loading = FALSE
  <2>1. {} \in SUBSET Keys
    OBVIOUS
  <2>2. Good(s, Context, {}) /\ s.job = store.job
    BY <1>4, <2>1, ContextFields, ExpireGood
  <2> QED BY <2>2, ContextFields DEF Good
<1>6. s.out \in Seq(Command)
  BY <1>5 DEF Good, StoreType, Stores
<1> HIDE DEF s
<1>7. /\ Good(r, Context, {}) /\ r.out = <<>> /\ r.job = store.job
      /\ r.started_at = store.started_at
  <2>1. /\ Context.job = s.job /\ Context.started_at = s.started_at
        /\ Context.loading = s.loading
    BY <1>5, ContextFields
  <2> QED BY <1>5, <2>1, SettledGood
<1>8. ContextOf(r, start) = Context
  BY <1>7 DEF ContextOf, Context
<1> HIDE DEF r
<1>9. StateOK(r, per, gc, start)
  BY <1>3, <1>7, <1>8 DEF StateOK, Balanced
<1>10. StateOK(r, l, gc, start) /\ l.rewrite = per.rewrite
  BY <1>6, <1>9, LogState
<1> HIDE DEF l
<1>11. StateOK(r, p, g, start)
  BY <1>10, PollState
<1>12. \/ store' = r /\ per' = p /\ gc' = g /\ start' = start
       \/ ~InProgress(p) /\ StartRewrite(r, p, g)
  BY <1>1 DEF r, l, s
<1> HIDE DEF p, g
<1>13. StateOK(store', per', gc', start') /\ CopyHandedOver
  <2>1. CASE store' = r /\ per' = p /\ gc' = g /\ start' = start
    BY <1>7, <1>11, <2>1 DEF CopyHandedOver
  <2>2. CASE ~InProgress(p) /\ StartRewrite(r, p, g)
    <3>1. StateOK(store', per', gc', start') /\ r.job # "rewrite"
      BY <1>3, <1>11, <2>2, StartRewriteOK
    <3> QED BY <1>7, <3>1 DEF CopyHandedOver
  <2> QED BY <1>12, <2>1, <2>2
<1> QED BY <1>2, <1>3, <1>13, StateIInv

\* A store with no running job is well formed in every context without one.
LEMMA IdleState ==
  ASSUME NEW s, NEW x, Good(s, x, {}), s.job = "none", s.loading = FALSE, NEW p, NEW g,
         NEW d \in [Keys -> Slot], \A k \in Keys : d[k].kind = "list" => d[k].n > 0,
         FilesOK(p), p.rewrite # "copying", Balanced(s, p, g)
  PROVE  StateOK(Settled(s), p, g, d)
<1> DEFINE r == Settled(s)
           y == ContextOf(s, d)
<1>1. y.job = s.job /\ y.started_at = s.started_at /\ y.loading = s.loading
  BY DEF ContextOf
<1>2. /\ Good(r, y, {}) /\ r.out = <<>> /\ r.job = s.job /\ r.started_at = s.started_at
  <2> HIDE DEF y
  <2> QED BY <1>1, SettledGood
<1> HIDE DEF r
<1>3. ContextOf(r, d) = y
  BY <1>2 DEF ContextOf
<1>4. Balanced(r, p, g)
  BY <1>2 DEF Balanced
<1>5. StateOK(r, p, g, d)
  BY <1>2, <1>3, <1>4 DEF StateOK
<1> QED BY <1>5 DEF r

\* No keyspace is remembered while no snapshot is running.
LEMMA NoDataStart ==
  NoData \in [Keys -> Slot] /\ \A k \in Keys : NoData[k].kind = "list" => NoData[k].n > 0
BY DEF NoData, Absent, Slot, NoTTL

\* SAVE: a copy begun and completed in one step, or made in one go.
LEMMA SaveStep ==
  ASSUME IInv, Save
  PROVE  IInv' /\ CopyHandedOver
<1> DEFINE p0 == Poll(per, now)
           g0 == ReleaseGc(gc, p0)
           own == Incremental /\ store.job = "none"
           s1 == IF own THEN BeginSnapshot(store, "rewrite", now) ELSE store
           s2 == IF s1.job = "none" THEN s1 ELSE StepJob(s1, s1.pending)
           copy == IF own THEN s2.records ELSE Snapshot(store, now)
           t0 == [p0 EXCEPT !.tail = <<>>]
           begun == FinishCopy(t0, copy)
<1>1. PICK outcome \in {"written", "failed"} :
        per' = Poll([begun EXCEPT !.rewrite = outcome], now)
  BY DEF Save
<1>2. /\ up /\ ~InProgress(p0) /\ store' = Settled(s2) /\ gc' = OnDoneGc(g0, store, s2)
      /\ start' = NoData /\ UNCHANGED <<now, up, restarts, purged>>
  BY DEF Save
<1>3. /\ StateOK(store, p0, g0, start) /\ now \in Nat /\ ClockInv'
      /\ per.rewrite = "copying" => p0.rewrite = "copying"
  BY <1>2, IInvState, PollState DEF IInv, ClockInv
<1>4. p0.rewrite = "idle" /\ store.job # "rewrite"
  BY <1>2, <1>3 DEF InProgress, IInv, RewriteInv
<1> HIDE DEF p0, g0
<1>5. t0 = [p0 EXCEPT !.rewrite = "idle", !.tail = <<>>]
  BY <1>3, <1>4 DEF StateOK, FilesOK, Files
<1>6. FilesOK(t0)
  BY <1>3, <1>5, TailOK DEF StateOK, RewriteStates
<1>7. \E x : Good(s2, x, {}) /\ s2.job = "none" /\ s2.loading = FALSE /\ Loadable(copy)
  <2>1. CASE own
    <3> DEFINE y == [start |-> store.data, job |-> "rewrite", started_at |-> now,
                     loading |-> store.loading]
    <3>1. s1 = BeginSnapshot(store, "rewrite", now) /\ "rewrite" \in Consumers
      BY <2>1 DEF Consumers
    <3>2. Good(s1, y, {}) /\ s1.job = "rewrite" /\ s1.loading = store.loading
      BY <1>3, <2>1, <3>1, BeginSnapshotGood DEF StateOK
    <3>3. /\ y.start = store.data /\ y.job = "rewrite" /\ y.loading = store.loading
          /\ y.started_at = now
      OBVIOUS
    <3>4. store.loading = FALSE /\ store.data \in [Keys -> Slot]
          /\ \A k \in Keys : store.data[k].kind = "list" => store.data[k].n > 0
      BY <1>3 DEF StateOK, Good, ContextOf, StoreType, Stores, Sized, Present
    <3>5. s2 = StepJob(s1, s1.pending) /\ s1.pending \in SUBSET s1.pending
          /\ s1.pending \ s1.pending = {}
      BY <3>2
    <3> HIDE DEF s1, s2, y
    <3>6. Good(s2, y, {}) /\ s2.job = "none"
      BY <3>2, <3>3, <3>4, <3>5, StepJobGood
    <3>7. s2.records \in [Keys -> Seq(Record)]
          /\ \A k \in Keys : s2.records[k] = Due(store.data, now, k)
      BY <3>3, <3>6 DEF Good, Copying, StoreType, Stores
    <3>8. Loadable(s2.records) /\ copy = s2.records
      BY <2>1, <3>4, <3>7, DueLoadable
    <3>9. s2.loading = FALSE
      BY <3>3, <3>4, <3>6 DEF Good
    <3> QED BY <3>6, <3>8, <3>9
  <2>2. CASE ~own
    <3>1. s1 = store /\ copy = Snapshot(store, now)
      BY <2>2
    <3>2. Loadable(copy)
      BY <1>3, <3>1, SnapshotLoadable DEF StateOK
    <3>3. CASE store.job = "none"
      <4>1. s2 = store
        BY <3>1, <3>3
      <4> HIDE DEF s2, copy
      <4> QED BY <3>2, <3>3, <4>1, ContextFields DEF Good
    <3>4. CASE store.job # "none"
      <4>1. s2 = StepJob(store, store.pending) /\ store.pending \in SUBSET store.pending
            /\ store.pending \ store.pending = {}
        BY <3>1, <3>4
      <4> HIDE DEF s2, copy
      <4>2. Good(s2, Context, {}) /\ s2.job = "none"
        BY <3>4, <4>1, ContextFields, StepJobGood
      <4> QED BY <3>2, <4>2, ContextFields DEF Good
    <3> QED BY <3>3, <3>4
  <2> QED BY <2>1, <2>2
<1> HIDE DEF s2, copy, t0
<1>8. FilesOK(begun)
  BY <1>6, <1>7, FinishCopyOK
<1> HIDE DEF begun
<1>9. FilesOK([begun EXCEPT !.rewrite = outcome])
      /\ [begun EXCEPT !.rewrite = outcome].rewrite = outcome
  BY <1>8, OutcomeOK DEF RewriteStates
<1>10. FilesOK(per') /\ per'.rewrite = "idle"
  BY <1>1, <1>9, PollOK
<1>11. Balanced(s2, per', gc')
  <2>1. g0 \in [holds : Int, held : BOOLEAN] /\ ~g0.held
        /\ g0.holds = IF store.job # "none" THEN 1 ELSE 0
    BY <1>3, <1>4 DEF StateOK, Balanced, InProgress
  <2>2. gc' \in [holds : Int, held : BOOLEAN] /\ ~gc'.held /\ gc'.holds = 0
    BY <1>2, <1>7, <2>1 DEF OnDoneGc, Completes
  <2> QED BY <1>7, <1>10, <2>2 DEF Balanced, InProgress
<1>12. PICK x : Good(s2, x, {})
  BY <1>7
<1>13. StateOK(store', per', gc', start')
  BY <1>2, <1>7, <1>10, <1>11, <1>12, IdleState, NoDataStart
<1> QED BY <1>2, <1>3, <1>4, <1>13, StateIInv DEF CopyHandedOver

\* A stopped process.
LEMMA StoppedOK ==
  ASSUME IInv, NEW p, Stopped(p), FilesOK(p), p.rewrite = "idle",
         gc' \in [holds : Int, held : BOOLEAN], ~gc'.held, gc'.holds = 0
  PROVE  IInv' /\ CopyHandedOver
<1>1. /\ store' = EmptyStore(FALSE) /\ per' = p /\ start' = NoData /\ up' = FALSE
      /\ restarts' = restarts + 1 /\ UNCHANGED <<now, purged>>
  BY DEF Stopped
<1> DEFINE x == ContextOf(EmptyStore(FALSE), NoData)
<1>2. x.job = "none" /\ x.started_at = 0 /\ x.loading = FALSE
  BY DEF ContextOf, EmptyStore
<1> HIDE DEF x
<1>3. Good(store', x, {}) /\ store'.out = <<>> /\ store'.job = "none"
  BY <1>1, <1>2, EmptyGood DEF EmptyStore
<1>4. Balanced(store', per', gc')
  <2>1. ~InProgress(per') /\ store'.job = "none"
    BY <1>1, <1>3 DEF InProgress
  <2>2. gc'.holds = (IF store'.job # "none" THEN 1 ELSE 0) + (IF gc'.held THEN 1 ELSE 0)
    BY <2>1
  <2> QED BY <2>1, <2>2, Zenon DEF Balanced
<1>5. StateOK(store', per', gc', start')
  BY <1>1, <1>3, <1>4, NoDataStart DEF StateOK, x
<1>6. ClockInv'
  <2>1. up' \in BOOLEAN
    BY <1>1, Zenon
  <2>2. now' \in Nat /\ restarts' \in Nat /\ purged' \subseteq Keys
    BY <1>1 DEF IInv, ClockInv
  <2> QED BY <2>1, <2>2, Zenon DEF ClockInv
<1> QED BY <1>1, <1>3, <1>5, <1>6, StateIInv DEF CopyHandedOver

\* A shutdown.
LEMMA CloseStep ==
  ASSUME IInv, Close
  PROVE  IInv' /\ CopyHandedOver
<1> DEFINE a == IF store.job # "none" /\ per.rewrite = "copying" THEN Forget(per) ELSE per
           g == IF store.job # "none" THEN [gc EXCEPT !.holds = gc.holds - 1] ELSE gc
           e == EmptyStore(FALSE)
<1>1. PICK outcome \in {"written", "failed"} :
        LET w == IF a.rewrite = "writing" THEN [a EXCEPT !.rewrite = outcome] ELSE a
            p == Poll(w, now)
        IN  Stopped(p) /\ gc' = ReleaseGc(g, p)
  BY DEF Close
<1> DEFINE w == IF a.rewrite = "writing" THEN [a EXCEPT !.rewrite = outcome] ELSE a
           p == Poll(w, now)
<1>2. StateOK(store, per, gc, start)
  BY IInvState
<1>3. FilesOK(a) /\ a.rewrite # "copying"
  <2>1. CASE store.job # "none" /\ per.rewrite = "copying"
    BY <1>2, <2>1, ForgetOK DEF StateOK
  <2>2. CASE ~(store.job # "none" /\ per.rewrite = "copying")
    BY <1>2, <2>2 DEF StateOK
  <2> QED BY <2>1, <2>2
<1>4. g \in [holds : Int, held : BOOLEAN] /\ (g.held <=> InProgress(per))
      /\ g.holds = (IF g.held THEN 1 ELSE 0)
  BY <1>2 DEF StateOK, Balanced
<1> HIDE DEF a, g
<1>5. FilesOK(w) /\ w.rewrite \in {"idle", "written", "failed"}
  <2>1. CASE a.rewrite = "writing"
    BY <1>3, <2>1, OutcomeOK DEF RewriteStates
  <2>2. CASE a.rewrite # "writing"
    BY <1>3, <2>2 DEF FilesOK, Files, RewriteStates
  <2> QED BY <2>1, <2>2
<1>6. Stopped(p) /\ gc' = ReleaseGc(g, p)
  BY <1>1
<1> HIDE DEF w
<1>7. FilesOK(p) /\ p.rewrite = "idle"
  BY <1>5, PollOK
<1> HIDE DEF p
<1>8. gc' \in [holds : Int, held : BOOLEAN] /\ ~gc'.held /\ gc'.holds = 0
  BY <1>4, <1>6, <1>7 DEF ReleaseGc, InProgress
<1> QED BY <1>6, <1>7, <1>8, StoppedOK

\* A crash.
LEMMA CrashStep ==
  ASSUME IInv, Crash
  PROVE  IInv' /\ CopyHandedOver
<1>1. FilesOK(Forget(per)) /\ Forget(per).rewrite = "idle"
  BY ForgetOK DEF IInv
<1>2. gc' \in [holds : Int, held : BOOLEAN] /\ ~gc'.held /\ gc'.holds = 0
  BY DEF Crash
<1> QED BY <1>1, <1>2, StoppedOK DEF Crash

\* What recovery rebuilt is well formed once loading ends.
LEMMA LoadedGood ==
  ASSUME NEW d, Good(d, Loading, {}), NEW x, x.job = "none", x.started_at = 0, x.loading = FALSE
  PROVE  LET r == [d EXCEPT !.loading = FALSE] IN Good(r, x, {}) /\ r.job = "none"
<1> DEFINE r == [d EXCEPT !.loading = FALSE]
           no == FALSE
<1>1. /\ StoreType(d) /\ Indexed(d) /\ Sized(d, {}) /\ d.started_at = 0 /\ ~d.failed
      /\ d.job = "none"
  BY DEF Good, Loading, Copying
<1>2. r = [d EXCEPT !.loading = no] /\ no \in BOOLEAN /\ (no <=> FALSE)
  OBVIOUS
<1> HIDE DEF no, r
<1>3. StoreType(r)
  BY <1>1, <1>2 DEF StoreType, Stores
<1>4. /\ r.data = d.data /\ r.tracked = d.tracked /\ r.volatile = d.volatile
      /\ r.epoch = d.epoch /\ r.job = d.job /\ r.started_at = d.started_at
      /\ r.failed = d.failed /\ r.loading = no
  BY <1>1, <1>2 DEF StoreType, Stores
<1>5. Indexed(r) /\ Sized(r, {})
  BY <1>1, <1>4 DEF Indexed, Dated, Sized, Present, KeysOf
<1>6. Guarded(r, {}) /\ Copying(r, x)
  BY <1>1, <1>4 DEF Guarded, Copying
<1>7. r.loading = x.loading
  BY <1>4 DEF no
<1>8. Good(r, x, {}) /\ r.job = "none"
  BY <1>1, <1>3, <1>4, <1>5, <1>6, <1>7 DEF Good
<1> QED BY <1>8 DEF r

\* A restart.
LEMMA OpenStep ==
  ASSUME IInv, Open
  PROVE  IInv' /\ CopyHandedOver
<1> DEFINE loaded == [per.disk EXCEPT !.loading = FALSE]
           gone == Stale(loaded, loaded.volatile, now)
           s == PurgeExpired(loaded, now)
           x == [start |-> start, job |-> "none", started_at |-> 0, loading |-> FALSE]
<1>1. PICK V \in Victims(s, {}) :
        store' = Settled(Evict(s, V)) /\ per' = Log(per, Evict(s, V).out, now)
  BY DEF Open
<1>2. /\ ~up /\ ~per.disk.failed /\ up' = TRUE /\ purged' = purged \cup gone
      /\ UNCHANGED <<gc, now, restarts, start>>
  BY DEF Open
<1>3. StateOK(store, per, gc, start)
  BY IInvState
<1>4. store.job = "none" /\ per.rewrite = "idle"
  BY <1>2 DEF IInv, RewriteInv
<1>5. Good(per.disk, Loading, {})
  BY <1>2, <1>3 DEF StateOK, FilesOK, DiskOK
<1>6. x.job = "none" /\ x.started_at = 0 /\ x.loading = FALSE /\ x.start \in [Keys -> Slot]
  BY <1>3 DEF StateOK
<1> HIDE DEF x
<1>7. Good(loaded, x, {}) /\ loaded.job = "none"
  BY <1>5, <1>6, LoadedGood
<1> HIDE DEF loaded
<1>8. gone \in SUBSET Keys /\ {} \in SUBSET Keys
  BY <1>7 DEF Good, StoreType, Stores, Stale
<1>9. Good(s, x, {}) /\ s.job = "none"
  BY <1>6, <1>7, PurgeGood
<1> HIDE DEF gone, s
<1>10. V \in SUBSET Keys
  BY <1>9 DEF Victims, Good, StoreType, Stores
<1> DEFINE r == Evict(s, V)
<1>11. Good(r, x, {}) /\ r.job = "none"
  BY <1>6, <1>8, <1>9, <1>10, ExpireGood DEF Evict
<1> HIDE DEF r
<1>12. r.loading = FALSE /\ r.out \in Seq(Command)
  BY <1>6, <1>11 DEF Good, StoreType, Stores
<1>13. FilesOK(per') /\ per'.rewrite = "idle"
  <2>1. per' = Log(per, r.out, now)
    BY <1>1 DEF r
  <2> QED BY <1>3, <1>4, <1>12, <2>1, LogOK DEF StateOK
<1>14. Balanced(r, per', gc')
  BY <1>2, <1>3, <1>4, <1>11, <1>13 DEF StateOK, Balanced, InProgress
<1>15. /\ start' \in [Keys -> Slot]
       /\ \A k \in Keys : start'[k].kind = "list" => start'[k].n > 0
  BY <1>2, <1>3 DEF StateOK
<1>16. StateOK(store', per', gc', start')
  <2>1. store' = Settled(r)
    BY <1>1 DEF r
  <2> QED BY <1>11, <1>12, <1>13, <1>14, <1>15, <2>1, IdleState
<1>17. ClockInv'
  <2>1. up' \in BOOLEAN
    BY <1>2, Zenon
  <2>2. now' \in Nat /\ restarts' \in Nat /\ purged' \subseteq Keys
    BY <1>2, <1>8 DEF IInv, ClockInv
  <2> QED BY <2>1, <2>2, Zenon DEF ClockInv
<1>18. up'
  BY <1>2, Zenon
<1> QED BY <1>4, <1>16, <1>17, <1>18, StateIInv DEF CopyHandedOver

\* The clock.
LEMMA TickStep ==
  ASSUME IInv, Tick
  PROVE  IInv' /\ CopyHandedOver
<1>1. UNCHANGED <<store, per, gc, up, restarts, start, purged>> /\ now' = now + 1
  BY DEF Tick
<1>2. StateOK(store', per', gc', start')
  BY <1>1, IInvState
<1>3. ClockInv'
  BY <1>1 DEF IInv, ClockInv
<1>4. up' \/ (store'.job = "none" /\ per'.rewrite = "idle")
  BY <1>1 DEF IInv, RewriteInv
<1> QED BY <1>1, <1>2, <1>3, <1>4, StateIInv DEF CopyHandedOver

-----------------------------------------------------------------------------
(* The theorems.                                                            *)

\* The invariant holds of a process that starts on an empty data directory.
LEMMA InitIInv == Init => IInv
<1> SUFFICES ASSUME Init PROVE IInv
  OBVIOUS
<1> DEFINE disk == EmptyStore(TRUE)
           empty == <<>>
<1>1. Good(store, Context, {}) /\ store.out = <<>> /\ store.job = "none"
  <2>1. store = EmptyStore(FALSE) /\ FALSE \in BOOLEAN
    BY DEF Init
  <2>2. store.job = "none" /\ store.started_at = 0
    BY <2>1 DEF EmptyStore
  <2>3. Context.job = "none" /\ Context.started_at = 0 /\ Context.loading = FALSE
    BY <2>2 DEF Context
  <2> QED BY <2>1, <2>2, <2>3, EmptyGood
<1>2. DiskOK(disk)
  <2>1. Loading.job = "none" /\ Loading.started_at = 0 /\ Loading.loading = TRUE
        /\ TRUE \in BOOLEAN
    BY DEF Loading
  <2>2. Good(disk, Loading, {})
    BY <2>1, EmptyGood
  <2> QED BY <2>2, LoadingDisk
<1>3. per = [disk |-> disk, tail |-> empty, rewrite |-> "idle", copy |-> NoRecords]
      /\ empty \in Seq(Command)
  BY DEF Init
<1>4. FilesOK(per) /\ per.rewrite = "idle"
  <2> HIDE DEF disk, empty
  <2>1. disk \in Stores /\ NoRecords \in [Keys -> Seq(Record)]
    BY <1>2, NoRecordsLoadable DEF DiskOK, StoreType, Loadable
  <2>2. per \in Files /\ per.disk = disk /\ per.copy = NoRecords /\ per.rewrite = "idle"
    BY <1>3, <2>1 DEF Files, RewriteStates
  <2> QED BY <1>2, <2>2, NoRecordsLoadable DEF FilesOK
<1>5. gc \in [holds : Int, held : BOOLEAN] /\ ~gc.held /\ gc.holds = 0
  BY DEF Init
<1>6. GcBalanced
  <2>1. gc.held \in BOOLEAN /\ InProgress(per) \in BOOLEAN /\ ~InProgress(per)
    BY <1>4, <1>5 DEF InProgress
  <2>2. gc.held = InProgress(per)
    BY <1>5, <2>1, Zenon
  <2>3. gc.holds = (IF store.job # "none" THEN 1 ELSE 0) + (IF gc.held THEN 1 ELSE 0)
    BY <1>1, <1>5
  <2> QED BY <2>2, <2>3, Zenon DEF GcBalanced
<1>7. ClockInv
  <2>1. up \in BOOLEAN
    BY Zenon DEF Init
  <2>2. now \in Nat /\ restarts \in Nat /\ purged \subseteq Keys
    BY DEF Init
  <2> QED BY <2>1, <2>2, Zenon DEF ClockInv
<1>8. StoreInv /\ StartInv /\ RewriteInv
  BY <1>1, <1>4, NoDataStart DEF StoreInv, StartInv, RewriteInv, Init
<1> QED BY <1>4, <1>5, <1>6, <1>7, <1>8 DEF IInv

\* Every step keeps the invariant and hands over an exact copy, if any.
LEMMA NextIInv == IInv /\ [Next]_vars => IInv' /\ [CopyHandedOver]_vars
<1> SUFFICES ASSUME IInv, [Next]_vars PROVE IInv' /\ [CopyHandedOver]_vars
  OBVIOUS
<1>1. CASE UNCHANGED vars
  BY <1>1 DEF vars, IInv, StoreInv, StartInv, RewriteInv, GcBalanced, ClockInv, Context
<1>2. CASE Next
  BY <1>2, CommandStep, BgRewriteStep, ResyncStep, StepSnapshotStep, WriterDoneStep,
     CronStep, SaveStep, CloseStep, CrashStep, OpenStep, TickStep DEF Next
<1> QED BY <1>1, <1>2

\* The invariant gives the checked properties.
LEMMA IInvImplies == IInv => TypeOK /\ IndexesAgree /\ PointInTime /\ GcBalanced
<1> SUFFICES ASSUME IInv PROVE TypeOK /\ IndexesAgree /\ PointInTime /\ GcBalanced
  OBVIOUS
<1>1. /\ Good(store, Context, {}) /\ store.out = <<>> /\ Context.loading = FALSE
      /\ Context.start = start /\ Context.job = store.job
  BY DEF IInv, StoreInv, Context
<1>2. TypeOK
  <2>1. store \in Stores /\ ~store.loading /\ ~store.failed
    BY <1>1 DEF Good, StoreType
  <2>2. per \in Files /\ per.disk.loading /\ per.disk.job = "none"
    BY DEF IInv, FilesOK, DiskOK
  <2>3. start \in [Keys -> Slot] /\ gc \in [holds : Int, held : BOOLEAN]
    BY DEF IInv, StartInv
  <2> QED BY <1>1, <2>1, <2>2, <2>3 DEF TypeOK, IInv, ClockInv
<1>3. IndexesAgree
  BY <1>1 DEF Good, Indexed, Sized, KeysOf, IndexesAgree
<1>4. PointInTime
  BY <1>1 DEF Good, Copying, PointInTime
<1> QED BY <1>2, <1>3, <1>4 DEF IInv

\* The inductive invariant holds in every reachable state.
LEMMA AlwaysIInv == Spec => []IInv
BY InitIInv, NextIInv, PTL DEF Spec

\* Type correctness of the running store, of the store that recovery from the files
\* would build, and of what the files hold, for any keyspace, limits and sample size.
THEOREM TypeCorrect == Spec => []TypeOK
BY AlwaysIInv, IInvImplies, PTL

\* After every handler the eviction index holds exactly the stored keys, the TTL
\* index exactly those with a deadline, sizes are current and no collection is
\* empty (the invariants of the module docstring of store.py).
THEOREM IndexesCorrect == Spec => []IndexesAgree
BY AlwaysIInv, IInvImplies, PTL

\* While a snapshot is copied in slices, every key of the keyspace it began on is
\* either still to come, unchanged, or recorded once with the value it had then
\* (SnapshotJob and snapshot_barrier), whatever commands run between the slices.
THEOREM SnapshotIsPointInTime == Spec => []PointInTime
BY AlwaysIInv, IInvImplies, PTL

\* Every hold on the garbage collector belongs to a running copy or to a rewrite in
\* progress (hold and release of gcpolicy.py, _release_gc of engine.py).
THEOREM GcHoldsBalanced == Spec => []GcBalanced
BY AlwaysIInv, IInvImplies, PTL

\* The copy handed to the snapshot writer at the end of a rewrite's copying phase is
\* the keyspace that was live when the AOF was switched (begin_snapshot, step).
THEOREM CopyIsExact == Spec => CopyExact
BY AlwaysIInv, NextIInv, PTL DEF Spec, CopyExact
=============================================================================

---------------------------- MODULE EngineLemmas ----------------------------
(***************************************************************************)
(* The inductive invariant of module Engine, and lemmas about the parts    *)
(* its actions are made of: replaying the log, the operations on the       *)
(* files, the end of a handler, the start of a copy.                       *)
(***************************************************************************)
EXTENDS Engine, CommandProofs

-----------------------------------------------------------------------------
(* Replaying the log.                                                       *)

\* The store that recovery builds: well formed, or aborted by a failed record.
DiskOK(d) ==
  /\ StoreType(d) /\ d.loading /\ d.job = "none"
  /\ ~d.failed => Good(d, Loading, {})

ReplayStep(s, effects, t, f, i) ==
  IF i = 0 THEN s ELSE Apply(f[i - 1], effects[i], t)

\* f is the sequence of stores that replaying the first n effects goes through.
IsReplay(s, effects, t, n, f) == f = [i \in 0 .. n |-> ReplayStep(s, effects, t, f, i)]

\* A well-formed loading store is what recovery may build.
LEMMA LoadingDisk ==
  ASSUME NEW d, Good(d, Loading, {})
  PROVE  DiskOK(d)
BY DEF Good, DiskOK, Copying, Loading

\* Replaying one record keeps it so.
LEMMA ApplyDisk ==
  ASSUME NEW d, NEW c \in Command, NEW t, DiskOK(d)
  PROVE  DiskOK(Apply(d, c, t))
<1> DEFINE f == [d EXCEPT !.failed = TRUE]
<1>1. DiskOK(f)
  <2>1. StoreType(d)
    BY DEF DiskOK
  <2>2. StoreType(f) /\ f.failed /\ f.loading = d.loading /\ f.job = d.job
    BY <2>1 DEF StoreType, Stores
  <2> QED BY <2>2 DEF DiskOK
<1> HIDE DEF f
<1>2. CASE d.failed
  BY <1>1, <1>2 DEF Apply, f
<1>3. CASE ~d.failed
  <2>1. Good(Apply(d, c, t), Loading, {}) \/ Apply(d, c, t) = f
    BY <1>3, ApplyGood DEF DiskOK, f
  <2> QED BY <1>1, <2>1, LoadingDisk
<1> QED BY <1>2, <1>3

\* The recursion of Replay has a solution on every prefix of the effects.
LEMMA ReplaySolution ==
  ASSUME NEW s, NEW effects, NEW t, NEW n \in Nat
  PROVE  \E f : IsReplay(s, effects, t, n, f)
<1> USE DEF IsReplay
<1> DEFINE Solves(m, f) == IsReplay(s, effects, t, m, f)
           Bad == {m \in Nat : ~ \E f : Solves(m, f)}
<1> SUFFICES ASSUME Bad # {} PROVE FALSE
  OBVIOUS
<1>1. Bad \subseteq Nat
  OBVIOUS
<1>2. PICK m \in Bad : \A y \in Bad : m <= y
  <2> HIDE DEF Bad
  <2> QED BY <1>1, LeastNat
<1>3. CASE m = 0
  <2> DEFINE f == [i \in 0 .. 0 |-> s]
  <2>1. Solves(0, f)
    BY DEF ReplayStep
  <2> QED BY <1>2, <1>3, <2>1
<1>4. CASE m # 0
  <2>1. m - 1 \in Nat /\ m - 1 \notin Bad
    BY <1>2, <1>4
  <2>2. PICK h : Solves(m - 1, h)
    BY <2>1
  <2> DEFINE f == [i \in 0 .. m |-> ReplayStep(s, effects, t, h, i)]
  <2>3. ASSUME NEW i \in 0 .. (m - 1) PROVE f[i] = h[i]
    BY <2>1, <2>2
  <2>4. ASSUME NEW i \in 0 .. m
        PROVE  ReplayStep(s, effects, t, h, i) = ReplayStep(s, effects, t, f, i)
    <3>1. CASE i = 0
      BY <3>1 DEF ReplayStep
    <3>2. CASE i # 0
      <4>1. i - 1 \in 0 .. (m - 1)
        BY <2>1, <3>2
      <4>2. f[i - 1] = h[i - 1]
        BY <2>3, <4>1
      <4> QED BY <3>2, <4>2 DEF ReplayStep
    <3> QED BY <3>1, <3>2
  <2>5. Solves(m, f)
    BY <2>4
  <2> QED BY <1>2, <2>5
<1> QED BY <1>3, <1>4

\* Replaying any effects keeps the store well formed.
LEMMA ReplayDisk ==
  ASSUME NEW d, NEW effects \in Seq(Command), NEW t, DiskOK(d)
  PROVE  DiskOK(Replay(d, effects, t))
<1> DEFINE n == Len(effects)
           Solution(f) == IsReplay(d, effects, t, n, f)
           it == CHOOSE f : Solution(f)
<1>1. n \in Nat
  OBVIOUS
<1>2. \E f : Solution(f)
  BY <1>1, ReplaySolution
<1>3. Solution(it)
  BY <1>2, Zenon
<1>4. Replay(d, effects, t) = it[n]
  BY DEF Replay, ReplayStep, IsReplay
<1> HIDE DEF it
<1> DEFINE Bad == {m \in 0 .. n : ~DiskOK(it[m])}
<1> SUFFICES ASSUME Bad # {} PROVE FALSE
  BY <1>1, <1>4
<1>5. Bad \subseteq Nat
  BY <1>1
<1>6. PICK m \in Bad : \A y \in Bad : m <= y
  <2> HIDE DEF Bad
  <2> QED BY <1>5, LeastNat
<1>7. m \in 0 .. n /\ ~DiskOK(it[m]) /\ it[m] = ReplayStep(d, effects, t, it, m)
  BY <1>3, <1>6 DEF IsReplay
<1>8. CASE m = 0
  BY <1>7, <1>8 DEF ReplayStep
<1>9. CASE m # 0
  <2>1. m - 1 \in 0 .. n /\ m - 1 \notin Bad /\ m \in 1 .. n
    BY <1>1, <1>6, <1>7, <1>9
  <2>2. DiskOK(it[m - 1]) /\ effects[m] \in Command
    BY <2>1
  <2>3. it[m] = Apply(it[m - 1], effects[m], t)
    BY <1>7, <1>9 DEF ReplayStep
  <2> QED BY <1>7, <2>2, <2>3, ApplyDisk
<1> QED BY <1>8, <1>9

-----------------------------------------------------------------------------
(* The inductive invariant.                                                 *)

\* The context in which the next handler begins.
Context == [start |-> start, job |-> store.job, started_at |-> store.started_at,
            loading |-> FALSE]

\* The store is well formed; a running copy is in progress.
StoreInv == Good(store, Context, {}) /\ store.out = <<>>

\* The keyspace a running copy began on was well formed.
StartInv ==
  /\ start \in [Keys -> Slot]
  /\ \A k \in Keys : start[k].kind = "list" => start[k].n > 0

\* The files can be recovered from, the copy can be loaded.
FilesOK(p) == p \in Files /\ DiskOK(p.disk) /\ Loadable(p.copy)

\* The rewrite waits for a copy exactly while the store is making one for it, and
\* a process that is down does neither.
RewriteInv ==
  /\ per.rewrite = "copying" <=> store.job = "rewrite"
  /\ ~up => store.job = "none" /\ per.rewrite = "idle"

ClockInv ==
  now \in Nat /\ up \in BOOLEAN /\ restarts \in Nat /\ purged \subseteq Keys

IInv ==
  /\ StoreInv /\ StartInv /\ FilesOK(per) /\ RewriteInv
  /\ gc \in [holds : Int, held : BOOLEAN] /\ GcBalanced
  /\ ClockInv

-----------------------------------------------------------------------------
(* The operations on the files.                                             *)

\* An empty copy can be loaded.
LEMMA NoRecordsLoadable == Loadable(NoRecords)
BY DEF Loadable, NoRecords

\* Ending a rewrite.
LEMMA ForgetOK ==
  ASSUME NEW p, FilesOK(p)
  PROVE  /\ FilesOK(Forget(p)) /\ Forget(p).rewrite = "idle" /\ Forget(p).disk = p.disk
<1> DEFINE e == <<>>
           r == Forget(p)
<1>1. e \in Seq(Command) /\ NoRecords \in [Keys -> Seq(Record)] /\ Loadable(NoRecords)
      /\ "idle" \in RewriteStates
  BY NoRecordsLoadable DEF Loadable, RewriteStates
<1>2. r = [p EXCEPT !.rewrite = "idle", !.tail = e, !.copy = NoRecords]
  BY DEF Forget
<1> HIDE DEF e, r
<1>3. r \in Files /\ r.rewrite = "idle" /\ r.disk = p.disk /\ r.copy = NoRecords
  BY <1>1, <1>2 DEF FilesOK, Files
<1>4. FilesOK(r)
  BY <1>1, <1>3 DEF FilesOK
<1> QED BY <1>3, <1>4 DEF r

\* poll leaves no finished rewrite behind.
LEMMA PollOK ==
  ASSUME NEW p, NEW t, FilesOK(p)
  PROVE  /\ FilesOK(Poll(p, t))
         /\ p.rewrite \in {"written", "failed"} => Poll(p, t).rewrite = "idle"
         /\ p.rewrite \notin {"written", "failed"} => Poll(p, t) = p
<1>1. CASE p.rewrite = "written"
  <2> DEFINE l == LoadRecords(p.copy)
             d == Replay(l, p.tail, t)
             f == Forget(p)
             r == [f EXCEPT !.disk = d]
  <2>1. Poll(p, t) = r
    BY <1>1 DEF Poll
  <2>2. DiskOK(l)
    BY LoadGood, LoadingDisk DEF FilesOK
  <2>3. p.tail \in Seq(Command)
    BY DEF FilesOK, Files
  <2> HIDE DEF l
  <2>4. DiskOK(d)
    BY <2>2, <2>3, ReplayDisk
  <2>5. FilesOK(f) /\ f.rewrite = "idle"
    BY ForgetOK
  <2> HIDE DEF d, f
  <2>6. d \in Stores
    BY <2>4 DEF DiskOK, StoreType
  <2>7. r \in Files /\ r.rewrite = "idle" /\ r.disk = d /\ r.copy = f.copy
    BY <2>5, <2>6 DEF FilesOK, Files
  <2> HIDE DEF r
  <2> QED BY <1>1, <2>1, <2>4, <2>5, <2>7 DEF FilesOK
<1>2. CASE p.rewrite = "failed"
  BY <1>2, ForgetOK DEF Poll
<1>3. CASE p.rewrite \notin {"written", "failed"}
  BY <1>3 DEF Poll
<1> QED BY <1>1, <1>2, <1>3

\* Logging effects.
LEMMA LogOK ==
  ASSUME NEW p, NEW effects \in Seq(Command), NEW t, FilesOK(p)
  PROVE  LET r == Log(p, effects, t) IN
         FilesOK(r) /\ r.rewrite = p.rewrite /\ r.copy = p.copy
<1> DEFINE d == Replay(p.disk, effects, t)
           tail == IF InProgress(p) THEN p.tail \o effects ELSE p.tail
           r == Log(p, effects, t)
<1>1. r = [p EXCEPT !.disk = d, !.tail = tail]
  BY DEF Log
<1>2. DiskOK(d)
  BY ReplayDisk DEF FilesOK
<1>3. tail \in Seq(Command)
  BY DEF FilesOK, Files
<1> HIDE DEF d, tail, r
<1>4. d \in Stores
  BY <1>2 DEF DiskOK, StoreType
<1>5. r \in Files /\ r.rewrite = p.rewrite /\ r.disk = d /\ r.copy = p.copy
  BY <1>1, <1>3, <1>4 DEF FilesOK, Files
<1>6. FilesOK(r)
  BY <1>2, <1>5 DEF FilesOK
<1> QED BY <1>5, <1>6 DEF r

\* Handing a copy over.
LEMMA FinishCopyOK ==
  ASSUME NEW p, FilesOK(p), NEW records, Loadable(records)
  PROVE  LET r == FinishCopy(p, records) IN
         FilesOK(r) /\ r.rewrite = "writing" /\ r.copy = records
<1> DEFINE r == FinishCopy(p, records)
<1>1. r = [p EXCEPT !.rewrite = "writing", !.copy = records]
  BY DEF FinishCopy
<1> HIDE DEF r
<1>2. r \in Files /\ r.rewrite = "writing" /\ r.disk = p.disk /\ r.copy = records
  BY <1>1 DEF FilesOK, Files, Loadable, RewriteStates
<1>3. FilesOK(r)
  BY <1>2 DEF FilesOK
<1> QED BY <1>2, <1>3 DEF r

\* The background job changes state; the files do not.
LEMMA OutcomeOK ==
  ASSUME NEW p, FilesOK(p), NEW state \in RewriteStates
  PROVE  LET r == [p EXCEPT !.rewrite = state] IN FilesOK(r) /\ r.rewrite = state
<1> DEFINE r == [p EXCEPT !.rewrite = state]
<1>1. r \in Files /\ r.disk = p.disk /\ r.copy = p.copy /\ r.rewrite = state
  BY DEF FilesOK, Files
<1> HIDE DEF r
<1>2. FilesOK(r)
  BY <1>1 DEF FilesOK
<1> QED BY <1>1, <1>2 DEF r

\* Opening the rewrite's AOF.
LEMMA TailOK ==
  ASSUME NEW p, FilesOK(p), NEW state \in RewriteStates
  PROVE  LET r == [p EXCEPT !.rewrite = state, !.tail = <<>>] IN
         FilesOK(r) /\ r.rewrite = state
<1> DEFINE e == <<>>
           r == [p EXCEPT !.rewrite = state, !.tail = e]
<1>1. e \in Seq(Command)
  OBVIOUS
<1> HIDE DEF e
<1>2. r \in Files /\ r.disk = p.disk /\ r.copy = p.copy /\ r.rewrite = state
  BY <1>1 DEF FilesOK, Files
<1> HIDE DEF r
<1>3. FilesOK(r)
  BY <1>2 DEF FilesOK
<1> QED BY <1>2, <1>3 DEF r, e

\* What is due of a well-formed keyspace can be loaded, and so can a copy of it
\* made in one go.
LEMMA DueLoadable ==
  ASSUME NEW d \in [Keys -> Slot], \A k \in Keys : d[k].kind = "list" => d[k].n > 0,
         NEW t, NEW records, records \in [Keys -> Seq(Record)],
         \A k \in Keys : records[k] = Due(d, t, k)
  PROVE  Loadable(records)
<1> SUFFICES ASSUME NEW k \in Keys, records[k] # <<>>
             PROVE  LET last == records[k][Len(records[k])]
                    IN  last.kind = "list" => last.n > 0
  BY DEF Loadable
<1>1. records[k] = <<RecordOf(d[k])>>
  BY DEF Due
<1>2. records[k][Len(records[k])] = RecordOf(d[k])
  BY <1>1
<1>3. RecordOf(d[k]).kind = d[k].kind /\ RecordOf(d[k]).n = d[k].n
  BY DEF RecordOf
<1> QED BY <1>2, <1>3

\* A finished copy is a sequence of records that load_record accepts.
LEMMA SnapshotLoadable ==
  ASSUME NEW s, NEW x, Good(s, x, {}), NEW t
  PROVE  Loadable(Snapshot(s, t))
<1> DEFINE c == Snapshot(s, t)
           d == s.data
<1>1. d \in [Keys -> Slot] /\ \A k \in Keys : d[k].kind = "list" => d[k].n > 0
  BY DEF Good, StoreType, Stores, Sized, Present
<1>2. \A k \in Keys : c[k] = Due(d, t, k)
  BY DEF Snapshot, Due, Present
<1>3. ASSUME NEW k \in Keys PROVE Due(d, t, k) \in Seq(Record)
  <2>1. d[k].kind # "none" => RecordOf(d[k]) \in Record
    BY <1>1 DEF RecordOf, Record, Slot
  <2> HIDE DEF d
  <2> QED BY <2>1 DEF Due
<1>4. c \in [Keys -> Seq(Record)]
  BY <1>2, <1>3 DEF Snapshot
<1> HIDE DEF c, d
<1>5. Loadable(c)
  BY <1>1, <1>2, <1>4, DueLoadable
<1> QED BY <1>5 DEF c

-----------------------------------------------------------------------------
(* The end of a handler.                                                    *)

\* Clearing what a handler leaves between two handlers.
LEMMA SettledGood ==
  ASSUME NEW s, NEW x, Good(s, x, {}), NEW y, y.job = s.job,
         y.started_at = s.started_at, y.loading = s.loading,
         s.job # "none" => y.start = x.start
  PROVE  LET r == Settled(s) IN
         /\ Good(r, y, {}) /\ r.out = <<>> /\ r.job = s.job /\ r.started_at = s.started_at
         /\ r.data = s.data /\ r.loading = s.loading
<1> DEFINE e == <<>>
           c == IF s.job = "none" THEN NoRecords ELSE s.records
           r == Settled(s)
<1>1. r = [s EXCEPT !.out = e, !.records = c]
  BY DEF Settled
<1>2. e \in Seq(Command) /\ c \in [Keys -> Seq(Record)] /\ StoreType(s)
  BY DEF Good, StoreType, Stores, NoRecords
<1>3. s.job # "none" => c = s.records
  OBVIOUS
<1>4. e = <<>>
  OBVIOUS
<1> HIDE DEF e, c, r
<1>5. StoreType(r)
  BY <1>1, <1>2 DEF StoreType, Stores
<1>6. /\ r.data = s.data /\ r.volatile = s.volatile /\ r.tracked = s.tracked
      /\ r.job = s.job /\ r.pending = s.pending /\ r.records = c /\ r.out = e
      /\ SameFrame(r, s)
  BY <1>1, <1>2 DEF StoreType, Stores, SameFrame
<1>7. \A k \in Keys : Present(r, k) <=> Present(s, k)
  BY <1>6 DEF Present
<1>8. Indexed(r) /\ Sized(r, {}) /\ Guarded(r, {})
  BY <1>6, <1>7 DEF Good, Indexed, Sized, Guarded, Uncopied, KeysOf, Dated, SameFrame
<1>9. Copying(r, y)
  <2>1. CASE s.job = "none"
    BY <1>6, <2>1 DEF Copying
  <2>2. CASE s.job # "none"
    <3>1. CopyInProgress(s, x.start)
      BY <2>2 DEF Good, Copying
    <3>2. Uncopied(r, Keys) = Uncopied(s, Keys) /\ r.records = s.records
          /\ r.started_at = s.started_at
      BY <1>3, <1>6, <1>7, <2>2 DEF Uncopied, SameFrame
    <3>3. CopyInProgress(r, x.start)
      BY <1>6, <3>1, <3>2 DEF CopyInProgress
    <3> QED BY <1>6, <2>2, <3>3 DEF Copying
  <2> QED BY <2>1, <2>2
<1>10. Good(r, y, {})
  BY <1>5, <1>6, <1>8, <1>9 DEF Good, SameFrame
<1> QED BY <1>4, <1>6, <1>10 DEF r, SameFrame

\* The records of a copy completed by a handler: exactly what was due, so loadable.
LEMMA CompletedCopy ==
  ASSUME IInv, NEW s, Good(s, Context, {}), Completes(store, s)
  PROVE  /\ s.records = [k \in Keys |-> Due(start, store.started_at, k)]
         /\ Loadable(s.records)
<1>1. /\ Context.start = start /\ Context.job = store.job
      /\ Context.started_at = store.started_at
  BY DEF Context
<1>2. s.records \in [Keys -> Seq(Record)]
  BY DEF Good, StoreType, Stores
<1>3. \A k \in Keys : s.records[k] = Due(start, store.started_at, k)
  BY <1>1 DEF Completes, Good, Copying
<1>4. Loadable(s.records)
  BY <1>2, <1>3, DueLoadable DEF IInv, StartInv
<1> QED BY <1>2, <1>3, <1>4

\* A handler that leaves a well-formed store preserves the invariant.
LEMMA BecomesInv ==
  ASSUME IInv, up, NEW s, Good(s, Context, {}), Becomes(s)
  PROVE  /\ IInv'
         /\ store.job = "rewrite" /\ store'.job = "none" =>
              per'.copy = [k \in Keys |-> Due(start, store.started_at, k)]
<1> DEFINE p == OnDonePer(per, store, s)
<1>1. /\ Context.start = start /\ Context.job = store.job
      /\ Context.started_at = store.started_at /\ Context.loading = FALSE
  BY DEF Context
<1>2. /\ s.out \in Seq(Command) /\ s.job \in {store.job, "none"}
      /\ s.started_at = store.started_at /\ s.loading = FALSE
  BY <1>1 DEF Good, StoreType, Stores, Copying
<1>3. /\ store' = Settled(s) /\ per' = Log(p, s.out, now)
      /\ gc' = OnDoneGc(gc, store, s)
      /\ start' = (IF s.job = "none" THEN NoData ELSE start)
      /\ UNCHANGED <<now, up, restarts, purged>>
  BY DEF Becomes
<1>4. NoData \in [Keys -> Slot] /\ \A k \in Keys : NoData[k].kind # "list"
  BY DEF NoData, Absent, Slot, NoTTL
<1>5. StartInv'
  BY <1>3, <1>4 DEF IInv, StartInv
<1>6. /\ FilesOK(p)
      /\ Completes(store, s) /\ store.job = "rewrite" =>
           p.rewrite = "writing" /\ p.copy = s.records
      /\ ~(Completes(store, s) /\ store.job = "rewrite") => p = per
  <2>1. CASE Completes(store, s) /\ store.job = "rewrite"
    <3>1. p = FinishCopy(per, s.records)
      BY <2>1 DEF OnDonePer
    <3>2. FilesOK(per) /\ Loadable(s.records)
      BY <2>1, CompletedCopy DEF IInv
    <3> QED BY <2>1, <3>1, <3>2, FinishCopyOK
  <2>2. CASE ~(Completes(store, s) /\ store.job = "rewrite")
    BY <2>2 DEF OnDonePer, IInv
  <2> QED BY <2>1, <2>2
<1> HIDE DEF p
<1>7. FilesOK(per') /\ per'.rewrite = p.rewrite /\ per'.copy = p.copy
  BY <1>2, <1>3, <1>6, LogOK
<1>8. store'.job = s.job /\ store'.started_at = s.started_at
  <2> DEFINE y == [start |-> start, job |-> s.job, started_at |-> s.started_at,
                   loading |-> FALSE]
  <2>1. /\ y.job = s.job /\ y.started_at = s.started_at /\ y.loading = s.loading
        /\ y.start = Context.start
    BY <1>1, <1>2
  <2> HIDE DEF y
  <2> QED BY <1>3, <2>1, SettledGood
<1>9. StoreInv'
  <2>1. /\ Context'.job = s.job /\ Context'.started_at = s.started_at
        /\ Context'.loading = s.loading
        /\ s.job # "none" => Context'.start = Context.start
    BY <1>1, <1>2, <1>3, <1>8 DEF Context
  <2>2. Good(store', Context', {}) /\ store'.out = <<>>
    BY <1>3, <2>1, SettledGood
  <2> QED BY <2>2 DEF StoreInv
<1>10. Completes(store, s) <=> store.job # "none" /\ store'.job = "none"
  BY <1>8 DEF Completes
<1>11. RewriteInv'
  BY <1>2, <1>3, <1>6, <1>7, <1>8, <1>10 DEF IInv, RewriteInv
<1>12. GcBalanced' /\ gc' \in [holds : Int, held : BOOLEAN]
  <2>1. gc'.held = gc.held /\ gc' \in [holds : Int, held : BOOLEAN]
        /\ gc'.holds = IF Completes(store, s) THEN gc.holds - 1 ELSE gc.holds
    BY <1>3 DEF OnDoneGc, IInv
  <2>2. InProgress(per') <=> InProgress(per)
    BY <1>6, <1>7 DEF InProgress, IInv, RewriteInv
  <2>3. Completes(store, s) \/ (store'.job # "none" <=> store.job # "none")
    BY <1>2, <1>8, <1>10
  <2>4. /\ gc.held = InProgress(per) /\ gc.held \in BOOLEAN /\ gc.holds \in Int
        /\ gc.holds = (IF store.job # "none" THEN 1 ELSE 0) + (IF gc.held THEN 1 ELSE 0)
    BY DEF IInv, GcBalanced
  <2>5. gc'.held = InProgress(per')
    BY <2>1, <2>2, <2>4, Zenon DEF InProgress
  <2>6. gc'.holds = (IF store'.job # "none" THEN 1 ELSE 0) + (IF gc'.held THEN 1 ELSE 0)
    BY <1>10, <2>1, <2>3, <2>4
  <2> QED BY <2>1, <2>5, <2>6 DEF GcBalanced, InProgress
<1>13. ClockInv'
  BY <1>3 DEF IInv, ClockInv
<1>14. store.job = "rewrite" /\ store'.job = "none" =>
         per'.copy = [k \in Keys |-> Due(start, store.started_at, k)]
  BY <1>6, <1>7, <1>10, CompletedCopy
<1> QED BY <1>5, <1>7, <1>9, <1>11, <1>12, <1>13, <1>14 DEF IInv

-----------------------------------------------------------------------------
(* The actions.  Several of them change the store, the files and the holds  *)
(* in turn, so the invariant is first stated of such intermediate states.   *)

ContextOf(s, d) == [start |-> d, job |-> s.job, started_at |-> s.started_at,
                    loading |-> FALSE]

Balanced(s, p, g) ==
  /\ g \in [holds : Int, held : BOOLEAN]
  /\ g.held <=> InProgress(p)
  /\ g.holds = (IF s.job # "none" THEN 1 ELSE 0) + (IF g.held THEN 1 ELSE 0)

StateOK(s, p, g, d) ==
  /\ Good(s, ContextOf(s, d), {}) /\ s.out = <<>>
  /\ d \in [Keys -> Slot] /\ \A k \in Keys : d[k].kind = "list" => d[k].n > 0
  /\ FilesOK(p)
  /\ p.rewrite = "copying" <=> s.job = "rewrite"
  /\ Balanced(s, p, g)

\* The invariant is StateOK of the variables, and what holds of a stopped process.
LEMMA IInvState ==
  ASSUME IInv
  PROVE  StateOK(store, per, gc, start)
<1>1. /\ gc \in [holds : Int, held : BOOLEAN] /\ gc.held = InProgress(per)
      /\ gc.holds = (IF store.job # "none" THEN 1 ELSE 0) + (IF gc.held THEN 1 ELSE 0)
  BY DEF IInv, GcBalanced
<1>2. Balanced(store, per, gc)
  BY <1>1 DEF Balanced, InProgress
<1>3. ContextOf(store, start) = Context
  BY DEF ContextOf, Context
<1> QED BY <1>2, <1>3 DEF IInv, StoreInv, StartInv, RewriteInv, StateOK

\* The inductive invariant, from its conjuncts about the next state.
LEMMA StateIInv ==
  ASSUME StateOK(store', per', gc', start'), ClockInv',
         up' \/ (store'.job = "none" /\ per'.rewrite = "idle")
  PROVE  IInv'
<1>1. ContextOf(store', start') = Context'
  BY DEF ContextOf, Context
<1>2. StoreInv' /\ StartInv' /\ FilesOK(per') /\ RewriteInv'
  BY <1>1 DEF StateOK, StoreInv, StartInv, RewriteInv
<1>3. /\ gc' \in [holds : Int, held : BOOLEAN] /\ (gc'.held <=> InProgress(per'))
      /\ gc'.holds = (IF store'.job # "none" THEN 1 ELSE 0) + (IF gc'.held THEN 1 ELSE 0)
  BY DEF StateOK, Balanced
<1>4. GcBalanced'
  <2>1. gc'.held \in BOOLEAN /\ InProgress(per') \in BOOLEAN
    BY <1>3 DEF InProgress
  <2>2. gc'.held = InProgress(per')
    BY <1>3, <2>1, Zenon
  <2> QED BY <1>3, <2>2 DEF GcBalanced
<1> QED BY <1>2, <1>3, <1>4 DEF IInv

\* Releasing the hold of a rewrite that is over.
LEMMA ReleaseOK ==
  ASSUME NEW s, NEW p, NEW g, NEW q, Balanced(s, p, g),
         InProgress(q) => InProgress(p)
  PROVE  Balanced(s, q, ReleaseGc(g, q))
<1>1. CASE g.held /\ ~InProgress(q)
  <2> DEFINE h == g.holds - 1
             r == [holds |-> h, held |-> FALSE]
  <2>1. ReleaseGc(g, q) = r
    BY <1>1 DEF ReleaseGc
  <2>2. h \in Int /\ h = (IF s.job # "none" THEN 1 ELSE 0)
    BY <1>1 DEF Balanced
  <2> HIDE DEF h
  <2>3. r \in [holds : Int, held : BOOLEAN] /\ ~r.held /\ r.holds = h
    BY <2>2
  <2> HIDE DEF r
  <2>4. Balanced(s, q, r)
    BY <1>1, <2>2, <2>3 DEF Balanced
  <2> QED BY <2>1, <2>4
<1>2. CASE ~(g.held /\ ~InProgress(q))
  <2>1. ReleaseGc(g, q) = g
    BY <1>2 DEF ReleaseGc
  <2>2. g.held <=> InProgress(q)
    BY <1>2 DEF Balanced
  <2>3. Balanced(s, q, g)
    BY <2>2 DEF Balanced
  <2> QED BY <2>1, <2>3
<1> QED BY <1>1, <1>2

\* poll, then the release of the collector.
LEMMA PollState ==
  ASSUME NEW s, NEW p, NEW g, NEW d, StateOK(s, p, g, d), NEW t
  PROVE  LET q == Poll(p, t) IN
         /\ StateOK(s, q, ReleaseGc(g, q), d)
         /\ q.rewrite \notin {"written", "failed"}
         /\ p.rewrite = "copying" => q.rewrite = "copying"
<1> DEFINE q == Poll(p, t)
<1>1. FilesOK(q)
      /\ (p.rewrite \in {"written", "failed"} => q.rewrite = "idle")
      /\ (p.rewrite \notin {"written", "failed"} => q = p)
  BY PollOK DEF StateOK
<1> HIDE DEF q
<1>2. InProgress(q) => InProgress(p)
  BY <1>1 DEF InProgress
<1>3. Balanced(s, q, ReleaseGc(g, q))
  BY <1>2, ReleaseOK DEF StateOK
<1>4. q.rewrite = "copying" <=> p.rewrite = "copying"
  BY <1>1
<1>5. StateOK(s, q, ReleaseGc(g, q), d)
  BY <1>1, <1>3, <1>4 DEF StateOK
<1>6. q.rewrite \notin {"written", "failed"}
  BY <1>1
<1> QED BY <1>4, <1>5, <1>6 DEF q

\* Logging the effects of a handler that leaves the running copy alone.
LEMMA LogState ==
  ASSUME NEW s, NEW p, NEW g, NEW d, StateOK(s, p, g, d), NEW t,
         NEW effects \in Seq(Command)
  PROVE  StateOK(s, Log(p, effects, t), g, d) /\ Log(p, effects, t).rewrite = p.rewrite
<1> DEFINE q == Log(p, effects, t)
<1>1. FilesOK(q) /\ q.rewrite = p.rewrite
  BY LogOK DEF StateOK
<1> HIDE DEF q
<1>2. Balanced(s, q, g)
  BY <1>1 DEF StateOK, Balanced, InProgress
<1>3. StateOK(s, q, g, d)
  BY <1>1, <1>2 DEF StateOK
<1> QED BY <1>1, <1>3 DEF q

\* begin_snapshot: the files of a rewrite wait for the copy it begins.
LEMMA BeginCopyOK ==
  ASSUME NEW s, NEW p, NEW g, NEW d, Good(s, ContextOf(s, d), {}), s.out = <<>>,
         s.job = "none", NEW consumer \in Consumers, now \in Nat,
         FilesOK(p), p.rewrite = "copying" <=> consumer = "rewrite",
         Balanced(s, p, g), BeginCopy(s, p, g, consumer)
  PROVE  StateOK(store', per', gc', start') /\ store'.job = consumer
<1>1. /\ store' = BeginSnapshot(s, consumer, now) /\ per' = p
      /\ gc' = [g EXCEPT !.holds = g.holds + 1] /\ start' = s.data
  BY DEF BeginCopy
<1>2. s.loading = FALSE
  BY DEF Good, ContextOf
<1> DEFINE y == [start |-> s.data, job |-> consumer, started_at |-> now,
                 loading |-> s.loading]
<1>3. Good(store', y, {}) /\ store'.out = <<>> /\ store'.job = consumer
  BY <1>1, BeginSnapshotGood
<1>4. store'.started_at = now
  BY <1>3 DEF Good
<1>5. ContextOf(store', start') = y
  BY <1>1, <1>2, <1>3, <1>4 DEF ContextOf
<1>6. start' \in [Keys -> Slot] /\ \A k \in Keys : start'[k].kind = "list" => start'[k].n > 0
  BY <1>1 DEF Good, StoreType, Stores, Sized, Present
<1>7. consumer # "none"
  BY DEF Consumers
<1>8. Balanced(store', per', gc')
  BY <1>1, <1>3, <1>7 DEF Balanced
<1> QED BY <1>1, <1>3, <1>5, <1>6, <1>8 DEF StateOK

\* start_rewrite, incremental or in one go.
LEMMA StartRewriteOK ==
  ASSUME NEW s, NEW p, NEW g, StateOK(s, p, g, start), now \in Nat,
         ~InProgress(p), StartRewrite(s, p, g)
  PROVE  StateOK(store', per', gc', start') /\ s.job # "rewrite"
<1> DEFINE h == [holds |-> g.holds + 1, held |-> TRUE]
           b == [p EXCEPT !.rewrite = "copying", !.tail = <<>>]
           c == Snapshot(s, now)
           q == FinishCopy(b, c)
<1>1. p.rewrite = "idle" /\ s.job # "rewrite"
  BY DEF InProgress, StateOK
<1>2. FilesOK(b) /\ b.rewrite = "copying"
  BY TailOK DEF StateOK, RewriteStates
<1>3. ASSUME NEW u, InProgress(u)
      PROVE  Balanced(s, u, h)
  <2>1. g.holds \in Int /\ g.holds = (IF s.job # "none" THEN 1 ELSE 0)
    BY DEF StateOK, Balanced
  <2>2. h \in [holds : Int, held : BOOLEAN] /\ h.held /\ h.holds = g.holds + 1
    BY <2>1
  <2> HIDE DEF h
  <2> QED BY <1>3, <2>1, <2>2 DEF Balanced
<1>4. CASE Incremental /\ s.job = "none"
  <2>1. BeginCopy(s, b, h, "rewrite")
    BY <1>4 DEF StartRewrite
  <2> HIDE DEF b, h
  <2>2. InProgress(b) /\ "rewrite" \in Consumers
    BY <1>2 DEF InProgress, Consumers
  <2>3. Balanced(s, b, h)
    BY <1>3, <2>2
  <2> QED BY <1>1, <1>2, <1>4, <2>1, <2>2, <2>3, BeginCopyOK DEF StateOK
<1>5. CASE ~(Incremental /\ s.job = "none")
  <2>1. store' = s /\ per' = q /\ gc' = h /\ start' = start
    BY <1>5 DEF StartRewrite
  <2>2. Loadable(c)
    BY SnapshotLoadable DEF StateOK
  <2> HIDE DEF b, c, h
  <2>3. FilesOK(q) /\ q.rewrite = "writing"
    BY <1>2, <2>2, FinishCopyOK
  <2> HIDE DEF q
  <2>4. Balanced(s, q, h)
    BY <1>3, <2>3 DEF InProgress
  <2> QED BY <1>1, <2>1, <2>3, <2>4 DEF StateOK
<1> QED BY <1>4, <1>5
=============================================================================

---------------------------- MODULE Persistence ----------------------------
(***************************************************************************)
(* The files of a shard node: engine/persistence/manager.py, the AOFWriter *)
(* and replay of aof.py, manifest.py and write_snapshot of snapshot.py.    *)
(*                                                                         *)
(* What the records say is left out: effects are numbered 1, 2, ... in the *)
(* order the engine logs them, a snapshot is the number of the last effect *)
(* it covers, and recovery is right if it finds a prefix of the numbering. *)
(*                                                                         *)
(* The event loop blocks in the file operations of a rewrite; proc.todo is *)
(* what is left of the one in progress, so that a crash, and the threads   *)
(* (the fsync thread of each AOFWriter, the one closing the previous AOF,  *)
(* the snapshot writer), come between any two of its steps.                *)
(*                                                                         *)
(* A killed process leaves what it handed to the OS.  A power failure also *)
(* takes back what was not fsynced.  Both may leave half a record behind.  *)
(***************************************************************************)
EXTENDS Integers, Sequences, FiniteSets, SequencesExt

CONSTANTS
  Fsync,       \* the policy: "always", "everysec" or "no"
  Faults,      \* the calls that may raise OSError
  MaxRecords,  \* bound: effects logged
  MaxGen,      \* bound: AOF generations
  Ends,        \* how a process may end: "closed", "killed", "power"
  MaxEnds      \* bound: times the process ends

ASSUME PersistenceAssumption ==
  /\ Fsync \in {"always", "everysec", "no"}
  /\ Faults \subseteq {"append", "flush", "fsync", "save", "fsync_dir", "snapshot"}
  /\ Ends \subseteq {"closed", "killed", "power"}
  /\ {MaxRecords, MaxGen, MaxEnds} \subseteq Nat /\ MaxGen > 0

VARIABLES
  aofs,      \* generation -> the AOF file
  present,   \* the generations whose AOF file exists
  snaps,     \* generation -> last effect its snapshot file covers
  manifest,  \* manifest.json
  revert,    \* the manifests a power failure may bring back (no fsync_dir yet)
  proc,      \* the Persistence object and its current AOFWriter
  threads,   \* the fsync threads: unsynced, syncing, background_error
  state,     \* "up", or how the process ended: "closed", "killed", "power"
  logged,    \* effects logged so far
  acked,     \* history: effects whose commands have been answered
  ends    \* bound

vars == <<aofs, present, snaps, manifest, revert, proc, threads, state, logged, acked, ends>>

Gens == 1 .. MaxGen
NoGen == 0
NoSnapshot == -1
NotSyncing == -1

\* The records appended to a file, how many of them the OS holds, how many are on
\* the disk for good, and whether half a record follows them.
File == [recs : Seq(Nat), os : Nat, synced : Nat, torn : BOOLEAN]
NoFile == [recs |-> <<>>, os |-> 0, synced |-> 0, torn |-> FALSE]

NoJob == [state |-> "none", gen |-> NoGen, upto |-> 0]

Fresh(m) ==
  [manifest |-> m, writer |-> Last(m.aofs), dirty |-> FALSE, error |-> FALSE, owed |-> FALSE,
   copying |-> NoJob, job |-> NoJob, closing |-> NoGen, todo |-> <<>>]

Idle == [unsynced |-> {}, syncing |-> [g \in Gens |-> NotSyncing], background_error |-> {}]

Up == state = "up"
Ready == Up /\ proc.todo = <<>>
Doing(step) == Up /\ proc.todo # <<>> /\ Head(proc.todo) = step

InProgress == proc.job.state # "none" \/ proc.copying.state # "none"

-----------------------------------------------------------------------------
(* AOFWriter.                                                               *)

\* The ways commit may end, on file f: whether it raised, and what it leaves.
CommitOutcomes(f, dirty) ==
  LET flushed == [f EXCEPT !.os = Len(f.recs)]
      done == IF Fsync = "always" THEN [flushed EXCEPT !.synced = Len(f.recs)] ELSE flushed
  IN  IF ~dirty THEN {[file |-> f, dirty |-> FALSE, ok |-> TRUE]}
      ELSE {[file |-> done, dirty |-> FALSE, ok |-> TRUE]}
           \cup {[file |-> [f EXCEPT !.os = k], dirty |-> TRUE, ok |-> FALSE] :
                   k \in IF "flush" \in Faults THEN f.os .. (Len(f.recs) - 1) ELSE {}}
           \cup {[file |-> flushed, dirty |-> FALSE, ok |-> FALSE] :
                   x \in Faults \cap (IF Fsync = "always" THEN {"fsync"} ELSE {})}

\* _unsynced of generation g, after a commit that handed something to the OS.
MarkUnsynced(g, committed) ==
  [threads EXCEPT !.unsynced =
     IF committed /\ Fsync # "always" THEN threads.unsynced \cup {g} ELSE threads.unsynced]

\* The writers whose fsync thread is running.
Writers == {proc.writer} \cup ({proc.closing} \ {NoGen})

\* _fsync_every_second: os.fsync covers what the OS held when it was called, and
\* perhaps more; _unsynced is cleared when it returns.
FsyncCall(g) ==
  /\ Up /\ Fsync = "everysec" /\ g \in Writers
  /\ g \in threads.unsynced /\ threads.syncing[g] = NotSyncing
  /\ threads' = [threads EXCEPT !.syncing[g] = aofs[g].os]
  /\ UNCHANGED <<aofs, present, snaps, manifest, revert, proc, state, logged, acked, ends>>

FsyncReturn(g) ==
  /\ Up /\ threads.syncing[g] # NotSyncing
  /\ \/ /\ \E k \in threads.syncing[g] .. aofs[g].os : aofs' = [aofs EXCEPT ![g].synced = k]
        /\ threads' = [threads EXCEPT !.syncing[g] = NotSyncing,
                                      !.unsynced = threads.unsynced \ {g}]
     \/ /\ "fsync" \in Faults
        /\ threads' = [threads EXCEPT !.syncing[g] = NotSyncing,
                         !.background_error = threads.background_error \cup {g}]
        /\ UNCHANGED aofs
  /\ UNCHANGED <<present, snaps, manifest, revert, proc, state, logged, acked, ends>>

-----------------------------------------------------------------------------
(* Logging and answering.                                                   *)

\* append: a write that check_writable let through.  proc.owed is the group of
\* commands that ran and wait for their replies; one whose append raises gets its
\* error, the others stay in the group.
AppendRecord ==
  /\ Ready /\ ~proc.error /\ logged < MaxRecords
  /\ \/ /\ aofs' = [aofs EXCEPT ![proc.writer].recs = Append(@, logged + 1)]
        /\ proc' = [proc EXCEPT !.dirty = TRUE, !.owed = TRUE]
        /\ logged' = logged + 1
     \/ /\ "append" \in Faults
        /\ proc' = [proc EXCEPT !.error = TRUE]
        /\ UNCHANGED <<aofs, logged>>
  /\ UNCHANGED <<present, snaps, manifest, revert, threads, state, acked, ends>>

\* commit at the end of a group: if it does not raise, the group is answered; if it
\* does, every command of the group gets the error instead.
Commit ==
  LET failed == proc.writer \in threads.background_error
      answer == IF proc.owed THEN logged ELSE acked
  IN  /\ Ready
      /\ \/ /\ proc.error
            /\ proc' = [proc EXCEPT !.owed = FALSE] /\ acked' = answer
            /\ UNCHANGED <<aofs, threads>>
         \/ /\ ~proc.error /\ failed
            /\ proc' = [proc EXCEPT !.owed = FALSE, !.error = TRUE]
            /\ threads' = [threads EXCEPT !.background_error = @ \ {proc.writer}]
            /\ UNCHANGED <<aofs, acked>>
         \/ /\ ~proc.error /\ ~failed
            /\ \E out \in CommitOutcomes(aofs[proc.writer], proc.dirty) :
                 /\ aofs' = [aofs EXCEPT ![proc.writer] = out.file]
                 /\ proc' = [proc EXCEPT !.owed = FALSE, !.dirty = out.dirty, !.error = ~out.ok]
                 /\ threads' = MarkUnsynced(proc.writer, proc.dirty /\ out.ok)
                 /\ acked' = IF out.ok THEN answer ELSE acked
      /\ UNCHANGED <<present, snaps, manifest, revert, state, logged, ends>>

-----------------------------------------------------------------------------
(* Rewrites.                                                                *)

BeginSteps == <<"commit_old", "save_both", "switch">>
FinishSteps == <<"save_new", "delete">>

\* poll goes on to _finish if the writer is done and the previous AOF is closed.
Finishable == proc.job.state \in {"written", "failed"} /\ proc.closing = NoGen

\* Engine.start_rewrite: finalize a finished job, then begin unless one is running.
StartRewrite ==
  /\ Ready /\ ~proc.error /\ Last(proc.manifest.aofs) < MaxGen
  /\ IF Finishable THEN proc' = [proc EXCEPT !.todo = FinishSteps \o BeginSteps]
     ELSE ~InProgress /\ proc' = [proc EXCEPT !.todo = BeginSteps]
  /\ UNCHANGED <<aofs, present, snaps, manifest, revert, threads, state, logged, acked, ends>>

\* Variant: the old AOF's buffer is left to the thread that closes it.
CommitOldForgotten ==
  /\ Doing("commit_old") /\ proc.closing = NoGen
  /\ proc' = [proc EXCEPT !.dirty = FALSE, !.todo = Tail(@)]
  /\ UNCHANGED <<aofs, present, snaps, manifest, revert, threads, state, logged, acked, ends>>

\* begin_rewrite: _join_closing, then hand the old AOF's buffer to the OS.
CommitOld ==
  /\ Doing("commit_old") /\ proc.closing = NoGen
  /\ \E out \in CommitOutcomes(aofs[proc.writer], proc.dirty) :
       /\ aofs' = [aofs EXCEPT ![proc.writer] = out.file]
       /\ proc' = [proc EXCEPT !.dirty = out.dirty,
                               !.todo = IF out.ok THEN Tail(@) ELSE <<>>]
       /\ threads' = MarkUnsynced(proc.writer, proc.dirty /\ out.ok)
  /\ UNCHANGED <<present, snaps, manifest, revert, state, logged, acked, ends>>

\* Manifest.save up to the rename.
Rename(m) == manifest' = m /\ revert' = revert \cup {manifest}

\* Variant: the rename is never made durable.
FsyncDirForgotten == UNCHANGED revert

\* fsync_dir makes the rename durable; it ignores an OSError.
FsyncDir == revert' = {} \/ ("fsync_dir" \in Faults /\ UNCHANGED revert)

\* Variant: the new AOF replaces the current ones in the manifest.
SaveBothReplaces ==
  LET g == Last(proc.manifest.aofs) + 1
      m == [proc.manifest EXCEPT !.aofs = <<g>>]
  IN  /\ Doing("save_both")
      /\ present' = present \cup {g}
      /\ \/ Rename(m) /\ proc' = [proc EXCEPT !.manifest = m, !.todo = Tail(@)]
         \/ /\ "save" \in Faults
            /\ proc' = [proc EXCEPT !.manifest = m, !.todo = <<>>]
            /\ UNCHANGED <<manifest, revert>>
      /\ UNCHANGED <<aofs, snaps, threads, state, logged, acked, ends>>

\* begin_rewrite: open the new AOF, list it in memory, save the manifest.
SaveBoth ==
  LET g == Last(proc.manifest.aofs) + 1
      m == [proc.manifest EXCEPT !.aofs = Append(@, g)]
  IN  /\ Doing("save_both")
      /\ present' = present \cup {g}
      /\ \/ Rename(m) /\ proc' = [proc EXCEPT !.manifest = m, !.todo = Tail(@)]
         \/ /\ "save" \in Faults
            /\ proc' = [proc EXCEPT !.manifest = m, !.todo = <<>>]
            /\ UNCHANGED <<manifest, revert>>
      /\ UNCHANGED <<aofs, snaps, threads, state, logged, acked, ends>>

\* begin_rewrite after the rename: fsync_dir, then writes go to the new AOF while a
\* thread closes the old one.  The engine's copy is of this moment.
Switch ==
  LET g == Last(proc.manifest.aofs)
  IN  /\ Doing("switch")
      /\ FsyncDir
      /\ proc' = [proc EXCEPT !.writer = g, !.closing = proc.writer, !.todo = Tail(@),
                    !.copying = [state |-> "copying", gen |-> g, upto |-> logged]]
      /\ UNCHANGED <<aofs, present, snaps, manifest, threads, state, logged, acked, ends>>

\* _close_previous, on its thread: close joins the fsync thread and fsyncs.
ClosePrevious ==
  LET g == proc.closing
  IN  /\ Up /\ g # NoGen /\ threads.syncing[g] = NotSyncing
      /\ proc' = [proc EXCEPT !.closing = NoGen]
      /\ \/ /\ aofs' = [aofs EXCEPT ![g].os = Len(aofs[g].recs), ![g].synced = Len(aofs[g].recs)]
            /\ threads' = [threads EXCEPT !.unsynced = @ \ {g}]
         \/ /\ "fsync" \in Faults
            /\ threads' = [threads EXCEPT !.background_error = @ \cup {proc.writer}]
            /\ UNCHANGED aofs
      /\ UNCHANGED <<present, snaps, manifest, revert, state, logged, acked, ends>>

\* finish_copy: the copy is complete and a thread writes it.
FinishCopy ==
  /\ Ready /\ proc.copying.state # "none"
  /\ proc' = [proc EXCEPT !.job = [proc.copying EXCEPT !.state = "writing"], !.copying = NoJob]
  /\ UNCHANGED <<aofs, present, snaps, manifest, revert, threads, state, logged, acked, ends>>

\* write_snapshot, on its thread: the file appears complete and fsynced, or not.
WriteSnapshot ==
  /\ Up /\ proc.job.state = "writing"
  /\ \/ /\ proc' = [proc EXCEPT !.job.state = "written"]
        /\ snaps' = [snaps EXCEPT ![proc.job.gen] = proc.job.upto]
     \/ "snapshot" \in Faults /\ proc' = [proc EXCEPT !.job.state = "failed"] /\ UNCHANGED snaps
  /\ UNCHANGED <<aofs, present, manifest, revert, threads, state, logged, acked, ends>>

\* poll, from the cron.
Poll ==
  /\ Ready /\ Finishable
  /\ proc' = [proc EXCEPT !.todo = FinishSteps]
  /\ UNCHANGED <<aofs, present, snaps, manifest, revert, threads, state, logged, acked, ends>>

\* What is left to do after a _finish that goes no further: its own delete is not.
AfterFinish(todo) == IF Len(todo) > 2 THEN SubSeq(todo, 3, Len(todo)) ELSE <<>>

\* Variant: drops the AOFs before and after the switch.
SaveNewDropsBoth ==
  LET m == [snap |-> proc.job.gen, aofs |-> Tail(Tail(proc.manifest.aofs))]
  IN  /\ Doing("save_new")
      /\ IF proc.job.state = "failed"
           THEN /\ proc' = [proc EXCEPT !.job = NoJob, !.todo = AfterFinish(@)]
                /\ UNCHANGED <<manifest, revert>>
           ELSE \/ Rename(m)
                   /\ proc' = [proc EXCEPT !.manifest = m, !.job = NoJob, !.todo = Tail(@)]
                \/ /\ "save" \in Faults
                   /\ proc' = [proc EXCEPT !.manifest = m, !.job = NoJob, !.todo = <<>>]
                   /\ UNCHANGED <<manifest, revert>>
      /\ UNCHANGED <<aofs, present, snaps, threads, state, logged, acked, ends>>

\* _finish: a failed write keeps the manifest, else the new pair replaces it.
SaveNew ==
  LET m == [snap |-> proc.job.gen, aofs |-> <<Last(proc.manifest.aofs)>>]
  IN  /\ Doing("save_new")
      /\ IF proc.job.state = "failed"
           THEN /\ proc' = [proc EXCEPT !.job = NoJob, !.todo = AfterFinish(@)]
                /\ UNCHANGED <<manifest, revert>>
           ELSE \/ Rename(m)
                   /\ proc' = [proc EXCEPT !.manifest = m, !.job = NoJob, !.todo = Tail(@)]
                \/ /\ "save" \in Faults
                   /\ proc' = [proc EXCEPT !.manifest = m, !.job = NoJob, !.todo = <<>>]
                   /\ UNCHANGED <<manifest, revert>>
      /\ UNCHANGED <<aofs, present, snaps, threads, state, logged, acked, ends>>

\* The files that _delete_unreferenced leaves, given the manifest in memory.
Kept(m) == present \cap ToSet(m.aofs)
KeptSnaps(m) == [g \in Gens |-> IF g = m.snap THEN snaps[g] ELSE NoSnapshot]

\* _finish after the rename: fsync_dir, then _delete_unreferenced.
Delete ==
  /\ Doing("delete")
  /\ FsyncDir
  /\ present' = Kept(proc.manifest) /\ snaps' = KeptSnaps(proc.manifest)
  /\ aofs' = [g \in Gens |-> IF g \in Kept(proc.manifest) THEN aofs[g] ELSE NoFile]
  /\ proc' = [proc EXCEPT !.todo = Tail(@)]
  /\ UNCHANGED <<manifest, threads, state, logged, acked, ends>>

-----------------------------------------------------------------------------
(* The end of a process, and the next one.                                  *)

\* Engine.close: abandon a copy, wait for the threads, finalize, close the AOF.
Shutdown ==
  /\ Ready /\ "closed" \in Ends /\ ends < MaxEnds
  /\ proc.closing = NoGen /\ proc.job.state # "writing"
  /\ proc' = [proc EXCEPT !.copying = NoJob,
                !.todo = (IF Finishable THEN FinishSteps ELSE <<>>) \o <<"close">>]
  /\ UNCHANGED <<aofs, present, snaps, manifest, revert, threads, state, logged, acked, ends>>

\* AOFWriter.close.  If it raises, what it leaves is what a kill leaves.
CloseWriter ==
  LET w == proc.writer
  IN  /\ Doing("close") /\ threads.syncing[w] = NotSyncing
      /\ aofs' = [aofs EXCEPT ![w].os = Len(aofs[w].recs), ![w].synced = Len(aofs[w].recs)]
      /\ state' = "closed" /\ ends' = ends + 1
      /\ UNCHANGED <<present, snaps, manifest, revert, proc, threads, logged, acked>>

\* Every AOF keeps at least its first atLeast[g] records.  Half a record may follow
\* what it keeps, if there was more.  durable: what is left is on the disk.
LoseTails(atLeast, durable) ==
  \E kept \in [Gens -> 0 .. MaxRecords], torn \in [Gens -> BOOLEAN] :
    /\ \A g \in Gens : atLeast[g] <= kept[g] /\ kept[g] <= Len(aofs[g].recs)
    /\ \A g \in Gens : torn[g] => kept[g] < Len(aofs[g].recs)
    /\ aofs' = [g \in Gens |->
         [recs |-> SubSeq(aofs[g].recs, 1, kept[g]), os |-> kept[g],
          synced |-> IF durable THEN kept[g] ELSE aofs[g].synced, torn |-> torn[g]]]

\* The OS has what was flushed, and perhaps a part of the buffers.
Kill ==
  /\ Up /\ "killed" \in Ends /\ ends < MaxEnds
  /\ LoseTails([g \in Gens |-> aofs[g].os], FALSE)
  /\ state' = "killed" /\ ends' = ends + 1
  /\ UNCHANGED <<present, snaps, manifest, revert, proc, threads, logged, acked>>

\* The disk has what was fsynced, perhaps more, and perhaps not the last renames.
PowerFailure ==
  /\ Up /\ "power" \in Ends /\ ends < MaxEnds
  /\ LoseTails([g \in Gens |-> aofs[g].synced], TRUE)
  /\ manifest' \in {manifest} \cup revert
  /\ revert' = {}
  /\ state' = "power" /\ ends' = ends + 1
  /\ UNCHANGED <<present, snaps, proc, threads, logged, acked>>

\* load: what the files hold, the older AOFs first.
Recovered ==
  (IF manifest.snap = NoGen THEN <<>> ELSE [i \in 1 .. snaps[manifest.snap] |-> i])
  \o FlattenSeq([i \in DOMAIN manifest.aofs |-> aofs[manifest.aofs[i]].recs])

\* load aborts on half a record anywhere but at the end of the newest AOF, and on a
\* snapshot that is missing.
Loads ==
  /\ \A i \in 1 .. Len(manifest.aofs) - 1 : ~aofs[manifest.aofs[i]].torn
  /\ manifest.snap # NoGen => snaps[manifest.snap] # NoSnapshot

IsPrefixOfHistory(recs) == recs = [i \in 1 .. Len(recs) |-> i]

\* load and the first turn of the new process.  What a node with a hole in its
\* history does next is not followed.
Load ==
  /\ ~Up /\ Loads /\ IsPrefixOfHistory(Recovered)
  /\ proc' = Fresh(manifest) /\ threads' = Idle /\ state' = "up"
  /\ present' = Kept(manifest) \cup {Last(manifest.aofs)}
  /\ snaps' = KeptSnaps(manifest)
  /\ aofs' = [g \in Gens |->
       IF g \in ToSet(manifest.aofs) THEN [aofs[g] EXCEPT !.torn = FALSE] ELSE NoFile]
  /\ logged' = Len(Recovered)
  /\ acked' = IF Len(Recovered) < acked THEN Len(Recovered) ELSE acked
  /\ UNCHANGED <<manifest, revert, ends>>

Init ==
  LET m == [snap |-> NoGen, aofs |-> <<1>>]
  IN  /\ aofs = [g \in Gens |-> NoFile] /\ present = {1}
      /\ snaps = [g \in Gens |-> NoSnapshot]
      /\ manifest = m /\ revert = {} /\ proc = Fresh(m) /\ threads = Idle
      /\ state = "up" /\ logged = 0 /\ acked = 0 /\ ends = 0

Next ==
  \/ AppendRecord \/ Commit
  \/ StartRewrite \/ CommitOld \/ SaveBoth \/ Switch \/ ClosePrevious
  \/ FinishCopy \/ WriteSnapshot \/ Poll \/ SaveNew \/ Delete
  \/ Shutdown \/ CloseWriter \/ Kill \/ PowerFailure \/ Load
  \/ \E g \in Gens : FsyncCall(g) \/ FsyncReturn(g)

Spec == Init /\ [][Next]_vars

\* What the fsync policy everysec relies on: its thread keeps running.
FairSpec == Spec /\ \A g \in Gens : WF_vars(FsyncCall(g)) /\ WF_vars(FsyncReturn(g))

-----------------------------------------------------------------------------
(* Properties.                                                              *)

ManifestType == [snap : 0 .. MaxGen, aofs : Seq(Gens)]
JobType ==
  [state : {"none", "copying", "writing", "written", "failed"}, gen : 0 .. MaxGen, upto : Nat]

\* Every variable keeps its shape, and no file is ahead of itself: what is durable
\* was handed to the OS, and what the OS holds was appended (AOFWriter's buffer,
\* _dirty and _unsynced).
TypeOK ==
  /\ aofs \in [Gens -> File]
  /\ \A g \in Gens : aofs[g].synced <= aofs[g].os /\ aofs[g].os <= Len(aofs[g].recs)
  /\ present \subseteq Gens
  /\ snaps \in [Gens -> Nat \cup {NoSnapshot}]
  /\ manifest \in ManifestType /\ Len(manifest.aofs) > 0
  /\ \A m \in revert : m \in ManifestType /\ Len(m.aofs) > 0
  /\ proc \in [manifest : ManifestType, writer : Gens, dirty : BOOLEAN, error : BOOLEAN,
               owed : BOOLEAN, copying : JobType, job : JobType, closing : 0 .. MaxGen,
               todo : Seq({"commit_old", "save_both", "switch", "save_new", "delete", "close"})]
  /\ threads \in [unsynced : SUBSET Gens, syncing : [Gens -> Nat \cup {NotSyncing}],
                  background_error : SUBSET Gens]
  /\ state \in {"up", "closed", "killed", "power"}
  /\ logged \in 0 .. MaxRecords /\ acked \in 0 .. MaxRecords
  /\ ends \in 0 .. MaxEnds

\* Recovery succeeds, finds the effects in order with none missing in between, and
\* finds every effect whose command was answered.
RecoversAcked == Loads /\ IsPrefixOfHistory(Recovered) /\ Len(Recovered) >= acked

\* A process that ended without a power failure starts again, on an uninterrupted
\* beginning of the history, whichever calls failed before (begin_rewrite, _finish
\* and poll in any order with the threads).
StartsAgain == state \in {"closed", "killed"} => Loads /\ IsPrefixOfHistory(Recovered)

\* manager.py, "A crash at any point leaves a manifest that recovers everything":
\* however the process ends, the next one starts and has every answered write.
KilledRecovers == state \in {"closed", "killed"} => RecoversAcked

\* aof.py on the policy always, "nothing acknowledged is ever lost": not even a power
\* failure, between any two steps of a rewrite, loses an answered write.
AlwaysSurvives == state = "power" => RecoversAcked

\* load, "Only the newest AOF can have a torn tail: older ones were closed cleanly":
\* startup never aborts on half a record.
OlderAofsClean == ~Up => Loads

\* aof.py on the policy everysec: an answered write is on the disk some time later,
\* the fsync thread having run (_fsync, _unsynced).
EventuallySynced ==
  \A n \in 1 .. MaxRecords : acked >= n ~> \E g \in Gens : \E i \in 1 .. aofs[g].synced : aofs[g].recs[i] = n
=============================================================================

------------------------------ MODULE CronLoop ------------------------------
(***************************************************************************)
(* The background task of a shard node, engine/cron.py run_cron, beside    *)
(* the clients of module Engine: the only driver of incremental snapshots, *)
(* of active expiry and of the end of a rewrite.                           *)
(*                                                                         *)
(* The task loops for ever.  While a snapshot is being copied it takes a   *)
(* slice and yields; it goes on to a tick of the engine's cron if one is   *)
(* due by then, and starts over if not.  Otherwise it sleeps until a tick  *)
(* is due.  Whether a tick is due is left open, but ticks do fall due.     *)
(***************************************************************************)
EXTENDS Engine

VARIABLE pc    \* where the task is: "top" of the loop, "yielded" or "sleeping"

loopVars == <<vars, pc>>

LoopInit == Init /\ pc = "top"

\* Variant: the loop yields without taking a slice.
LoopSliceSkipped == pc = "top" /\ up /\ store.job # "none" /\ pc' = "yielded" /\ UNCHANGED vars

LoopSlice == pc = "top" /\ StepSnapshot /\ pc' = "yielded"
LoopSleep == pc = "top" /\ up /\ store.job = "none" /\ pc' = "sleeping" /\ UNCHANGED vars
LoopContinue == pc = "yielded" /\ up /\ pc' = "top" /\ UNCHANGED vars
LoopTick == pc \in {"yielded", "sleeping"} /\ Cron /\ pc' = "top"

\* Clients, the writer thread and the clock go on between any two turns.
Meanwhile ==
  /\ ClientCommand \/ BgRewrite \/ Resync \/ WriterDone \/ Save \/ Tick
  /\ UNCHANGED pc

\* The task is cancelled with the process and created anew with the next.
Replaced == (Close \/ Crash \/ Open) /\ pc' = "top"

LoopNext == LoopSlice \/ LoopSleep \/ LoopContinue \/ LoopTick \/ Meanwhile \/ Replaced

\* While the process is up, ticks fall due and the event loop gives the task its
\* turn; and the writer thread ends one way or the other.  These are weak fairness
\* of LoopTick, which is enabled again and again, and of WriterDone.
Fairness ==
  /\ []<>~up \/ []<><<LoopTick>>_loopVars
  /\ []<>~(up /\ per.rewrite = "writing") \/ []<><<WriterDone>>_vars

LoopSpec == LoopInit /\ [][LoopNext]_loopVars /\ Fairness

-----------------------------------------------------------------------------
(* Properties.                                                              *)

\* A snapshot that was begun is completed (or dropped when the process stops),
\* whatever commands arrive between its slices (run_cron, step_snapshot).
CopyCompletes == (store.job # "none") ~> (store.job = "none")

\* A rewrite that was begun comes to an end, and its end is noticed: the files are
\* switched, or left as they were if the writer failed.
RewriteEnds ==
  /\ (per.rewrite \in {"copying", "writing"}) ~> (per.rewrite \in {"written", "failed", "idle"})
  /\ (per.rewrite \in {"written", "failed"}) ~> (per.rewrite \notin {"written", "failed"})

\* A key whose deadline has passed does not stay in memory for ever, even if no
\* command names it again (active expiry, with samples that reach every key).
StaleReclaimed ==
  \A k \in Keys : (k \in Stale(store, Keys, now)) ~> (k \notin Stale(store, Keys, now))
=============================================================================

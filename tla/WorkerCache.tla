----------------------------- MODULE WorkerCache ------------------------------
(* The store of the worker (WorkerStore) as a machine beside others, and what   *)
(* is promised of it.                                                           *)
EXTENDS Integers

CONSTANTS
  Isolates, Tasks, Hashes, Workloads, L1Ttl, Debounce, NoRoot, NoShard, NoValue, MaxSeq, MaxClock

VARIABLES
  load, remote, published, retired, kv, baseline, shard, revalidated, clock, task

Worker == INSTANCE WorkerStore

(* What the worker serves is older than the registry only by the age its caches  *)
(* may have (WorkerStore, store.rs).                                             *)
StalenessBounded == Worker!StalenessBounded

(* A miss of the worker is true of some moment of the request (WorkerStore).     *)
MissIsTrue == Worker!MissIsTrue
===============================================================================

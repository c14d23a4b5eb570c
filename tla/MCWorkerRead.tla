----------------------------- MODULE MCWorkerRead -----------------------------
(* Instances of the reader of an index (IndexRead) and of the store of the      *)
(* worker that calls it (WorkerStore). A history is one of the two.             *)
EXTENDS MCIndexRead, WorkerCache

CONSTANT Parts

VARIABLE active

workerVars == <<load, remote, published, retired, kv, baseline, shard, revalidated, clock, task>>

ASSUME FormatAssumption /\ ReadAssumption
ASSUME Worker!WorkerAssumption

(* Misses, probes and refreshes of one isolate while roots are published and    *)
(* the registry fails; two isolates whose refreshes overlap; replicas of KV     *)
(* that lag behind it without bound.                                            *)
Mix ==
  {[isolates |-> {i}, kinds |-> {"narinfo", "refresh"}, faults |-> {"outage"},
    baseline_ttl |-> 2, publications |-> 2, hours |-> 1] : i \in Isolates}
  \cup {[isolates |-> Isolates, kinds |-> {"nar"}, faults |-> {},
         baseline_ttl |-> 1, publications |-> 1, hours |-> 3]}
  \cup {[isolates |-> {i}, kinds |-> {"nar"}, faults |-> {"replica"},
         baseline_ttl |-> 1, publications |-> 1, hours |-> 3] : i \in Isolates}

Symmetric == Permutations(Isolates) \cup Permutations(Tasks)

-------------------------------------------------------------------------------
IdleWorker == active # "worker" => load = CHOOSE w \in Workloads : TRUE
NoReader ==
  /\ arch = << >> /\ top = None /\ stored = {} /\ version = << >> /\ faults = 0
  /\ reader = [r \in Readers |-> Idle]

WorkerReadInit ==
  /\ active \in Parts /\ Worker!Init /\ IdleWorker
  /\ IF active = "read" THEN Init ELSE NoReader

WorkerReadNext ==
  \/ active = "read" /\ UNCHANGED <<active, workerVars>> /\ Next
  \/ active = "worker" /\ Worker!Next /\ UNCHANGED <<active, vars>>

WorkerReadSpec == WorkerReadInit /\ [][WorkerReadNext]_<<active, vars, workerVars>>
===============================================================================

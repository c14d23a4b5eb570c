---------------------------- MODULE ServingProofs -----------------------------
(* Proofs about what is served. The store of the worker, for any number of      *)
(* isolates, requests, hashes and roots, and any times to live: a root that a   *)
(* cache or a request holds was published (Known), and nothing had replaced it  *)
(* by the time it is stamped with (Since); each cache may add its own time to   *)
(* live to that. A narinfo request knows of its hash what the registry showed   *)
(* it since it began (Truthful). And the streams of a blob, for any bodies,     *)
(* pieces and lengths: what has been passed on is a beginning of the body.      *)
EXTENDS WorkerCache, NarStream, TLAPS

(* A leaf that names no prover goes to the SMT solver and then to Zenon,        *)
(* with time to spare for a slow machine.                                       *)
USE SMTT(30), ZenonT(30)

(* The root that the registry answers with. *)
Current == IF remote = NoRoot THEN Worker!EmptyRoot ELSE remote

(* A root that was published: the last one is the one the registry has. *)
Known(root) ==
  root \in Worker!Roots /\ root.seq <= published /\ (root.seq = published => root = Current)

(* A root that nothing replaced before a time. *)
Since(root, at) == root.seq = published \/ retired[root.seq] >= at

(* The registry holds the last root published, if any was. *)
Registry ==
  /\ load \in Worker!Workload
  /\ clock \in Nat /\ published \in 0 .. MaxSeq
  /\ retired \in [0 .. MaxSeq -> Nat]
  /\ remote \in Worker!Roots \cup {NoRoot}
  /\ IF remote = NoRoot THEN published = 0 ELSE remote.seq = published /\ published > 0

(* The age that the two caches together may give a root. *)
Age == L1Ttl + load.baseline_ttl

(* A value of KV or of a memory was right at the time it is stamped with. *)
KvOk(w) ==
  /\ Known(w.root) /\ w.last_refresh \in 0 .. clock
  /\ Since(w.root, w.last_refresh)

MemoryOk(v) ==
  v # NoValue =>
    /\ Known(v.root) /\ v.expires \in 0 .. clock + L1Ttl
    /\ Since(v.root, v.expires - Age)

(* Every value of KV, and what every isolate remembers. *)
Caches ==
  /\ \A w \in kv : KvOk(w)
  /\ DOMAIN baseline = Isolates /\ \A i \in Isolates : MemoryOk(baseline[i])

(* The values of a request. *)
TaskRecord ==
  [kind : {"none", "narinfo", "nar", "status", "refresh"},
   pc : {"idle", "kv", "fetch", "put", "fallback", "shard", "sharding", "head", "warm", "done"},
   home : Isolates \cup {NoValue}, hash : Hashes \cup {NoValue}, root : Worker!Roots,
   old : (SUBSET Hashes) \cup {NoShard}, now : Nat, healing : BOOLEAN, failed : BOOLEAN,
   found : BOOLEAN, began : Nat, absent : BOOLEAN]

TaskTypes(r) ==
  /\ r \in TaskRecord /\ Known(r.root) /\ r.began <= clock
  /\ r.pc # "idle" => r.kind # "none" /\ r.home \in Isolates

(* The times of a request, and how old its root may be. *)
Timely(r) ==
  /\ r.pc \in {"kv", "fetch", "put"} => r.began <= r.now /\ r.now <= clock
  /\ r.pc = "put" => Since(r.root, r.now)
  /\ r.pc = "fallback" => "outage" \in load.faults
  /\ r.pc \in {"shard", "sharding", "head"} /\ "outage" \notin load.faults => Since(r.root, r.began - Age)

(* A narinfo request knows that its hash is absent from what it has fetched     *)
(* since it missed.                                                             *)
Truthful(r) ==
  r.kind = "narinfo" =>
    /\ remote = NoRoot \/ r.hash \notin remote.entries => r.absent
    /\ r.pc \in {"kv", "fallback"} => ~ r.healing
    /\ r.pc = "head" => r.healing /\ ~ r.found /\ r.hash \notin r.root.entries
    /\ r.healing /\ r.pc \in {"put", "shard", "sharding"} /\ r.hash \notin r.root.entries => r.absent
    /\ r.healing /\ r.pc = "done" /\ ~ r.found /\ ~ r.failed => r.absent

TaskOk(r) == TaskTypes(r) /\ Timely(r) /\ Truthful(r)
Requests == DOMAIN task = Tasks /\ \A t \in Tasks : TaskOk(task[t])

Inv == Registry /\ Caches /\ Requests

-------------------------------------------------------------------------------
(* An idle request, and the root of an empty registry. *)
LEMMA IdleOk == ASSUME Worker!WorkerAssumption, Registry PROVE TaskOk(Worker!IdleTask) /\ Known(Worker!EmptyRoot)
<1>1. Worker!EmptyRoot \in Worker!Roots /\ Worker!EmptyRoot.seq = 0
  BY DEF Worker!EmptyRoot, Worker!Roots
<1>2. Known(Worker!EmptyRoot)
  BY <1>1 DEF Known, Registry, Current
<1>3. Worker!IdleTask.kind = "none" /\ Worker!IdleTask.pc = "idle" /\ Worker!IdleTask.began = 0 /\ Worker!IdleTask.root = Worker!EmptyRoot
  BY DEF Worker!IdleTask
<1>4. Worker!IdleTask \in TaskRecord
  BY <1>1 DEF Worker!IdleTask, TaskRecord
<1> QED
  BY <1>2, <1>3, <1>4 DEF TaskOk, TaskTypes, Timely, Truthful, Registry

(* A worker starts with nothing remembered and nothing asked. *)
LEMMA InitOk == ASSUME Worker!WorkerAssumption, Worker!Init PROVE Inv
<1>1. Registry
  BY DEF Worker!Init, Registry, Worker!WorkerAssumption
<1>2. Caches
  BY DEF Worker!Init, Caches, MemoryOk
<1>3. Requests
  BY <1>1, IdleOk DEF Worker!Init, Requests
<1> QED
  BY <1>1, <1>2, <1>3 DEF Inv

(* Nothing but the registry and the time decides what is right. *)
LEMMA Judgements ==
  ASSUME UNCHANGED <<Worker!registry, clock>>
  PROVE  /\ Registry => Registry'
         /\ \A w : KvOk(w) => KvOk(w)'
         /\ \A v : MemoryOk(v) => MemoryOk(v)'
         /\ \A r : TaskOk(r) => TaskOk(r)'
<1>1. UNCHANGED <<load, remote, published, retired, clock>>
  BY DEF Worker!registry
<1>2. Registry => Registry'
  BY <1>1 DEF Registry
<1>3. \A r : Known(r)' <=> Known(r)
  BY <1>1 DEF Known, Current
<1>4. \A r, a : Since(r, a)' <=> Since(r, a)
  BY <1>1 DEF Since
<1>5. Age' = Age
  BY <1>1 DEF Age
<1>6. \A w : KvOk(w) => KvOk(w)'
  BY <1>1, <1>3, <1>4 DEF KvOk
<1>7. \A v : MemoryOk(v) => MemoryOk(v)'
  BY <1>1, <1>3, <1>4, <1>5 DEF MemoryOk
<1>8. \A r : TaskTypes(r) => TaskTypes(r)'
  BY <1>1, <1>3 DEF TaskTypes
<1>9. \A r : Timely(r) => Timely(r)'
  BY <1>1, <1>4, <1>5 DEF Timely
<1>10. \A r : Truthful(r) => Truthful(r)'
  BY <1>1 DEF Truthful
<1> QED
  BY <1>2, <1>6, <1>7, <1>8, <1>9, <1>10 DEF TaskOk

(* A step of one request that leaves it right, and the caches. *)
LEMMA OneTask ==
  ASSUME Inv, UNCHANGED <<Worker!registry, clock>>, NEW t \in Tasks, NEW r,
         task' = [task EXCEPT ![t] = r], TaskOk(r)
  PROVE  Registry' /\ Requests'
<1>1. \A u \in Tasks : task'[u] = IF u = t THEN r ELSE task[u]
  BY DEF Inv, Requests
<1>2. \A u \in Tasks : TaskOk(task[u])'
  BY <1>1, Judgements DEF Inv, Requests
<1> QED
  BY <1>2, Judgements DEF Inv, Requests

(* A step that leaves the caches alone. *)
LEMMA SameCaches ==
  ASSUME Inv, UNCHANGED <<Worker!registry, clock, kv, baseline>>
  PROVE  Caches'
BY Judgements DEF Inv, Caches

(* What is written to KV and to a memory. *)
LEMMA Remember ==
  ASSUME Worker!WorkerAssumption, Inv, UNCHANGED <<Worker!registry, clock>>, NEW i, NEW root, NEW now \in 0 .. clock,
         Known(root), Since(root, now - load.baseline_ttl),
         baseline' = [baseline EXCEPT ![i] = Worker!Remembered(root, now)],
         \A w \in kv' : w \in kv \/ KvOk(w)
  PROVE  Caches'
<1> DEFINE v == Worker!Remembered(root, now)
<1>1. MemoryOk(v)
  <2>1. load.baseline_ttl \in Nat /\ L1Ttl \in Nat /\ clock \in Nat
    BY DEF Inv, Registry, Worker!Workload, Worker!WorkerAssumption
  <2>2. v.root = root /\ v.expires = now + L1Ttl
    BY DEF Worker!Remembered
  <2> HIDE DEF v
  <2>3. v.expires \in 0 .. clock + L1Ttl /\ v.expires - Age = now - load.baseline_ttl
    BY <2>1, <2>2 DEF Age
  <2> QED
    BY <2>2, <2>3 DEF MemoryOk
<1>2. DOMAIN baseline' = Isolates /\ \A j \in Isolates : baseline'[j] = baseline[j] \/ baseline'[j] = v
  BY DEF Inv, Caches
<1> QED
  BY <1>1, <1>2, Judgements DEF Inv, Caches

-------------------------------------------------------------------------------
(* A new root replaces the last one now, and every request learns what it lacks. *)
LEMMA PublishInv == ASSUME Worker!WorkerAssumption, Inv, Worker!Publish PROVE Inv'
<1>0. UNCHANGED <<load, kv, baseline, clock>> /\ load \in Worker!Workload /\ clock \in Nat /\ published \in Nat
  BY DEF Worker!Publish, Worker!memory, Inv, Registry
<1>1. /\ published' = published + 1 /\ published + 1 \in 0 .. MaxSeq
      /\ retired' = [retired EXCEPT ![published] = clock]
      /\ remote' \in Worker!Roots /\ remote'.seq = published + 1
  BY DEF Worker!Publish, Inv, Registry, Worker!Workload, Worker!Roots, Worker!WorkerAssumption
<1>2. Registry'
  BY <1>0, <1>1 DEF Inv, Registry, Worker!WorkerAssumption
<1>3. \A r : Known(r) => Known(r)'
  BY <1>0, <1>1 DEF Known, Worker!Roots
<1>4. ASSUME NEW r, Known(r), NEW at \in Int, at <= clock, Since(r, at) PROVE Since(r, at)'
  <2>1. r.seq \in 0 .. published /\ published \in 0 .. MaxSeq
    BY <1>4 DEF Known, Worker!Roots, Inv, Registry
  <2>2. CASE r.seq = published
    BY <1>0, <1>1, <1>4, <2>1, <2>2 DEF Since, Inv, Registry
  <2>3. CASE r.seq # published
    BY <1>0, <1>1, <1>4, <2>1, <2>3 DEF Since, Inv, Registry
  <2> QED
    BY <2>2, <2>3
<1>5. Age' = Age /\ Age \in Nat /\ L1Ttl \in Nat /\ L1Ttl <= Age
  BY <1>0 DEF Age, Worker!Workload, Worker!WorkerAssumption
<1>6. ASSUME NEW w, KvOk(w) PROVE KvOk(w)'
  BY <1>0, <1>3, <1>4, <1>6 DEF KvOk
<1>7. ASSUME NEW v, MemoryOk(v) PROVE MemoryOk(v)'
  <2> SUFFICES ASSUME v # NoValue PROVE MemoryOk(v)'
    BY DEF MemoryOk
  <2>1. Known(v.root) /\ v.expires \in 0 .. clock + L1Ttl /\ Since(v.root, v.expires - Age)
    BY <1>7 DEF MemoryOk
  <2>2. PICK at \in Int : at = v.expires - Age
    BY <1>0, <1>5, <2>1
  <2>3. Since(v.root, at)'
    BY <1>0, <1>4, <1>5, <2>1, <2>2
  <2> QED
    BY <1>0, <1>3, <1>5, <2>1, <2>2, <2>3 DEF MemoryOk
<1>8. ASSUME NEW t \in Tasks, NEW r, NEW s, r = task[t], s = task'[t] PROVE TaskOk(s)'
  <2> DEFINE b == r.absent \/ Worker!IsAbsent(r.kind, r.hash, remote')
  <2>0. TaskOk(r) /\ r \in TaskRecord
    BY <1>8 DEF Inv, Requests, TaskOk, TaskTypes
  <2>1. s = [r EXCEPT !.absent = b]
    BY <1>8 DEF Worker!Publish
  <2>2. b \in BOOLEAN
    BY <2>0 DEF Worker!IsAbsent, TaskRecord
  <2>3. /\ s \in TaskRecord /\ s.kind = r.kind /\ s.pc = r.pc /\ s.home = r.home /\ s.hash = r.hash
        /\ s.root = r.root /\ s.now = r.now /\ s.healing = r.healing /\ s.failed = r.failed
        /\ s.found = r.found /\ s.began = r.began /\ s.absent = b
    BY <2>0, <2>1, <2>2, ZenonT(30) DEF TaskRecord
  <2>4. r.now \in Nat /\ r.began \in Nat
    BY <2>0 DEF TaskRecord
  <2>5. TaskTypes(s)'
    BY <1>0, <1>3, <2>0, <2>3 DEF TaskOk, TaskTypes
  <2>6. Timely(s)'
    <3>1. s.pc = "put" => Since(s.root, s.now)'
      BY <1>0, <1>4, <2>0, <2>3, <2>4 DEF TaskOk, TaskTypes, Timely
    <3>2. PICK at \in Int : at = r.began - Age /\ at <= clock
      BY <1>0, <1>5, <2>0, <2>4 DEF TaskOk, TaskTypes
    <3>3. s.pc \in {"shard", "sharding", "head"} /\ "outage" \notin load.faults => Since(s.root, at)'
      BY <1>4, <2>0, <2>3, <3>2 DEF TaskOk, TaskTypes, Timely
    <3> QED
      BY <1>0, <1>5, <2>0, <2>3, <3>1, <3>2, <3>3 DEF TaskOk, Timely
  <2>7. Truthful(s)'
    BY <2>0, <2>3, ZenonT(30) DEF TaskOk, Truthful, Worker!IsAbsent
  <2> QED
    BY <2>5, <2>6, <2>7 DEF TaskOk
<1>9. Requests'
  <2>1. DOMAIN task' = Tasks
    BY DEF Worker!Publish
  <2> QED
    BY <1>8, <2>1 DEF Requests
<1> QED
  BY <1>0, <1>2, <1>6, <1>7, <1>9 DEF Inv, Caches

(* Time only moves on. *)
LEMMA TickInv == ASSUME Worker!WorkerAssumption, Inv, Worker!Tick PROVE Inv'
<1>1. UNCHANGED <<load, remote, published, retired, kv, baseline, task>> /\ clock' = clock + 1
      /\ clock \in Nat /\ L1Ttl \in Nat
  BY DEF Worker!Tick, Worker!registry, Worker!memory, Inv, Registry, Worker!WorkerAssumption
<1>2. Registry'
  BY <1>1 DEF Inv, Registry
<1>3. \A r, a : (Known(r)' <=> Known(r)) /\ (Since(r, a)' <=> Since(r, a)) /\ Age' = Age
  BY <1>1 DEF Known, Current, Since, Age
<1>4. \A w : KvOk(w) => KvOk(w)'
  BY <1>1, <1>3 DEF KvOk
<1>5. \A v : MemoryOk(v) => MemoryOk(v)'
  BY <1>1, <1>3 DEF MemoryOk
<1>6. ASSUME NEW r, TaskOk(r) PROVE TaskOk(r)'
  <2>1. r.began \in Nat /\ r.now \in Nat
    BY <1>6 DEF TaskOk, TaskTypes, TaskRecord
  <2>2. TaskTypes(r)'
    BY <1>1, <1>3, <1>6, <2>1 DEF TaskOk, TaskTypes
  <2>3. Timely(r)'
    BY <1>1, <1>3, <1>6, <2>1 DEF TaskOk, Timely
  <2>4. Truthful(r)'
    BY <1>1, <1>6 DEF TaskOk, Truthful
  <2> QED
    BY <2>2, <2>3, <2>4 DEF TaskOk
<1> QED
  BY <1>1, <1>2, <1>4, <1>5, <1>6 DEF Inv, Caches, Requests

(* A memory is emptied. *)
LEMMA Forget ==
  ASSUME Inv, UNCHANGED <<Worker!registry, clock, kv>>, NEW i, baseline' = [baseline EXCEPT ![i] = NoValue]
  PROVE  Caches'
<1>1. MemoryOk(NoValue)
  BY DEF MemoryOk
<1>2. DOMAIN baseline' = Isolates /\ \A j \in Isolates : baseline'[j] = baseline[j] \/ baseline'[j] = NoValue
  BY DEF Inv, Caches
<1> QED
  BY <1>1, <1>2, Judgements DEF Inv, Caches

(* An isolate is evicted with its memory. *)
LEMMA EvictInv == ASSUME Inv, NEW i, Worker!Evict(i) PROVE Inv'
<1>1. UNCHANGED <<Worker!registry, clock, kv, task>> /\ baseline' = [baseline EXCEPT ![i] = NoValue]
  BY DEF Worker!Evict
<1>2. Caches'
  BY <1>1, Forget, ZenonT(30)
<1>3. Registry' /\ Requests'
  BY <1>1, Judgements DEF Inv, Requests
<1> QED
  BY <1>2, <1>3 DEF Inv

-------------------------------------------------------------------------------
(* A root is right for any earlier time. *)
LEMMA Earlier ==
  ASSUME Worker!WorkerAssumption, Registry, NEW root, Known(root), NEW a \in Int, NEW b \in Int, b <= a, Since(root, a)
  PROVE  Since(root, b)
<1>1. root.seq = published \/ retired[root.seq] \in Nat
  BY DEF Registry, Known, Worker!Roots, Worker!WorkerAssumption
<1> QED
  BY <1>1 DEF Since

(* A request begins with the memory of its isolate, if that is fresh. *)
LEMMA StartInv ==
  ASSUME Worker!WorkerAssumption, Inv, NEW t \in Tasks, NEW i \in Isolates, NEW kind \in load.kinds, NEW h \in Hashes,
         Worker!Start(t, i, kind, h)
  PROVE  Inv'
<1> DEFINE root == IF Worker!Fresh(i) THEN baseline[i].root ELSE Worker!EmptyRoot
           now == IF Worker!Fresh(i) THEN 0 ELSE clock
           pc == IF ~ Worker!Fresh(i) THEN "kv" ELSE IF kind = "status" THEN "done" ELSE "shard"
           absent == Worker!IsAbsent(kind, h, remote)
           r == [Worker!IdleTask EXCEPT !.kind = kind, !.home = i, !.hash = h, !.now = now, !.began = clock,
                   !.absent = absent, !.root = root, !.pc = pc]
<1>1. UNCHANGED <<Worker!registry, clock, kv, baseline>>
  BY DEF Worker!Start, Worker!memory
<1>2. /\ kind \in {"narinfo", "nar", "status"} /\ clock \in Nat /\ Age \in Nat /\ L1Ttl \in Nat
      /\ MemoryOk(baseline[i])
  BY DEF Worker!Start, Inv, Registry, Caches, Worker!Workload, Age, Worker!WorkerAssumption
<1>3. task' = [task EXCEPT ![t] = r]
  BY ZenonT(30) DEF Worker!Start
<1>4. Known(root) /\ root \in Worker!Roots /\ now \in Nat /\ pc \in {"kv", "done", "shard"}
  BY <1>2, IdleOk DEF Worker!Fresh, MemoryOk, Inv, Known
<1>5. pc = "kv" => now = clock
  OBVIOUS
<1>6. pc = "shard" => Since(root, clock - Age)
  <2> SUFFICES ASSUME Worker!Fresh(i) PROVE Since(baseline[i].root, clock - Age)
    OBVIOUS
  <2>1. /\ Known(baseline[i].root) /\ Since(baseline[i].root, baseline[i].expires - Age)
        /\ baseline[i].expires \in Nat /\ clock <= baseline[i].expires
    BY <1>2 DEF Worker!Fresh, MemoryOk
  <2>2. baseline[i].expires - Age \in Int /\ clock - Age \in Int /\ clock - Age <= baseline[i].expires - Age
    BY <1>2, <2>1
  <2> QED
    BY <2>1, <2>2, Earlier DEF Inv
<1>7. absent \in BOOLEAN /\ (kind = "narinfo" /\ (remote = NoRoot \/ h \notin remote.entries) => absent)
  BY DEF Worker!IsAbsent
<1> HIDE DEF root, now, pc, absent
<1>8. r \in TaskRecord
  <2>1. kind \in {"none", "narinfo", "nar", "status", "refresh"} /\ Worker!IdleTask \in TaskRecord
    BY <1>2, IdleOk DEF Inv, TaskOk, TaskTypes
  <2> QED
    BY ZenonT(30), <1>2, <1>4, <1>7, <2>1 DEF TaskRecord
<1>9. /\ r.kind = kind /\ r.pc = pc /\ r.home = i /\ r.hash = h /\ r.root = root /\ r.now = now
      /\ r.healing = FALSE /\ r.began = clock /\ r.absent = absent
  BY DEF Worker!IdleTask
<1> HIDE DEF r
<1>10. TaskOk(r)
  <2>1. TaskTypes(r)
    BY <1>2, <1>4, <1>8, <1>9 DEF TaskTypes
  <2>2. Timely(r)
    BY <1>2, <1>4, <1>5, <1>6, <1>9 DEF Timely
  <2>3. Truthful(r)
    BY <1>4, <1>7, <1>9 DEF Truthful
  <2> QED
    BY <2>1, <2>2, <2>3 DEF TaskOk
<1>11. Registry' /\ Requests'
  BY ZenonT(30), <1>1, <1>3, <1>10, OneTask
<1> QED
  BY <1>1, <1>11, SameCaches DEF Inv

-------------------------------------------------------------------------------
(* The request that takes a step. *)
LEMMA Acting ==
  ASSUME Worker!WorkerAssumption, Inv, NEW t \in Tasks
  PROVE  /\ TaskOk(task[t]) /\ task[t] \in TaskRecord /\ Known(task[t].root)
         /\ clock \in Nat /\ Age \in Nat /\ L1Ttl \in Nat /\ load.baseline_ttl \in Nat
         /\ task[t].began \in 0 .. clock /\ task[t].now \in Nat
         /\ task[t].healing \in BOOLEAN /\ task[t].absent \in BOOLEAN
         /\ task[t].pc # "idle" => /\ Worker!Ready(t) \in {"warm", "done", "shard"}
                                   /\ task[t].kind = "narinfo" => Worker!Ready(t) = "shard"
<1>1. TaskOk(task[t]) /\ task[t] \in TaskRecord /\ Known(task[t].root)
  BY DEF Inv, Requests, TaskOk, TaskTypes
<1>2. clock \in Nat /\ Age \in Nat /\ L1Ttl \in Nat /\ load.baseline_ttl \in Nat
  BY DEF Inv, Registry, Worker!Workload, Age, Worker!WorkerAssumption
<1>3. /\ task[t].began \in Nat /\ task[t].now \in Nat /\ task[t].healing \in BOOLEAN /\ task[t].absent \in BOOLEAN
      /\ task[t].kind \in {"none", "narinfo", "nar", "status", "refresh"}
  BY <1>1 DEF TaskRecord
<1>4. task[t].began <= clock /\ (task[t].pc # "idle" => task[t].kind # "none")
  BY <1>1 DEF TaskOk, TaskTypes
<1>5. task[t].pc # "idle" => /\ Worker!Ready(t) \in {"warm", "done", "shard"}
                             /\ task[t].kind = "narinfo" => Worker!Ready(t) = "shard"
  BY <1>3, <1>4 DEF Worker!Ready
<1>6. task[t].began \in 0 .. clock
  BY <1>2, <1>3, <1>4
<1> QED
  BY <1>1, <1>2, <1>3, <1>5, <1>6

(* refresh_baseline_from_ghcr begins with the present time. *)
LEMMA FetchingOk ==
  ASSUME Worker!WorkerAssumption, Inv, NEW t \in Tasks, task[t].pc # "idle"
  PROVE  TaskOk(Worker!Fetching(t))
<1> DEFINE r == task[t]
           old == IF baseline[r.home] = NoValue THEN NoShard ELSE baseline[r.home].root.entries
           s == [r EXCEPT !.pc = "fetch", !.now = clock, !.old = old]
<1>1. TaskOk(r) /\ r \in TaskRecord /\ clock \in Nat /\ r.home \in Isolates /\ r.pc # "idle"
  BY Acting DEF TaskOk, TaskTypes
<1>2. old \in (SUBSET Hashes) \cup {NoShard}
  <2>1. MemoryOk(baseline[r.home])
    BY <1>1 DEF Inv, Caches
  <2> QED
    BY <2>1 DEF MemoryOk, Known, Worker!Roots
<1>3. Worker!Fetching(t) = s
  BY DEF Worker!Fetching
<1> HIDE DEF r, old
<1>4. s \in TaskRecord
  BY <1>1, <1>2, ZenonT(30) DEF TaskRecord
<1>5. /\ s.kind = r.kind /\ s.pc = "fetch" /\ s.home = r.home /\ s.hash = r.hash /\ s.root = r.root
      /\ s.now = clock /\ s.began = r.began /\ s.absent = r.absent
  BY <1>1 DEF TaskRecord
<1> HIDE DEF s
<1>6. TaskTypes(s) /\ Timely(s)
  BY <1>1, <1>4, <1>5 DEF TaskOk, TaskTypes, Timely
<1>7. Truthful(s)
  BY <1>1, <1>5 DEF TaskOk, Truthful
<1> QED
  BY <1>3, <1>6, <1>7 DEF TaskOk

(* A baseline from KV, if it is young enough. *)
LEMMA ReadKvInv == ASSUME Worker!WorkerAssumption, Inv, NEW t \in Tasks, Worker!ReadKv(t) PROVE Inv'
<1> DEFINE r == task[t]
<1>1. UNCHANGED <<Worker!registry, clock, kv>> /\ r.pc = "kv"
  BY DEF Worker!ReadKv
<1>2. CASE UNCHANGED baseline /\ task' = [task EXCEPT ![t] = Worker!Fetching(t)]
  <2>1. Registry' /\ Requests'
    BY <1>1, <1>2, FetchingOk, OneTask, ZenonT(30)
  <2> QED
    BY <1>1, <1>2, <2>1, SameCaches DEF Inv
<1>3. ASSUME NEW w \in kv, r.now - w.last_refresh < load.baseline_ttl,
             baseline' = [baseline EXCEPT ![r.home] = Worker!Remembered(w.root, r.now)],
             task' = [task EXCEPT ![t].pc = Worker!Ready(t), ![t].root = w.root, ![t].now = 0]
      PROVE  Inv'
  <2> DEFINE s == [r EXCEPT !.pc = Worker!Ready(t), !.root = w.root, !.now = 0]
  <2>1. /\ TaskOk(r) /\ r \in TaskRecord /\ clock \in Nat /\ Age \in Nat /\ load.baseline_ttl \in Nat
        /\ L1Ttl \in Nat /\ r.began \in Nat /\ r.now \in Nat
        /\ Worker!Ready(t) \in {"warm", "done", "shard"} /\ (r.kind = "narinfo" => Worker!Ready(t) = "shard")
    BY <1>1, Acting
  <2>2. KvOk(w) /\ w.last_refresh \in 0 .. clock /\ Known(w.root) /\ w.root \in Worker!Roots
    BY <1>3 DEF Inv, Caches, KvOk, Known
  <2>3. r.began <= r.now /\ r.now <= clock /\ (r.kind = "narinfo" => ~ r.healing)
    BY <1>1, <2>1 DEF TaskOk, Timely, Truthful
  <2>4. Since(w.root, r.now - load.baseline_ttl)
    <3>1. Since(w.root, w.last_refresh) /\ w.last_refresh \in Int /\ r.now - load.baseline_ttl \in Int
      BY <2>1, <2>2 DEF KvOk
    <3>2. r.now - load.baseline_ttl <= w.last_refresh
      BY <1>3, <2>1, <2>2
    <3> QED
      BY <2>2, <3>1, <3>2, Earlier DEF Inv
  <2>5. Since(w.root, r.began - Age)
    <3>1. r.began - Age <= r.now - load.baseline_ttl /\ r.began - Age \in Int /\ r.now - load.baseline_ttl \in Int
      BY <2>1, <2>3 DEF Age
    <3> QED
      BY <2>2, <2>4, <3>1, Earlier DEF Inv
  <2>6. task' = [task EXCEPT ![t] = s]
    BY ZenonT(30), <1>3
  <2> HIDE DEF r
  <2>7. s \in TaskRecord
    BY <2>1, <2>2, ZenonT(30) DEF TaskRecord
  <2>8. /\ s.kind = r.kind /\ s.pc = Worker!Ready(t) /\ s.home = r.home /\ s.hash = r.hash /\ s.root = w.root
        /\ s.healing = r.healing /\ s.began = r.began /\ s.absent = r.absent
    BY <2>1 DEF TaskRecord
  <2> HIDE DEF s
  <2>9. TaskTypes(s) /\ Timely(s)
    BY <1>1, <2>1, <2>2, <2>3, <2>5, <2>7, <2>8 DEF TaskOk, TaskTypes, Timely
  <2>10. Truthful(s)
    BY <2>1, <2>3, <2>8 DEF TaskOk, Truthful
  <2>11. Registry' /\ Requests'
    BY <1>1, <2>6, <2>9, <2>10, OneTask, ZenonT(30) DEF TaskOk
  <2>12. Caches'
    <3>1. r.now \in 0 .. clock /\ \A x \in kv' : x \in kv
      BY <1>1, <2>1, <2>3
    <3> QED
      BY <1>1, <1>3, <2>2, <2>4, <3>1, Remember, ZenonT(30)
  <2> QED
    BY <2>11, <2>12 DEF Inv
<1> QED
  BY <1>2, <1>3, ZenonT(30) DEF Worker!ReadKv, Worker!KvReads

(* The root that arrives is the one the registry has. *)
LEMMA FetchOkInv == ASSUME Worker!WorkerAssumption, Inv, NEW t \in Tasks, Worker!FetchOk(t) PROVE Inv'
<1> DEFINE r == task[t]
           old == IF r.kind = "refresh" THEN r.old ELSE NoShard
           s == [r EXCEPT !.pc = "put", !.root = Current, !.old = old]
<1>1. UNCHANGED <<Worker!registry, clock, kv, baseline>> /\ r.pc = "fetch"
  BY DEF Worker!FetchOk
<1>2. TaskOk(r) /\ r \in TaskRecord /\ old \in (SUBSET Hashes) \cup {NoShard}
  BY Acting DEF TaskRecord
<1>3. Known(Current) /\ Current \in Worker!Roots /\ Current.seq = published
  BY DEF Known, Current, Inv, Registry, Worker!EmptyRoot, Worker!Roots
<1>4. task' = [task EXCEPT ![t] = s]
  BY ZenonT(30) DEF Worker!FetchOk, Current
<1> HIDE DEF r, old
<1>5. s \in TaskRecord
  BY <1>2, <1>3, ZenonT(30) DEF TaskRecord
<1>6. /\ s.kind = r.kind /\ s.pc = "put" /\ s.home = r.home /\ s.hash = r.hash /\ s.root = Current
      /\ s.now = r.now /\ s.began = r.began /\ s.healing = r.healing /\ s.absent = r.absent
  BY <1>2 DEF TaskRecord
<1> HIDE DEF s
<1>7. TaskTypes(s)
  BY <1>1, <1>2, <1>3, <1>5, <1>6 DEF TaskOk, TaskTypes
<1>8. Timely(s)
  BY <1>1, <1>2, <1>3, <1>6 DEF TaskOk, Timely, Since
<1>9. Truthful(s)
  BY <1>2, <1>6, ZenonT(30) DEF TaskOk, Truthful, Current
<1>10. Registry' /\ Requests'
  BY <1>1, <1>4, <1>7, <1>8, <1>9, OneTask, ZenonT(30) DEF TaskOk
<1> QED
  BY <1>1, <1>10, SameCaches DEF Inv

(* A request whose fetch fails has failed; only then does it fall back. *)
LEMMA FetchErrInv == ASSUME Worker!WorkerAssumption, Inv, NEW t \in Tasks, Worker!FetchErr(t) PROVE Inv'
<1> DEFINE r == task[t]
           root == IF r.kind = "refresh" THEN Worker!EmptyRoot ELSE r.root
           pc == CASE r.kind = "refresh" -> "warm"
                   [] r.healing -> "done"
                   [] r.kind # "refresh" /\ ~ r.healing -> "fallback"
           s == [r EXCEPT !.failed = TRUE, !.root = root, !.pc = pc]
<1>1. UNCHANGED <<Worker!registry, clock, kv, baseline>> /\ r.pc = "fetch" /\ "outage" \in load.faults
  BY DEF Worker!FetchErr, Worker!memory
<1>2. TaskOk(r) /\ r \in TaskRecord /\ r.healing \in BOOLEAN /\ Known(root) /\ root \in Worker!Roots
  BY Acting, IdleOk DEF Inv, Known
<1>3. /\ pc \in {"warm", "done", "fallback"}
      /\ r.kind # "refresh" => pc = IF r.healing THEN "done" ELSE "fallback"
  <2>1. CASE r.kind = "refresh" /\ r.healing
    BY <2>1
  <2>2. CASE r.kind = "refresh" /\ ~ r.healing
    BY <2>2
  <2>3. CASE r.kind # "refresh"
    BY <1>2, <2>3
  <2> QED
    BY <1>2, <2>1, <2>2, <2>3
<1>4. task' = [task EXCEPT ![t] = s]
  <2>1. task' = [task EXCEPT ![t].failed = TRUE, ![t].root = IF r.kind = "refresh" THEN Worker!EmptyRoot ELSE @,
                             ![t].pc = pc]
    BY ZenonT(30) DEF Worker!FetchErr
  <2> HIDE DEF pc
  <2> QED
    BY <2>1, ZenonT(30)
<1> HIDE DEF r, root, pc
<1>5. s \in TaskRecord
  BY <1>2, <1>3, ZenonT(30) DEF TaskRecord
<1>6. /\ s.kind = r.kind /\ s.pc = pc /\ s.home = r.home /\ s.hash = r.hash /\ s.root = root
      /\ s.began = r.began /\ s.healing = r.healing /\ s.failed = TRUE /\ s.absent = r.absent
  BY <1>2 DEF TaskRecord
<1> HIDE DEF s
<1>7. TaskTypes(s) /\ Timely(s)
  BY <1>1, <1>2, <1>3, <1>5, <1>6 DEF TaskOk, TaskTypes, Timely
<1>8. Truthful(s)
  BY <1>2, <1>3, <1>6 DEF TaskOk, Truthful
<1>9. Registry' /\ Requests'
  BY <1>1, <1>4, <1>7, <1>8, OneTask, ZenonT(30) DEF TaskOk
<1> QED
  BY <1>1, <1>9, SameCaches DEF Inv

(* KV of any age, during an outage. *)
LEMMA FallbackInv == ASSUME Worker!WorkerAssumption, Inv, NEW t \in Tasks, Worker!Fallback(t) PROVE Inv'
<1> DEFINE r == task[t]
<1>1. UNCHANGED <<Worker!registry, clock, kv, baseline>> /\ r.pc = "fallback"
  BY DEF Worker!Fallback, Worker!memory
<1>2. PICK pc \in {"warm", "done", "shard"}, root \in Worker!Roots :
        /\ task' = [task EXCEPT ![t].pc = pc, ![t].root = root]
        /\ Known(root)
  <2>1. Worker!Ready(t) \in {"warm", "done", "shard"} /\ Known(Worker!EmptyRoot) /\ Worker!EmptyRoot \in Worker!Roots
        /\ \A w \in kv : Known(w.root) /\ w.root \in Worker!Roots
    BY <1>1, Acting, IdleOk DEF Inv, Caches, KvOk, Known
  <2> QED
    BY <2>1, ZenonT(30) DEF Worker!Fallback, Worker!KvReads
<1> DEFINE s == [r EXCEPT !.pc = pc, !.root = root]
<1>3. TaskOk(r) /\ r \in TaskRecord /\ root \in Worker!Roots
  BY <1>2, Acting DEF Known
<1>4. task' = [task EXCEPT ![t] = s]
  BY <1>2, ZenonT(30)
<1> HIDE DEF r
<1>5. s \in TaskRecord
  BY <1>2, <1>3, ZenonT(30) DEF TaskRecord
<1>6. /\ s.kind = r.kind /\ s.pc = pc /\ s.home = r.home /\ s.hash = r.hash /\ s.root = root
      /\ s.began = r.began /\ s.healing = r.healing /\ s.absent = r.absent
  BY <1>3 DEF TaskRecord
<1> HIDE DEF s
<1>7. TaskTypes(s) /\ Timely(s)
  BY <1>1, <1>2, <1>3, <1>5, <1>6 DEF TaskOk, TaskTypes, Timely
<1>8. Truthful(s)
  BY <1>1, <1>2, <1>3, <1>6 DEF TaskOk, Truthful
<1>9. Registry' /\ Requests'
  BY <1>1, <1>4, <1>7, <1>8, OneTask, ZenonT(30) DEF TaskOk
<1> QED
  BY <1>1, <1>9, SameCaches DEF Inv

(* What is stored carries the time at which it was asked for. *)
LEMMA PutInv == ASSUME Worker!WorkerAssumption, Inv, NEW t \in Tasks, Worker!Put(t) PROVE Inv'
<1> DEFINE r == task[t]
           w == [root |-> r.root, last_refresh |-> r.now]
           s == [r EXCEPT !.pc = Worker!Ready(t), !.now = 0]
<1>1. /\ UNCHANGED <<Worker!registry, clock>> /\ r.pc = "put" /\ \A x \in kv' : x \in kv \/ x = w
      /\ baseline' = [baseline EXCEPT ![r.home] = Worker!Remembered(r.root, r.now)]
  BY DEF Worker!Put
<1>2. /\ TaskOk(r) /\ r \in TaskRecord /\ Known(r.root) /\ clock \in Nat /\ Age \in Nat
      /\ load.baseline_ttl \in Nat /\ r.began \in Nat /\ r.now \in Nat
      /\ Worker!Ready(t) \in {"warm", "done", "shard"} /\ (r.kind = "narinfo" => Worker!Ready(t) = "shard")
  BY <1>1, Acting
<1>3. r.began <= r.now /\ r.now <= clock /\ Since(r.root, r.now)
  BY <1>1, <1>2 DEF TaskOk, Timely
<1>4. /\ r.now - load.baseline_ttl \in Int /\ r.now - load.baseline_ttl <= r.now
      /\ r.began - Age \in Int /\ r.began - Age <= r.now /\ r.now \in 0 .. clock /\ r.now \in Int
  BY <1>2, <1>3
<1>5. Since(r.root, r.now - load.baseline_ttl) /\ Since(r.root, r.began - Age)
  BY <1>2, <1>3, <1>4, Earlier DEF Inv
<1>6. task' = [task EXCEPT ![t] = s]
  BY ZenonT(30) DEF Worker!Put
<1>7. KvOk(w)
  BY <1>2, <1>3, <1>4 DEF KvOk
<1> HIDE DEF r, w
<1>8. Caches'
  <2>1. \A x \in kv' : x \in kv \/ KvOk(x)
    BY <1>1, <1>7
  <2> QED
    BY <1>1, <1>2, <1>4, <1>5, <2>1, Remember, ZenonT(30)
<1>9. s \in TaskRecord
  <2>1. 0 \in Nat
    OBVIOUS
  <2> QED
    BY <1>2, <2>1, ZenonT(30) DEF TaskRecord
<1>10. /\ s.kind = r.kind /\ s.pc = Worker!Ready(t) /\ s.home = r.home /\ s.hash = r.hash /\ s.root = r.root
       /\ s.began = r.began /\ s.healing = r.healing /\ s.absent = r.absent
  BY <1>2 DEF TaskRecord
<1> HIDE DEF s
<1>11. TaskTypes(s) /\ Timely(s)
  BY ZenonT(30), <1>1, <1>2, <1>5, <1>9, <1>10 DEF TaskOk, TaskTypes, Timely
<1>12. Truthful(s)
  BY <1>1, <1>2, <1>10 DEF TaskOk, Truthful
<1>13. Registry' /\ Requests'
  BY <1>1, <1>6, <1>11, <1>12, OneTask, ZenonT(30) DEF TaskOk
<1> QED
  BY <1>8, <1>13 DEF Inv

-------------------------------------------------------------------------------
(* A request that has its shard finds the hash in its root, or has missed. *)
LEMMA JudgedInv ==
  ASSUME Worker!WorkerAssumption, Inv, NEW t \in Tasks, task[t].pc \in {"shard", "sharding"}, Worker!Judged(t),
         UNCHANGED <<Worker!registry, clock, kv, baseline>>
  PROVE  Inv'
<1> DEFINE r == task[t]
           found == r.hash \in r.root.entries
           again == ~ found /\ Worker!ShouldRevalidate(t)
           pc == IF again THEN "head" ELSE "done"
           healing == r.healing \/ again
           s == [r EXCEPT !.found = found, !.pc = pc, !.healing = healing]
<1>1. TaskOk(r) /\ r \in TaskRecord /\ r.healing \in BOOLEAN /\ r.pc \in {"shard", "sharding"}
  BY Acting
<1>2. /\ found \in BOOLEAN /\ healing \in BOOLEAN /\ pc \in {"head", "done"}
      /\ found <=> r.hash \in r.root.entries
      /\ pc = "head" => healing /\ ~ found /\ r.kind = "narinfo"
      /\ pc = "done" /\ ~ found => (healing <=> r.healing)
  BY <1>1 DEF Worker!ShouldRevalidate
<1>3. task' = [task EXCEPT ![t] = s]
  BY ZenonT(30) DEF Worker!Judged
<1> HIDE DEF r, found, again, pc, healing
<1>4. s \in TaskRecord
  BY <1>1, <1>2, ZenonT(30) DEF TaskRecord
<1>5. /\ s.kind = r.kind /\ s.pc = pc /\ s.home = r.home /\ s.hash = r.hash /\ s.root = r.root
      /\ s.began = r.began /\ s.healing = healing /\ s.found = found /\ s.absent = r.absent
  BY <1>1 DEF TaskRecord
<1> HIDE DEF s
<1>6. TaskTypes(s) /\ Timely(s)
  BY <1>1, <1>2, <1>4, <1>5 DEF TaskOk, TaskTypes, Timely
<1>7. Truthful(s)
  BY <1>1, <1>2, <1>5, ZenonT(30) DEF TaskOk, Truthful
<1>8. Registry' /\ Requests'
  BY <1>3, <1>6, <1>7, OneTask, ZenonT(30) DEF TaskOk
<1> QED
  BY <1>8, SameCaches DEF Inv


(* A request that gives up has failed. *)
LEMMA FailedInv ==
  ASSUME Worker!WorkerAssumption, Inv, NEW t \in Tasks, task[t].pc # "idle",
         task' = [task EXCEPT ![t].pc = "done", ![t].failed = TRUE],
         UNCHANGED <<Worker!registry, clock, kv, baseline>>
  PROVE  Inv'
<1> DEFINE r == task[t]
           s == [r EXCEPT !.pc = "done", !.failed = TRUE]
<1>1. TaskOk(r) /\ r \in TaskRecord /\ r.pc # "idle"
  BY Acting
<1>2. task' = [task EXCEPT ![t] = s]
  BY Zenon
<1> HIDE DEF r
<1>3. s \in TaskRecord
  BY <1>1, ZenonT(30) DEF TaskRecord
<1>4. /\ s.kind = r.kind /\ s.pc = "done" /\ s.home = r.home /\ s.hash = r.hash /\ s.root = r.root
      /\ s.began = r.began /\ s.failed = TRUE /\ s.absent = r.absent
  BY <1>1 DEF TaskRecord
<1> HIDE DEF s
<1>5. TaskOk(s)
  BY <1>1, <1>3, <1>4 DEF TaskOk, TaskTypes, Timely, Truthful
<1>6. Registry' /\ Requests'
  BY <1>2, <1>5, OneTask, ZenonT(30)
<1> QED
  BY <1>6, SameCaches DEF Inv

(* A request that fetches its shard, or whose probe finds nothing new: its root *)
(* is then the one the registry has, and lacks the hash.                        *)
LEMMA MovedInv ==
  ASSUME Worker!WorkerAssumption, Inv, NEW t \in Tasks, NEW pc \in {"sharding", "done"},
         \/ pc = "sharding" /\ task[t].pc = "shard"
         \/ pc = "done" /\ task[t].pc = "head" /\ (remote = NoRoot \/ remote.seq = task[t].root.seq),
         task' = [task EXCEPT ![t].pc = pc],
         UNCHANGED <<Worker!registry, clock, kv, baseline>>
  PROVE  Inv'
<1> DEFINE r == task[t]
           s == [r EXCEPT !.pc = pc]
<1>1. /\ TaskOk(r) /\ r \in TaskRecord /\ Known(r.root)
      /\ \/ pc = "sharding" /\ r.pc = "shard"
         \/ pc = "done" /\ r.pc = "head" /\ (remote = NoRoot \/ remote.seq = r.root.seq)
  BY Acting
<1>2. task' = [task EXCEPT ![t] = s]
  BY Zenon
<1> HIDE DEF r
<1>3. s \in TaskRecord
  BY <1>1, ZenonT(30) DEF TaskRecord
<1>4. /\ s.kind = r.kind /\ s.pc = pc /\ s.home = r.home /\ s.hash = r.hash /\ s.root = r.root
      /\ s.began = r.began /\ s.healing = r.healing /\ s.found = r.found /\ s.absent = r.absent
  BY <1>1 DEF TaskRecord
<1> HIDE DEF s
<1>5. TaskTypes(s) /\ Timely(s)
  BY <1>1, <1>3, <1>4 DEF TaskOk, TaskTypes, Timely
<1>6. pc = "done" => remote = NoRoot \/ r.root = remote
  BY <1>1 DEF Known, Current, Inv, Registry
<1>7. Truthful(s)
  BY <1>1, <1>4, <1>6 DEF TaskOk, Truthful
<1>8. Registry' /\ Requests'
  BY <1>2, <1>5, <1>7, OneTask, ZenonT(30) DEF TaskOk
<1> QED
  BY <1>8, SameCaches DEF Inv

(* The steps of a request with its shard, up to its answer. *)
LEMMA AnswerInv ==
  ASSUME Worker!WorkerAssumption, Inv, NEW t \in Tasks,
         Worker!ReadShard(t) \/ Worker!FetchShard(t) \/ Worker!ShardArrives(t) \/ Worker!ShardFails(t) \/ Worker!Head(t) \/ Worker!Reply(t)
  PROVE  Inv'
<1>1. UNCHANGED <<Worker!registry, clock, kv, baseline>>
  BY ZenonT(30) DEF Worker!ReadShard, Worker!FetchShard, Worker!ShardArrives, Worker!ShardFails, Worker!Head, Worker!Reply, Worker!memory
<1>2. CASE task[t].pc \in {"shard", "sharding"} /\ Worker!Judged(t)
  BY <1>1, <1>2, JudgedInv, ZenonT(30)
<1>3. CASE task[t].pc # "idle" /\ task' = [task EXCEPT ![t].pc = "done", ![t].failed = TRUE]
  BY <1>1, <1>3, FailedInv, ZenonT(30)
<1>4. CASE Worker!FetchShard(t)
  BY <1>1, <1>4, MovedInv, ZenonT(30) DEF Worker!FetchShard, Worker!To
<1>5. CASE /\ task[t].pc = "head" /\ (remote = NoRoot \/ remote.seq = task[t].root.seq)
           /\ task' = [task EXCEPT ![t].pc = "done"]
  BY <1>1, <1>5, MovedInv, ZenonT(30)
<1>6. CASE task[t].pc = "head" /\ task' = [task EXCEPT ![t] = Worker!Fetching(t)]
  <2>1. TaskOk(Worker!Fetching(t))
    BY <1>6, FetchingOk
  <2> QED
    BY <1>1, <1>6, <2>1, OneTask, SameCaches, ZenonT(30) DEF Inv
<1>7. CASE Worker!Reply(t)
  <2>1. TaskOk(Worker!IdleTask) /\ task' = [task EXCEPT ![t] = Worker!IdleTask]
    BY <1>7, IdleOk DEF Inv, Worker!Reply
  <2> QED
    BY <1>1, <2>1, OneTask, SameCaches, ZenonT(30) DEF Inv
<1> QED
  BY <1>2, <1>3, <1>4, <1>5, <1>6, <1>7, ZenonT(30) DEF Worker!ReadShard, Worker!ShardArrives, Worker!ShardFails, Worker!Head

-------------------------------------------------------------------------------
(* force_refresh forgets the baseline and fetches another. *)
LEMMA StartRefreshInv ==
  ASSUME Worker!WorkerAssumption, Inv, NEW t \in Tasks, NEW i \in Isolates, Worker!StartRefresh(t, i)
  PROVE  Inv'
<1>1. UNCHANGED <<Worker!registry, clock, kv>> /\ baseline' = [baseline EXCEPT ![i] = NoValue] /\ clock \in Nat
  BY DEF Worker!StartRefresh, Inv, Registry
<1>2. PICK old \in (SUBSET Hashes) \cup {NoShard} :
        task' = [task EXCEPT ![t] = [Worker!IdleTask EXCEPT !.kind = "refresh", !.home = i, !.pc = "fetch",
                   !.now = clock, !.began = clock, !.old = old]]
  <2>1. \A w \in kv : w.root.entries \in SUBSET Hashes
    BY DEF Inv, Caches, KvOk, Known, Worker!Roots
  <2>2. baseline[i] # NoValue => baseline[i].root.entries \in SUBSET Hashes
    BY DEF Inv, Caches, MemoryOk, Known, Worker!Roots
  <2> QED
    BY <2>1, <2>2, ZenonT(30) DEF Worker!StartRefresh, Worker!KvReads
<1> DEFINE s == [Worker!IdleTask EXCEPT !.kind = "refresh", !.home = i, !.pc = "fetch",
                   !.now = clock, !.began = clock, !.old = old]
<1>3. TaskOk(Worker!IdleTask) /\ Worker!IdleTask \in TaskRecord
  BY IdleOk DEF Inv, TaskOk, TaskTypes
<1>4. s \in TaskRecord
  BY ZenonT(30), <1>1, <1>2, <1>3 DEF TaskRecord
<1>5. /\ s.kind = "refresh" /\ s.pc = "fetch" /\ s.home = i /\ s.root = Worker!IdleTask.root /\ s.now = clock
      /\ s.began = clock
  BY DEF Worker!IdleTask
<1>6. task' = [task EXCEPT ![t] = s]
  BY <1>2
<1> HIDE DEF s
<1>7. TaskTypes(s) /\ Timely(s) /\ Truthful(s)
  BY <1>1, <1>3, <1>4, <1>5 DEF TaskOk, TaskTypes, Timely, Truthful
<1>8. Registry' /\ Requests'
  BY <1>1, <1>6, <1>7, OneTask, ZenonT(30) DEF TaskOk
<1>9. Caches'
  BY <1>1, Forget, ZenonT(30)
<1> QED
  BY <1>8, <1>9 DEF Inv

(* The status that answers a refresh. *)
LEMMA WarmInv == ASSUME Worker!WorkerAssumption, Inv, NEW t \in Tasks, Worker!Warm(t) PROVE Inv'
<1> DEFINE r == task[t]
           pc == IF Worker!Fresh(r.home) THEN "done" ELSE "kv"
           s == [r EXCEPT !.kind = "status", !.now = clock, !.old = NoShard, !.pc = pc]
<1>1. UNCHANGED <<Worker!registry, clock, kv, baseline>> /\ r.pc = "warm" /\ pc \in {"done", "kv"}
  BY DEF Worker!Warm
<1>2. TaskOk(r) /\ r \in TaskRecord /\ clock \in Nat /\ NoShard \in (SUBSET Hashes) \cup {NoShard}
  BY Acting
<1>3. task' = [task EXCEPT ![t] = s]
  BY ZenonT(30) DEF Worker!Warm
<1> HIDE DEF r, pc
<1>4. s \in TaskRecord
  BY ZenonT(30), <1>1, <1>2 DEF TaskRecord
<1>5. /\ s.kind = "status" /\ s.pc = pc /\ s.home = r.home /\ s.root = r.root /\ s.now = clock
      /\ s.began = r.began
  BY <1>2 DEF TaskRecord
<1> HIDE DEF s
<1>6. s.began \in Nat /\ s.began <= s.now /\ s.now <= clock
  BY <1>2, <1>5 DEF TaskOk, TaskTypes, TaskRecord
<1>7. TaskTypes(s) /\ Truthful(s)
  BY <1>1, <1>2, <1>4, <1>5 DEF TaskOk, TaskTypes, Truthful
<1>8. Timely(s)
  BY <1>1, <1>5, <1>6 DEF Timely
<1>9. Registry' /\ Requests'
  BY <1>1, <1>3, <1>7, <1>8, OneTask, ZenonT(30) DEF TaskOk
<1> QED
  BY <1>1, <1>9, SameCaches DEF Inv

-------------------------------------------------------------------------------
(* Every step keeps the invariant. *)
LEMMA NextInv == ASSUME Worker!WorkerAssumption, Inv, [Worker!Next]_(Worker!vars) PROVE Inv'
<1>1. CASE UNCHANGED Worker!vars
  <2>1. UNCHANGED <<Worker!registry, clock, kv, baseline, task>>
    BY <1>1 DEF Worker!vars, Worker!registry
  <2> QED
    BY <2>1, Judgements DEF Inv, Caches, Requests
<1>2. ASSUME NEW i \in load.isolates PROVE i \in Isolates
  BY DEF Inv, Registry, Worker!Workload
<1>3. ASSUME NEW t \in Tasks,
             \/ Worker!ReadKv(t) \/ Worker!FetchOk(t) \/ Worker!FetchErr(t) \/ Worker!Fallback(t) \/ Worker!Put(t)
             \/ Worker!ReadShard(t) \/ Worker!FetchShard(t) \/ Worker!ShardArrives(t) \/ Worker!ShardFails(t) \/ Worker!Head(t)
             \/ Worker!Warm(t) \/ Worker!Reply(t)
      PROVE  Inv'
  BY <1>3, ReadKvInv, FetchOkInv, FetchErrInv, FallbackInv, PutInv, AnswerInv, WarmInv, ZenonT(30)
<1>4. ASSUME NEW t \in Tasks, NEW i \in load.isolates,
             Worker!StartRefresh(t, i) \/ \E kind \in load.kinds, h \in Hashes : Worker!Start(t, i, kind, h)
      PROVE  Inv'
  BY <1>2, <1>4, StartRefreshInv, StartInv, ZenonT(30)
<1> QED
  BY <1>1, <1>3, <1>4, PublishInv, TickInv, EvictInv, ZenonT(30) DEF Worker!Next

(* While the registry answers, no request works with a root that was replaced   *)
(* more than the two times to live before it began, whatever overlaps, lags or  *)
(* lands out of order (get_baseline_data and refresh_baseline_from_ghcr).       *)
THEOREM StalenessIsBounded == ASSUME Worker!WorkerAssumption PROVE Worker!Spec => []StalenessBounded
<1>1. Inv => StalenessBounded
  <2> SUFFICES ASSUME Inv, "outage" \notin load.faults, NEW t \in Tasks,
                      task[t].pc \in {"shard", "sharding", "head"},
                      task[t].root.seq # published
               PROVE  retired[task[t].root.seq] + L1Ttl + load.baseline_ttl >= task[t].began
    BY DEF StalenessBounded, Worker!StalenessBounded
  <2>1. Known(task[t].root) /\ task[t].began \in Nat /\ L1Ttl \in Nat /\ load.baseline_ttl \in Nat
    BY Acting
  <2>2. retired[task[t].root.seq] >= task[t].began - Age
    BY Acting DEF TaskOk, Timely, Since
  <2>3. retired[task[t].root.seq] \in Nat
    BY <2>1 DEF Known, Worker!Roots, Inv, Registry, Worker!WorkerAssumption
  <2> QED
    BY <2>1, <2>2, <2>3 DEF Age
<1> QED
  BY <1>1, InitOk, NextInv, PTL DEF Worker!Spec

(* A narinfo request that may probe and answers a miss is right about some      *)
(* moment since it began (lookup_narinfo).                                      *)
THEOREM MissesAreTrue == ASSUME Worker!WorkerAssumption PROVE Worker!Spec => []MissIsTrue
<1>1. Inv => MissIsTrue
  BY ZenonT(30) DEF Inv, Requests, TaskOk, Truthful, MissIsTrue, Worker!MissIsTrue
<1> QED
  BY <1>1, InitOk, NextInv, PTL DEF Worker!Spec

-------------------------------------------------------------------------------
(* The streams of a blob (BlobStream).                                         *)

(* b comes after a in c. *)
Joined(a, b, c) ==
  /\ Len(a) + Len(b) = Len(c)
  /\ \A i \in 1 .. Len(a) : a[i] = c[i]
  /\ \A i \in 1 .. Len(b) : b[i] = c[Len(a) + i]

(* c begins with a. *)
Begins(a, c) == Len(a) <= Len(c) /\ \A i \in 1 .. Len(a) : a[i] = c[i]

(* A wrapper that has not failed has passed on what the inner stream has        *)
(* yielded, and ends after all of it.                                           *)
Passed ==
  /\ response.body \in Seq(Nat) /\ left \in Seq(Nat)
  /\ stream \in [seen : Seq(Nat), finished : BOOLEAN, failed : BOOLEAN]
  /\ ~ stream.failed => Joined(stream.seen, left, response.body)
  /\ stream.finished /\ ~ stream.failed => left = << >> /\ (use.for = "serve" => stream.seen = Content)
  /\ use.for # "hash" => Len(stream.seen) <= MaxBytes

(* The receiver has got what was passed on, up to the length it was promised. *)
Sent ==
  /\ reply \in [from : {"cache"}, length : Nat \cup {None}, bytes : Seq(Nat), end : {None}]
  /\ Begins(reply.bytes, stream.seen)
  /\ reply.length # None => Len(reply.bytes) <= reply.length
  /\ reply.length = None \/ Len(reply.bytes) # reply.length => Len(reply.bytes) = Len(stream.seen)

(* The answer to a receiver that takes it for complete. *)
Received ==
  reply.from = "cache" /\ reply.end = "complete" =>
    /\ Begins(reply.bytes, response.body)
    /\ IF reply.length = None THEN reply.bytes = Content ELSE Len(reply.bytes) = reply.length

StreamInv ==
  /\ use \in Stream!Uses
  /\ Passed
  /\ stream_pc \in {"lookup", "send", "upstream"} => use.for # "hash" /\ stream = Stream!Opened /\ reply = Stream!NoReply
  /\ stream_pc = "poll" /\ use.for # "hash" => ~ stream.finished /\ ~ stream.failed
  /\ stream_pc = "poll" /\ use.for = "serve" => Sent
  /\ use.for = "hash" /\ terminal = Stream!InProgress => ~ stream.finished /\ ~ stream.failed
  /\ use.for # "hash" => terminal = Stream!InProgress
  /\ terminal.status = "Complete" => terminal.digest = response.body
  /\ Received

(* Sequences with the same elements are equal. *)
LEMMA SameBytes ==
  ASSUME NEW a \in Seq(Nat), NEW b \in Seq(Nat), Len(a) = Len(b), \A i \in 1 .. Len(a) : a[i] = b[i]
  PROVE  a = b
OBVIOUS

(* When nothing comes after a, it is all of c. *)
LEMMA NothingAfter == ASSUME NEW a \in Seq(Nat), NEW c \in Seq(Nat), Joined(a, << >>, c) PROVE a = c
<1>1. Len(<< >>) = 0 /\ Len(a) \in Nat /\ Len(a) + Len(<< >>) = Len(c)
  BY DEF Joined
<1>2. Len(a) = Len(c)
  BY <1>1
<1>3. \A i \in 1 .. Len(a) : a[i] = c[i]
  BY DEF Joined
<1> QED
  BY <1>2, <1>3, SameBytes, ZenonT(30)

(* A piece of a stream, and what is left after it. *)
LEMMA Pieces ==
  ASSUME NEW s \in Seq(Nat), NEW n \in 0 .. Len(s)
  PROVE  /\ SubSeq(s, 1, n) \in Seq(Nat) /\ Len(SubSeq(s, 1, n)) = n
         /\ \A i \in 1 .. n : SubSeq(s, 1, n)[i] = s[i]
         /\ SubSeq(s, n + 1, Len(s)) \in Seq(Nat) /\ Len(SubSeq(s, n + 1, Len(s))) = Len(s) - n
         /\ \A i \in 1 .. Len(s) - n : SubSeq(s, n + 1, Len(s))[i] = s[n + i]
<1>1. SubSeq(s, 1, n) \in Seq(Nat) /\ Len(SubSeq(s, 1, n)) = n
  OBVIOUS
<1>2. \A i \in 1 .. n : SubSeq(s, 1, n)[i] = s[i]
  OBVIOUS
<1>3. SubSeq(s, n + 1, Len(s)) \in Seq(Nat) /\ Len(SubSeq(s, n + 1, Len(s))) = Len(s) - n
  OBVIOUS
<1>4. \A i \in 1 .. Len(s) - n : SubSeq(s, n + 1, Len(s))[i] = s[n + i]
  OBVIOUS
<1> QED
  BY <1>1, <1>2, <1>3, <1>4

(* What two sequences are one after the other. *)
LEMMA Concatenation ==
  ASSUME NEW a \in Seq(Nat), NEW b \in Seq(Nat)
  PROVE  /\ a \o b \in Seq(Nat) /\ Len(a \o b) = Len(a) + Len(b)
         /\ \A i \in 1 .. Len(a) : (a \o b)[i] = a[i]
         /\ \A i \in 1 .. Len(b) : (a \o b)[Len(a) + i] = b[i]
<1>1. a \o b \in Seq(Nat) /\ Len(a \o b) = Len(a) + Len(b)
  OBVIOUS
<1>2. \A i \in 1 .. Len(a) : (a \o b)[i] = a[i]
  OBVIOUS
<1>3. \A i \in 1 .. Len(b) : (a \o b)[Len(a) + i] = b[i]
  OBVIOUS
<1> QED
  BY <1>1, <1>2, <1>3

(* A piece that is passed on. *)
LEMMA PassedOn ==
  ASSUME NEW a \in Seq(Nat), NEW b \in Seq(Nat), NEW c \in Seq(Nat), Joined(a, b, c), NEW n \in 1 .. Len(b)
  PROVE  Joined(a \o SubSeq(b, 1, n), SubSeq(b, n + 1, Len(b)), c)
<1> DEFINE d == SubSeq(b, 1, n)
           e == SubSeq(b, n + 1, Len(b))
           f == a \o d
<1>1. /\ d \in Seq(Nat) /\ Len(d) = n /\ (\A i \in 1 .. n : d[i] = b[i])
      /\ e \in Seq(Nat) /\ Len(e) = Len(b) - n /\ (\A i \in 1 .. Len(b) - n : e[i] = b[n + i])
  BY Pieces
<1> HIDE DEF d, e
<1>2. /\ f \in Seq(Nat) /\ Len(f) = Len(a) + n
      /\ (\A i \in 1 .. Len(a) : f[i] = a[i]) /\ (\A i \in 1 .. n : f[Len(a) + i] = d[i])
  BY ZenonT(30), <1>1, Concatenation
<1> HIDE DEF f
<1>3. /\ Len(a) \in Nat /\ Len(b) \in Nat /\ Len(c) = Len(a) + Len(b)
      /\ Len(f) = Len(a) + n /\ Len(e) = Len(b) - n
  <2>1. Len(a) \in Nat /\ Len(b) \in Nat /\ Len(c) = Len(a) + Len(b)
    BY DEF Joined
  <2> QED
    BY <1>1, <1>2, <2>1, ZenonT(30)
<1>4. ASSUME NEW i \in 1 .. Len(f) PROVE f[i] = c[i]
  <2>1. CASE i \in 1 .. Len(a)
    BY <1>2, <2>1 DEF Joined
  <2>2. CASE i \notin 1 .. Len(a)
    <3>1. i - Len(a) \in 1 .. n /\ Len(a) + (i - Len(a)) = i /\ i - Len(a) \in 1 .. Len(b)
      BY <1>3, <2>2
    <3>2. f[i] = b[i - Len(a)] /\ b[i - Len(a)] = c[Len(a) + (i - Len(a))]
      BY ZenonT(30), <1>1, <1>2, <3>1 DEF Joined
    <3> QED
      BY <3>1, <3>2
  <2> QED
    BY <2>1, <2>2
<1>5. ASSUME NEW i \in 1 .. Len(e) PROVE e[i] = c[Len(f) + i]
  <2>1. n + i \in 1 .. Len(b) /\ Len(f) + i = Len(a) + (n + i) /\ i \in 1 .. Len(b) - n
    BY <1>3
  <2>2. e[i] = b[n + i] /\ b[n + i] = c[Len(a) + (n + i)]
    BY ZenonT(30), <1>1, <2>1 DEF Joined
  <2> QED
    BY <2>1, <2>2
<1>6. Len(f) + Len(e) = Len(c)
  BY <1>3
<1>7. Joined(f, e, c)
  BY ZenonT(30), <1>4, <1>5, <1>6 DEF Joined
<1> QED
  BY <1>7 DEF d, e, f

(* What the inner stream may yield. *)
LEMMA Yields ==
  ASSUME Stream!ConstantsOk, left \in Seq(Nat), NEW item \in Stream!Items
  PROVE  \/ item = Error /\ item # End /\ Stream!Rest(item) = left
         \/ item = End /\ item # Error /\ left = << >> /\ Stream!Rest(item) = left
         \/ /\ item \notin {End, Error} /\ item \in Seq(Nat)
            /\ \E n \in 1 .. Len(left) : /\ item = SubSeq(left, 1, n) /\ Len(item) = n
                                         /\ Stream!Rest(item) = SubSeq(left, n + 1, Len(left))
                                         /\ Stream!Rest(item) \in Seq(Nat)
<1>1. CASE item = Error
  BY <1>1 DEF Stream!ConstantsOk, Stream!Rest
<1>2. CASE item = End /\ item # Error
  <2>1. left = << >>
    <3>1. ASSUME NEW n \in 1 .. Len(left) PROVE SubSeq(left, 1, n) # item
      <4>1. SubSeq(left, 1, n) \in Seq(Nat)
        OBVIOUS
      <4>2. item \notin Seq(Nat)
        BY <1>2 DEF Stream!ConstantsOk
      <4> QED
        BY <4>1, <4>2, ZenonT(30)
    <3> QED
      BY <1>2, <3>1, ZenonT(30) DEF Stream!Items
  <2> QED
    BY <1>2, <2>1 DEF Stream!Rest
<1>3. CASE item \notin {End, Error}
  <2>1. PICK n \in 1 .. Len(left) : item = SubSeq(left, 1, n)
    BY <1>3, ZenonT(30) DEF Stream!Items
  <2>2. item \in Seq(Nat) /\ Len(item) = n /\ SubSeq(left, n + 1, Len(left)) \in Seq(Nat)
    BY <2>1, Pieces
  <2> QED
    BY <1>3, <2>1, <2>2 DEF Stream!Rest
<1> QED
  BY ZenonT(30), <1>1, <1>2, <1>3

(* What every wrapper does with an item keeps what it has passed on a beginning *)
(* of the body.                                                                 *)
LEMMA Wraps ==
  ASSUME Stream!ConstantsOk, Passed, ~ stream.failed, NEW item \in Stream!Items, left' = Stream!Rest(item),
         UNCHANGED << use, response >>,
         \/ stream' = Stream!Failed(stream)
         \/ /\ item = End
            /\ \E f \in BOOLEAN : /\ stream' = [stream EXCEPT !.finished = TRUE, !.failed = f]
                                  /\ use.for = "serve" /\ ~ f => stream.seen = Content
         \/ /\ item \notin {End, Error} /\ ~ stream.finished
            /\ stream' = [stream EXCEPT !.seen = @ \o item]
            /\ use.for # "hash" => Len(stream.seen) + Len(item) <= MaxBytes
  PROVE  Passed'
<1> DEFINE S == [seen : Seq(Nat), finished : BOOLEAN, failed : BOOLEAN]
<1>0. /\ response.body \in Seq(Nat) /\ left \in Seq(Nat) /\ stream \in S /\ stream.seen \in Seq(Nat)
      /\ Joined(stream.seen, left, response.body)
  BY ZenonT(30) DEF Passed
<1>1. left' \in Seq(Nat)
  BY <1>0, Yields, ZenonT(30)
<1>2. CASE stream' = Stream!Failed(stream)
  <2>1. stream' \in S /\ stream'.failed /\ stream'.seen = stream.seen
    BY ZenonT(30), <1>0, <1>2 DEF Stream!Failed
  <2> QED
    BY ZenonT(30), <1>0, <1>1, <2>1 DEF Passed
<1>3. ASSUME item = End, NEW f \in BOOLEAN, stream' = [stream EXCEPT !.finished = TRUE, !.failed = f],
             use.for = "serve" /\ ~ f => stream.seen = Content
      PROVE  Passed'
  <2>1. stream' \in S /\ stream'.failed = f /\ stream'.seen = stream.seen
    BY ZenonT(30), <1>0, <1>3
  <2>2. left = << >> /\ left' = left
    BY ZenonT(30), <1>0, <1>3, Yields
  <2> QED
    BY ZenonT(30), <1>0, <1>3, <2>1, <2>2 DEF Passed
<1>4. CASE /\ item \notin {End, Error} /\ ~ stream.finished
           /\ stream' = [stream EXCEPT !.seen = @ \o item]
           /\ use.for # "hash" => Len(stream.seen) + Len(item) <= MaxBytes
  <2>1. PICK n \in 1 .. Len(left) : item = SubSeq(left, 1, n) /\ left' = SubSeq(left, n + 1, Len(left))
    BY ZenonT(30), <1>0, <1>4, Yields
  <2>2. item \in Seq(Nat)
    BY ZenonT(30), <1>0, <1>4, Yields
  <2>3. stream.seen \o item \in Seq(Nat) /\ Len(stream.seen \o item) = Len(stream.seen) + Len(item)
    BY ZenonT(30), <1>0, <2>2, Concatenation
  <2>4. Joined(stream.seen \o item, left', response.body)
    <3>1. Joined(stream.seen \o SubSeq(left, 1, n), SubSeq(left, n + 1, Len(left)), response.body)
      BY <1>0, PassedOn, ZenonT(30)
    <3> QED
      BY <2>1, <3>1, ZenonT(30)
  <2>5. stream' \in S /\ stream'.seen = stream.seen \o item /\ ~ stream'.finished /\ ~ stream'.failed
    BY ZenonT(30), <1>0, <1>4, <2>3
  <2> QED
    BY ZenonT(30), <1>0, <1>1, <1>4, <2>3, <2>4, <2>5 DEF Passed
<1> QED
  BY ZenonT(30), <1>2, <1>3, <1>4

(* A beginning of a beginning. *)
LEMMA BeginsJoined ==
  ASSUME NEW a \in Seq(Nat), NEW b \in Seq(Nat), NEW c \in Seq(Nat), NEW d \in Seq(Nat), Begins(a, b), Joined(b, d, c)
  PROVE  Begins(a, c)
<1>1. Len(a) \in Nat /\ Len(b) \in Nat /\ Len(d) \in Nat /\ Len(a) <= Len(b) /\ Len(b) + Len(d) = Len(c)
  BY DEF Begins, Joined
<1>2. ASSUME NEW i \in 1 .. Len(a) PROVE a[i] = c[i]
  <2>1. i \in 1 .. Len(b)
    BY <1>1
  <2> QED
    BY <2>1 DEF Begins, Joined
<1>3. Len(a) <= Len(c)
  BY <1>1
<1> QED
  BY <1>2, <1>3 DEF Begins

(* A receiver that has all that was passed on gets the beginning of a piece. *)
LEMMA BeginsOn ==
  ASSUME NEW a \in Seq(Nat), NEW b \in Seq(Nat), NEW m \in Seq(Nat), Begins(a, b),
         NEW k \in 0 .. Len(m), k # 0 => Len(a) = Len(b)
  PROVE  /\ a \o SubSeq(m, 1, k) \in Seq(Nat) /\ Len(a \o SubSeq(m, 1, k)) = Len(a) + k
         /\ Begins(a \o SubSeq(m, 1, k), b \o m)
<1> DEFINE d == SubSeq(m, 1, k)
           t == a \o d
           u == b \o m
<1>1. d \in Seq(Nat) /\ Len(d) = k /\ (\A i \in 1 .. k : d[i] = m[i])
  BY Pieces
<1> HIDE DEF d
<1>2. /\ t \in Seq(Nat) /\ Len(t) = Len(a) + k
      /\ (\A i \in 1 .. Len(a) : t[i] = a[i]) /\ (\A i \in 1 .. k : t[Len(a) + i] = d[i])
  BY <1>1, Concatenation, ZenonT(30)
<1>3. /\ u \in Seq(Nat) /\ Len(u) = Len(b) + Len(m)
      /\ (\A i \in 1 .. Len(b) : u[i] = b[i]) /\ (\A i \in 1 .. Len(m) : u[Len(b) + i] = m[i])
  BY Concatenation, ZenonT(30)
<1> HIDE DEF t, u
<1>4. /\ Len(a) \in Nat /\ Len(b) \in Nat /\ Len(m) \in Nat /\ Len(a) <= Len(b)
      /\ Len(t) = Len(a) + k /\ Len(u) = Len(b) + Len(m)
  BY <1>2, <1>3 DEF Begins
<1>5. ASSUME NEW i \in 1 .. Len(t) PROVE t[i] = u[i]
  <2>1. CASE i \in 1 .. Len(a)
    <3>1. i \in 1 .. Len(b)
      BY <1>4, <2>1
    <3> QED
      BY ZenonT(30), <1>2, <1>3, <2>1, <3>1 DEF Begins
  <2>2. CASE i \notin 1 .. Len(a)
    <3>1. i - Len(a) \in 1 .. k /\ Len(a) + (i - Len(a)) = i /\ Len(a) = Len(b) /\ i - Len(a) \in 1 .. Len(m)
      BY <1>4, <2>2
    <3>2. t[Len(a) + (i - Len(a))] = m[i - Len(a)]
      BY <1>1, <1>2, <3>1
    <3>3. u[Len(b) + (i - Len(a))] = m[i - Len(a)]
      BY ZenonT(30), <1>3, <3>1
    <3> QED
      BY <3>1, <3>2, <3>3
  <2> QED
    BY <2>1, <2>2
<1>6. Len(t) <= Len(u)
  BY <1>4
<1>7. t \in Seq(Nat) /\ Len(t) = Len(a) + k /\ Begins(t, u)
  BY <1>2, <1>5, <1>6 DEF Begins
<1> QED
  BY <1>7, ZenonT(30) DEF t, d, u

(* How much of a piece a server sends that announced the length n, or none. *)
LEMMA Portion ==
  ASSUME NEW a \in Nat, NEW b \in Nat, NEW m \in Nat, NEW n \in Nat \cup {None}, None \notin Nat,
         a <= b, b + m <= MaxBytes, MaxBytes \in Nat, n # None => a <= n, n = None \/ a # n => a = b,
         NEW room, room = (IF n = None THEN MaxBytes ELSE n - a), NEW k, k = (IF m < room THEN m ELSE room)
  PROVE  /\ k \in 0 .. m /\ (k # 0 => a = b) /\ (n # None => a + k <= n)
         /\ (n = None \/ a + k # n => a + k = b + m)
<1>1. CASE n = None
  BY <1>1
<1>2. CASE n # None
  BY <1>2
<1> QED
  BY <1>1, <1>2

(* VerifiedBlobStream fails, ends after the body of the digest, or passes on. *)
LEMMA Verifies ==
  ASSUME Stream!ConstantsOk, Passed, ~ stream.failed, ~ stream.finished, NEW item \in Stream!Items,
         UNCHANGED << use, response >>, left' = Stream!Rest(item), stream' = Stream!VerifiedBlobStream(stream, item)
  PROVE  /\ Passed'
         /\ \/ stream'.failed
            \/ item = End /\ stream'.finished /\ ~ stream'.failed /\ stream'.seen = stream.seen /\ stream.seen = Content
            \/ /\ item \notin {End, Error} /\ ~ stream'.finished /\ ~ stream'.failed
               /\ stream'.seen = stream.seen \o item /\ Len(stream.seen) + Len(item) <= MaxBytes
<1> DEFINE S == [seen : Seq(Nat), finished : BOOLEAN, failed : BOOLEAN]
<1>0. stream \in S
  BY DEF Passed
<1>1. CASE stream' = Stream!Failed(stream)
  <2>1. stream'.failed
    BY <1>0, <1>1, ZenonT(30) DEF Stream!Failed
  <2> QED
    BY <1>1, <2>1, Wraps, ZenonT(30)
<1>2. CASE item = End /\ item # Error
  <2> DEFINE f == ~ Stream!verify_stream_digest(response, stream.seen)
  <2>1. stream' = [stream EXCEPT !.finished = TRUE, !.failed = f]
    BY <1>2, ZenonT(30) DEF Stream!VerifiedBlobStream
  <2>2. f \in BOOLEAN /\ (~ f => stream.seen = Content)
    BY ZenonT(30) DEF Stream!verify_stream_digest
  <2> HIDE DEF f
  <2>3. stream'.finished /\ stream'.failed = f /\ stream'.seen = stream.seen
    BY <1>0, <2>1, ZenonT(30)
  <2> QED
    BY <1>2, <2>1, <2>2, <2>3, Wraps, ZenonT(30)
<1>3. CASE item \notin {End, Error} /\ stream' # Stream!Failed(stream)
  <2>1. stream' = Stream!Keep(stream, item)
    BY <1>3, ZenonT(30) DEF Stream!VerifiedBlobStream
  <2>2. stream' = [stream EXCEPT !.seen = @ \o item] /\ ~ (Len(stream.seen) + Len(item) > MaxBytes)
    BY <1>3, <2>1, ZenonT(30) DEF Stream!Keep
  <2>3. Len(stream.seen) + Len(item) <= MaxBytes
    <3>1. stream.seen \in Seq(Nat) /\ item \in Seq(Nat)
      BY <1>0, <1>3, Yields, ZenonT(30) DEF Passed
    <3>2. Len(stream.seen) \in Nat /\ Len(item) \in Nat /\ MaxBytes \in Nat
      BY <3>1 DEF Stream!ConstantsOk
    <3> QED
      BY <2>2, <3>2
  <2>4. stream'.finished = stream.finished /\ stream'.failed = stream.failed /\ stream'.seen = stream.seen \o item
    BY <1>0, <2>2, ZenonT(30)
  <2> QED
    BY <1>3, <2>2, <2>3, <2>4, Wraps, ZenonT(30)
<1>4. item = Error => stream' = Stream!Failed(stream)
  <2>1. End # Error
    BY DEF Stream!ConstantsOk
  <2> QED
    BY <2>1, ZenonT(30) DEF Stream!VerifiedBlobStream
<1> QED
  BY <1>1, <1>2, <1>3, <1>4, ZenonT(30)

(* What is sent on to the receiver of a NAR, and when it is told that this is   *)
(* the end.                                                                     *)
LEMMA Forwards ==
  ASSUME Stream!ConstantsOk, Passed, Sent, use.for = "serve", ~ stream.failed, ~ stream.finished, NEW item \in Stream!Items,
         UNCHANGED << use, response >>, left' = Stream!Rest(item), stream' = Stream!VerifiedBlobStream(stream, item),
         Stream!Forward(item, stream')
  PROVE  /\ Passed' /\ Received'
         /\ reply'.end = None => Sent' /\ ~ stream'.finished /\ ~ stream'.failed
<1> DEFINE room == IF reply.length = None THEN MaxBytes ELSE reply.length - Len(reply.bytes)
           k == IF Len(item) < room THEN Len(item) ELSE room
           sent == IF item \in {End, Error} \/ stream'.failed THEN reply.bytes ELSE reply.bytes \o SubSeq(item, 1, k)
           full == reply.length = Len(sent)
           R == [from : {"cache"}, length : Nat \cup {None}, bytes : Seq(Nat), end : {None}]
<1>1. PICK e : /\ reply' = [reply EXCEPT !.bytes = sent, !.end = e]
               /\ stream'.failed => e = "aborted"
               /\ ~ stream'.failed => \/ e = "complete" /\ full
                                      \/ ~ stream'.finished /\ e = None
                                      \/ stream'.finished /\ e = "complete" /\ reply.length = None
                                      \/ e = "aborted"
  BY ZenonT(30) DEF Stream!Forward
<1>2. /\ reply \in R /\ reply.bytes \in Seq(Nat) /\ reply.length \in Nat \cup {None} /\ None \notin Nat /\ MaxBytes \in Nat
      /\ None # "aborted" /\ None # "complete"
  BY DEF Sent, Stream!ConstantsOk
<1>3. Begins(reply.bytes, stream.seen) /\ stream.seen \in Seq(Nat) /\ left' \in Seq(Nat) /\ response.body \in Seq(Nat)
  <2>1. Passed'
    BY Verifies
  <2> QED
    BY <2>1, ZenonT(30) DEF Sent, Passed
<1> HIDE DEF sent, full
<1>4. reply'.from = "cache" /\ reply'.length = reply.length /\ reply'.bytes = sent /\ reply'.end = e
  BY <1>1, <1>2, ZenonT(30)
<1>5. CASE stream'.failed
  BY <1>1, <1>2, <1>4, <1>5, Verifies, ZenonT(30) DEF Received
<1>6. CASE item = End /\ stream'.finished /\ ~ stream'.failed /\ stream'.seen = stream.seen /\ stream.seen = Content
  <2>1. sent = reply.bytes
    BY <1>6 DEF sent
  <2>2. Begins(reply.bytes, response.body)
    <3>1. Joined(stream.seen, left, response.body) /\ left \in Seq(Nat)
      BY DEF Passed
    <3> QED
      BY <1>2, <1>3, <3>1, BeginsJoined
  <2>3. e # None /\ (e = "complete" => full \/ reply.length = None)
    BY <1>1, <1>2, <1>6, ZenonT(30)
  <2>4. ASSUME reply.length = None PROVE reply.bytes = Content
    <3>1. Len(reply.bytes) = Len(stream.seen)
      BY <2>4 DEF Sent
    <3>2. reply.bytes = stream.seen
      BY <1>2, <1>3, <3>1, SameBytes, ZenonT(30) DEF Begins
    <3> QED
      BY <1>6, <3>2
  <2>5. full => Len(reply.bytes) = reply.length
    BY <2>1, ZenonT(30) DEF full
  <2>6. Received'
    BY <1>4, <2>1, <2>2, <2>3, <2>4, <2>5, ZenonT(30) DEF Received
  <2> QED
    BY <1>4, <2>3, <2>6, Verifies, ZenonT(30)
<1>7. CASE /\ item \notin {End, Error} /\ ~ stream'.finished /\ ~ stream'.failed
           /\ stream'.seen = stream.seen \o item /\ Len(stream.seen) + Len(item) <= MaxBytes
  <2>1. item \in Seq(Nat) /\ sent = reply.bytes \o SubSeq(item, 1, k)
    BY <1>7, Yields, ZenonT(30) DEF sent, Passed
  <2>2. /\ Len(reply.bytes) \in Nat /\ Len(stream.seen) \in Nat /\ Len(item) \in Nat
        /\ Len(reply.bytes) <= Len(stream.seen)
        /\ (reply.length # None => Len(reply.bytes) <= reply.length)
        /\ (reply.length = None \/ Len(reply.bytes) # reply.length => Len(reply.bytes) = Len(stream.seen))
    BY <1>2, <1>3, <2>1 DEF Begins, Sent
  <2>3. /\ k \in 0 .. Len(item) /\ (k # 0 => Len(reply.bytes) = Len(stream.seen))
        /\ (reply.length # None => Len(reply.bytes) + k <= reply.length)
        /\ (reply.length = None \/ Len(reply.bytes) + k # reply.length => Len(reply.bytes) + k = Len(stream.seen) + Len(item))
    <3> DEFINE a == Len(reply.bytes)
               b == Len(stream.seen)
               m == Len(item)
               n == reply.length
    <3>1. room = (IF n = None THEN MaxBytes ELSE n - a) /\ k = (IF m < room THEN m ELSE room)
      OBVIOUS
    <3>2. /\ a \in Nat /\ b \in Nat /\ m \in Nat /\ n \in Nat \cup {None} /\ None \notin Nat /\ MaxBytes \in Nat
          /\ a <= b /\ b + m <= MaxBytes /\ (n # None => a <= n) /\ (n = None \/ a # n => a = b)
      BY <1>2, <1>7, <2>2, ZenonT(30)
    <3> HIDE DEF k, room, a, b, m, n
    <3>3. /\ k \in 0 .. m /\ (k # 0 => a = b) /\ (n # None => a + k <= n)
          /\ (n = None \/ a + k # n => a + k = b + m)
      BY <3>1, <3>2, Portion
    <3> QED
      BY <3>3, ZenonT(30) DEF a, b, m, n
  <2> HIDE DEF k
  <2>4. sent \in Seq(Nat) /\ Len(sent) = Len(reply.bytes) + k /\ Begins(sent, stream'.seen)
    <3> DEFINE a == reply.bytes
               b == stream.seen
    <3>1. /\ a \in Seq(Nat) /\ b \in Seq(Nat) /\ Begins(a, b) /\ (k # 0 => Len(a) = Len(b))
          /\ item \in Seq(Nat) /\ k \in 0 .. Len(item)
      BY ZenonT(30), <1>2, <1>3, <2>1, <2>3
    <3> HIDE DEF a, b
    <3>2. /\ a \o SubSeq(item, 1, k) \in Seq(Nat) /\ Len(a \o SubSeq(item, 1, k)) = Len(a) + k
          /\ Begins(a \o SubSeq(item, 1, k), b \o item)
      BY <3>1, BeginsOn
    <3> QED
      BY <1>7, <2>1, <3>2, ZenonT(30) DEF a, b
  <2>5. Len(stream'.seen) = Len(stream.seen) + Len(item) /\ stream'.seen \in Seq(Nat)
    <3>1. Len(stream.seen \o item) = Len(stream.seen) + Len(item) /\ stream.seen \o item \in Seq(Nat)
      BY <1>3, <2>1, Concatenation, ZenonT(30)
    <3> QED
      BY <1>7, <3>1, ZenonT(30)
  <2>6. e = None => Sent'
    <3>1. reply' \in [from : {"cache"}, length : Nat \cup {None}, bytes : Seq(Nat), end : {e}]
      BY <1>1, <1>2, <2>4, ZenonT(30)
    <3>2. /\ reply.length # None => Len(sent) <= reply.length
          /\ reply.length = None \/ Len(sent) # reply.length => Len(sent) = Len(stream'.seen)
      BY <2>3, <2>4, <2>5, ZenonT(30)
    <3> QED
      BY <1>4, <2>4, <3>1, <3>2, ZenonT(30) DEF Sent
  <2>7. Begins(sent, response.body)
    <3>1. Joined(stream'.seen, left', response.body)
      BY <1>7, Verifies, ZenonT(30) DEF Passed
    <3> QED
      BY <1>3, <2>4, <2>5, <3>1, BeginsJoined, ZenonT(30)
  <2>8. full => Len(sent) = reply.length /\ reply.length # None
    <3>1. Len(sent) \in Nat
      BY <2>4
    <3> QED
      BY <1>2, <3>1, ZenonT(30) DEF full
  <2>9. Received'
    BY <1>1, <1>2, <1>4, <1>7, <2>7, <2>8, ZenonT(30) DEF Received
  <2> QED
    BY <1>4, <1>7, <2>6, <2>9, Verifies, ZenonT(30)
<1> QED
  BY <1>5, <1>6, <1>7, Verifies, ZenonT(30)

(* Every initial state satisfies the invariant. *)
LEMMA StreamInit == ASSUME Stream!ConstantsOk, Stream!Init PROVE StreamInv
<1>1. << >> \in Seq(Nat) /\ Len(<< >>) = 0
  OBVIOUS
<1>2. /\ use \in Stream!Uses /\ stream = Stream!Opened /\ terminal = Stream!InProgress /\ reply = Stream!NoReply
      /\ stream_pc = "poll" <=> use.for = "hash"
  BY ZenonT(30) DEF Stream!Init
<1>3. /\ stream.seen = << >> /\ ~ stream.finished /\ ~ stream.failed
      /\ stream \in [seen : Seq(Nat), finished : BOOLEAN, failed : BOOLEAN]
  BY <1>1, <1>2 DEF Stream!Opened
<1>4. left \in Seq(Nat) /\ response.body = left
  <2>1. CASE use.for = "hash"
    BY <1>2, <2>1 DEF Stream!Init, Stream!Blob, Stream!ConstantsOk
  <2>2. CASE use.for # "hash"
    <3>1. response = Stream!Blob /\ left = << >>
      BY <2>2, ZenonT(30) DEF Stream!Init
    <3>2. Stream!Blob.body = << >>
      BY DEF Stream!Blob
    <3> QED
      BY <1>1, <3>1, <3>2
  <2> QED
    BY <2>1, <2>2
<1>5. Joined(stream.seen, left, response.body)
  <2>1. Joined(<< >>, left, left)
    BY <1>1, <1>4 DEF Joined
  <2> QED
    BY <1>3, <1>4, <2>1, ZenonT(30)
<1>6. Len(stream.seen) <= MaxBytes
  BY <1>1, <1>3 DEF Stream!ConstantsOk
<1>7. Passed
  BY <1>3, <1>4, <1>5, <1>6, ZenonT(30) DEF Passed
<1>8. reply.from # "cache" /\ terminal.status # "Complete"
  BY <1>2 DEF Stream!NoReply, Stream!InProgress, Stream!ConstantsOk
<1> QED
  BY <1>2, <1>3, <1>7, <1>8, ZenonT(30) DEF StreamInv, Received

(* The steps before the first byte. *)
LEMMA RequestStep ==
  ASSUME Stream!ConstantsOk, StreamInv,
         Stream!Lookup \/ Stream!Redirect \/ Stream!Send \/ Stream!AskUpstream \/ Stream!NotFound
  PROVE  StreamInv'
<1> USE DEF Stream!request
<1>0. /\ use \in Stream!Uses /\ Passed /\ use.for # "hash" /\ stream = Stream!Opened /\ reply = Stream!NoReply
      /\ terminal = Stream!InProgress /\ terminal.status # "Complete"
  <2>1. stream_pc \in {"lookup", "send", "upstream"}
    BY ZenonT(30) DEF Stream!Lookup, Stream!Redirect, Stream!Send, Stream!AskUpstream, Stream!NotFound
  <2>2. terminal = Stream!InProgress
    BY <2>1, ZenonT(30) DEF StreamInv
  <2>3. terminal.status # "Complete"
    BY <2>2 DEF Stream!InProgress
  <2> QED
    BY <2>1, <2>2, <2>3, ZenonT(30) DEF StreamInv
<1>1. CASE /\ UNCHANGED << use, response, left, stream, terminal >> /\ stream_pc' # "poll"
           /\ (UNCHANGED reply \/ (reply'.from # "cache" /\ stream_pc' = "done"))
  <2>1. Passed' /\ Received'
    BY <1>0, <1>1, ZenonT(30) DEF Passed, StreamInv, Received
  <2> QED
    BY <1>0, <1>1, <2>1, ZenonT(30) DEF StreamInv
<1>2. ASSUME NEW r \in Stream!Responses, Stream!Answered(r), Stream!Opens(r) PROVE StreamInv'
  <2>1. /\ r.body \in Seq(Nat) /\ r.length \in Nat \cup {None} /\ None \notin {"cache", "complete"} /\ None \notin Nat
        /\ MaxBytes \in Nat
    BY ZenonT(30), <1>2 DEF Stream!Responses, Stream!Answered, Stream!check_content_length, Stream!ConstantsOk
  <2>2. /\ UNCHANGED << use, stream, terminal >> /\ response' = r /\ left' = r.body /\ stream_pc' = "poll"
        /\ reply' = IF use.for # "serve" THEN reply ELSE [Stream!NoReply EXCEPT !.from = "cache", !.length = r.length]
    BY <1>2, ZenonT(30) DEF Stream!Opens
  <2>3. /\ stream.seen = << >> /\ stream \in [seen : Seq(Nat), finished : BOOLEAN, failed : BOOLEAN]
        /\ ~ stream.finished /\ ~ stream.failed /\ Len(<< >>) = 0 /\ << >> \in Seq(Nat)
    BY <1>0 DEF Stream!Opened
  <2>4. Joined(<< >>, r.body, r.body) /\ Begins(<< >>, << >>) /\ Len(<< >>) <= MaxBytes
    BY <2>1 DEF Joined, Begins
  <2>5. Passed'
    BY <2>1, <2>2, <2>3, <2>4, ZenonT(30) DEF Passed
  <2>6. CASE use.for = "serve"
    <3>1. reply' = [from |-> "cache", length |-> r.length, bytes |-> << >>, end |-> None]
      BY <2>2, <2>6, ZenonT(30) DEF Stream!NoReply
    <3>2. Sent'
      <4>1. reply' \in [from : {"cache"}, length : Nat \cup {None}, bytes : Seq(Nat), end : {None}]
        BY <2>1, <2>3, <3>1, ZenonT(30)
      <4>2. reply'.bytes = << >>
        BY <3>1
      <4>3. reply'.length \in Nat => Len(<< >>) <= reply'.length
        BY <2>3
      <4> QED
        BY <2>2, <2>3, <2>4, <4>1, <4>2, <4>3, ZenonT(30) DEF Sent
    <3>3. reply'.end # "complete"
      BY <2>1, <3>1, ZenonT(30)
    <3> QED
      BY <1>0, <2>2, <2>3, <2>5, <2>6, <3>2, <3>3, ZenonT(30) DEF StreamInv, Received
  <2>7. CASE use.for # "serve"
    <3>1. reply' = Stream!NoReply /\ Stream!NoReply.from # "cache"
      BY <1>0, <2>1, <2>2, <2>7 DEF Stream!NoReply
    <3> QED
      BY <1>0, <2>2, <2>3, <2>5, <2>7, <3>1, ZenonT(30) DEF StreamInv, Received
  <2> QED
    BY <2>6, <2>7
<1>3. CASE Stream!Lookup \/ Stream!Redirect
  BY <1>1, <1>3, ZenonT(30) DEF Stream!Lookup, Stream!Redirect
<1>4. CASE Stream!StreamFails
  BY <1>1, <1>4, ZenonT(30) DEF Stream!StreamFails
<1>5. CASE Stream!Send
  BY <1>2, <1>4, <1>5, ZenonT(30) DEF Stream!Send
<1>6. CASE Stream!AskUpstream \/ Stream!NotFound
  <2>1. \A b, f : [Stream!NoReply EXCEPT !.from = f, !.bytes = b].from = f /\ [Stream!NoReply EXCEPT !.from = f].from = f
    BY ZenonT(30) DEF Stream!NoReply
  <2> QED
    BY <1>1, <1>6, <2>1, ZenonT(30) DEF Stream!AskUpstream, Stream!NotFound
<1> QED
  BY <1>3, <1>5, <1>6

(* serve_nar relays the stream to its receiver. *)
LEMMA PollNarStep == ASSUME Stream!ConstantsOk, StreamInv, Stream!PollNar PROVE StreamInv'
<1>1. /\ use \in Stream!Uses /\ Passed /\ Sent /\ stream_pc = "poll" /\ use.for = "serve" /\ ~ stream.finished
      /\ ~ stream.failed /\ terminal = Stream!InProgress /\ UNCHANGED << use, response, terminal >>
  BY ZenonT(30) DEF StreamInv, Stream!PollNar
<1>2. PICK item \in Stream!Items : /\ stream' = Stream!VerifiedBlobStream(stream, item) /\ left' = Stream!Rest(item)
                                  /\ Stream!Forward(item, stream')
  BY ZenonT(30) DEF Stream!PollNar
<1>3. Passed' /\ Received' /\ (reply'.end = None => Sent' /\ ~ stream'.finished /\ ~ stream'.failed)
  BY <1>1, <1>2, Forwards, ZenonT(30)
<1>4. stream_pc' = IF reply'.end = None THEN "poll" ELSE "done"
  BY ZenonT(30) DEF Stream!PollNar
<1>5. terminal.status # "Complete"
  BY <1>1 DEF Stream!InProgress
<1> QED
  BY <1>1, <1>3, <1>4, <1>5, ZenonT(30) DEF StreamInv

(* collect_limited fills its buffer. *)
LEMMA PollBufferedStep == ASSUME Stream!ConstantsOk, StreamInv, Stream!PollBuffered PROVE StreamInv'
<1>1. /\ use \in Stream!Uses /\ Passed /\ stream_pc = "poll" /\ use.for = "collect" /\ ~ stream.finished /\ ~ stream.failed
      /\ terminal = Stream!InProgress /\ Received /\ UNCHANGED << use, response, terminal, reply >>
  BY ZenonT(30) DEF StreamInv, Stream!PollBuffered
<1>2. PICK item \in Stream!Items : stream' = Stream!collect_limited(stream, item) /\ left' = Stream!Rest(item)
  BY ZenonT(30) DEF Stream!PollBuffered
<1>3. Passed'
  <2>1. stream \in [seen : Seq(Nat), finished : BOOLEAN, failed : BOOLEAN] /\ End # Error
    BY <1>1 DEF Passed, Stream!ConstantsOk
  <2>2. CASE stream' = Stream!Failed(stream)
    BY <1>1, <1>2, <2>2, Wraps, ZenonT(30)
  <2>3. CASE item = End
    <3>1. stream' = [stream EXCEPT !.finished = TRUE]
      BY <1>2, <2>1, <2>3, ZenonT(30) DEF Stream!collect_limited
    <3>2. stream' = [stream EXCEPT !.finished = TRUE, !.failed = FALSE]
      BY ZenonT(30), <1>1, <2>1, <3>1
    <3> QED
      BY ZenonT(30), <1>1, <1>2, <2>3, <3>2, Wraps
  <2>4. CASE item \notin {End, Error} /\ stream' # Stream!Failed(stream)
    <3>1. stream' = [stream EXCEPT !.seen = @ \o item] /\ ~ (Len(stream.seen) + Len(item) > MaxBytes)
      BY <1>2, <2>4, ZenonT(30) DEF Stream!collect_limited, Stream!Keep
    <3>2. stream.seen \in Seq(Nat) /\ item \in Seq(Nat)
      BY <1>1, <2>1, <2>4, Yields, ZenonT(30) DEF Passed
    <3>3. Len(stream.seen) \in Nat /\ Len(item) \in Nat /\ MaxBytes \in Nat
      BY <3>2 DEF Stream!ConstantsOk
    <3>4. Len(stream.seen) + Len(item) <= MaxBytes
      BY <3>1, <3>3
    <3> QED
      BY <1>1, <1>2, <2>4, <3>1, <3>4, Wraps, ZenonT(30)
  <2>5. item = Error => stream' = Stream!Failed(stream)
    BY <1>2, <2>1, ZenonT(30) DEF Stream!collect_limited
  <2> QED
    BY <2>2, <2>3, <2>4, <2>5, ZenonT(30)
<1>4. stream_pc' = IF ~ stream'.finished THEN "poll" ELSE IF stream'.failed THEN "err" ELSE "done"
  BY ZenonT(30) DEF Stream!PollBuffered
<1>5. stream'.finished \/ ~ stream'.failed
  <2>1. stream \in [seen : Seq(Nat), finished : BOOLEAN, failed : BOOLEAN]
    BY <1>1 DEF Passed
  <2>2. stream' \in {Stream!Failed(stream), [stream EXCEPT !.finished = TRUE], [stream EXCEPT !.seen = @ \o item]}
    BY <1>2, ZenonT(30) DEF Stream!collect_limited, Stream!Keep
  <2>3. Stream!Failed(stream).finished /\ [stream EXCEPT !.finished = TRUE].finished
    BY <2>1, ZenonT(30) DEF Stream!Failed
  <2>4. [stream EXCEPT !.seen = @ \o item].failed = stream.failed
    BY <2>1, ZenonT(30)
  <2> QED
    BY <1>1, <2>2, <2>3, <2>4, ZenonT(30)
<1>6. Received'
  BY <1>1, ZenonT(30) DEF Received
<1>7. terminal.status # "Complete"
  BY <1>1 DEF Stream!InProgress
<1> QED
  BY <1>1, <1>3, <1>4, <1>5, <1>6, <1>7, ZenonT(30) DEF StreamInv

(* HashingStream publishes a digest at the end of the stream and no other. *)
LEMMA HashingStep == ASSUME Stream!ConstantsOk, StreamInv, Stream!PollHashing \/ Stream!DropHashing PROVE StreamInv'
<1>1. /\ use \in Stream!Uses /\ Passed /\ stream_pc = "poll" /\ use.for = "hash" /\ Received
      /\ UNCHANGED << use, response, reply >> /\ stream_pc' \in {"poll", "done"}
      /\ (terminal = Stream!InProgress => ~ stream.finished /\ ~ stream.failed)
      /\ (terminal.status = "Complete" => terminal.digest = response.body)
  BY ZenonT(30) DEF StreamInv, Stream!PollHashing, Stream!DropHashing
<1>2. Received'
  BY <1>1, ZenonT(30) DEF Received
<1>3. \A s : /\ s \in {"Failed", "Aborted"} => /\ Stream!Terminated(s).status # "Complete"
                                              /\ Stream!Terminated(s) # Stream!InProgress
  BY DEF Stream!Terminated, Stream!InProgress
<1>4. CASE Stream!DropHashing
  <2>1. UNCHANGED << left, stream >> /\ (terminal' = Stream!Terminated("Aborted") \/ terminal' = terminal)
    BY <1>4, ZenonT(30) DEF Stream!DropHashing
  <2>2. Passed'
    BY <1>1, <2>1, ZenonT(30) DEF Passed
  <2> QED
    BY <1>1, <1>2, <1>3, <2>1, <2>2, ZenonT(30) DEF StreamInv
<1>5. CASE Stream!PollHashing
  <2>1. PICK item \in Stream!Items :
          /\ left' = Stream!Rest(item)
          /\ \/ terminal' = Stream!Terminated("Failed") /\ stream' = Stream!Failed(stream)
             \/ /\ item = End /\ terminal' = [status |-> "Complete", digest |-> stream.seen]
                /\ stream' = [stream EXCEPT !.finished = TRUE]
             \/ /\ item \notin {End, Error} /\ terminal' = terminal
                /\ stream' = [stream EXCEPT !.seen = @ \o item]
    BY <1>5, ZenonT(30) DEF Stream!PollHashing
  <2>2. terminal = Stream!InProgress /\ ~ stream.finished /\ ~ stream.failed
    BY <1>1, <1>5, ZenonT(30) DEF Stream!PollHashing
  <2>3. /\ stream \in [seen : Seq(Nat), finished : BOOLEAN, failed : BOOLEAN] /\ left \in Seq(Nat)
        /\ Joined(stream.seen, left, response.body) /\ response.body \in Seq(Nat) /\ stream.seen \in Seq(Nat)
    BY <1>1, <2>2 DEF Passed
  <2>4. CASE terminal' = Stream!Terminated("Failed") /\ stream' = Stream!Failed(stream)
    <3>1. Passed'
      BY <1>1, <2>1, <2>2, <2>4, Wraps, ZenonT(30)
    <3> QED
      BY <1>1, <1>2, <1>3, <2>4, <3>1, ZenonT(30) DEF StreamInv
  <2>5. CASE /\ item = End /\ terminal' = [status |-> "Complete", digest |-> stream.seen]
             /\ stream' = [stream EXCEPT !.finished = TRUE]
    <3>1. stream' = [stream EXCEPT !.finished = TRUE, !.failed = FALSE]
      BY ZenonT(30), <2>2, <2>3, <2>5
    <3>2. Passed'
      BY ZenonT(30), <1>1, <2>1, <2>2, <2>5, <3>1, Wraps
    <3>3. left = << >>
      BY <2>3, <2>5, Yields, ZenonT(30)
    <3>4. stream.seen = response.body
      <4>1. Joined(stream.seen, << >>, response.body)
        BY <2>3, <3>3
      <4> QED
        BY <2>3, <4>1, NothingAfter
    <3>5. terminal'.digest = stream.seen /\ terminal' # Stream!InProgress
      BY <2>5 DEF Stream!InProgress
    <3> QED
      BY <1>1, <1>2, <3>2, <3>4, <3>5, ZenonT(30) DEF StreamInv
  <2>6. CASE /\ item \notin {End, Error} /\ terminal' = terminal /\ stream' = [stream EXCEPT !.seen = @ \o item]
    <3>1. Passed'
      BY <1>1, <2>1, <2>2, <2>6, Wraps, ZenonT(30)
    <3>2. stream'.finished = stream.finished /\ stream'.failed = stream.failed
      BY <2>3, <2>6, ZenonT(30)
    <3> QED
      BY <1>1, <1>2, <2>2, <2>6, <3>1, <3>2, ZenonT(30) DEF StreamInv
  <2> QED
    BY <2>1, <2>4, <2>5, <2>6, ZenonT(30)
<1> QED
  BY <1>4, <1>5

(* What a reader takes for the end of a blob is the end of the whole blob,      *)
(* whatever pieces it comes in and whatever the headers say: VerifiedBlobStream *)
(* and the relay of serve_nar, HashingStream, and collect_limited.              *)
THEOREM WholeAtTheEnd == ASSUME Stream!ConstantsOk PROVE Stream!Spec => []EndIsWhole
<1>1. Stream!Init => StreamInv
  BY StreamInit
<1>2. StreamInv /\ [Stream!Next]_(Stream!vars) => StreamInv'
  <2> SUFFICES ASSUME StreamInv, [Stream!Next]_(Stream!vars) PROVE StreamInv'
    OBVIOUS
  <2>1. CASE Stream!Over \/ UNCHANGED Stream!vars
    <3>1. UNCHANGED << use, stream_pc, response, left, stream, terminal, reply >>
      BY <2>1, ZenonT(30) DEF Stream!Over, Stream!vars
    <3> QED
      BY <3>1 DEF StreamInv, Passed, Sent, Received
  <2> QED
    BY <2>1, RequestStep, PollNarStep, PollBufferedStep, HashingStep, ZenonT(30) DEF Stream!Next
<1>3. StreamInv => EndIsWhole
  <2> SUFFICES ASSUME StreamInv PROVE EndIsWhole
    OBVIOUS
  <2>1. ASSUME stream.finished, ~ stream.failed
        PROVE  stream.seen = response.body /\ (use.for = "serve" => stream.seen = Content)
    <3>1. /\ Joined(stream.seen, << >>, response.body) /\ response.body \in Seq(Nat) /\ stream.seen \in Seq(Nat)
          /\ (use.for = "serve" => stream.seen = Content)
      BY <2>1 DEF StreamInv, Passed
    <3> QED
      BY <3>1, NothingAfter
  <2> QED
    BY <2>1, ZenonT(30) DEF EndIsWhole, Stream!EndIsWhole, StreamInv, Passed, Received, Begins
<1> QED
  BY <1>1, <1>2, <1>3, PTL DEF Stream!Spec
===============================================================================

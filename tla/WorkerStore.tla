----------------------------- MODULE WorkerStore ------------------------------
(* CacheStore of nixcache-worker (store.rs) over the state of an isolate        *)
(* (state.rs): isolates with a memory cache each, one KV namespace whose        *)
(* replicas lag, and the registry. A step is what a request does between two    *)
(* awaits. One shard holds every entry; it is named by its content, as its      *)
(* digest does, and a root by its number, as its manifest digest does.          *)
EXTENDS Integers

CONSTANTS
  Isolates, Tasks, Hashes,
  Workloads,     \* what a worker may meet, see Workload
  L1Ttl,         \* L1_MEM_TTL_MS
  Debounce,      \* REVALIDATE_DEBOUNCE_MS
  NoRoot, NoShard, NoValue,
  MaxSeq,        \* bound: roots published
  MaxClock       \* bound: time

(* What a worker meets in one history: the isolates that serve, the requests    *)
(* asked, the worker's baseline_ttl_ms, what goes wrong (a registry out of      *)
(* reach, replicas of KV that lag), how many roots are published and how long   *)
(* it lasts.                                                                    *)
Workload ==
  [isolates : SUBSET Isolates, kinds : SUBSET {"narinfo", "nar", "status", "refresh"},
   baseline_ttl : Nat, faults : SUBSET {"outage", "replica"},
   publications : 0 .. MaxSeq, hours : 0 .. MaxClock]

(* A root as the worker keeps it: which one it is, and the hashes of its shard. *)
Roots == [seq : Nat, entries : SUBSET Hashes]

WorkerAssumption ==
  /\ NoRoot \notin Roots
  /\ L1Ttl \in Nat /\ Debounce \in Nat /\ MaxSeq \in Nat /\ MaxClock \in Nat
  /\ Workloads \subseteq Workload

EmptyRoot == [seq |-> 0, entries |-> {}]

VARIABLES
  load,                \* the workload of this history
  remote, published,   \* the registry, and the number of its last root
  retired,             \* auxiliary: when a root was replaced
  kv,                  \* the values of baseline_v8_{system} that a read may return
  baseline,            \* mem_baseline_cache of each isolate
  shard,               \* mem_shard_cache of each isolate
  revalidated,         \* last_revalidate_ms of each isolate
  clock,
  task

vars == <<load, remote, published, retired, kv, baseline, shard, revalidated, clock, task>>
registry == <<load, remote, published, retired>>
memory == <<baseline, shard, revalidated>>

(* A request: where it runs, the root it works with, the shard known before a   *)
(* fetch, the time it read (while it has no baseline), whether it is past its   *)
(* revalidation, whether it met an error, and (auxiliary) when it began and     *)
(* whether the hash of a narinfo was absent from the registry since.            *)
IdleTask ==
  [kind |-> "none", pc |-> "idle", home |-> NoValue, hash |-> NoValue, root |-> EmptyRoot,
   old |-> NoShard, now |-> 0, healing |-> FALSE, failed |-> FALSE, found |-> FALSE, began |-> 0,
   absent |-> FALSE]

Init ==
  /\ load \in Workloads
  /\ remote = NoRoot /\ published = 0 /\ retired = [s \in 0 .. MaxSeq |-> 0]
  /\ kv = {}
  /\ baseline = [i \in Isolates |-> NoValue] /\ shard = [i \in Isolates |-> NoShard]
  /\ revalidated = [i \in Isolates |-> -Debounce]
  /\ clock = 0
  /\ task = [t \in Tasks |-> IdleTask]

IsAbsent(kind, h, root) == kind = "narinfo" /\ (root = NoRoot \/ h \notin root.entries)

(* A promote or a purge. *)
Publish ==
  /\ published < load.publications /\ published' = published + 1
  /\ \E E \in SUBSET Hashes : remote' = [seq |-> published + 1, entries |-> E]
  /\ retired' = [retired EXCEPT ![published] = clock]
  /\ task' = [t \in Tasks |-> [task[t] EXCEPT !.absent = @ \/ IsAbsent(task[t].kind, task[t].hash, remote')]]
  /\ UNCHANGED <<load, kv, memory, clock>>

Tick ==
  /\ clock < load.hours /\ clock' = clock + 1
  /\ UNCHANGED <<registry, kv, memory, task>>

(* An isolate is evicted. (A shard that expires in memory is fetched again, by  *)
(* the same digest.)                                                            *)
Evict(i) ==
  /\ \A t \in Tasks : task[t].home # i
  /\ baseline' = [baseline EXCEPT ![i] = NoValue] /\ shard' = [shard EXCEPT ![i] = NoShard]
  /\ revalidated' = [revalidated EXCEPT ![i] = -Debounce]
  /\ UNCHANGED <<registry, kv, clock, task>>

To(t, pc) == task' = [task EXCEPT ![t].pc = pc]

(* What a read of the KV namespace may return. *)
KvReads == kv \cup IF "replica" \in load.faults \/ kv = {} THEN {NoValue} ELSE {}

-------------------------------------------------------------------------------
(* get_baseline_data: memory, then KV, then the registry *)

Fresh(i) == baseline[i] # NoValue /\ clock < baseline[i].expires

(* What a request with a baseline does next. *)
Ready(t) == CASE task[t].kind = "refresh" -> "warm"
              [] task[t].kind = "status" -> "done"
              [] task[t].kind \in {"narinfo", "nar"} -> "shard"

(* lookup_narinfo, lookup_nar_digest and get_status *)
Start(t, i, kind, h) ==
  /\ task[t].pc = "idle" /\ kind \in load.kinds \ {"refresh"}
  /\ task' = [task EXCEPT ![t] = [IdleTask EXCEPT !.kind = kind, !.home = i, !.hash = h,
                !.now = IF Fresh(i) THEN 0 ELSE clock, !.began = clock, !.absent = IsAbsent(kind, h, remote),
                !.root = IF Fresh(i) THEN baseline[i].root ELSE EmptyRoot,
                !.pc = IF ~ Fresh(i) THEN "kv" ELSE IF kind = "status" THEN "done" ELSE "shard"]]
  /\ UNCHANGED <<registry, kv, memory, clock>>

Remembered(root, now) == [root |-> root, expires |-> now + L1Ttl]

(* The start of refresh_baseline_from_ghcr: the time and the baseline it has. *)
Fetching(t) ==
  [task[t] EXCEPT !.pc = "fetch", !.now = clock,
     !.old = IF baseline[task[t].home] = NoValue THEN NoShard
             ELSE baseline[task[t].home].root.entries]

ReadKv(t) ==
  /\ task[t].pc = "kv"
  /\ \E w \in KvReads :
       IF w # NoValue /\ task[t].now - w.last_refresh < load.baseline_ttl
       THEN /\ baseline' = [baseline EXCEPT ![task[t].home] = Remembered(w.root, task[t].now)]
            /\ task' = [task EXCEPT ![t].pc = Ready(t), ![t].root = w.root, ![t].now = 0]
       ELSE UNCHANGED baseline /\ task' = [task EXCEPT ![t] = Fetching(t)]
  /\ UNCHANGED <<registry, kv, shard, revalidated, clock>>

(* The root arrives, and a changed shard is dropped from memory. The absence of *)
(* a root is an empty one.                                                      *)
FetchOk(t) ==
  /\ task[t].pc = "fetch"
  /\ LET root == IF remote = NoRoot THEN EmptyRoot ELSE remote
         changed == task[t].kind # "refresh" /\ task[t].old # NoShard
                      /\ task[t].old # root.entries
     IN  /\ task' = [task EXCEPT ![t].pc = "put", ![t].root = root,
                                 ![t].old = IF task[t].kind = "refresh" THEN @ ELSE NoShard]
         /\ shard' = [shard EXCEPT ![task[t].home] = IF changed THEN NoShard ELSE @]
  /\ UNCHANGED <<registry, kv, baseline, revalidated, clock>>

(* What follows an error: KV of any age stands in for a baseline, a healing     *)
(* request answers that it has missed, a refresh goes on with an empty root.    *)
FetchErr(t) ==
  /\ task[t].pc = "fetch" /\ "outage" \in load.faults
  /\ task' = [task EXCEPT ![t].failed = TRUE,
                 ![t].root = IF task[t].kind = "refresh" THEN EmptyRoot ELSE @,
                 ![t].pc = CASE task[t].kind = "refresh" -> "warm"
                             [] task[t].healing -> "done"
                             [] task[t].kind # "refresh" /\ ~ task[t].healing -> "fallback"]
  /\ UNCHANGED <<registry, kv, memory, clock>>

Fallback(t) ==
  /\ task[t].pc = "fallback"
  /\ \E w \in KvReads :
       task' = [task EXCEPT ![t].pc = IF w = NoValue THEN "done" ELSE Ready(t),
                            ![t].root = IF w = NoValue THEN EmptyRoot ELSE w.root]
  /\ UNCHANGED <<registry, kv, memory, clock>>

(* A refresh stamped with the time at which it is written. *)
PutStampedLate(t) ==
  /\ task[t].pc = "put"
  /\ LET w == [root |-> task[t].root, last_refresh |-> clock]
     IN  kv' = (IF "replica" \in load.faults THEN kv ELSE {}) \cup {w}
  /\ baseline' = [baseline EXCEPT ![task[t].home] = Remembered(task[t].root, clock)]
  /\ task' = [task EXCEPT ![t].pc = Ready(t), ![t].now = 0]
  /\ UNCHANGED <<registry, shard, revalidated, clock>>

(* The root goes to KV, then to memory; a KV write that fails is ignored, and   *)
(* is one that no replica ever shows.                                           *)
Put(t) ==
  /\ task[t].pc = "put"
  /\ LET w == [root |-> task[t].root, last_refresh |-> task[t].now]
     IN  kv' = (IF "replica" \in load.faults THEN kv ELSE {}) \cup {w}
  /\ baseline' = [baseline EXCEPT ![task[t].home] = Remembered(task[t].root, task[t].now)]
  /\ task' = [task EXCEPT ![t].pc = Ready(t), ![t].now = 0]
  /\ UNCHANGED <<registry, shard, revalidated, clock>>

-------------------------------------------------------------------------------
(* The shard, and the answer *)

(* should_revalidate: at most one probe of an isolate per Debounce. *)
ShouldRevalidate(t) ==
  /\ task[t].kind = "narinfo" /\ ~ task[t].healing
  /\ clock - revalidated[task[t].home] >= Debounce

(* A request that has read its shard: found, or missed, and a missed narinfo is *)
(* looked for again when the debounce allows.                                   *)
Judged(t) ==
  LET found == task[t].hash \in task[t].root.entries
      again == ~ found /\ ShouldRevalidate(t)
  IN  /\ task' = [task EXCEPT ![t].found = found, ![t].pc = IF again THEN "head" ELSE "done",
                              ![t].healing = @ \/ again]
      /\ revalidated' = [revalidated EXCEPT ![task[t].home] = IF again THEN clock ELSE @]

InMemory(t) == task[t].root.entries = {} \/ shard[task[t].home] = task[t].root.entries

ReadShard(t) ==
  /\ task[t].pc = "shard" /\ InMemory(t)
  /\ Judged(t)
  /\ UNCHANGED <<registry, kv, baseline, shard, clock>>

(* From KV, where it is stored by its digest, or from the registry. *)
FetchShard(t) ==
  /\ task[t].pc = "shard" /\ ~ InMemory(t)
  /\ To(t, "sharding")
  /\ UNCHANGED <<registry, kv, memory, clock>>

ShardArrives(t) ==
  /\ task[t].pc = "sharding"
  /\ Judged(t)
  /\ shard' = [shard EXCEPT ![task[t].home] = task[t].root.entries]
  /\ UNCHANGED <<registry, kv, baseline, clock>>

(* The registry fails: by now KV may have the shard, which is then not kept. *)
ShardFails(t) ==
  /\ task[t].pc = "sharding" /\ "outage" \in load.faults
  /\ \/ Judged(t)
     \/ /\ task' = [task EXCEPT ![t].pc = "done", ![t].failed = TRUE]
        /\ UNCHANGED revalidated
  /\ UNCHANGED <<registry, kv, baseline, shard, clock>>

(* The probe compared with the baseline in memory by then. *)
HeadInMemory(t) ==
  /\ task[t].pc = "head"
  /\ task' = IF remote = NoRoot \/ (baseline[task[t].home] # NoValue
                                    /\ baseline[task[t].home].root.seq = remote.seq)
             THEN [task EXCEPT ![t].pc = "done"] ELSE [task EXCEPT ![t] = Fetching(t)]
  /\ UNCHANGED <<registry, kv, memory, clock>>

(* The probe: another digest than that of the root it has missed in. *)
Head(t) ==
  /\ task[t].pc = "head"
  /\ \/ task' = IF remote = NoRoot \/ remote.seq = task[t].root.seq
                THEN [task EXCEPT ![t].pc = "done"] ELSE [task EXCEPT ![t] = Fetching(t)]
     \/ "outage" \in load.faults /\ task' = [task EXCEPT ![t].pc = "done", ![t].failed = TRUE]
  /\ UNCHANGED <<registry, kv, memory, clock>>

Reply(t) ==
  /\ task[t].pc = "done"
  /\ task' = [task EXCEPT ![t] = IdleTask]
  /\ UNCHANGED <<registry, kv, memory, clock>>

-------------------------------------------------------------------------------
(* force_refresh: the shard known so far is kept, memory is cleared. *)
StartRefresh(t, i) ==
  /\ task[t].pc = "idle" /\ "refresh" \in load.kinds
  /\ \E w \in IF baseline[i] # NoValue THEN {baseline[i]} ELSE KvReads :
       task' = [task EXCEPT ![t] = [IdleTask EXCEPT !.kind = "refresh", !.home = i, !.pc = "fetch",
                  !.now = clock, !.began = clock,
                  !.old = IF w = NoValue THEN NoShard ELSE w.root.entries]]
  /\ baseline' = [baseline EXCEPT ![i] = NoValue] /\ shard' = [shard EXCEPT ![i] = NoShard]
  /\ UNCHANGED <<registry, kv, revalidated, clock>>

(* A changed shard is fetched ahead of the requests for it, if it can be;       *)
(* get_status follows.                                                          *)
Warm(t) ==
  /\ task[t].pc = "warm"
  /\ LET warmed == task[t].old # NoShard /\ task[t].root.entries \notin {{}, task[t].old}
     IN  \/ shard' = [shard EXCEPT ![task[t].home] = IF warmed THEN task[t].root.entries ELSE @]
         \/ "outage" \in load.faults /\ UNCHANGED shard
  /\ task' = [task EXCEPT ![t].kind = "status", ![t].now = clock, ![t].old = NoShard,
                          ![t].pc = IF Fresh(task[t].home) THEN "done" ELSE "kv"]
  /\ UNCHANGED <<registry, kv, baseline, revalidated, clock>>

Next ==
  \/ Publish \/ Tick
  \/ \E i \in load.isolates : Evict(i)
  \/ \E t \in Tasks :
       \/ \E i \in load.isolates :
            StartRefresh(t, i) \/ \E kind \in load.kinds, h \in Hashes : Start(t, i, kind, h)
       \/ ReadKv(t) \/ FetchOk(t) \/ FetchErr(t) \/ Fallback(t) \/ Put(t)
       \/ ReadShard(t) \/ FetchShard(t) \/ ShardArrives(t) \/ ShardFails(t) \/ Head(t)
       \/ Warm(t) \/ Reply(t)

Spec == Init /\ [][Next]_vars

-------------------------------------------------------------------------------
(* While the registry answers, no request works with a root that was replaced   *)
(* more than the two times to live before it began, although refreshes overlap, *)
(* KV writes land out of order and replicas lag (store.rs:410 and 497).         *)
StalenessBounded ==
  "outage" \notin load.faults =>
  \A t \in Tasks : task[t].pc \in {"shard", "sharding", "head"} =>
    \/ task[t].root.seq = published
    \/ retired[task[t].root.seq] + L1Ttl + load.baseline_ttl >= task[t].began

(* A narinfo request that has missed and was allowed to probe is right: the     *)
(* registry did not have the hash at some moment since the request began        *)
(* (README.md:925: no false 404 after the debounce).                            *)
MissIsTrue ==
  \A t \in Tasks :
    task[t].kind = "narinfo" /\ task[t].pc = "done" /\ task[t].healing /\ ~ task[t].found
      /\ ~ task[t].failed => task[t].absent
===============================================================================

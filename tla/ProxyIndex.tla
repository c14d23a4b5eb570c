------------------------------ MODULE ProxyIndex ------------------------------
(* CacheIndex of nixcache-proxy (index.rs) and the handlers over it (proxy.rs): *)
(* the hot registry, the cached baseline root, the shard cache and the backup   *)
(* file, shared by concurrent requests. A step is what a request does between   *)
(* two awaits. A shard is named by its content, as its digest does.             *)
EXTENDS Naturals, FiniteSets

CONSTANTS
  Hashes, Shards,
  ShardOf,       \* calculate_shard_id
  Tasks,         \* slots for requests in progress
  Workloads,     \* what a proxy may meet, see Workload
  NoRoot, NoShard, NoHash, Torn,
  MaxSeq,        \* bound: roots published
  MaxHot         \* bound: entries registered

(* What a proxy meets in one history: the requests asked, whether each waits    *)
(* for the one before, what goes wrong (a registry out of reach, a write of the *)
(* backup that fails, a package that is deleted), how much is published and     *)
(* registered.                                                                  *)
Workload ==
  [kinds : SUBSET {"lookup", "nar", "refresh", "register"}, alone : BOOLEAN,
   faults : SUBSET {"outage", "disk", "withdraw"},
   publications : 0 .. MaxSeq, registrations : 0 .. MaxHot]

(* A root index, numbered in the order of publication; 0 is the empty one that *)
(* stands in when there is none.                                               *)
Root == [seq : 0 .. MaxSeq, entries : SUBSET Hashes]

ASSUME ProxyAssumption ==
  /\ ShardOf \in [Hashes -> Shards]
  /\ MaxSeq \in Nat /\ MaxHot \in Nat /\ Workloads \subseteq Workload
  /\ NoRoot \notin Root /\ Torn \notin Root

EmptyRoot == [seq |-> 0, entries |-> {}]

ShardContent(root, s) == {h \in root.entries : ShardOf[h] = s}

VARIABLES
  load,         \* the workload of this history
  remote,       \* the architecture's root in the registry
  published,    \* auxiliary: the roots published so far
  hot_entries, hot_nar_lookup, hot_count,
  baseline,     \* baseline_cache: the root, and whether it has not expired
  shard_cache,
  backup,       \* the file: a root, NoRoot, or Torn in the middle of a write
  status,       \* remote_status.error is None
  task,
  refreshed     \* auxiliary: the newest root that a finished refresh vouches for

vars == <<load, remote, published, hot_entries, hot_nar_lookup, hot_count, baseline, shard_cache,
          backup, status, task, refreshed>>

hot == <<hot_entries, hot_nar_lookup, hot_count>>
registry == <<load, remote, published>>

(* A request: its kind and argument, the root it works with, the oldest root    *)
(* that may answer it, whether the registry failed it, and its answer.          *)
IdleTask ==
  [kind |-> "none", pc |-> "idle", hash |-> NoHash, root |-> EmptyRoot, floor |-> 0,
   promised |-> FALSE, failed |-> FALSE, found |-> FALSE]

Init ==
  /\ load \in Workloads
  /\ remote = NoRoot /\ published = 0
  /\ hot_entries = {} /\ hot_nar_lookup = {} /\ hot_count = 0
  /\ baseline = [root |-> NoRoot, fresh |-> FALSE]
  /\ shard_cache = [s \in Shards |-> NoShard]
  /\ backup = NoRoot /\ status = TRUE
  /\ task = [t \in Tasks |-> IdleTask]
  /\ refreshed = 0

(* A promote or a purge elsewhere, or the deletion of the package. *)
Publish ==
  /\ published < load.publications
  /\ \/ \E E \in SUBSET Hashes : remote' = [seq |-> published + 1, entries |-> E]
     \/ "withdraw" \in load.faults /\ remote' = NoRoot
  /\ published' = published + 1
  /\ UNCHANGED <<load, hot, baseline, shard_cache, backup, status, task, refreshed>>

(* baseline_ttl passes. *)
Expire ==
  /\ \/ /\ baseline.fresh /\ baseline' = [baseline EXCEPT !.fresh = FALSE]
        /\ UNCHANGED shard_cache
     \/ \E s \in Shards :
          /\ shard_cache[s] # NoShard /\ shard_cache[s].fresh
          /\ shard_cache' = [shard_cache EXCEPT ![s].fresh = FALSE]
          /\ UNCHANGED baseline
  /\ UNCHANGED <<registry, hot, backup, status, task, refreshed>>

(* The proxy is restarted: only the file survives. *)
Restart ==
  /\ hot_entries' = {} /\ hot_nar_lookup' = {} /\ hot_count' = 0
  /\ baseline' = [root |-> NoRoot, fresh |-> FALSE]
  /\ shard_cache' = [s \in Shards |-> NoShard]
  /\ status' = TRUE /\ refreshed' = 0
  /\ task' = [t \in Tasks |-> IdleTask]
  /\ UNCHANGED <<registry, backup>>

-------------------------------------------------------------------------------
(* Requests begin. *)

Begin(t, kind, h, pc) ==
  /\ task[t].pc = "idle" /\ kind \in load.kinds
  /\ load.alone => \A u \in Tasks : task[u].pc = "idle"
  /\ task' = [task EXCEPT ![t] = [IdleTask EXCEPT !.kind = kind, !.pc = pc, !.hash = h,
                !.floor = IF kind = "refresh" THEN published ELSE refreshed,
                !.promised = h \in hot_entries]]

(* lookup: the hot registry, then the baseline. *)
StartLookup(t, h) ==
  /\ IF h \in hot_entries
     THEN task[t].pc = "idle" /\ "lookup" \in load.kinds /\ UNCHANGED task
     ELSE Begin(t, "lookup", h, "baseline")
  /\ UNCHANGED <<registry, hot, baseline, shard_cache, backup, status, refreshed>>

(* find_nar_digest: the hot registry, then lookup of the hash in the name. *)
StartNar(t, h) ==
  /\ Begin(t, "nar", h, IF h \in hot_nar_lookup THEN "named" ELSE "hot")
  /\ UNCHANGED <<registry, hot, baseline, shard_cache, backup, status, refreshed>>

(* find_nar_digest without the hot entry of the hash in the name. *)
NarHotSkipped(t) ==
  /\ task[t].pc = "hot"
  /\ task' = [task EXCEPT ![t].pc = "baseline"]
  /\ UNCHANGED <<registry, hot, baseline, shard_cache, backup, status, refreshed>>

NarHot(t) ==
  /\ task[t].pc = "hot"
  /\ task' = [task EXCEPT ![t].pc = IF task[t].hash \in hot_entries THEN "done" ELSE "baseline",
                          ![t].found = task[t].hash \in hot_entries]
  /\ UNCHANGED <<registry, hot, baseline, shard_cache, backup, status, refreshed>>

(* A refresh that keeps the cached baseline. *)
StartRefreshKeeping(t) ==
  /\ Begin(t, "refresh", NoHash, "baseline")
  /\ shard_cache' = [s \in Shards |-> NoShard]
  /\ UNCHANGED <<registry, hot, baseline, backup, status, refreshed>>

(* force_refresh drops both caches. *)
StartRefresh(t) ==
  /\ Begin(t, "refresh", NoHash, "baseline")
  /\ baseline' = [root |-> NoRoot, fresh |-> FALSE]
  /\ shard_cache' = [s \in Shards |-> NoShard]
  /\ UNCHANGED <<registry, hot, backup, status, refreshed>>

(* register_hot_entries fills its two maps one after the other, then counts. *)
StartRegister(t, h) ==
  /\ hot_count < load.registrations
  /\ Begin(t, "register", h, "names")
  /\ hot_entries' = hot_entries \cup {h}
  /\ UNCHANGED <<registry, hot_nar_lookup, hot_count, baseline, shard_cache, backup, status,
                 refreshed>>

RegisterName(t) ==
  /\ task[t].pc = "names"
  /\ hot_nar_lookup' = hot_nar_lookup \cup {task[t].hash}
  /\ hot_count' = hot_count + 1
  /\ task' = [task EXCEPT ![t].pc = "done"]
  /\ UNCHANGED <<registry, hot_entries, baseline, shard_cache, backup, status, refreshed>>

-------------------------------------------------------------------------------
(* get_baseline_data *)

Ready(t, root) == [task EXCEPT ![t].root = root,
                               ![t].pc = IF task[t].kind = "refresh" THEN "report" ELSE "shard"]

ReadCached(t) ==
  /\ task[t].pc = "baseline" /\ baseline.fresh
  /\ task' = Ready(t, baseline.root)
  /\ UNCHANGED <<registry, hot, baseline, shard_cache, backup, status, refreshed>>

SendFetch(t) ==
  /\ task[t].pc = "baseline" /\ ~ baseline.fresh
  /\ task' = [task EXCEPT ![t].pc = "fetching"]
  /\ UNCHANGED <<registry, hot, baseline, shard_cache, backup, status, refreshed>>

(* get_sharded_root: the registry answers with what it has at that moment. *)
FetchAnswer(t) ==
  /\ task[t].pc = "fetching" /\ remote # NoRoot
  /\ task' = [task EXCEPT ![t].pc = "arrived", ![t].root = remote]
  /\ UNCHANGED <<registry, hot, baseline, shard_cache, backup, status, refreshed>>

FetchNotFound(t) ==
  /\ task[t].pc = "fetching" /\ remote = NoRoot
  /\ task' = [task EXCEPT ![t].pc = "fallback"]
  /\ status' = TRUE
  /\ UNCHANGED <<registry, hot, baseline, shard_cache, backup, refreshed>>

FetchError(t) ==
  /\ "outage" \in load.faults
  /\ task[t].pc = "fetching"
  /\ task' = [task EXCEPT ![t].pc = "fallback"]
  /\ status' = FALSE
  /\ UNCHANGED <<registry, hot, baseline, shard_cache, backup, refreshed>>

(* diff_shard_descriptors drops the changed shards; the backup file is opened *)
(* for writing.                                                               *)
Arrived(t) ==
  /\ task[t].pc = "arrived"
  /\ status' = TRUE
  /\ shard_cache' = [s \in Shards |->
       IF baseline.root # NoRoot /\ ShardContent(baseline.root, s) # ShardContent(task[t].root, s)
       THEN NoShard ELSE shard_cache[s]]
  /\ backup' = Torn
  /\ task' = [task EXCEPT ![t].pc = "saving"]
  /\ UNCHANGED <<registry, hot, baseline, refreshed>>

Saved(t) ==
  /\ task[t].pc = "saving"
  /\ backup' = task[t].root \/ ("disk" \in load.faults /\ UNCHANGED backup)
  /\ task' = [task EXCEPT ![t].pc = "upsert"]
  /\ UNCHANGED <<registry, hot, baseline, shard_cache, status, refreshed>>

(* A failed fetch that does not look for the backup. *)
FallbackEmpty(t) ==
  /\ task[t].pc = "fallback"
  /\ task' = [task EXCEPT ![t].pc = "upsert", ![t].root = EmptyRoot]
  /\ UNCHANGED <<registry, hot, baseline, shard_cache, backup, status, refreshed>>

(* Without a root: the backup when it can be decoded, else an empty index. *)
Fallback(t) ==
  /\ task[t].pc = "fallback"
  /\ task' = [task EXCEPT ![t].pc = "upsert",
                          ![t].root = IF backup \in Root THEN backup ELSE EmptyRoot]
  /\ UNCHANGED <<registry, hot, baseline, shard_cache, backup, status, refreshed>>

Upsert(t) ==
  /\ task[t].pc = "upsert"
  /\ baseline' = [root |-> task[t].root, fresh |-> TRUE]
  /\ task' = Ready(t, task[t].root)
  /\ UNCHANGED <<registry, hot, shard_cache, backup, status, refreshed>>

-------------------------------------------------------------------------------
(* get_shard_data, for the shard that the root names *)

Wanted(t) == ShardContent(task[t].root, ShardOf[task[t].hash])

(* A shard cache keyed by the number of the shard alone. *)
CachedByNumber(t) ==
  LET cached == shard_cache[ShardOf[task[t].hash]] IN cached # NoShard /\ cached.fresh

Cached(t) ==
  LET cached == shard_cache[ShardOf[task[t].hash]]
  IN  cached # NoShard /\ cached.fresh /\ cached.content = Wanted(t)

(* What a request that has no shard answers: a NAR is still looked for in every *)
(* shard in memory, expired or not.                                             *)
InMemory(t) ==
  /\ task[t].kind = "nar"
  /\ \E s \in Shards : shard_cache[s] # NoShard /\ task[t].hash \in shard_cache[s].content

Answer(t, found) == [task EXCEPT ![t].pc = "done", ![t].found = found \/ InMemory(t)]

EmptyShard(t) ==
  /\ task[t].pc = "shard" /\ Wanted(t) = {}
  /\ task' = Answer(t, FALSE)
  /\ UNCHANGED <<registry, hot, baseline, shard_cache, backup, status, refreshed>>

CachedShard(t) ==
  /\ task[t].pc = "shard" /\ Wanted(t) # {} /\ Cached(t)
  /\ task' = Answer(t, task[t].hash \in shard_cache[ShardOf[task[t].hash]].content)
  /\ UNCHANGED <<registry, hot, baseline, shard_cache, backup, status, refreshed>>

FetchShard(t) ==
  /\ task[t].pc = "shard" /\ Wanted(t) # {} /\ ~ Cached(t)
  /\ task' = [task EXCEPT ![t].pc = "sharding"]
  /\ UNCHANGED <<registry, hot, baseline, shard_cache, backup, status, refreshed>>

ShardArrived(t) ==
  /\ task[t].pc = "sharding"
  /\ shard_cache' = [shard_cache EXCEPT ![ShardOf[task[t].hash]] =
                       [content |-> Wanted(t), fresh |-> TRUE]]
  /\ status' = TRUE
  /\ task' = Answer(t, task[t].hash \in Wanted(t))
  /\ UNCHANGED <<registry, hot, baseline, backup, refreshed>>

ShardError(t) ==
  /\ task[t].pc = "sharding" /\ "outage" \in load.faults
  /\ status' = FALSE
  /\ task' = [Answer(t, FALSE) EXCEPT ![t].failed = TRUE]
  /\ UNCHANGED <<registry, hot, baseline, shard_cache, backup, refreshed>>

-------------------------------------------------------------------------------
(* get_entry_counts *)
BaselineCount == IF baseline.root = NoRoot THEN 0 ELSE Cardinality(baseline.root.entries)
TotalUniqueEntries == hot_count + BaselineCount

(* The end of force_refresh: it succeeds unless an empty index met an error. *)
Report(t) ==
  /\ task[t].pc = "report"
  /\ LET ok == task[t].root.entries # {} \/ status \/ TotalUniqueEntries > 0
     IN  refreshed' = IF ok /\ task[t].floor > refreshed THEN task[t].floor ELSE refreshed
  /\ task' = [task EXCEPT ![t] = IdleTask]
  /\ UNCHANGED <<registry, hot, baseline, shard_cache, backup, status>>

(* The response is sent; serve_nar first opens the stream of a blob it has      *)
(* found, and notes whether the registry let it.                                *)
Reply(t) ==
  /\ task[t].pc \in {"done", "named"}
  /\ IF task[t].kind = "nar" /\ (task[t].found \/ task[t].pc = "named")
     THEN status' = TRUE \/ ("outage" \in load.faults /\ status' = FALSE)
     ELSE UNCHANGED status
  /\ task' = [task EXCEPT ![t] = IdleTask]
  /\ UNCHANGED <<registry, hot, baseline, shard_cache, backup, refreshed>>

Next ==
  \/ Publish \/ Expire \/ Restart
  \/ \E t \in Tasks :
       \/ \E h \in Hashes : StartLookup(t, h) \/ StartNar(t, h) \/ StartRegister(t, h)
       \/ StartRefresh(t) \/ RegisterName(t) \/ NarHot(t)
       \/ ReadCached(t) \/ SendFetch(t) \/ FetchAnswer(t) \/ FetchNotFound(t) \/ FetchError(t)
       \/ Arrived(t) \/ Saved(t) \/ Fallback(t) \/ Upsert(t)
       \/ EmptyShard(t) \/ CachedShard(t) \/ FetchShard(t) \/ ShardArrived(t) \/ ShardError(t)
       \/ Report(t) \/ Reply(t)

Spec == Init /\ [][Next]_vars

-------------------------------------------------------------------------------
(* A narinfo request is answered from one root: its answer is what the root it  *)
(* read says, although the shards in the cache come from several roots and      *)
(* other requests replace them (index.rs:189 compares the digests).             *)
AnswerFromOneRoot ==
  \A t \in Tasks : task[t].kind = "lookup" /\ task[t].pc = "done" /\ ~ task[t].failed =>
    (task[t].found <=> task[t].hash \in task[t].root.entries)

(* A client that was given the narinfo of a registered path gets its NAR, also  *)
(* between the two maps of register_hot_entries (index.rs:166 and 169).         *)
NarFollowsNarinfo ==
  \A t \in Tasks : task[t].kind = "nar" /\ task[t].pc = "done" /\ task[t].promised => task[t].found

(* A proxy that has an index does not trade it for an empty one when the        *)
(* registry fails: the backup file stands in (index.rs:412). A request that     *)
(* overlaps a write of the file, or a write that fails, would find it torn.     *)
NeverEmptied ==
  load.alone /\ "disk" \notin load.faults =>
  \A t \in Tasks : task[t].pc = "upsert" /\ task[t].root = EmptyRoot /\ baseline.root # NoRoot =>
    baseline.root.entries = {} \/ baseline.root.seq = 0

(* A request that begins after a refresh has reported success is answered from  *)
(* a root at least as new as the one published when the refresh began           *)
(* (README.md:804, README.md:812), as long as requests do not overlap and the   *)
(* registry is there.                                                           *)
RefreshAloneTakesEffect ==
  load.alone /\ load.faults \subseteq {"disk"} =>
    \A t \in Tasks : task[t].kind = "lookup" /\ task[t].pc \in {"shard", "sharding", "done"} =>
      task[t].root.seq >= task[t].floor
===============================================================================

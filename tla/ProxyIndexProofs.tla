------------------------------ MODULE ProxyIndexProofs ---------------------------
(* Proofs about ProxyIndex, for any number of hashes, shards and requests.      *)
EXTENDS ProxyIndex, TLAPS

(* A leaf that names no prover goes to the SMT solver and then to Zenon,   *)
(* with time to spare for a slow machine.                                  *)
USE SMTT(30), ZenonT(30)

(* The values of the state. *)
Shard == [content : SUBSET Hashes, fresh : BOOLEAN]
Kinds == {"none", "lookup", "nar", "refresh", "register"}
Places ==
  {"idle", "hot", "named", "names", "baseline", "fetching", "arrived", "saving", "fallback", "upsert",
   "report", "shard", "sharding", "done"}
Task ==
  [kind : Kinds, pc : Places, hash : Hashes \cup {NoHash}, root : Root, floor : 0 .. MaxSeq,
   promised : BOOLEAN, failed : BOOLEAN, found : BOOLEAN]

(* The places of get_baseline_data, and those where a request has its root.     *)
Loading == {"baseline", "fetching", "arrived", "saving", "fallback", "upsert"}
Serving == {"shard", "sharding"}

(* What kind of request is where. *)
TaskShape(k) ==
  /\ k.pc = "idle" => k = IdleTask
  /\ k.pc \in Loading => k.kind \in {"lookup", "nar", "refresh"}
  /\ k.pc \in Serving => k.kind \in {"lookup", "nar"}
  /\ k.pc = "report" => k.kind = "refresh"
  /\ k.pc \in {"hot", "named"} => k.kind = "nar"
  /\ k.pc = "names" => k.kind = "register"
  /\ k.kind \in {"lookup", "nar", "register"} => k.hash \in Hashes

TypeInv ==
  /\ load \in Workload
  /\ remote \in Root \cup {NoRoot} /\ published \in 0 .. MaxSeq
  /\ hot_entries \in SUBSET Hashes /\ hot_nar_lookup \in SUBSET Hashes /\ hot_count \in Nat
  /\ baseline \in [root : Root \cup {NoRoot}, fresh : BOOLEAN]
  /\ baseline.fresh => baseline.root \in Root
  /\ shard_cache \in [Shards -> Shard \cup {NoShard}]
  /\ backup \in Root \cup {NoRoot, Torn} /\ status \in BOOLEAN
  /\ task \in [Tasks -> Task] /\ \A t \in Tasks : TaskShape(task[t])
  /\ refreshed \in 0 .. MaxSeq

(* A NAR request for a registered path finds it among the hot entries. *)
PromiseInv ==
  \A t \in Tasks : task[t].kind = "nar" /\ task[t].promised =>
    /\ task[t].hash \in hot_entries /\ task[t].pc \in {"hot", "named", "done"}
    /\ task[t].pc = "done" => task[t].found

(* One request at a time. *)
Alone == load.alone
OneTask == \A t, u \in Tasks : task[t].pc # "idle" /\ task[u].pc # "idle" => t = u

(* Roots that come from the registry have a number. *)
Numbered ==
  /\ remote # NoRoot => remote.seq # 0
  /\ \A t \in Tasks : task[t].pc \in {"arrived", "saving"} => task[t].root.seq # 0
  /\ backup \in Root => backup.seq # 0

(* A root worth keeping. *)
Real(x) == x # NoRoot /\ x.entries # {} /\ x.seq # 0

(* Behind every root worth keeping there is the backup, except while it is      *)
(* written.                                                                     *)
BackupInv ==
  /\ (\A t \in Tasks : task[t].pc # "saving") /\ Real(baseline.root) => backup \in Root
  /\ \A t \in Tasks : task[t].pc = "upsert" =>
       IF task[t].root = EmptyRoot THEN ~ Real(baseline.root) ELSE backup \in Root

(* The registry is there. *)
Reachable == load.faults \subseteq {"disk"}

(* How new the roots are that requests work with: k is the one under way.       *)
NewEnough(k) ==
  /\ k.floor <= published
  /\ k.kind # "refresh" => k.floor <= refreshed
  /\ k.pc = "fallback" => k.floor = 0 /\ refreshed = 0
  /\ k.pc \in {"arrived", "saving", "upsert"} => k.root.seq >= k.floor /\ k.root.seq >= refreshed
  /\ k.kind = "lookup" /\ k.pc \in {"shard", "sharding", "done"} => k.root.seq >= k.floor
  /\ k.kind = "refresh" /\ k.pc \in Loading => ~ baseline.fresh
  /\ k.kind = "refresh" /\ k.pc = "report" /\ baseline.fresh => baseline.root.seq >= k.floor

RefreshInv ==
  /\ IF remote = NoRoot THEN published = 0 ELSE remote.seq = published
  /\ refreshed <= published
  /\ baseline.fresh => baseline.root.seq >= refreshed
  /\ \A t \in Tasks : NewEnough(task[t])

-------------------------------------------------------------------------------
(* Types. *)

(* The requests have the type and the shape of one. *)
TasksTyped == task \in [Tasks -> Task] /\ \A t \in Tasks : TaskShape(task[t])

(* The idle request is one. *)
LEMMA Idle == IdleTask \in Task /\ TaskShape(IdleTask) /\ EmptyRoot \in Root
<1>1. EmptyRoot \in Root
  BY ProxyAssumption DEF EmptyRoot, Root
<1> QED
  BY <1>1, ProxyAssumption DEF IdleTask, Task, TaskShape, Kinds, Places, Loading, Serving

(* The values have their types when the proxy starts. *)
LEMMA TypeInit == Init => TypeInv
<1> SUFFICES ASSUME Init PROVE TypeInv
  OBVIOUS
<1>1. task \in [Tasks -> Task] /\ \A t \in Tasks : TaskShape(task[t])
  BY Idle DEF Init
<1> QED
  BY <1>1, ProxyAssumption DEF Init, TypeInv, Workload

(* A request that begins is well formed when its place is one of its kind.      *)
LEMMA BeginTyped ==
  ASSUME TypeInv, NEW t \in Tasks, NEW kind \in Kinds, NEW h \in Hashes \cup {NoHash},
         NEW pc \in Places, Begin(t, kind, h, pc),
         \/ kind = "lookup" /\ pc = "baseline" /\ h \in Hashes
         \/ kind = "nar" /\ pc \in {"named", "hot"} /\ h \in Hashes
         \/ kind = "refresh" /\ pc = "baseline"
         \/ kind = "register" /\ pc = "names" /\ h \in Hashes
  PROVE  TasksTyped'
<1> DEFINE b == h \in hot_entries
           f == IF kind = "refresh" THEN published ELSE refreshed
           n == [IdleTask EXCEPT !.kind = kind, !.pc = pc, !.hash = h, !.floor = f, !.promised = b]
<1>1. b \in BOOLEAN /\ f \in 0 .. MaxSeq
  BY DEF TypeInv
<1>2. task' = [task EXCEPT ![t] = n]
  BY DEF Begin
<1> HIDE DEF b, f
<1>3. n \in Task
  BY <1>1, Idle, Zenon DEF Task, IdleTask
<1>4. n.kind = kind /\ n.pc = pc /\ n.hash = h
  BY DEF IdleTask
<1> HIDE DEF n
<1>5. TaskShape(n)
  BY <1>4 DEF TaskShape, Loading, Serving
<1> QED
  BY <1>2, <1>3, <1>5 DEF TasksTyped, TypeInv

(* A step of a registration or of get_baseline_data keeps requests well formed. *)
LEMMA LoadingTyped ==
  ASSUME TypeInv, NEW t \in Tasks,
         \/ RegisterName(t) \/ NarHot(t) \/ ReadCached(t) \/ SendFetch(t)
         \/ FetchAnswer(t) \/ FetchNotFound(t) \/ FetchError(t) \/ Arrived(t)
         \/ Saved(t) \/ Fallback(t) \/ Upsert(t)
  PROVE  TasksTyped'
<1> task[t] \in Task /\ TaskShape(task[t]) /\ task \in [Tasks -> Task]
  BY DEF TypeInv
<1> \A u \in Tasks : TaskShape(task[u])
  BY DEF TypeInv
<1>1. CASE RegisterName(t)
  <2>1. task' \in [Tasks -> Task]
    BY <1>1 DEF RegisterName, Task, Places
  <2>2. \A u \in Tasks : TaskShape(task'[u])
    BY <1>1, <2>1 DEF RegisterName, TaskShape, Task, Loading, Serving
  <2> QED
    BY <2>1, <2>2 DEF TasksTyped
<1>2. CASE NarHot(t)
  <2> DEFINE b == task[t].hash \in hot_entries
  <2>1. task' \in [Tasks -> Task]
    <3>1. task' = [task EXCEPT ![t].pc = IF b THEN "done" ELSE "baseline", ![t].found = b]
      BY <1>2 DEF NarHot
    <3>2. b \in BOOLEAN
      OBVIOUS
    <3> HIDE DEF b
    <3> QED
      BY <3>1, <3>2, Zenon DEF Task, Places
  <2>2. \A u \in Tasks : TaskShape(task'[u])
    BY <1>2, <2>1 DEF NarHot, TaskShape, Task, Loading, Serving
  <2> QED
    BY <2>1, <2>2 DEF TasksTyped
<1>3. CASE ReadCached(t)
  <2>1. task' \in [Tasks -> Task]
    BY <1>3 DEF ReadCached, Ready, TypeInv, Task, Places
  <2>2. \A u \in Tasks : TaskShape(task'[u])
    BY <1>3, <2>1 DEF ReadCached, Ready, TaskShape, Task, Loading, Serving
  <2> QED
    BY <2>1, <2>2 DEF TasksTyped
<1>4. CASE SendFetch(t)
  <2>1. task' \in [Tasks -> Task]
    BY <1>4 DEF SendFetch, Task, Places
  <2>2. \A u \in Tasks : TaskShape(task'[u])
    BY <1>4, <2>1 DEF SendFetch, TaskShape, Task, Loading, Serving
  <2> QED
    BY <2>1, <2>2 DEF TasksTyped
<1>5. CASE FetchAnswer(t)
  <2>1. task' \in [Tasks -> Task]
    BY <1>5, Zenon DEF FetchAnswer, TypeInv, Task, Places
  <2>2. \A u \in Tasks : TaskShape(task'[u])
    BY <1>5, <2>1 DEF FetchAnswer, TaskShape, Task, Loading, Serving
  <2> QED
    BY <2>1, <2>2 DEF TasksTyped
<1>6. CASE FetchNotFound(t)
  <2>1. task' \in [Tasks -> Task]
    BY <1>6 DEF FetchNotFound, Task, Places
  <2>2. \A u \in Tasks : TaskShape(task'[u])
    BY <1>6, <2>1 DEF FetchNotFound, TaskShape, Task, Loading, Serving
  <2> QED
    BY <2>1, <2>2 DEF TasksTyped
<1>7. CASE FetchError(t)
  <2>1. task' \in [Tasks -> Task]
    BY <1>7 DEF FetchError, Task, Places
  <2>2. \A u \in Tasks : TaskShape(task'[u])
    BY <1>7, <2>1 DEF FetchError, TaskShape, Task, Loading, Serving
  <2> QED
    BY <2>1, <2>2 DEF TasksTyped
<1>8. CASE Arrived(t)
  <2>1. task' \in [Tasks -> Task]
    BY <1>8 DEF Arrived, Task, Places
  <2>2. \A u \in Tasks : TaskShape(task'[u])
    BY <1>8, <2>1 DEF Arrived, TaskShape, Task, Loading, Serving
  <2> QED
    BY <2>1, <2>2 DEF TasksTyped
<1>9. CASE Saved(t)
  <2>1. task' \in [Tasks -> Task]
    BY <1>9 DEF Saved, Task, Places
  <2>2. \A u \in Tasks : TaskShape(task'[u])
    BY <1>9, <2>1 DEF Saved, TaskShape, Task, Loading, Serving
  <2> QED
    BY <2>1, <2>2 DEF TasksTyped
<1>10. CASE Fallback(t)
  <2>1. task' \in [Tasks -> Task]
    BY Idle, <1>10, Zenon DEF Fallback, Task, Places
  <2>2. \A u \in Tasks : TaskShape(task'[u])
    BY Idle, <1>10, <2>1 DEF Fallback, TaskShape, Task, Loading, Serving
  <2> QED
    BY <2>1, <2>2 DEF TasksTyped
<1>11. CASE Upsert(t)
  <2>1. task' \in [Tasks -> Task]
    BY <1>11 DEF Upsert, Ready, Task, Places
  <2>2. \A u \in Tasks : TaskShape(task'[u])
    BY <1>11, <2>1 DEF Upsert, Ready, TaskShape, Task, Loading, Serving
  <2> QED
    BY <2>1, <2>2 DEF TasksTyped
<1> QED
  BY <1>1, <1>2, <1>3, <1>4, <1>5, <1>6, <1>7, <1>8, <1>9, <1>10, <1>11

(* So does one of get_shard_data, and the answer. *)
LEMMA ServingTyped ==
  ASSUME TypeInv, NEW t \in Tasks,
         \/ EmptyShard(t) \/ CachedShard(t) \/ FetchShard(t) \/ ShardArrived(t)
         \/ ShardError(t) \/ Report(t) \/ Reply(t)
  PROVE  TasksTyped'
<1> task[t] \in Task /\ TaskShape(task[t]) /\ task \in [Tasks -> Task]
  BY DEF TypeInv
<1> \A u \in Tasks : TaskShape(task[u])
  BY DEF TypeInv
<1>1. CASE EmptyShard(t)
  <2>1. task' \in [Tasks -> Task]
    BY <1>1, Zenon DEF EmptyShard, Answer, Task, Places
  <2>2. \A u \in Tasks : TaskShape(task'[u])
    BY <1>1, <2>1 DEF EmptyShard, Answer, TaskShape, Task, Loading, Serving
  <2> QED
    BY <2>1, <2>2 DEF TasksTyped
<1>2. CASE CachedShard(t)
  <2>1. task' \in [Tasks -> Task]
    BY <1>2, Zenon, SMTT(30) DEF CachedShard, Answer, Task, Places
  <2>2. \A u \in Tasks : TaskShape(task'[u])
    BY <1>2, <2>1 DEF CachedShard, Answer, TaskShape, Task, Loading, Serving
  <2> QED
    BY <2>1, <2>2 DEF TasksTyped
<1>3. CASE FetchShard(t)
  <2>1. task' \in [Tasks -> Task]
    BY <1>3 DEF FetchShard, Task, Places
  <2>2. \A u \in Tasks : TaskShape(task'[u])
    BY <1>3, <2>1 DEF FetchShard, TaskShape, Task, Loading, Serving
  <2> QED
    BY <2>1, <2>2 DEF TasksTyped
<1>4. CASE ShardArrived(t)
  <2>1. task' \in [Tasks -> Task]
    BY <1>4, Zenon DEF ShardArrived, Answer, Task, Places
  <2>2. \A u \in Tasks : TaskShape(task'[u])
    BY <1>4, <2>1 DEF ShardArrived, Answer, TaskShape, Task, Loading, Serving
  <2> QED
    BY <2>1, <2>2 DEF TasksTyped
<1>5. CASE ShardError(t)
  <2>1. task' \in [Tasks -> Task]
    BY <1>5, Zenon DEF ShardError, Answer, Task, Places
  <2>2. \A u \in Tasks : TaskShape(task'[u])
    BY <1>5, <2>1 DEF ShardError, Answer, TaskShape, Task, Loading, Serving
  <2> QED
    BY <2>1, <2>2 DEF TasksTyped
<1>6. CASE Report(t)
  BY <1>6, Idle DEF Report, TasksTyped
<1>7. CASE Reply(t)
  BY <1>7, Idle DEF Reply, TasksTyped
<1> QED
  BY <1>1, <1>2, <1>3, <1>4, <1>5, <1>6, <1>7

(* Every value keeps its type. *)
LEMMA TypeStep == TypeInv /\ [Next]_vars => TypeInv'
<1> SUFFICES ASSUME TypeInv, [Next]_vars PROVE TypeInv'
  OBVIOUS
<1>1. CASE Publish
  <2>1. published \in 0 .. MaxSeq /\ load.publications \in 0 .. MaxSeq /\ MaxSeq \in Nat
    BY ProxyAssumption DEF TypeInv, Workload
  <2>2. published' \in 0 .. MaxSeq /\ published + 1 \in 0 .. MaxSeq
    BY <1>1, <2>1 DEF Publish
  <2>3. remote' \in Root \cup {NoRoot}
    BY <1>1, <2>2 DEF Publish, Root
  <2> QED
    BY <1>1, <2>2, <2>3 DEF TypeInv, Publish, hot
<1>2. CASE Expire
  <2>1. baseline' \in [root : Root \cup {NoRoot}, fresh : BOOLEAN]
    BY <1>2, Zenon DEF TypeInv, Expire
  <2>2. baseline'.fresh => baseline'.root \in Root
    BY <1>2 DEF TypeInv, Expire
  <2>3. shard_cache' \in [Shards -> Shard \cup {NoShard}]
    <3>1. CASE UNCHANGED shard_cache
      BY <3>1 DEF TypeInv
    <3>2. ASSUME NEW s \in Shards, shard_cache[s] # NoShard,
                 shard_cache' = [shard_cache EXCEPT ![s].fresh = FALSE]
          PROVE  shard_cache' \in [Shards -> Shard \cup {NoShard}]
      <4>1. shard_cache[s] \in Shard
        BY <3>2 DEF TypeInv
      <4>2. [shard_cache[s] EXCEPT !.fresh = FALSE] \in Shard
        BY <4>1, Zenon DEF Shard
      <4> QED
        BY <3>2, <4>2 DEF TypeInv
    <3> QED
      BY <1>2, <3>1, <3>2 DEF Expire
  <2> QED
    BY <1>2, <2>1, <2>2, <2>3 DEF TypeInv, Expire, registry, hot
<1>3. CASE Restart
  <2>1. task' \in [Tasks -> Task] /\ \A t \in Tasks : TaskShape(task'[t])
    BY <1>3, Idle DEF Restart
  <2>2. /\ baseline' \in [root : Root \cup {NoRoot}, fresh : BOOLEAN]
        /\ baseline'.fresh => baseline'.root \in Root
    BY <1>3 DEF Restart
  <2>3. refreshed' \in 0 .. MaxSeq /\ hot_count' \in Nat
    BY <1>3, ProxyAssumption DEF Restart
  <2> QED
    BY <1>3, <2>1, <2>2, <2>3 DEF TypeInv, Restart, registry
<1>4. ASSUME NEW t \in Tasks, NEW h \in Hashes,
             StartLookup(t, h) \/ StartNar(t, h) \/ StartRegister(t, h)
      PROVE  TypeInv'
  <2>1. TasksTyped'
    <3>1. CASE StartLookup(t, h) /\ h \in hot_entries
      BY <3>1 DEF StartLookup, TasksTyped, TypeInv
    <3>2. CASE StartLookup(t, h) /\ h \notin hot_entries
      <4>1. Begin(t, "lookup", h, "baseline")
        BY <3>2 DEF StartLookup
      <4> QED
        BY <4>1, BeginTyped DEF Kinds, Places
    <3>3. CASE StartNar(t, h)
      <4>1. Begin(t, "nar", h, "named") \/ Begin(t, "nar", h, "hot")
        BY <3>3 DEF StartNar
      <4> QED
        BY <4>1, BeginTyped DEF Kinds, Places
    <3>4. CASE StartRegister(t, h)
      <4>1. Begin(t, "register", h, "names")
        BY <3>4 DEF StartRegister
      <4> QED
        BY <4>1, BeginTyped DEF Kinds, Places
    <3> QED
      BY <1>4, <3>1, <3>2, <3>3, <3>4
  <2>2. hot_entries' \in SUBSET Hashes
    BY <1>4 DEF TypeInv, StartLookup, StartNar, StartRegister, hot
  <2> QED
    BY <1>4, <2>1, <2>2
    DEF TypeInv, TasksTyped, StartLookup, StartNar, StartRegister, registry, hot
<1>5. ASSUME NEW t \in Tasks, StartRefresh(t) PROVE TypeInv'
  <2>1. TasksTyped'
    <3>1. Begin(t, "refresh", NoHash, "baseline")
      BY <1>5 DEF StartRefresh
    <3> QED
      BY <3>1, BeginTyped DEF Kinds, Places
  <2> QED
    BY <1>5, <2>1 DEF TypeInv, TasksTyped, StartRefresh, registry, hot
<1>6. ASSUME NEW t \in Tasks,
             \/ RegisterName(t) \/ NarHot(t)
             \/ ReadCached(t) \/ SendFetch(t) \/ FetchAnswer(t) \/ FetchNotFound(t)
             \/ FetchError(t) \/ Arrived(t) \/ Saved(t) \/ Fallback(t) \/ Upsert(t)
      PROVE  TypeInv'
  <2>1. TasksTyped'
    BY <1>6, LoadingTyped
  <2>2. task[t] \in Task /\ TaskShape(task[t])
    BY DEF TypeInv
  <2>3. CASE RegisterName(t)
    BY <2>1, <2>2, <2>3 DEF TypeInv, TasksTyped, RegisterName, registry, hot, Task, TaskShape
  <2>4. CASE \/ NarHot(t) \/ ReadCached(t) \/ SendFetch(t) \/ FetchAnswer(t) \/ FetchNotFound(t)
             \/ FetchError(t) \/ Fallback(t)
    BY <2>1, <2>4, Zenon DEF TypeInv, TasksTyped, NarHot, ReadCached, SendFetch, FetchAnswer,
      FetchNotFound, FetchError, Fallback, registry, hot
  <2>5. CASE Arrived(t)
    BY <2>1, <2>5 DEF TypeInv, TasksTyped, Arrived, registry, hot
  <2>6. CASE Saved(t)
    BY <2>1, <2>2, <2>6 DEF TypeInv, TasksTyped, Saved, registry, hot, Task
  <2>7. CASE Upsert(t)
    <3>1. /\ baseline' \in [root : Root \cup {NoRoot}, fresh : BOOLEAN]
          /\ baseline'.fresh => baseline'.root \in Root
      BY <2>2, <2>7 DEF Upsert, Task
    <3> QED
      BY <2>1, <2>7, <3>1 DEF TypeInv, TasksTyped, Upsert, registry, hot
  <2> QED
    BY <1>6, <2>3, <2>4, <2>5, <2>6, <2>7
<1>7. ASSUME NEW t \in Tasks,
             \/ EmptyShard(t) \/ CachedShard(t) \/ FetchShard(t) \/ ShardArrived(t)
             \/ ShardError(t) \/ Report(t) \/ Reply(t)
      PROVE  TypeInv'
  <2>1. TasksTyped'
    BY <1>7, ServingTyped
  <2>2. task[t] \in Task /\ TaskShape(task[t])
    BY DEF TypeInv
  <2>3. CASE EmptyShard(t) \/ CachedShard(t) \/ FetchShard(t) \/ ShardError(t) \/ Reply(t)
    BY <2>1, <2>3, Zenon DEF TypeInv, TasksTyped, EmptyShard, CachedShard, FetchShard, ShardError, Reply,
      registry, hot
  <2>4. CASE ShardArrived(t)
    <3>1. shard_cache' \in [Shards -> Shard \cup {NoShard}]
      BY <2>2, <2>4, ProxyAssumption
      DEF TypeInv, ShardArrived, Shard, Wanted, ShardContent, Task, Root, TaskShape, Serving
    <3> QED
      BY <2>1, <2>4, <3>1 DEF TypeInv, TasksTyped, ShardArrived, registry, hot
  <2>5. CASE Report(t)
    BY <2>1, <2>2, <2>5 DEF TypeInv, TasksTyped, Report, registry, hot, Task
  <2> QED
    BY <1>7, <2>3, <2>4, <2>5
<1>8. CASE UNCHANGED vars
  BY <1>8 DEF TypeInv, vars
<1> QED
  BY <1>1, <1>2, <1>3, <1>4, <1>5, <1>6, <1>7, <1>8 DEF Next

(* The types hold throughout. *)
LEMMA Typed == Spec => []TypeInv
BY TypeInit, TypeStep, PTL DEF Spec

-------------------------------------------------------------------------------
(* Answers. *)

(* A request that begins touches no other, and says what it is. *)
LEMMA BeginFields ==
  ASSUME TypeInv, NEW t \in Tasks, NEW kind, NEW h, NEW pc, Begin(t, kind, h, pc)
  PROVE  /\ task'[t].kind = kind /\ task'[t].pc = pc /\ task'[t].hash = h
         /\ task'[t].floor = (IF kind = "refresh" THEN published ELSE refreshed)
         /\ task'[t].promised <=> h \in hot_entries
         /\ \A u \in Tasks : u # t => task'[u] = task[u]
         /\ task[t].pc = "idle"
BY Zenon, SMTT(30) DEF Begin, TypeInv, IdleTask

(* A step of one request touches no other. *)
Touches(t) == \A u \in Tasks : u # t => task'[u] = task[u]

(* The steps of get_baseline_data. *)
LoadStep(t) ==
  \/ ReadCached(t) \/ SendFetch(t) \/ FetchAnswer(t) \/ FetchNotFound(t) \/ FetchError(t)
  \/ Arrived(t) \/ Saved(t) \/ Fallback(t) \/ Upsert(t)

(* The steps with a root at hand. *)
ServeStep(t) ==
  EmptyShard(t) \/ CachedShard(t) \/ FetchShard(t) \/ ShardArrived(t) \/ ShardError(t)

(* get_baseline_data changes only the place and the root of its request. *)
LEMMA LoadFields ==
  ASSUME TypeInv, NEW t \in Tasks, LoadStep(t)
  PROVE  /\ Touches(t) /\ task[t].pc \in Loading
         /\ task'[t].pc \in (Loading \ {"baseline"}) \cup {"report", "shard"}
         /\ task'[t].kind = task[t].kind /\ task'[t].hash = task[t].hash
         /\ task'[t].floor = task[t].floor /\ task'[t].promised = task[t].promised
         /\ UNCHANGED <<load, remote, published, hot_entries, refreshed>>
<1> task[t] \in Task /\ task \in [Tasks -> Task]
  BY DEF TypeInv
<1>1. CASE ReadCached(t) \/ Upsert(t)
  BY <1>1 DEF ReadCached, Upsert, Ready, Task, Touches, Loading, registry, hot
<1>2. CASE SendFetch(t) \/ FetchAnswer(t) \/ FetchNotFound(t) \/ FetchError(t)
  BY <1>2
  DEF SendFetch, FetchAnswer, FetchNotFound, FetchError, Task, Touches, Loading, registry, hot
<1>3. CASE Arrived(t) \/ Saved(t) \/ Fallback(t)
  BY <1>3 DEF Arrived, Saved, Fallback, Task, Touches, Loading, registry, hot
<1> QED
  BY <1>1, <1>2, <1>3 DEF LoadStep

(* What follows changes only the place of its request and its answer. *)
LEMMA ServeFields ==
  ASSUME TypeInv, NEW t \in Tasks, ServeStep(t)
  PROVE  /\ Touches(t) /\ task[t].pc \in Serving /\ task'[t].pc \in {"sharding", "done"}
         /\ task'[t].kind = task[t].kind /\ task'[t].hash = task[t].hash
         /\ task'[t].floor = task[t].floor /\ task'[t].promised = task[t].promised
         /\ task'[t].root = task[t].root
         /\ UNCHANGED <<load, remote, published, hot_entries, refreshed, baseline, backup>>
<1> task[t] \in Task /\ task \in [Tasks -> Task]
  BY DEF TypeInv
<1>1. CASE EmptyShard(t) \/ CachedShard(t)
  BY <1>1 DEF EmptyShard, CachedShard, Answer, Task, Touches, Serving, registry, hot
<1>2. CASE FetchShard(t)
  BY <1>2 DEF FetchShard, Task, Touches, Serving, registry, hot
<1>3. CASE ShardArrived(t)
  BY <1>3 DEF ShardArrived, Answer, Task, Touches, Serving, registry, hot
<1>4. CASE ShardError(t)
  BY <1>4 DEF ShardError, Answer, Task, Touches, Serving, registry, hot
<1> QED
  BY <1>1, <1>2, <1>3, <1>4 DEF ServeStep

(* A finished request leaves an idle slot. *)
LEMMA EndFields ==
  ASSUME TypeInv, NEW t \in Tasks, Report(t) \/ Reply(t)
  PROVE  /\ Touches(t) /\ task'[t] = IdleTask /\ task[t].pc \in {"report", "done", "named"}
         /\ UNCHANGED <<load, remote, published, hot_entries, baseline, backup>>
BY DEF Report, Reply, TypeInv, Touches, registry, hot

(* The slots that a step may change, and the steps that change none. *)
LEMMA NextCases ==
  ASSUME Next
  PROVE  \/ Publish \/ Expire \/ Restart
         \/ \E t \in Tasks :
              \/ \E h \in Hashes : StartLookup(t, h) \/ StartNar(t, h) \/ StartRegister(t, h)
              \/ StartRefresh(t) \/ RegisterName(t) \/ NarHot(t)
              \/ LoadStep(t) \/ ServeStep(t) \/ Report(t) \/ Reply(t)
BY DEF Next, LoadStep, ServeStep

(* Answer of the request k. *)
Sound(k) ==
  k.kind = "lookup" /\ k.pc = "done" /\ ~ k.failed => (k.found <=> k.hash \in k.root.entries)

(* An answer of get_shard_data is what the root of the request says. *)
LEMMA ServeSound ==
  ASSUME TypeInv, NEW t \in Tasks, ServeStep(t)
  PROVE  Sound(task'[t])
<1> task[t] \in Task /\ task \in [Tasks -> Task]
  BY DEF TypeInv
<1> SUFFICES ASSUME task[t].kind = "lookup", task'[t].pc = "done", ~ task'[t].failed
      PROVE  task'[t].found <=> task'[t].hash \in task'[t].root.entries
  BY ServeFields DEF Sound
<1>1. task[t].hash \in Wanted(t) <=> task[t].hash \in task[t].root.entries
  BY DEF Wanted, ShardContent
<1>2. ~ InMemory(t)
  BY DEF InMemory
<1>3. task'[t].hash = task[t].hash /\ task'[t].root = task[t].root
  BY ServeFields
<1>4. task'[t].found <=> task[t].hash \in Wanted(t)
  <2>1. CASE EmptyShard(t)
    BY <1>2, <2>1 DEF EmptyShard, Answer, Task
  <2>2. CASE CachedShard(t)
    BY <1>2, <2>2 DEF CachedShard, Cached, Answer, Task
  <2>3. CASE FetchShard(t)
    BY <2>3 DEF FetchShard, Task
  <2>4. CASE ShardArrived(t)
    BY <1>2, <2>4 DEF ShardArrived, Answer, Task
  <2>5. CASE ShardError(t)
    BY <2>5 DEF ShardError, Answer, Task
  <2> QED
    BY <2>1, <2>2, <2>3, <2>4, <2>5 DEF ServeStep
<1> QED
  BY <1>1, <1>3, <1>4

(* A step keeps the answers sound. *)
LEMMA OneRootStep == TypeInv /\ AnswerFromOneRoot /\ [Next]_vars => AnswerFromOneRoot'
<1> SUFFICES ASSUME TypeInv, AnswerFromOneRoot, [Next]_vars, NEW u \in Tasks PROVE Sound(task'[u])
  BY DEF AnswerFromOneRoot, Sound
<1> Sound(task[u])
  BY DEF AnswerFromOneRoot, Sound
<1>1. CASE Publish \/ Expire \/ UNCHANGED vars
  BY <1>1 DEF Publish, Expire, vars
<1>2. CASE Restart
  BY <1>2 DEF Restart, Sound, IdleTask
<1>3. ASSUME NEW t \in Tasks, NEW h \in Hashes,
             StartLookup(t, h) \/ StartNar(t, h) \/ StartRegister(t, h)
      PROVE  Sound(task'[u])
  <2>1. CASE UNCHANGED task
    BY <2>1
  <2>2. ASSUME NEW kind, NEW pc, Begin(t, kind, h, pc), pc # "done" PROVE Sound(task'[u])
    BY <2>2, BeginFields DEF Sound
  <2> QED
    BY <1>3, <2>1, <2>2 DEF StartLookup, StartNar, StartRegister
<1>4. ASSUME NEW t \in Tasks, StartRefresh(t) PROVE Sound(task'[u])
  <2>1. Begin(t, "refresh", NoHash, "baseline")
    BY <1>4 DEF StartRefresh
  <2> QED
    BY <2>1, BeginFields DEF Sound
<1>5. ASSUME NEW t \in Tasks, RegisterName(t) \/ NarHot(t) PROVE Sound(task'[u])
  <2>1. task[t].kind \in {"register", "nar"} /\ task'[t].kind = task[t].kind /\ Touches(t)
    BY <1>5 DEF RegisterName, NarHot, TypeInv, TaskShape, Task, Touches
  <2> QED
    BY <2>1 DEF Sound, Touches
<1>6. ASSUME NEW t \in Tasks, LoadStep(t) PROVE Sound(task'[u])
  <2>1. task'[t].pc # "done" /\ Touches(t)
    BY <1>6, LoadFields DEF Loading
  <2> QED
    BY <2>1 DEF Sound, Touches
<1>7. ASSUME NEW t \in Tasks, ServeStep(t) PROVE Sound(task'[u])
  BY <1>7, ServeSound, ServeFields DEF Touches
<1>8. ASSUME NEW t \in Tasks, Report(t) \/ Reply(t) PROVE Sound(task'[u])
  BY <1>8, EndFields DEF Touches, Sound, IdleTask
<1> QED
  BY <1>1, <1>2, <1>3, <1>4, <1>5, <1>6, <1>7, <1>8, NextCases

(* A narinfo request is answered from the one root that it has read (index.rs:  *)
(* get_shard_data compares the digest of a cached shard with the root's),       *)
(* whatever the other requests do to the shard cache meanwhile.                 *)
THEOREM OneRoot == Spec => []AnswerFromOneRoot
<1>1. Init => AnswerFromOneRoot
  BY DEF Init, AnswerFromOneRoot, IdleTask
<1> QED
  BY <1>1, Typed, OneRootStep, PTL DEF Spec

(* A step keeps the promise of a hot entry. *)
LEMMA PromiseStep == TypeInv /\ PromiseInv /\ [Next]_vars => PromiseInv'
<1> DEFINE Kept(k, H) == k.kind = "nar" /\ k.promised =>
             /\ k.hash \in H /\ k.pc \in {"hot", "named", "done"}
             /\ k.pc = "done" => k.found
<1> SUFFICES ASSUME TypeInv, PromiseInv, [Next]_vars, NEW u \in Tasks
             PROVE  Kept(task'[u], hot_entries')
  BY DEF PromiseInv
<1> Kept(task[u], hot_entries)
  BY DEF PromiseInv
<1>1. CASE Publish \/ Expire \/ UNCHANGED vars
  BY <1>1 DEF Publish, Expire, vars, hot
<1>2. CASE Restart
  BY <1>2 DEF Restart, IdleTask
<1>3. ASSUME NEW t \in Tasks, NEW h \in Hashes,
             StartLookup(t, h) \/ StartNar(t, h) \/ StartRegister(t, h)
      PROVE  Kept(task'[u], hot_entries')
  <2>1. hot_entries \subseteq hot_entries'
    BY <1>3 DEF StartLookup, StartNar, StartRegister, hot
  <2>2. CASE UNCHANGED task
    BY <2>1, <2>2
  <2>3. ASSUME NEW kind, NEW pc, Begin(t, kind, h, pc), kind = "nar" => pc \in {"hot", "named"}
        PROVE  Kept(task'[u], hot_entries')
    BY <2>1, <2>3, BeginFields
  <2> HIDE DEF Kept
  <2> QED
    BY <1>3, <2>2, <2>3 DEF StartLookup, StartNar, StartRegister
<1>4. ASSUME NEW t \in Tasks, StartRefresh(t) PROVE Kept(task'[u], hot_entries')
  <2>1. Begin(t, "refresh", NoHash, "baseline") /\ hot_entries' = hot_entries
    BY <1>4 DEF StartRefresh, hot
  <2> QED
    BY <2>1, BeginFields
<1>5. ASSUME NEW t \in Tasks, RegisterName(t) PROVE Kept(task'[u], hot_entries')
  <2>1. task[t].kind = "register" /\ task'[t].kind = task[t].kind /\ Touches(t)
        /\ hot_entries' = hot_entries
    BY <1>5 DEF RegisterName, TypeInv, TaskShape, Task, Touches
  <2> QED
    BY <2>1 DEF Touches
<1>6. ASSUME NEW t \in Tasks, NarHot(t) PROVE Kept(task'[u], hot_entries')
  <2>1. /\ task'[t].hash = task[t].hash /\ task'[t].promised = task[t].promised
        /\ task'[t].kind = task[t].kind
    BY <1>6 DEF NarHot, TypeInv, Task
  <2>2. task[t].hash \in hot_entries => task'[t].pc = "done" /\ task'[t].found
    BY <1>6 DEF NarHot, TypeInv, Task
  <2>3. Touches(t) /\ hot_entries' = hot_entries
    BY <1>6 DEF NarHot, TypeInv, Touches, hot
  <2> QED
    BY <2>1, <2>2, <2>3 DEF Touches
<1>7. ASSUME NEW t \in Tasks, LoadStep(t) \/ ServeStep(t) PROVE Kept(task'[u], hot_entries')
  <2>1. /\ task[t].pc \notin {"hot", "named", "done"} /\ Touches(t) /\ hot_entries' = hot_entries
        /\ task'[t].promised = task[t].promised /\ task'[t].kind = task[t].kind
    BY <1>7, LoadFields, ServeFields DEF Loading, Serving
  <2> QED
    BY <2>1 DEF Touches
<1>8. ASSUME NEW t \in Tasks, Report(t) \/ Reply(t) PROVE Kept(task'[u], hot_entries')
  <2>1. Touches(t) /\ task'[t].kind = "none" /\ hot_entries' = hot_entries
    BY <1>8, EndFields DEF IdleTask
  <2> QED
    BY <2>1 DEF Touches
<1> HIDE DEF Kept
<1> QED
  BY <1>1, <1>2, <1>3, <1>4, <1>5, <1>6, <1>7, <1>8, NextCases

(* A client that has been given the narinfo of a registered path gets its NAR,  *)
(* between the two maps of register_hot_entries too: find_nar_digest looks in   *)
(* the second map and then for the hash in the first.                           *)
THEOREM HotNarFound == Spec => []NarFollowsNarinfo
<1>1. Init => PromiseInv
  BY DEF Init, PromiseInv, IdleTask
<1>2. PromiseInv => NarFollowsNarinfo
  BY DEF PromiseInv, NarFollowsNarinfo
<1> QED
  BY <1>1, <1>2, Typed, PromiseStep, PTL DEF Spec

-------------------------------------------------------------------------------
(* One request at a time. *)

(* A request begins. *)
BeginStep(t) ==
  \/ \E h \in Hashes : \/ h \notin hot_entries /\ StartLookup(t, h)
                       \/ StartNar(t, h) \/ StartRegister(t, h)
  \/ StartRefresh(t)

TaskStep(t) ==
  \/ BeginStep(t) \/ RegisterName(t) \/ NarHot(t) \/ LoadStep(t) \/ ServeStep(t)
  \/ Report(t) \/ Reply(t)

(* A lookup that a hot entry answers changes nothing. *)
LEMMA StepCases ==
  ASSUME [Next]_vars
  PROVE  Publish \/ Expire \/ Restart \/ UNCHANGED vars \/ \E t \in Tasks : TaskStep(t)
<1>1. ASSUME NEW t \in Tasks, NEW h \in Hashes, StartLookup(t, h), h \in hot_entries
      PROVE  UNCHANGED vars
  BY <1>1 DEF StartLookup, vars, registry, hot
<1> QED
  BY <1>1, NextCases DEF TaskStep, BeginStep

(* What the beginning of a request does to the rest of the state. *)
LEMMA BeginsOne ==
  ASSUME TypeInv, NEW t \in Tasks, BeginStep(t)
  PROVE  /\ UNCHANGED <<load, remote, published, refreshed, backup>>
         /\ baseline' = baseline \/ baseline' = [root |-> NoRoot, fresh |-> FALSE]
         /\ \E kind, h, pc : /\ Begin(t, kind, h, pc) /\ pc \in {"baseline", "named", "hot", "names"}
                             /\ kind = "refresh" => baseline' = [root |-> NoRoot, fresh |-> FALSE]
<1>1. CASE StartRefresh(t)
  BY <1>1 DEF StartRefresh, registry, hot
<1>2. ASSUME NEW h \in Hashes, h \notin hot_entries, StartLookup(t, h)
      PROVE  /\ UNCHANGED <<load, remote, published, refreshed, backup, baseline>>
             /\ Begin(t, "lookup", h, "baseline")
  BY <1>2 DEF StartLookup, registry, hot
<1>3. ASSUME NEW h \in Hashes, StartNar(t, h)
      PROVE  /\ UNCHANGED <<load, remote, published, refreshed, backup, baseline>>
             /\ Begin(t, "nar", h, "named") \/ Begin(t, "nar", h, "hot")
  BY <1>3 DEF StartNar, registry, hot
<1>4. ASSUME NEW h \in Hashes, StartRegister(t, h)
      PROVE  /\ UNCHANGED <<load, remote, published, refreshed, backup, baseline>>
             /\ Begin(t, "register", h, "names")
  BY <1>4 DEF StartRegister, registry, hot
<1>5. CASE \E h \in Hashes : h \notin hot_entries /\ StartLookup(t, h)
  BY <1>2, <1>5
<1>6. CASE \E h \in Hashes : StartNar(t, h)
  BY <1>3, <1>6
<1>7. CASE \E h \in Hashes : StartRegister(t, h)
  BY <1>4, <1>7
<1> QED
  BY <1>1, <1>5, <1>6, <1>7 DEF BeginStep

(* The steps of the hot maps. *)
LEMMA HotFields ==
  ASSUME TypeInv, NEW t \in Tasks, RegisterName(t) \/ NarHot(t)
  PROVE  /\ Touches(t) /\ task[t].pc \in {"names", "hot"} /\ task'[t].pc \in {"done", "baseline"}
         /\ task[t].kind \in {"register", "nar"} /\ task'[t].kind = task[t].kind
         /\ task'[t].floor = task[t].floor
         /\ UNCHANGED <<load, remote, published, refreshed, backup, baseline>>
<1>1. CASE RegisterName(t)
  BY <1>1 DEF RegisterName, TypeInv, TaskShape, Task, Touches, registry, hot
<1>2. CASE NarHot(t)
  BY <1>2 DEF NarHot, TypeInv, TaskShape, Task, Touches, registry, hot
<1> QED
  BY <1>1, <1>2

(* The workload is that of the whole history. *)
LEMMA LoadFixed ==
  ASSUME TypeInv, [Next]_vars
  PROVE  load' = load
<1>1. CASE Publish \/ Expire \/ Restart \/ UNCHANGED vars
  BY <1>1, SMTT(30) DEF Publish, Expire, Restart, vars, registry
<1>2. ASSUME NEW t \in Tasks, TaskStep(t) PROVE load' = load
  BY <1>2, BeginsOne, HotFields, LoadFields, ServeFields, EndFields, SMTT(30) DEF TaskStep
<1> QED
  BY <1>1, <1>2, StepCases

(* A request that makes a step has the proxy to itself. *)
LEMMA Solo ==
  ASSUME TypeInv, Alone, OneTask, NEW t \in Tasks, TaskStep(t)
  PROVE  \A u \in Tasks : u # t => task[u] = IdleTask /\ task'[u] = IdleTask
<1>1. \A u \in Tasks : u # t => task[u].pc = "idle"
  <2>1. CASE BeginStep(t)
    BY <2>1, BeginsOne, Zenon DEF Begin, Alone
  <2>2. CASE ~ BeginStep(t)
    <3>1. task[t].pc # "idle"
      BY <2>2, HotFields, LoadFields, ServeFields, EndFields DEF TaskStep, Loading, Serving
    <3> QED
      BY <3>1, SMTT(30) DEF OneTask
  <2> QED
    BY <2>1, <2>2
<1>2. Touches(t)
  <2>1. CASE BeginStep(t)
    BY <2>1, BeginsOne, BeginFields, SMTT(30) DEF Touches
  <2>2. CASE ~ BeginStep(t)
    BY <2>2, HotFields, LoadFields, ServeFields, EndFields DEF TaskStep
  <2> QED
    BY <2>1, <2>2
<1> QED
  BY <1>1, <1>2 DEF TypeInv, TaskShape, Touches

(* Requests that do not overlap stay so. *)
LEMMA OneTaskStep == TypeInv /\ Alone /\ OneTask /\ [Next]_vars => OneTask'
<1> SUFFICES ASSUME TypeInv, Alone, OneTask, [Next]_vars PROVE OneTask'
  OBVIOUS
<1>1. CASE Publish \/ Expire \/ UNCHANGED vars
  BY <1>1 DEF Publish, Expire, vars, OneTask
<1>2. CASE Restart
  BY <1>2 DEF Restart, OneTask, IdleTask
<1>3. ASSUME NEW t \in Tasks, TaskStep(t) PROVE OneTask'
  <2>1. \A u \in Tasks : u # t => task'[u].pc = "idle"
    BY <1>3, Solo DEF IdleTask
  <2> QED
    BY <2>1 DEF OneTask
<1> QED
  BY <1>1, <1>2, <1>3, StepCases

(* A proxy that meets one request at a time has one at a time. *)
LEMMA OneAtATime == Spec => [](Alone => OneTask)
<1>1. Init => OneTask
  BY DEF Init, OneTask, IdleTask
<1>2. TypeInv /\ (Alone => OneTask) /\ [Next]_vars => (Alone => OneTask)'
  BY OneTaskStep, LoadFixed DEF Alone
<1> QED
  BY <1>1, <1>2, Typed, PTL DEF Spec

-------------------------------------------------------------------------------
(* The backup file. *)

(* A step keeps the numbers of the roots. *)
LEMMA NumberedStep == TypeInv /\ Numbered /\ [Next]_vars => Numbered'
<1> SUFFICES ASSUME TypeInv, Numbered, [Next]_vars PROVE Numbered'
  OBVIOUS
<1>1. CASE Publish
  BY <1>1 DEF Publish, Numbered, TypeInv
<1>2. CASE Expire \/ UNCHANGED vars
  BY <1>2 DEF Expire, vars, registry, Numbered
<1>3. CASE Restart
  BY <1>3 DEF Restart, registry, Numbered, IdleTask
<1>4. ASSUME NEW t \in Tasks, TaskStep(t) PROVE Numbered'
  <2>1. CASE BeginStep(t)
    BY <2>1, BeginsOne, BeginFields DEF Numbered
  <2>2. CASE RegisterName(t) \/ NarHot(t)
    BY <2>2, HotFields DEF Numbered, Touches
  <2>3. CASE ServeStep(t)
    BY <2>3, ServeFields DEF Numbered, Touches
  <2>4. CASE Report(t) \/ Reply(t)
    BY <2>4, EndFields DEF Numbered, Touches, IdleTask
  <2>5. CASE LoadStep(t)
    <3>1. task[t] \in Task /\ task \in [Tasks -> Task]
      BY DEF TypeInv
    <3>2. Touches(t) /\ remote' = remote
      BY <2>5, LoadFields
    <3>3. task'[t].pc \in {"arrived", "saving"} => task'[t].root.seq # 0
      <4>1. CASE ReadCached(t) \/ Upsert(t)
        BY <3>1, <4>1 DEF ReadCached, Upsert, Ready, Task
      <4>2. CASE SendFetch(t) \/ FetchAnswer(t) \/ FetchNotFound(t) \/ FetchError(t)
        BY <3>1, <4>2 DEF SendFetch, FetchAnswer, FetchNotFound, FetchError, Task, Numbered
      <4>3. CASE Arrived(t) \/ Saved(t) \/ Fallback(t)
        BY <3>1, <4>3 DEF Arrived, Saved, Fallback, Task, Numbered
      <4> QED
        BY <2>5, <4>1, <4>2, <4>3 DEF LoadStep
    <3>4. backup' \in Root => backup'.seq # 0
      <4>1. CASE Arrived(t)
        BY <4>1, ProxyAssumption DEF Arrived
      <4>2. CASE Saved(t)
        BY <4>2 DEF Saved, Numbered
      <4>3. CASE ~ Arrived(t) /\ ~ Saved(t)
        BY <2>5, <4>3 DEF LoadStep, ReadCached, SendFetch, FetchAnswer, FetchNotFound, FetchError,
          Fallback, Upsert, Numbered
      <4> QED
        BY <4>1, <4>2, <4>3
    <3> QED
      BY <3>2, <3>3, <3>4 DEF Numbered, Touches
  <2> QED
    BY <1>4, <2>1, <2>2, <2>3, <2>4, <2>5, SMTT(30) DEF TaskStep
<1> QED
  BY <1>1, <1>2, <1>3, <1>4, StepCases

(* Roots that come from the registry are numbered throughout. *)
LEMMA NumberedAlways == Spec => []Numbered
<1>1. Init => Numbered
  BY ProxyAssumption, SMTT(30) DEF Init, Numbered, IdleTask
<1> QED
  BY <1>1, Typed, NumberedStep, PTL DEF Spec

(* What BackupInv says when k is the request under way, with the baseline x and *)
(* the file y.                                                                  *)
Backed(k, x, y) ==
  /\ k.pc # "saving" /\ Real(x) => y \in Root
  /\ k.pc = "upsert" => IF k.root = EmptyRoot THEN ~ Real(x) ELSE y \in Root

(* get_baseline_data keeps the backup behind the baseline. *)
LEMMA LoadBacked ==
  ASSUME TypeInv, Numbered, "disk" \notin load.faults, NEW t \in Tasks, LoadStep(t),
         Backed(task[t], baseline.root, backup)
  PROVE  Backed(task'[t], baseline'.root, backup')
<1> task[t] \in Task /\ task \in [Tasks -> Task]
  BY DEF TypeInv
<1>1. CASE ReadCached(t)
  BY <1>1 DEF ReadCached, Ready, Task, Backed
<1>2. CASE SendFetch(t) \/ FetchAnswer(t) \/ FetchNotFound(t) \/ FetchError(t)
  <2>1. /\ task[t].pc = "fetching" \/ task[t].pc = "baseline"
        /\ task'[t].pc \in {"fetching", "arrived", "fallback"}
        /\ baseline' = baseline /\ backup' = backup
    BY <1>2 DEF SendFetch, FetchAnswer, FetchNotFound, FetchError, Task
  <2> QED
    BY <2>1 DEF Backed
<1>3. CASE Arrived(t)
  BY <1>3 DEF Arrived, Task, Backed
<1>4. CASE Saved(t)
  <2>1. /\ task[t].pc = "saving" /\ task'[t].pc = "upsert" /\ task'[t].root = task[t].root
        /\ backup' = task[t].root /\ task[t].root \in Root
    BY <1>4 DEF Saved, Task
  <2>2. task[t].root # EmptyRoot
    BY <2>1 DEF Numbered, EmptyRoot
  <2> QED
    BY <2>1, <2>2 DEF Backed
<1>5. CASE Fallback(t)
  <2>1. /\ task[t].pc = "fallback" /\ task'[t].pc = "upsert"
        /\ task'[t].root = IF backup \in Root THEN backup ELSE EmptyRoot
        /\ baseline' = baseline /\ backup' = backup
    BY <1>5 DEF Fallback, Task
  <2>2. backup \in Root => backup # EmptyRoot
    BY DEF Numbered, EmptyRoot
  <2> QED
    BY <2>1, <2>2 DEF Backed
<1>6. CASE Upsert(t)
  <2>1. /\ task[t].pc = "upsert" /\ task'[t].pc \in {"report", "shard"}
        /\ baseline'.root = task[t].root /\ backup' = backup
    BY <1>6 DEF Upsert, Ready, Task
  <2>2. ~ Real(EmptyRoot)
    BY DEF Real, EmptyRoot
  <2> QED
    BY <2>1, <2>2 DEF Backed
<1> QED
  BY <1>1, <1>2, <1>3, <1>4, <1>5, <1>6, ZenonT(30) DEF LoadStep

(* A step keeps the backup behind the baseline. *)
LEMMA BackupStep ==
  ASSUME TypeInv, Numbered, Alone, OneTask, "disk" \notin load.faults, BackupInv, [Next]_vars
  PROVE  BackupInv'
<1>1. CASE Publish \/ UNCHANGED vars
  BY <1>1, SMTT(30) DEF Publish, vars, BackupInv, Real
<1>2. CASE Expire
  <2>1. baseline'.root = baseline.root /\ backup' = backup /\ task' = task
    BY <1>2, SMTT(30) DEF Expire, TypeInv
  <2> QED
    BY <2>1 DEF BackupInv, Real
<1>3. CASE Restart
  BY <1>3, SMTT(30) DEF Restart, BackupInv, Real, IdleTask
<1>4. ASSUME NEW t \in Tasks, TaskStep(t) PROVE BackupInv'
  <2>1. \A u \in Tasks : u # t => task[u].pc = "idle" /\ task'[u].pc = "idle"
    BY <1>4, Solo, SMTT(30) DEF IdleTask
  <2>2. Backed(task[t], baseline.root, backup)
    BY <2>1 DEF BackupInv, Backed
  <2>3. SUFFICES Backed(task'[t], baseline'.root, backup')
    BY <2>1, <2>3, SMTT(30) DEF BackupInv, Backed, Real
  <2>4. CASE BeginStep(t)
    <3>1. /\ task[t].pc = "idle" /\ task'[t].pc \notin {"saving", "upsert"}
          /\ backup' = backup /\ baseline'.root \in {baseline.root, NoRoot}
      BY <2>4, BeginsOne, BeginFields
    <3> QED
      BY <2>2, <3>1 DEF Backed, Real
  <2>5. CASE RegisterName(t) \/ NarHot(t)
    BY <2>2, <2>5, HotFields DEF Backed
  <2>6. CASE LoadStep(t)
    BY <2>2, <2>6, LoadBacked, SMTT(30)
  <2>7. CASE ServeStep(t)
    BY <2>2, <2>7, ServeFields DEF Backed, Serving
  <2>8. CASE Report(t) \/ Reply(t)
    BY <2>2, <2>8, EndFields DEF Backed, IdleTask
  <2> QED
    BY <1>4, <2>4, <2>5, <2>6, <2>7, <2>8 DEF TaskStep
<1> QED
  BY <1>1, <1>2, <1>3, <1>4, StepCases, SMTT(30)

(* A proxy whose requests do not overlap and whose writes of the backup succeed *)
(* never trades an index for the empty one that stands in after a failed fetch: *)
(* fetch_and_update_baseline writes the file before it replaces the baseline,   *)
(* and load_backup finds it.                                                    *)
THEOREM BackupStandsIn == Spec => []NeverEmptied
<1> DEFINE Calm == Alone /\ "disk" \notin load.faults
<1>1. Init => BackupInv
  BY DEF Init, BackupInv, Real, IdleTask
<1>2. TypeInv /\ Numbered /\ (Alone => OneTask) /\ (Calm => BackupInv) /\ [Next]_vars
      => (Calm => BackupInv)'
  BY BackupStep, LoadFixed DEF Alone
<1>3. (Calm => BackupInv) => NeverEmptied
  BY DEF BackupInv, NeverEmptied, Real, Alone
<1> HIDE DEF Calm
<1> QED
  BY <1>1, <1>2, <1>3, Typed, NumberedAlways, OneAtATime, PTL DEF Spec

-------------------------------------------------------------------------------
(* A refresh takes effect. *)

(* NewEnough with the state it reads as arguments: the roots published, the     *)
(* newest that a refresh vouches for, the baseline.                             *)
Enough(k, p, r, b) ==
  /\ k.floor <= p
  /\ k.kind # "refresh" => k.floor <= r
  /\ k.pc = "fallback" => k.floor = 0 /\ r = 0
  /\ k.pc \in {"arrived", "saving", "upsert"} => k.root.seq >= k.floor /\ k.root.seq >= r
  /\ k.kind = "lookup" /\ k.pc \in {"shard", "sharding", "done"} => k.root.seq >= k.floor
  /\ k.kind = "refresh" /\ k.pc \in Loading => ~ b.fresh
  /\ k.kind = "refresh" /\ k.pc = "report" /\ b.fresh => b.root.seq >= k.floor

(* What RefreshInv says of the state when k is the request under way. *)
Vouched(k, p, r, b) == r <= p /\ (b.fresh => b.root.seq >= r) /\ Enough(k, p, r, b)

(* An idle slot asks nothing. *)
LEMMA IdleEnough ==
  ASSUME NEW p \in Nat, NEW r \in Nat, NEW b
  PROVE  Enough(IdleTask, p, r, b)
BY SMTT(30) DEF Enough, IdleTask, Loading

(* get_baseline_data works with roots that are new enough. *)
LEMMA LoadVouched ==
  ASSUME TypeInv, Reachable, NEW t \in Tasks, LoadStep(t),
         IF remote = NoRoot THEN published = 0 ELSE remote.seq = published,
         Vouched(task[t], published, refreshed, baseline)
  PROVE  Vouched(task'[t], published, refreshed, baseline')
<1> DEFINE k == task[t]
           n == task'[t]
<1> /\ k \in Task /\ TaskShape(k) /\ task \in [Tasks -> Task]
      /\ n \in Task
  <2>1. TasksTyped'
    BY LoadingTyped DEF LoadStep
  <2> QED
    BY <2>1 DEF TypeInv, TasksTyped
<1> /\ k.floor \in Nat /\ k.root.seq \in Nat /\ n.root.seq \in Nat
      /\ published \in Nat /\ refreshed \in Nat
  <2>1. k.floor \in 0 .. MaxSeq /\ k.root \in Root /\ n.root \in Root
    BY DEF Task
  <2>2. published \in 0 .. MaxSeq /\ refreshed \in 0 .. MaxSeq
    BY SMTT(30) DEF TypeInv
  <2> HIDE DEF k, n
  <2> QED
    BY <2>1, <2>2, ProxyAssumption DEF Root
<1> n.kind = k.kind /\ n.floor = k.floor /\ k.kind \in {"lookup", "nar", "refresh"}
  BY LoadFields, SMTT(30) DEF TaskShape
<1>1. CASE ReadCached(t)
  <2>1. /\ k.pc = "baseline" /\ baseline.fresh /\ baseline' = baseline /\ n.root = baseline.root
        /\ n.pc = IF k.kind = "refresh" THEN "report" ELSE "shard"
    BY <1>1, SMTT(30) DEF ReadCached, Ready, Task
  <2>2. k.kind # "refresh"
    BY <2>1, SMTT(30) DEF Vouched, Enough, Loading
  <2> QED
    BY <2>1, <2>2 DEF Vouched, Enough, Loading
<1>2. CASE SendFetch(t)
  <2>1. k.pc = "baseline" /\ n.pc = "fetching" /\ baseline' = baseline
    BY <1>2, SMTT(30) DEF SendFetch, Task
  <2> QED
    BY <2>1 DEF Vouched, Enough, Loading
<1>3. CASE FetchAnswer(t)
  <2>1. /\ k.pc = "fetching" /\ n.pc = "arrived" /\ n.root.seq = published /\ baseline' = baseline
    BY <1>3, SMTT(30) DEF FetchAnswer, Task
  <2> QED
    BY <2>1 DEF Vouched, Enough, Loading
<1>4. CASE FetchNotFound(t)
  <2>1. k.pc = "fetching" /\ n.pc = "fallback" /\ published = 0 /\ baseline' = baseline
    BY <1>4 DEF FetchNotFound, Task
  <2> QED
    BY <2>1 DEF Vouched, Enough, Loading
<1>5. ~ FetchError(t)
  BY SMTT(30) DEF FetchError, Reachable
<1>6. CASE Arrived(t) \/ Saved(t)
  <2>1. /\ k.pc \in {"arrived", "saving"} /\ n.pc \in {"saving", "upsert"} /\ n.root = k.root
        /\ baseline' = baseline
    BY <1>6, SMTT(30) DEF Arrived, Saved, Task
  <2> QED
    BY <2>1 DEF Vouched, Enough, Loading
<1>7. CASE Fallback(t)
  <2>1. k.pc = "fallback" /\ n.pc = "upsert" /\ baseline' = baseline
    BY <1>7, SMTT(30) DEF Fallback, Task
  <2> QED
    BY <2>1 DEF Vouched, Enough, Loading
<1>8. CASE Upsert(t)
  <2>1. /\ k.pc = "upsert" /\ n.pc = IF k.kind = "refresh" THEN "report" ELSE "shard"
        /\ n.root = k.root /\ baseline'.root = k.root
    BY <1>8, SMTT(30) DEF Upsert, Ready, Task
  <2> QED
    BY <2>1 DEF Vouched, Enough, Loading
<1> QED
  BY <1>1, <1>2, <1>3, <1>4, <1>5, <1>6, <1>7, <1>8 DEF LoadStep

(* A request that begins asks for no more than has been published. *)
LEMMA BeginVouched ==
  ASSUME TypeInv, NEW t \in Tasks, BeginStep(t),
         Vouched(task[t], published, refreshed, baseline)
  PROVE  Vouched(task'[t], published, refreshed, baseline')
<1>1. PICK kind, h, pc :
        /\ Begin(t, kind, h, pc) /\ pc \in {"baseline", "named", "hot", "names"}
        /\ kind = "refresh" => baseline' = [root |-> NoRoot, fresh |-> FALSE]
  BY BeginsOne, SMTT(30)
<1>2. /\ task'[t].kind = kind /\ task'[t].pc = pc
      /\ task'[t].floor = (IF kind = "refresh" THEN published ELSE refreshed)
  BY <1>1, BeginFields
<1>3. baseline' = baseline \/ baseline' = [root |-> NoRoot, fresh |-> FALSE]
  BY BeginsOne
<1>4. kind = "refresh" => ~ baseline'.fresh
  BY <1>1
<1>5. baseline'.fresh => baseline' = baseline
  BY <1>3
<1>6. published \in Nat /\ refreshed \in Nat
  BY ProxyAssumption, SMTT(30) DEF TypeInv
<1> QED
  BY <1>1, <1>2, <1>4, <1>5, <1>6 DEF Vouched, Enough, Loading

(* A refresh that reports vouches for what its baseline holds. *)
LEMMA EndVouched ==
  ASSUME TypeInv, NEW t \in Tasks, Report(t) \/ Reply(t),
         Vouched(task[t], published, refreshed, baseline)
  PROVE  Vouched(task'[t], published, refreshed', baseline)
<1>1. task'[t] = IdleTask
  BY EndFields
<1>2. published \in Nat /\ refreshed \in Nat /\ task[t].floor \in Nat
  BY ProxyAssumption DEF TypeInv, Task
<1>3. /\ refreshed' \in Nat /\ refreshed' <= published
      /\ baseline.fresh => baseline.root.seq >= refreshed'
  <2>1. CASE Report(t)
    <3>1. task[t].pc = "report" /\ task[t].kind = "refresh"
      BY <2>1 DEF Report, TypeInv, TaskShape
    <3>2. refreshed' \in {refreshed, task[t].floor}
      BY <2>1, ZenonT(30) DEF Report
    <3> QED
      BY <1>2, <3>1, <3>2, SMTT(30) DEF Vouched, Enough
  <2>2. CASE Reply(t)
    BY <1>2, <2>2, ZenonT(30) DEF Reply, Vouched
  <2> QED
    BY <2>1, <2>2
<1>4. Enough(IdleTask, published, refreshed', baseline)
  BY <1>2, <1>3, IdleEnough
<1> QED
  BY <1>1, <1>3, <1>4 DEF Vouched

(* A step keeps the roots new enough. *)
LEMMA RefreshStep ==
  ASSUME TypeInv, TypeInv', Alone, OneTask, Reachable, RefreshInv, [Next]_vars
  PROVE  RefreshInv'
<1> /\ published \in Nat /\ refreshed \in Nat /\ published' \in Nat /\ refreshed' \in Nat
      /\ \A u \in Tasks : task[u].floor \in Nat
  BY ProxyAssumption, SMTT(30) DEF TypeInv, Task
<1>1. CASE Publish
  <2>1. /\ published' = published + 1 /\ (remote' # NoRoot => remote'.seq = published')
        /\ UNCHANGED <<baseline, task, refreshed>>
    BY <1>1 DEF Publish
  <2>2. remote' # NoRoot
    <3>1. published' \in 0 .. MaxSeq
      BY DEF TypeInv
    <3>2. PICK E \in SUBSET Hashes : remote' = [seq |-> published + 1, entries |-> E]
      BY <1>1 DEF Publish, Reachable
    <3>3. remote' \in Root
      BY <2>1, <3>1, <3>2, SMTT(30) DEF Root
    <3> QED
      BY <3>3, ProxyAssumption
  <2>3. \A u \in Tasks : NewEnough(task[u])'
    BY <2>1 DEF RefreshInv, NewEnough
  <2> QED
    BY <2>1, <2>2, <2>3, SMTT(30) DEF RefreshInv
<1>2. CASE Expire
  <2>1. /\ UNCHANGED <<remote, published, task, refreshed>> /\ baseline'.root = baseline.root
        /\ baseline'.fresh => baseline.fresh
    BY <1>2, SMTT(30) DEF Expire, registry, TypeInv
  <2>2. \A u \in Tasks : NewEnough(task[u])'
    BY <2>1 DEF RefreshInv, NewEnough
  <2> QED
    BY <2>1, <2>2 DEF RefreshInv
<1>3. CASE Restart
  <2>1. \A u \in Tasks : NewEnough(task[u])'
    BY <1>3, SMTT(30) DEF Restart, NewEnough, IdleTask, registry, Loading
  <2> QED
    BY <1>3, <2>1, SMTT(30) DEF Restart, registry, RefreshInv
<1>4. CASE UNCHANGED vars
  BY <1>4, SMTT(30) DEF vars, RefreshInv, NewEnough
<1>5. ASSUME NEW t \in Tasks, TaskStep(t) PROVE RefreshInv'
  <2>1. \A u \in Tasks : u # t => task'[u] = IdleTask
    BY <1>5, Solo, SMTT(30)
  <2>2. Vouched(task[t], published, refreshed, baseline)
    BY DEF RefreshInv, Vouched, NewEnough, Enough
  <2>3. remote' = remote /\ published' = published
    BY <1>5, BeginsOne, HotFields, LoadFields, ServeFields, EndFields, ZenonT(30) DEF TaskStep
  <2>4. SUFFICES Vouched(task'[t], published', refreshed', baseline')
    <3>1. \A u \in Tasks : Enough(task'[u], published', refreshed', baseline')
      BY <2>1, <2>4, IdleEnough, SMTT(30) DEF Vouched
    <3>2. \A u \in Tasks : NewEnough(task[u])'
      BY <3>1 DEF Enough, NewEnough
    <3> QED
      BY <2>3, <2>4, <3>2 DEF RefreshInv, Vouched
  <2>5. CASE BeginStep(t)
    BY <2>2, <2>3, <2>5, BeginVouched, BeginsOne, ZenonT(30)
  <2>6. CASE RegisterName(t) \/ NarHot(t)
    <3>1. /\ task'[t].pc \in {"done", "baseline"} /\ task[t].kind \in {"register", "nar"}
          /\ task'[t].kind = task[t].kind /\ task'[t].floor = task[t].floor
          /\ UNCHANGED <<published, refreshed, baseline>>
      BY <2>6, HotFields, SMTT(30)
    <3> QED
      BY <2>2, <3>1, SMTT(30) DEF Vouched, Enough
  <2>7. CASE LoadStep(t)
    BY <2>2, <2>7, LoadVouched, LoadFields, SMTT(30) DEF RefreshInv
  <2>8. CASE ServeStep(t)
    <3>1. /\ task[t].pc \in Serving /\ task'[t].pc \in {"sharding", "done"}
          /\ task'[t].kind = task[t].kind /\ task'[t].floor = task[t].floor
          /\ task'[t].root = task[t].root /\ UNCHANGED <<published, refreshed, baseline>>
      BY <2>8, ServeFields, SMTT(30)
    <3> QED
      BY <2>2, <3>1, SMTT(30) DEF Vouched, Enough, Serving, Loading
  <2>9. CASE Report(t) \/ Reply(t)
    BY <2>2, <2>3, <2>9, EndVouched, EndFields
  <2> QED
    BY <1>5, <2>5, <2>6, <2>7, <2>8, <2>9 DEF TaskStep
<1> QED
  BY <1>1, <1>2, <1>3, <1>4, <1>5, StepCases

(* A request that begins after a refresh has reported success is answered from  *)
(* a root at least as new as the one published when the refresh began, as long  *)
(* as requests do not overlap and the registry is there: force_refresh empties  *)
(* the caches before it fetches.                                                *)
THEOREM RefreshTakesEffect == Spec => []RefreshAloneTakesEffect
<1> DEFINE Steady == Alone /\ Reachable
<1>1. Init => RefreshInv
  BY DEF Init, RefreshInv, NewEnough, IdleTask, Loading
<1>2. TypeInv /\ TypeInv' /\ (Alone => OneTask) /\ (Steady => RefreshInv) /\ [Next]_vars
      => (Steady => RefreshInv)'
  BY RefreshStep, LoadFixed DEF Alone, Reachable
<1>3. (Steady => RefreshInv) => RefreshAloneTakesEffect
  BY DEF RefreshInv, NewEnough, RefreshAloneTakesEffect, Alone, Reachable
<1> HIDE DEF Steady
<1> QED
  BY <1>1, <1>2, <1>3, Typed, OneAtATime, PTL DEF Spec
===============================================================================

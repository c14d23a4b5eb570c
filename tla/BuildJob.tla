------------------------------ MODULE BuildJob -------------------------------
(***************************************************************************)
(* The two jobs that produce a build receipt (nixcache-builder):            *)
(*   worker   run_build_worker: starts its own proxy, builds, uploads what  *)
(*            was built here, stops the proxy, writes the receipt; a failed *)
(*            worker may be run again on the same machine;                  *)
(*   session  run_session_init, the user's own build steps, then            *)
(*            run_session_capture and run_session_clean.                    *)
(* Beside the job run the proxy process it spawned and the export pipeline  *)
(* of StoreExport.  GITHUB_ENV reaches the steps that start after it was    *)
(* written, never the process that wrote it.                                *)
(***************************************************************************)
EXTENDS StoreExport

CONSTANTS
  Jobs,         \* the jobs and their options, and how often one is run on a machine
  Targets,      \* the outputs that are asked for
  Upstream,     \* paths a public cache serves, signed with its key
  Before,       \* the stores a machine may start with
  Remotes,      \* what the index of the repository may hold
  MaxProbes     \* health checks before the job gives up on its proxy

Modes == {"RuntimeClosure", "BuildClosure", "RootsOnly", "DiffAll"}

ASSUME JobAssumption ==
  /\ \A j \in Jobs : /\ j.kind \in {"worker", "session"} /\ j.strict \in BOOLEAN /\ j.key \in BOOLEAN
                     /\ j.mode \in Modes /\ j.snapshot \in BOOLEAN /\ j.exprs \subseteq Targets
                     /\ j.attempts \in Nat \ {0}
  /\ Targets \subseteq Paths /\ Upstream \subseteq Paths /\ Before \subseteq SUBSET Paths
  /\ MaxProbes \in Nat \ {0}

VARIABLES
  job,         \* the job of this history
  attempt,
  pc,
  proxy,       \* "none", "up", "ready", "dead": the process the job spawned
  probes,
  github_env,  \* GITHUB_ENV holds a NIX_CONFIG that names the proxy
  env,         \* the running step was started with that NIX_CONFIG
  store,       \* valid paths
  sigs,        \* Paths -> names of the keys that signed the path in the store
  before,      \* the store when the job began
  remote,      \* hashes in the published index, not changed here
  known,       \* own_hashes: what the job could read of it
  snap,        \* snapshot file: << >> or << names >>
  links,       \* targets of the result links of the user's build
  roots,       \* output paths or target roots
  todo,        \* paths to export
  signed,      \* the signing command succeeded
  hot,         \* entries registered with the running proxy
  receipt      \* << >> or << [entries, signatures, active_gc_roots] >>

fixed == << job, before, remote >>
process == << proxy, probes >>
machine == << github_env, env, store, sigs, snap, links >>
work == << known, roots, todo, signed, hot, receipt >>
jobVars == << fixed, attempt, pc, process, machine, work >>
vars == << exportVars, jobVars >>

Init ==
  /\ ExportInit
  /\ job \in Jobs /\ attempt = 1 /\ pc = IF job.kind = "worker" THEN "setup" ELSE "init"
  /\ proxy = "none" /\ probes = 0 /\ github_env = FALSE /\ env = FALSE
  /\ store \in Before /\ before = store /\ remote \in Remotes
  /\ sigs = [p \in Paths |-> IF p \in store \cap Upstream THEN {"upstream"} ELSE {}]
  /\ known = {} /\ snap = << >> /\ links = {} /\ roots = {} /\ todo = {} /\ signed = FALSE
  /\ hot = {} /\ receipt = << >>

IsWorker == job.kind = "worker"

-----------------------------------------------------------------------------
(* The proxy process.                                                       *)

ProxyReady ==
  /\ proxy = "up" /\ proxy' = "ready" /\ NoFault
  /\ UNCHANGED << pipeline, fixed, attempt, pc, probes, machine, work >>

ProxyExits ==
  /\ proxy \in {"up", "ready"} /\ proxy' = "dead" /\ Fault
  /\ UNCHANGED << pipeline, fixed, attempt, pc, probes, machine, work >>

-----------------------------------------------------------------------------
(* Starting the proxy: setup_self_substituter and run_session_init.         *)

\* Changed form: an early return leaves the child to itself.
ReturnErrKeepsChild(kills) == pc' = "err" /\ proxy' = proxy

\* An error return; ProxyGuard kills its child when it is dropped, and so does
\* the strict health check.  run_session_init has no guard.
ReturnErr(kills) ==
  /\ pc' = "err"
  /\ proxy' = IF kills /\ proxy # "none" THEN "dead" ELSE proxy

Spawn ==
  /\ pc \in {"setup", "init"}
  /\ \/ NoFault /\ proxy' = "up" /\ probes' = 0 /\ pc' = "probe"
     \/ /\ Fault /\ proxy' = "none" /\ UNCHANGED probes
        /\ pc' = IF IsWorker /\ ~job.strict THEN "discover" ELSE "err"
  /\ UNCHANGED << pipeline, fixed, attempt, machine, work >>

\* NIX_CONFIG is appended to GITHUB_ENV; the worker ignores a failure.
export_to_github_env ==
  \/ NoFault /\ github_env' = TRUE /\ pc' = IF IsWorker THEN "discover" ELSE "snapshot"
  \/ Fault /\ UNCHANGED github_env /\ pc' = IF IsWorker THEN "discover" ELSE "err"

\* Changed form: the turns are not counted.
WaitUncounted == proxy # "dead" /\ NoFault /\ UNCHANGED << pc, process, github_env >>

\* No answer yet, and turns left: the job sleeps and asks again.
WaitAgain ==
  /\ proxy # "dead" /\ probes + 1 < MaxProbes /\ NoFault
  /\ probes' = probes + 1 /\ UNCHANGED << pc, proxy, github_env >>

\* One turn of the probe loop: the exit of the child, a healthy answer, or one wait more.
Probe ==
  /\ pc = "probe"
  /\ \/ /\ proxy = "dead" /\ NoFault /\ UNCHANGED << probes, github_env >>
        /\ IF IsWorker /\ ~job.strict THEN pc' = "discover" /\ UNCHANGED proxy ELSE ReturnErr(FALSE)
     \/ proxy = "ready" /\ export_to_github_env /\ UNCHANGED process
     \/ WaitAgain
     \/ /\ proxy # "dead" /\ probes + 1 = MaxProbes /\ NoFault /\ UNCHANGED << probes, github_env >>
        /\ IF IsWorker /\ ~job.strict THEN pc' = "discover" /\ UNCHANGED proxy ELSE ReturnErr(IsWorker)
  /\ UNCHANGED << pipeline, fixed, attempt, env, store, sigs, snap, links, work >>

\* record_store_snapshot, the last step of run_session_init.
Snapshot ==
  /\ pc = "snapshot"
  /\ \/ NoFault /\ pc' = "user" /\ snap' = IF job.snapshot THEN << scan_store_names(store) >> ELSE << >>
     \/ Fault /\ job.snapshot /\ pc' = "err" /\ UNCHANGED snap
  /\ env' = github_env
  /\ UNCHANGED << pipeline, fixed, attempt, process, github_env, store, sigs, links, work >>

-----------------------------------------------------------------------------
(* Building.  Nix fetches a path it misses from a public cache, or from the *)
(* proxy when its NIX_CONFIG names it and it answers, and builds it         *)
(* otherwise.  A failing build leaves what it finished.                     *)

SignaturesOf(p) ==
  IF p \in Upstream THEN {"upstream"} ELSE IF env /\ proxy = "ready" /\ p \in remote THEN {"own"} ELSE {}

Realise(S) ==
  /\ store' = store \cup S
  /\ sigs' = [p \in Paths |-> IF p \in S \ store THEN SignaturesOf(p) ELSE sigs[p]]

Finished == {S \in SUBSET Closure(Targets) : ReferenceClosed(S)}

\* discover_outputs: a failing evaluation, or nothing to build, is an error.
discover_outputs ==
  /\ pc = "discover"
  /\ \/ NoFault /\ pc' = "build" /\ UNCHANGED proxy
     \/ Fault /\ ReturnErr(TRUE)
  /\ UNCHANGED << pipeline, fixed, attempt, probes, machine, work >>

\* When nix build fails, outputs that are valid all the same are taken from nix path-info.
build_outputs ==
  /\ pc = "build"
  /\ \/ NoFault /\ Realise(Closure(Targets)) /\ pc' = "fetch" /\ roots' = Targets /\ UNCHANGED proxy
     \/ /\ Fault
        /\ \E S \in Finished :
             /\ Realise(S)
             /\ IF Targets \subseteq store \cup S
                THEN pc' = "fetch" /\ roots' = Targets /\ UNCHANGED proxy
                ELSE ReturnErr(TRUE) /\ UNCHANGED roots
  /\ UNCHANGED << pipeline, fixed, attempt, probes, github_env, env, snap, links, known, todo, signed, hot,
                  receipt >>

\* The user's build step; nix build leaves result links when it succeeds and is not told not to.
UserBuild ==
  /\ pc = "user" /\ pc' = "closure"
  /\ \/ NoFault /\ Realise(Closure(Targets)) /\ links' \in {Targets, {}}
     \/ Fault /\ \E S \in Finished : Realise(S) /\ UNCHANGED links
  /\ UNCHANGED << pipeline, fixed, attempt, process, github_env, env, snap, work >>

-----------------------------------------------------------------------------
(* Choosing what to export.                                                 *)

\* Shards that cannot be read are passed over, and so is an unreadable index:
\* what the job knows of the index is a part of it.
fetch_remote_arch_hashes == SUBSET remote

\* None without a key, and when the key cannot be read or converted.
get_own_public_key(reads) == IF job.key /\ reads THEN << "own" >> ELSE << >>

Chosen(S) == todo' = S /\ pc' = IF S = {} THEN "register" ELSE "sign"

WorkerSelect ==
  /\ pc = "fetch"
  /\ \E own \in fetch_remote_arch_hashes :
       LET list == find_locally_built_paths(roots, sigs, own, store)
       IN \/ /\ IF own = remote THEN NoFault ELSE Fault
             /\ list # Err /\ known' = own /\ Chosen(list[1]) /\ UNCHANGED proxy
          \/ Fault /\ ReturnErr(TRUE) /\ UNCHANGED << known, todo >>
  /\ UNCHANGED << pipeline, fixed, attempt, probes, machine, roots, signed, hot, receipt >>

\* run_session_capture up to the filter.
CaptureSelect ==
  /\ pc = "closure"
  /\ \E own \in fetch_remote_arch_hashes, scans \in BOOLEAN, reads \in BOOLEAN :
       LET target == resolve_target_roots({}, job.exprs, Targets, links, store)
           result == IF target = Err THEN Err
                     ELSE compute_candidate_closure(target[1], snap, job.mode, job.strict, store, scans)
           ctx == [own_public_key |-> get_own_public_key(reads), remote_cached_hashes |-> own,
                   trusted_upstream_prefixes |-> {"upstream"}]
       IN \/ /\ IF own = remote /\ scans /\ reads THEN NoFault ELSE Fault
             /\ result # Err /\ known' = own /\ roots' = result[1].active_gc_roots
             /\ Chosen(classify_and_filter(result[1].items, sigs, ctx))
          \/ /\ IF result = Err THEN NoFault ELSE Fault
             /\ pc' = "err" /\ UNCHANGED << known, roots, todo >>
  /\ UNCHANGED << pipeline, fixed, attempt, process, machine, signed, hot, receipt >>

-----------------------------------------------------------------------------
(* Signing, exporting, registering, the receipt.                            *)

\* nix store sign.
SignPaths(keys) ==
  /\ sigs' = [p \in Paths |-> IF p \in todo THEN sigs[p] \cup keys ELSE sigs[p]]
  /\ signed' = TRUE

\* batch_sign_paths lets a failing command pass; the infos are read after it.
Sign ==
  /\ pc = "sign" /\ job.key /\ ~signed
  /\ \/ NoFault /\ SignPaths({"own"}) /\ pc' = "start"
     \/ Fault /\ UNCHANGED << sigs, signed >> /\ pc' = "start"
  /\ UNCHANGED << pipeline, fixed, attempt, process, github_env, env, store, snap, links, known, roots, todo,
                  hot, receipt >>

\* The lists of some paths, each once, in any order.
Lists(S) ==
  {q \in [1 .. Cardinality(S) -> S] :
     /\ q \in Seq(S)
     /\ \A p \in S : \E i \in 1 .. Len(q) : \A j \in 1 .. Len(q) : q[j] = p <=> j = i}

\* The infos after signing, and the export.
StartExport ==
  /\ pc = "start" \/ (pc = "sign" /\ ~job.key)
  /\ \/ NoFault /\ (\E q \in Lists(todo) : export_and_upload(q, IsWorker /\ job.strict)) /\ pc' = "export" /\ UNCHANGED proxy
     \/ Fault /\ (IsWorker \/ job.key) /\ ReturnErr(IsWorker) /\ UNCHANGED pipeline
  /\ UNCHANGED << fixed, attempt, probes, machine, work >>

ExportStep == ExportNext /\ UNCHANGED jobVars

Exported ==
  /\ pc = "export" /\ NoFault
  /\ \/ export = "ok" /\ pc' = "register" /\ UNCHANGED proxy
     \/ export = "err" /\ ReturnErr(IsWorker)
  /\ UNCHANGED << pipeline, fixed, attempt, probes, machine, work >>

\* The hot registration, best effort; the worker then stops its proxy.
Register ==
  /\ pc = "register" /\ pc' = "receipt" /\ NoFault
  /\ hot' \in {hot} \cup (IF proxy = "ready" THEN {hot \cup report.successful} ELSE {})
  /\ proxy' = IF IsWorker /\ proxy # "none" THEN "dead" ELSE proxy
  /\ UNCHANGED << pipeline, fixed, attempt, probes, machine, known, roots, todo, signed, receipt >>

\* What both jobs write: the entries with the signatures read for them, and the roots.
Receipt ==
  [entries |-> report.successful, signatures |-> [p \in report.successful |-> sigs[p]],
   active_gc_roots |-> extract_gc_roots(roots)]

WriteReceipt ==
  /\ pc = "receipt"
  /\ \/ /\ NoFault /\ pc' = IF IsWorker THEN "done" ELSE "clean"
        /\ receipt' = << Receipt >>
     \/ Fault /\ pc' = "err" /\ UNCHANGED receipt
  /\ UNCHANGED << pipeline, fixed, attempt, process, machine, known, roots, todo, signed, hot >>

\* run_session_clean.
Clean ==
  /\ pc = "clean" /\ pc' = "done" /\ snap' = << >> /\ NoFault
  /\ UNCHANGED << pipeline, fixed, attempt, process, github_env, env, store, sigs, links, work >>

-----------------------------------------------------------------------------
\* The worker is run again on the same machine: store, signatures and
\* GITHUB_ENV are still there, the processes of the failed run are not.
Rerun ==
  /\ IsWorker /\ attempt < job.attempts
  /\ pc = "err" \/ (pc = "done" /\ report.failed # {})
  /\ attempt' = attempt + 1 /\ pc' = "setup" /\ env' = github_env
  /\ queue' = << >> /\ strict' = FALSE /\ export' = "idle"
  /\ item' = [p \in Paths |-> NoItem] /\ report' = [successful |-> {}, failed |-> {}]
  /\ proxy' = "none" /\ probes' = 0 /\ known' = {} /\ roots' = {} /\ todo' = {} /\ signed' = FALSE
  /\ hot' = {} /\ receipt' = << >>
  /\ UNCHANGED << fixed, faults, github_env, store, sigs, snap, links >>

Over == pc \in {"done", "err"} /\ UNCHANGED vars

JobStep ==
  \/ Spawn \/ Probe \/ Snapshot \/ discover_outputs \/ build_outputs \/ UserBuild \/ WorkerSelect \/ CaptureSelect
  \/ Sign \/ StartExport \/ Exported \/ Register \/ WriteReceipt \/ Clean

Next == JobStep \/ ExportStep \/ ProxyReady \/ ProxyExits \/ Rerun \/ Over

Spec == Init /\ [][Next]_vars

\* Commands, requests and spawned tasks end: the job, the loop over the exports
\* and each of the parties of an export make progress.
FairSpec ==
  /\ Spec /\ WF_vars(JobStep)
  /\ \A p \in Paths :
       /\ WF_vars(Child(p) /\ UNCHANGED jobVars)
       /\ WF_vars(Compressor(p) /\ UNCHANGED jobVars)
       /\ WF_vars(Task(p) /\ UNCHANGED jobVars)

-----------------------------------------------------------------------------
(* Properties.                                                              *)

Closures == {"RuntimeClosure", "BuildClosure"}

\* A receipt whose roots it was to protect leaves no hole behind them: every
\* path of their closures is in the receipt, reported as failed, in the
\* published index, signed by somebody else, or was there before the session.
\* It relates what the filter skipped, on what it could read of the index and
\* on the signatures it found, to what really is elsewhere.
NothingForgotten ==
  receipt # << >> /\ (job.kind = "worker" \/ job.mode \in Closures) =>
    \A p \in Closure(receipt[1].active_gc_roots) :
      \/ p \in receipt[1].entries \cup report.failed \cup remote
      \/ sigs[p] \ {"own"} # {}
      \/ job.kind = "session" /\ job.snapshot /\ p \in before

\* A worker never returns with its proxy still running, however it returns.
ProxyGone == job.kind = "worker" /\ pc \in {"done", "err"} => proxy \in {"none", "dead"}

\* Every job comes to its end, with failing exports, a proxy that never
\* answers, and a pipeline whose parties give up in any order.
JobReturns == <>(pc \in {"done", "err"})
=============================================================================

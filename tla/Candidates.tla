----------------------------- MODULE Candidates ------------------------------
(***************************************************************************)
(* Which store paths a job uploads (nixcache-builder: nix/filter.rs,        *)
(* nix/closure.rs, nix/resolver.rs and the queries of nix/driver.rs).       *)
(*                                                                          *)
(* Nix itself is outside the repository: the store is a set of valid paths, *)
(* Refs the references nix path-info reports, Deriver the .drv a path was   *)
(* built from and Requisites what that .drv needs.  A query about a path    *)
(* that is not valid fails.  A path stands for its own hash; Kind says how  *)
(* its name ends, "short" being a name without a hash of 32 characters.     *)
(* A result is << >> for Err and << v >> for Ok(v).                         *)
(***************************************************************************)
EXTENDS Naturals, FiniteSets

CONSTANTS
  Paths,
  Kind,         \* Paths -> {"out", "drv", "lock", "check", "short"}
  Refs,         \* Paths -> SUBSET Paths
  Deriver,      \* Paths -> << >> or << the .drv >>
  Requisites    \* Paths -> SUBSET Paths, of a .drv

ASSUME CandidatesAssumption ==
  /\ IsFiniteSet(Paths)
  /\ Kind \in [Paths -> {"out", "drv", "lock", "check", "short"}]
  /\ Refs \in [Paths -> SUBSET Paths] /\ Requisites \in [Paths -> SUBSET Paths]
  /\ \A p \in Paths : Deriver[p] \in {<< >>} \cup {<< d >> : d \in Paths}

Err == << >>
Ok(v) == << v >>

\* What nix path-info --recursive walks.
ReferenceClosed(S) == \A p \in S : Refs[p] \subseteq S
Closure(roots) == {p \in Paths : \A S \in SUBSET Paths : roots \subseteq S /\ ReferenceClosed(S) => p \in S}

-----------------------------------------------------------------------------
(* nix/filter.rs.  sigs is the set of keys that signed a path; own the      *)
(* configured public key, if any.                                           *)

store_hash(p) == IF Kind[p] = "short" THEN << >> ELSE << p >>

has_upstream_signature(sigs, trusted) == sigs \cap trusted # {}

has_external_signature(sigs, own) ==
  IF own = << >> THEN sigs # {} ELSE \E s \in sigs : s # own[1]

\* The decision for one path; the first test that applies decides.
Classify(p, sigs, ctx) ==
  IF Kind[p] \in {"drv", "lock", "check"} \/ store_hash(p) = << >> THEN "Ignored"
  ELSE IF p \in ctx.remote_cached_hashes THEN "AlreadyCached"
  ELSE IF \/ has_upstream_signature(sigs, ctx.trusted_upstream_prefixes)
          \/ has_external_signature(sigs, ctx.own_public_key) THEN "Substituted"
  ELSE "LocallyBuilt"

classify_and_filter(items, sigs, ctx) ==
  {p \in items : Classify(p, sigs[p], ctx) = "LocallyBuilt"}

-----------------------------------------------------------------------------
(* Queries of NixCli.                                                       *)

get_path_infos_typed(paths, store) == IF paths \subseteq store THEN Ok(paths) ELSE Err

get_recursive_path_infos(paths, store) ==
  IF paths \subseteq store THEN Ok(Closure(paths)) ELSE Err

\* The requisites of every deriver that is still there; a failing query adds nothing.
get_build_closure(paths, store) ==
  LET items == get_recursive_path_infos(paths, store)
      drvs == {p \in items[1] : Deriver[p] # << >> /\ Deriver[p][1] \in store}
  IN IF items = Err THEN Err
     ELSE Ok(items[1] \cup UNION {Requisites[Deriver[p][1]] : p \in drvs})

\* The worker's query: no key of its own, so every signature is an external one.
find_locally_built_paths(paths, sigs, own_hashes, store) ==
  LET items == get_recursive_path_infos(paths, store)
      ctx == [own_public_key |-> << >>, remote_cached_hashes |-> own_hashes,
              trusted_upstream_prefixes |-> {}]
  IN IF items = Err THEN Err ELSE Ok(classify_and_filter(items[1], sigs, ctx))

\* A batch query when every target is built, one evaluation of outPath per target
\* otherwise: that also names paths nobody has built.
resolve_flake_or_attr_targets(targets, evaluates) ==
  IF targets \subseteq evaluates THEN Ok(targets) ELSE Err

\* A link whose target is gone fails the whole search.
find_symlink_targets(links, store) == IF links \subseteq store THEN Ok(links) ELSE Err

resolve_target_roots(explicit, exprs, evaluates, links, store) ==
  LET resolved == resolve_flake_or_attr_targets(exprs, evaluates)
      linked == find_symlink_targets(links, store)
  IN IF resolved = Err \/ linked = Err THEN Err ELSE Ok(explicit \cup resolved[1] \cup linked[1])

-----------------------------------------------------------------------------
(* session/init.rs and nix/closure.rs.  A snapshot is << >> (the option is  *)
(* not given) or << names >>.                                               *)

scan_store_names(store) == {p \in store : Kind[p] \notin {"drv", "lock"}}

extract_gc_roots(target_roots) == {p \in target_roots : store_hash(p) # << >>}

\* Changed form: what was there before is left in.
KeepSnapshot(items, snapshot) == items \cap snapshot

filter_snapshot_diff(items, snapshot) == items \ snapshot

\* A failing scan of the directory counts as an empty one (unwrap_or_default).
DiffPaths(snap, store, scans) == IF scans THEN scan_store_names(store) \ snap[1] ELSE {}

compute_candidate_closure(roots, snap, mode, strict_closure, store, scans) ==
  IF roots = {}
  THEN IF strict_closure /\ mode # "DiffAll" THEN Err
       ELSE IF snap = << >> THEN Ok([items |-> {}, active_gc_roots |-> {}])
       ELSE Ok([items |-> DiffPaths(snap, store, scans),
                active_gc_roots |-> extract_gc_roots(DiffPaths(snap, store, scans))])
  ELSE LET build == get_build_closure(roots, store)
           raw == CASE mode = "RootsOnly" -> get_path_infos_typed(roots, store)
                    [] mode = "RuntimeClosure" -> get_recursive_path_infos(roots, store)
                    [] mode = "BuildClosure" ->
                         IF build = Err THEN Err ELSE get_path_infos_typed(build[1], store)
                    [] mode = "DiffAll" /\ snap # << >> -> Ok(DiffPaths(snap, store, scans))
                    [] OTHER -> get_recursive_path_infos(roots, store)
       IN IF raw = Err THEN Err
          ELSE Ok([items |-> IF snap = << >> THEN raw[1] ELSE filter_snapshot_diff(raw[1], snap[1]),
                   active_gc_roots |-> extract_gc_roots(roots)])
=============================================================================

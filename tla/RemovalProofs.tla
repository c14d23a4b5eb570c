----------------------------- MODULE RemovalProofs ----------------------------
(* What is removed from a cache: the entries a purge selects (CacheQuery) and   *)
(* the manifests and blobs of a deleted package (Deletions).                    *)
(*                                                                              *)
(* The work lists of evaluate_cache_purge compute what CacheGraph says, for     *)
(* every index, every set of roots and every selector. Each walk keeps three    *)
(* facts: it has met its seed, what it has finished is closed, and it has met   *)
(* nothing outside a closed set above the seed. When its queue is empty these   *)
(* three say that it has found the least closed set.                            *)
(*                                                                              *)
(* The deletion of a package is followed from the pages of its tags to the plan *)
(* (Discovery), from the plan to the verified absence (Verification), and from  *)
(* what was stored to what is reported (Leftovers), for any package, any pages  *)
(* and any number of pushes and repeated calls.                                 *)
EXTENDS CacheQuery, Deletions, TLAPS

(* A leaf that names no prover goes to the SMT solver and then to Zenon,        *)
(* with time to spare for a slow machine.                                       *)
USE SMTT(30), ZenonT(30)

-------------------------------------------------------------------------------
(* The selection of a purge.                                                    *)

(* The roots that the first walk starts from. *)
Seed == IF selector.protect_gc_roots THEN ActiveRoots(selector, gc_roots) ELSE {}

Initial == InitialMatches(selector, entries, protected)

(* The first walk, while it runs. *)
Protecting ==
  /\ Seed \subseteq protected \cup queue
  /\ \A x \in protected : References(entries, x) \subseteq protected \cup queue
  /\ \A C \in SUBSET Hashes :
       Seed \subseteq C /\ Closed(entries, "Transitive", {}, C) => protected \cup queue \subseteq C

(* The cascade, while it runs. *)
Cascading ==
  /\ Initial \subseteq matched
  /\ queue \subseteq matched
  /\ \A x \in matched \ queue :
       Neighbours(entries, selector.cascade_mode, x) \ protected \subseteq matched
  /\ \A C \in SUBSET Hashes :
       Initial \subseteq C /\ Closed(entries, selector.cascade_mode, protected, C)
         => matched \subseteq C

(* The walk from one root, while it runs: what it has met is reachable, and   *)
(* kept unless it is the root itself; what it has finished is closed.         *)
Walking ==
  candidate # NoRoot =>
    /\ candidate[2] \in gc_roots[candidate[1]]
    /\ candidate[2] \notin Purged
    /\ candidate[2] \in visited
    /\ queue \subseteq visited
    /\ visited \subseteq Reach(entries, "Transitive", {}, {candidate[2]})
    /\ visited \ {candidate[2]} \subseteq Kept
    /\ \A x \in visited \ queue : x \in Kept /\ References(entries, x) \subseteq visited

Given == {r \in Roots : r[2] \in gc_roots[r[1]]}

(* The roots decided so far are decided rightly, and none is forgotten. *)
Deciding ==
  /\ pending \subseteq Given
  /\ \A r \in updated : r \in Given /\ Sound(entries, Kept, r[2])
  /\ \A r \in Given : Sound(entries, Kept, r[2]) => r \in pending \cup {candidate} \cup updated

IInv ==
  /\ TypeOK
  /\ pc = "collect" => protected = {} /\ matched = {} /\ queue = {}
  /\ pc \in {"collect", "protect", "cascade"} => updated = {} /\ candidate = NoRoot
  /\ pc = "protect" => Protecting
  /\ pc \in {"cascade", "prune", "done"} =>
       protected = Reach(entries, "Transitive", {}, Seed)
  /\ pc = "cascade" => Cascading
  /\ pc \in {"cascade", "prune", "done"} => matched \cap protected = {}
  /\ pc \in {"prune", "done"} =>
       matched = Reach(entries, selector.cascade_mode, protected, Initial)
  /\ Walking
  /\ pc = "prune" => Deciding
  /\ pc = "done" => updated = {r \in Given : Sound(entries, Kept, r[2])}

-------------------------------------------------------------------------------
(* The least closed set contains its seed. *)
LEMMA ReachSeed ==
  ASSUME NEW e, NEW mode, NEW barrier, NEW seed \in SUBSET Hashes
  PROVE  seed \subseteq Reach(e, mode, barrier, seed)
BY DEF Reach

(* The least closed set is closed. *)
LEMMA ReachClosed ==
  ASSUME NEW e, NEW mode, NEW barrier, NEW seed \in SUBSET Hashes
  PROVE  Closed(e, mode, barrier, Reach(e, mode, barrier, seed))
<1>1. ASSUME NEW x \in Reach(e, mode, barrier, seed),
             NEW y \in Neighbours(e, mode, x) \ barrier
      PROVE  y \in Reach(e, mode, barrier, seed)
  <2>1. y \in Hashes  BY <1>1 DEF Neighbours
  <2>2. ASSUME NEW C \in SUBSET Hashes, seed \subseteq C, Closed(e, mode, barrier, C)
        PROVE  y \in C
    <3>1. x \in C  BY <1>1, <2>2 DEF Reach
    <3>2. QED  BY <1>1, <2>2, <3>1 DEF Closed
  <2>3. QED  BY <2>1, <2>2 DEF Reach
<1>2. QED  BY <1>1 DEF Closed

(* It lies below every closed set above the seed. *)
LEMMA ReachLeast ==
  ASSUME NEW e, NEW mode, NEW barrier, NEW seed,
         NEW C \in SUBSET Hashes, seed \subseteq C, Closed(e, mode, barrier, C)
  PROVE  Reach(e, mode, barrier, seed) \subseteq C
BY DEF Reach

(* A walk meets hashes only. *)
LEMMA ReachIn ==
  ASSUME NEW e, NEW mode, NEW barrier, NEW seed
  PROVE  Reach(e, mode, barrier, seed) \in SUBSET Hashes
BY DEF Reach

(* What a finished walk has met is the least closed set. *)
LEMMA ReachUnique ==
  ASSUME NEW e, NEW mode, NEW barrier, NEW seed \in SUBSET Hashes,
         NEW S \in SUBSET Hashes, seed \subseteq S, Closed(e, mode, barrier, S),
         \A C \in SUBSET Hashes : seed \subseteq C /\ Closed(e, mode, barrier, C) => S \subseteq C
  PROVE  S = Reach(e, mode, barrier, seed)
<1>1. Reach(e, mode, barrier, seed) \subseteq S  BY ReachLeast
<1>2. S \subseteq Reach(e, mode, barrier, seed)  BY ReachSeed, ReachClosed, ReachIn
<1>3. QED  BY <1>1, <1>2

(* The forward neighbours of a path are its references. *)
LEMMA TransitiveNeighbours ==
  ASSUME NEW e, IsIndex(e), NEW h
  PROVE  /\ References(e, h) \subseteq Hashes
         /\ Neighbours(e, "Transitive", h) = References(e, h)
<1>1. References(e, h) \subseteq Hashes  BY DEF References, IsIndex, Entry
<1>2. QED  BY <1>1 DEF Neighbours

(* The inputs of the walks are sets of hashes. *)
LEMMA SeedTypes ==
  ASSUME TypeOK
  PROVE  Seed \in SUBSET Hashes /\ Initial \in SUBSET Hashes
BY DEF TypeOK, Seed, Initial, ActiveRoots, InitialMatches, IsIndex

-------------------------------------------------------------------------------
(* A query starts with nothing met, matched or decided. *)
LEMMA InitInv == Init => IInv
<1> SUFFICES ASSUME Init PROVE IInv  OBVIOUS
<1>1. TypeOK  BY InputsAssumption DEF Init, TypeOK
<1>2. QED  BY <1>1 DEF Init, IInv, Walking

(* Collect: the queue holds the seed, and nothing else has been met. *)
LEMMA CollectInv == ASSUME IInv, Collect PROVE IInv'
<1> USE DEF IInv, Collect, input, pruning
<1>1. TypeOK'  BY SeedTypes DEF TypeOK, Seed
<1>2. Seed' = Seed /\ queue' = Seed  BY DEF Seed
<1>3. Protecting'  BY <1>2 DEF Protecting
<1>4. Walking'  BY DEF Walking
<1>5. QED  BY <1>1, <1>3, <1>4

(* One iteration of the first walk. *)
LEMMA ProtectInv == ASSUME IInv, Protect PROVE IInv'
<1> USE DEF IInv, Protect, input, pruning
<1>0. PICK h \in queue : /\ protected' = protected \cup {h}
                         /\ queue' = (queue \cup References(entries, h)) \ protected'
  OBVIOUS
<1>1. h \in Hashes /\ References(entries, h) \subseteq Hashes
  BY TransitiveNeighbours DEF TypeOK
<1>2. TypeOK'  BY <1>0, <1>1 DEF TypeOK
<1>3. Seed' = Seed  BY DEF Seed
<1>4. protected' \cup queue' = protected \cup queue \cup References(entries, h)
  BY <1>0
<1>5. \A x \in protected' : References(entries, x) \subseteq protected' \cup queue'
  BY <1>0, <1>4 DEF Protecting
<1>6. ASSUME NEW C \in SUBSET Hashes, Seed \subseteq C, Closed(entries, "Transitive", {}, C)
      PROVE  protected' \cup queue' \subseteq C
  <2>1. protected \cup queue \subseteq C  BY <1>6 DEF Protecting
  <2>2. References(entries, h) \subseteq C
    BY <1>0, <1>6, <2>1, TransitiveNeighbours DEF Closed, TypeOK
  <2>3. QED  BY <1>4, <2>1, <2>2
<1>7. Protecting'  BY <1>3, <1>4, <1>5, <1>6 DEF Protecting
<1>8. Walking'  BY DEF Walking
<1>9. QED  BY <1>2, <1>7, <1>8

(* The first walk has ended: it has found what the roots reach. *)
LEMMA MatchInv == ASSUME IInv, Match PROVE IInv'
<1> USE DEF IInv, Match, input, pruning
<1>1. TypeOK /\ Protecting /\ queue = {}  OBVIOUS
<1>2. Closed(entries, "Transitive", {}, protected)
  BY <1>1, TransitiveNeighbours DEF Closed, Protecting, TypeOK
<1>3. protected = Reach(entries, "Transitive", {}, Seed)
  <2>1. protected \in SUBSET Hashes /\ Seed \in SUBSET Hashes  BY SeedTypes DEF TypeOK
  <2>2. Seed \subseteq protected  BY <1>1 DEF Protecting
  <2>3. \A C \in SUBSET Hashes :
          Seed \subseteq C /\ Closed(entries, "Transitive", {}, C) => protected \subseteq C
    BY <1>1 DEF Protecting
  <2>4. QED  BY <1>2, <2>1, <2>2, <2>3, ReachUnique
<1>4. Seed' = Seed /\ Initial' = Initial /\ matched' = Initial  BY DEF Seed, Initial
<1>5. TypeOK'  BY <1>4, SeedTypes DEF TypeOK
<1>6. Cascading'
  <2>1. CASE selector.cascade_mode = "Exact"
    <3>1. \A x : Neighbours(entries, selector.cascade_mode, x) = {}
      BY <2>1 DEF Neighbours
    <3>2. QED  BY <1>4, <3>1 DEF Cascading
  <2>2. CASE selector.cascade_mode # "Exact"
    BY <1>4, <2>2 DEF Cascading
  <2>3. QED  BY <2>1, <2>2
<1>7. matched' \cap protected' = {}
  <2>1. CASE selector.protect_gc_roots
    BY <1>4, <2>1 DEF Initial, InitialMatches
  <2>2. CASE ~ selector.protect_gc_roots
    <3>1. Seed = {}  BY <2>2 DEF Seed
    <3>2. Closed(entries, "Transitive", {}, {})  BY DEF Closed
    <3>3. protected = {}  BY <1>3, <3>1, <3>2, ReachLeast
    <3>4. QED  BY <3>3
  <2>3. QED  BY <2>1, <2>2
<1>8. Walking'  BY DEF Walking
<1>9. protected' = Reach(entries, "Transitive", {}, Seed)'  BY <1>3, <1>4
<1>10. QED  BY <1>5, <1>6, <1>7, <1>8, <1>9

(* One iteration of the cascade. *)
LEMMA CascadeInv == ASSUME IInv, Cascade PROVE IInv'
<1> USE DEF IInv, Cascade, input, pruning
<1> DEFINE found(h) == (Neighbours(entries, selector.cascade_mode, h) \ protected) \ matched
<1>0. PICK h \in queue : /\ matched' = matched \cup found(h)
                         /\ queue' = (queue \ {h}) \cup found(h)
  OBVIOUS
<1>1. h \in matched /\ found(h) \subseteq Hashes  BY DEF Cascading, Neighbours
<1>2. TypeOK'  BY <1>0, <1>1 DEF TypeOK
<1>3. Seed' = Seed /\ Initial' = Initial  BY DEF Seed, Initial
<1>4. \A x \in matched' \ queue' :
        Neighbours(entries, selector.cascade_mode, x) \ protected \subseteq matched'
  BY <1>0 DEF Cascading
<1>5. ASSUME NEW C \in SUBSET Hashes, Initial \subseteq C,
             Closed(entries, selector.cascade_mode, protected, C)
      PROVE  matched' \subseteq C
  <2>1. matched \subseteq C  BY <1>5 DEF Cascading
  <2>2. found(h) \subseteq C  BY <1>1, <1>5, <2>1 DEF Closed
  <2>3. QED  BY <1>0, <2>1, <2>2
<1>6. Initial' \subseteq matched' /\ queue' \subseteq matched'
  BY <1>0, <1>3 DEF Cascading
<1>7. Cascading'  BY <1>3, <1>4, <1>5, <1>6 DEF Cascading
<1>8. matched' \cap protected' = {}  BY <1>0
<1>9. Walking'  BY DEF Walking
<1>10. protected' = Reach(entries, "Transitive", {}, Seed)'  BY <1>3
<1>11. QED  BY <1>2, <1>7, <1>8, <1>9, <1>10

(* The cascade has ended: it has found what the matches reach. *)
LEMMA StartPruneInv == ASSUME IInv, StartPrune PROVE IInv'
<1> USE DEF IInv, StartPrune, input, pruning
<1>1. TypeOK /\ Cascading /\ queue = {}  OBVIOUS
<1>2. Closed(entries, selector.cascade_mode, protected, matched)
  BY <1>1 DEF Closed, Cascading
<1>3. matched = Reach(entries, selector.cascade_mode, protected, Initial)
  <2>1. matched \in SUBSET Hashes /\ Initial \in SUBSET Hashes  BY SeedTypes DEF TypeOK
  <2>2. Initial \subseteq matched  BY <1>1 DEF Cascading
  <2>3. \A C \in SUBSET Hashes :
          Initial \subseteq C /\ Closed(entries, selector.cascade_mode, protected, C)
            => matched \subseteq C
    BY <1>1 DEF Cascading
  <2>4. QED  BY <1>2, <2>1, <2>2, <2>3, ReachUnique
<1>4. Seed' = Seed /\ Initial' = Initial /\ Given' = Given /\ pending' = Given
  BY DEF Seed, Initial, Given
<1>5. TypeOK'  BY <1>4 DEF TypeOK, Given
<1>6. Deciding'  BY <1>4 DEF Deciding
<1>7. Walking'  BY DEF Walking
<1>8. protected' = Reach(entries, "Transitive", {}, Seed)'  BY <1>4
<1>9. matched' = Reach(entries, selector.cascade_mode, protected, Initial)'  BY <1>3, <1>4
<1>10. QED  BY <1>5, <1>6, <1>7, <1>8, <1>9

(* While roots are decided nothing that the earlier walks found changes. *)
LEMMA PruneFrame ==
  ASSUME IInv, pc = "prune", pc' \in {"prune", "done"}, UNCHANGED <<input, protected, matched>>
  PROVE  /\ Seed' = Seed /\ Initial' = Initial /\ Given' = Given
         /\ Kept' = Kept /\ Purged' = Purged
         /\ (protected = Reach(entries, "Transitive", {}, Seed))'
         /\ (matched \cap protected = {})'
         /\ (matched = Reach(entries, selector.cascade_mode, protected, Initial))'
BY DEF IInv, Seed, Initial, Given, Kept, Purged, input

(* A root is met by its own walk. *)
LEMMA RootReached ==
  ASSUME NEW e, NEW root \in Hashes
  PROVE  root \in Reach(e, "Transitive", {}, {root})
BY ReachSeed

(* A root that is purged is not sound. *)
LEMMA SkipRootInv == ASSUME IInv, SkipRoot PROVE IInv'
<1> USE DEF IInv, SkipRoot
<1>0. PICK r \in pending : r[2] \in Purged /\ pending' = pending \ {r}  OBVIOUS
<1>1. TypeOK'  BY <1>0 DEF TypeOK, input
<1>2. Walking'  BY DEF Walking
<1>3. ~ Sound(entries, Kept, r[2])
  <2>1. r[2] \in Hashes  BY <1>0 DEF TypeOK, Roots
  <2>2. QED  BY <1>0, <2>1, RootReached DEF Sound, Kept, Purged
<1>4. Deciding'
  BY <1>0, <1>3, PruneFrame DEF Deciding, input
<1>5. QED  BY <1>1, <1>2, <1>4, PruneFrame DEF input

(* The walk from a root starts with the root alone. *)
LEMMA TakeRootInv == ASSUME IInv, TakeRoot PROVE IInv'
<1> USE DEF IInv, TakeRoot
<1>0. PICK r \in pending : /\ r[2] \notin Purged
                           /\ pending' = pending \ {r}
                           /\ candidate' = r
                           /\ queue' = {r[2]}
                           /\ visited' = {r[2]}
  OBVIOUS
<1>1. r \in Roots /\ r \in Given /\ r[2] \in Hashes
  BY <1>0 DEF TypeOK, Roots, Deciding
<1>2. TypeOK'  BY <1>0, <1>1 DEF TypeOK, input
<1>3. r[2] \in Reach(entries, "Transitive", {}, {r[2]})  BY <1>1, RootReached
<1>4. Walking'
  BY <1>0, <1>1, <1>3, PruneFrame DEF Walking, Given, input
<1>5. NoRoot \notin Given  BY InputsAssumption DEF Given, Roots
<1>6. Deciding'  BY <1>0, <1>5, PruneFrame DEF Deciding, input
<1>7. QED  BY <1>2, <1>4, <1>6, PruneFrame DEF input

(* A broken path below a root makes the root unsound. *)
LEMMA BrokenUnsound ==
  ASSUME TypeOK, NEW root \in Hashes, NEW h \in Reach(entries, "Transitive", {}, {root}), Broken(h)
  PROVE  ~ Sound(entries, Kept, root)
<1>1. CASE h \notin DOMAIN entries
  BY <1>1 DEF Sound, Kept
<1>2. CASE h \in Kept /\ ~ (entries[h].references \subseteq Kept)
  <2>1. PICK d \in entries[h].references : d \notin Kept  BY <1>2
  <2>2. d \in Neighbours(entries, "Transitive", h)
    BY <1>2, <2>1, TransitiveNeighbours DEF References, Kept, TypeOK
  <2>3. d \in Reach(entries, "Transitive", {}, {root})
    BY <2>2, ReachClosed DEF Closed
  <2>4. QED  BY <2>1, <2>3 DEF Sound
<1>3. QED  BY <1>1, <1>2 DEF Broken

(* The walk of prune_broken_gc_roots has met a broken path: the root is unsound. *)
LEMMA DropRootInv == ASSUME IInv, DropRoot PROVE IInv'
<1> USE DEF IInv, DropRoot, EndWalk
<1>0. PICK h \in queue : Broken(h)  OBVIOUS
<1>1. pc = "prune" /\ candidate \in Roots /\ candidate[2] \in Hashes
  BY DEF TypeOK, Roots
<1>2. ~ Sound(entries, Kept, candidate[2])
  BY <1>0, <1>1, BrokenUnsound DEF Walking
<1>3. TypeOK'  BY DEF TypeOK, input
<1>4. Walking'  BY DEF Walking
<1>5. Deciding'  BY <1>1, <1>2, PruneFrame DEF Deciding, input
<1>6. QED  BY <1>1, <1>3, <1>4, <1>5, PruneFrame DEF input

(* One iteration of the walk from a root, past a path whose references are kept. *)
LEMMA WalkInv == ASSUME IInv, Walk PROVE IInv'
<1> USE DEF IInv, Walk
<1> DEFINE found(h) == (IF h \in Kept THEN entries[h].references ELSE {}) \ visited
<1>0. PICK h \in queue : /\ ~ Broken(h)
                         /\ visited' = visited \cup found(h)
                         /\ queue' = (queue \ {h}) \cup found(h)
  OBVIOUS
<1> HIDE DEF Walk
<1>00. UNCHANGED <<input, pc, protected, matched, pending, candidate, updated>> /\ candidate # NoRoot
  BY DEF Walk
<1>1. pc = "prune" /\ candidate \in Roots /\ candidate[2] \in Hashes
  BY <1>00 DEF TypeOK, Roots
<1>2. h \in visited /\ h \notin Purged
  BY <1>0, <1>00 DEF Walking, Kept, Purged
<1>3. h \in Kept /\ entries[h].references \subseteq Kept
  BY <1>0, <1>2 DEF Broken, Kept, Purged
<1>4. References(entries, h) = entries[h].references
  BY <1>3 DEF References, Kept
<1>5. References(entries, h) \subseteq visited' /\ found(h) \subseteq Kept
  BY <1>0, <1>3, <1>4
<1>6. found(h) \subseteq Reach(entries, "Transitive", {}, {candidate[2]})
  <2>1. h \in Reach(entries, "Transitive", {}, {candidate[2]})
    BY ZenonT(30), <1>00, <1>2 DEF Walking
  <2>2. References(entries, h) \subseteq Reach(entries, "Transitive", {}, {candidate[2]})
    BY SMTT(60), <1>1, <2>1, ReachClosed, TransitiveNeighbours DEF Closed, TypeOK
  <2>3. QED  BY <1>4, <2>2
<1>7. TypeOK'
  <2>1. found(h) \subseteq Hashes  BY <1>5 DEF Kept, TypeOK, IsIndex
  <2>2. QED  BY <1>0, <1>00, <2>1 DEF TypeOK, input
<1>8. \A x \in visited' \ queue' : x \in Kept /\ References(entries, x) \subseteq visited'
  BY <1>0, <1>00, <1>3, <1>5 DEF Walking
<1>9. Walking'
  <2>1. candidate' = candidate /\ gc_roots' = gc_roots /\ entries' = entries
    BY <1>00 DEF input
  <2>2. visited' \subseteq Reach(entries, "Transitive", {}, {candidate[2]})
    BY <1>0, <1>00, <1>6 DEF Walking
  <2>3. visited' \ {candidate[2]} \subseteq Kept  BY <1>0, <1>00, <1>5 DEF Walking
  <2>4. candidate[2] \in visited' /\ queue' \subseteq visited'
    BY <1>0, <1>00 DEF Walking
  <2>5. Kept' = Kept /\ Purged' = Purged  BY <1>00, <1>1, PruneFrame
  <2>6. candidate[2] \in gc_roots[candidate[1]] /\ candidate[2] \notin Purged
    BY <1>00 DEF Walking
  <2>7. QED  BY Zenon, <1>8, <2>1, <2>2, <2>3, <2>4, <2>5, <2>6 DEF Walking
<1>10. Deciding'  BY <1>00, <1>1, PruneFrame DEF Deciding, input
<1>11. QED  BY <1>00, <1>1, <1>7, <1>9, <1>10, PruneFrame

(* The walk of a root has ended without meeting a broken path: what it has met *)
(* is closed and kept, and the root is sound.                                  *)
LEMMA KeepRootInv == ASSUME IInv, KeepRoot PROVE IInv'
<1> USE DEF IInv, KeepRoot, EndWalk
<1>1. pc = "prune" /\ candidate \in Given /\ candidate[2] \in Hashes
  BY DEF TypeOK, Roots, Walking, Given
<1>2. Sound(entries, Kept, candidate[2])
  <2>1. visited \subseteq Kept /\ visited \in SUBSET Hashes
    BY DEF Walking, TypeOK
  <2>2. Closed(entries, "Transitive", {}, visited)
    BY TransitiveNeighbours DEF Walking, Closed, TypeOK
  <2>3. Reach(entries, "Transitive", {}, {candidate[2]}) \subseteq visited
    BY <2>1, <2>2, ReachLeast DEF Walking
  <2>4. QED  BY <2>1, <2>3 DEF Sound
<1>3. TypeOK'  BY <1>1 DEF TypeOK, input
<1>4. Walking'  BY DEF Walking
<1>5. Deciding'  BY <1>1, <1>2, PruneFrame DEF Deciding, input
<1>6. QED  BY <1>1, <1>3, <1>4, <1>5, PruneFrame DEF input

(* Every root has been decided. *)
LEMMA FinishInv == ASSUME IInv, Finish PROVE IInv'
<1> USE DEF IInv, Finish, pruning
<1>1. TypeOK'  BY DEF TypeOK, input
<1>2. Walking'  BY DEF Walking
<1>3. updated = {r \in Given : Sound(entries, Kept, r[2])}
  <2>1. updated \subseteq {r \in Given : Sound(entries, Kept, r[2])}  BY DEF Deciding
  <2>2. NoRoot \notin Given  BY InputsAssumption DEF Given, Roots
  <2>3. \A r \in Given : Sound(entries, Kept, r[2]) => r \in updated
    BY <2>2 DEF Deciding
  <2>4. QED  BY <2>1, <2>3
<1>4. (updated = {r \in Given : Sound(entries, Kept, r[2])})'
  BY <1>3, PruneFrame DEF input
<1>5. QED  BY <1>1, <1>2, <1>4, PruneFrame DEF input

(* A step that changes nothing. *)
LEMMA StutterInv == ASSUME IInv, UNCHANGED vars PROVE IInv'
<1> USE DEF vars
<1>1. TypeOK'  BY DEF IInv, TypeOK
<1>2. /\ Seed' = Seed /\ Initial' = Initial /\ Given' = Given
      /\ Kept' = Kept /\ Purged' = Purged
  BY Zenon DEF Seed, Initial, Given, Kept, Purged
<1>3. (Protecting <=> Protecting') /\ (Cascading <=> Cascading')
  BY <1>2 DEF Protecting, Cascading
<1>4. (Walking <=> Walking') /\ (Deciding <=> Deciding')
  BY <1>2 DEF Walking, Deciding
<1>5. QED  BY <1>1, <1>2, <1>3, <1>4 DEF IInv

(* The inductive invariant holds in every reachable state of every query. *)
THEOREM Invariance == Spec => []IInv
<1>1. IInv /\ [Next]_vars => IInv'
  BY CollectInv, ProtectInv, MatchInv, CascadeInv, StartPruneInv, SkipRootInv, TakeRootInv,
     DropRootInv, WalkInv, KeepRootInv, FinishInv, StutterInv DEF Next, Returned
<1>2. QED  BY InitInv, <1>1, PTL DEF Spec

(* The types of a query's state, for every index and every selector. *)
THEOREM TypeCorrect == Spec => []TypeOK
<1>1. IInv => TypeOK  BY DEF IInv
<1>2. QED  BY Invariance, <1>1, PTL

(* protect_gc_roots keeps what the active roots reach, under any cascade. *)
THEOREM ProtectionHolds == Spec => []RootsProtected
<1>1. IInv => RootsProtected
  <2>1. SUFFICES ASSUME IInv, pc = "done", selector.protect_gc_roots
                 PROVE  Purged \cap Reach(entries, "Transitive", {}, ActiveRoots(selector, gc_roots)) = {}
    BY DEF RootsProtected
  <2>2. protected = Reach(entries, "Transitive", {}, ActiveRoots(selector, gc_roots))
    BY <2>1 DEF IInv, Seed
  <2>3. QED  BY <2>1, <2>2 DEF IInv, Purged
<1>2. QED  BY Invariance, <1>1, PTL

(* evaluate_cache_query selects exactly what its reference definition says. *)
THEOREM PurgeIsExact == Spec => []PurgeExact
<1>1. IInv => PurgeExact
  <2>1. SUFFICES ASSUME IInv, pc = "done" PROVE Purged = PurgedSet(selector, entries, gc_roots)
    BY DEF PurgeExact
  <2>2. protected = ProtectedSet(selector, entries, gc_roots)
    <3>1. CASE selector.protect_gc_roots
      BY <2>1, <3>1 DEF IInv, Seed, ProtectedSet
    <3>2. CASE ~ selector.protect_gc_roots
      <4>1. Closed(entries, "Transitive", {}, {})  BY DEF Closed
      <4>2. Reach(entries, "Transitive", {}, {}) = {}  BY <4>1, ReachLeast
      <4>3. QED  BY <2>1, <3>2, <4>2 DEF IInv, Seed, ProtectedSet
    <3>3. QED  BY <3>1, <3>2
  <2>3. matched = Reach(entries, selector.cascade_mode, protected, Initial)
    BY <2>1 DEF IInv
  <2>4. QED  BY <2>2, <2>3 DEF Purged, PurgedSet, Initial
<1>2. QED  BY Invariance, <1>1, PTL

(* prune_broken_gc_roots keeps exactly the sound roots. *)
THEOREM RootsAreExact == Spec => []RootsExact
<1>1. IInv => RootsExact  BY DEF IInv, RootsExact, Given
<1>2. QED  BY Invariance, <1>1, PTL

(* With a cascade to dependents no kept entry references a purged one. *)
THEOREM NoReferenceDangles == Spec => []NoDanglingReference
<1>1. IInv => NoDanglingReference
  <2>1. SUFFICES ASSUME IInv, pc = "done", selector.cascade_mode \in {"Dependents", "FullTree"},
                        NEW h \in Kept, NEW d \in entries[h].references \cap Purged
                 PROVE  FALSE
    BY DEF NoDanglingReference
  <2>0. /\ TypeOK
        /\ protected = Reach(entries, "Transitive", {}, Seed)
        /\ matched = Reach(entries, selector.cascade_mode, protected, Initial)
        /\ matched \cap protected = {}
    BY <2>1 DEF IInv
  <2>2. IsIndex(entries) /\ h \in Hashes /\ d \in Hashes /\ h \in DOMAIN entries
    BY <2>0, <2>1 DEF TypeOK, IsIndex, Kept, Purged
  <2>3. h \in Neighbours(entries, selector.cascade_mode, d)
    BY <2>1, <2>2 DEF Neighbours, Dependents
  <2>4. CASE h \in protected
    <3>1. d \in Neighbours(entries, "Transitive", h)
      BY <2>2, TransitiveNeighbours DEF References
    <3>2. Closed(entries, "Transitive", {}, protected)
      BY <2>0, ReachClosed, SeedTypes, ZenonT(30)
    <3>3. d \in protected  BY <2>4, <3>1, <3>2 DEF Closed
    <3>4. QED  BY <2>0, <2>1, <3>3 DEF Purged
  <2>5. CASE h \notin protected
    <3>1. Closed(entries, selector.cascade_mode, protected, matched)
      BY <2>0, ReachClosed, SeedTypes, ZenonT(30)
    <3>2. h \in matched  BY <2>3, <2>5, <3>1 DEF Closed, Purged
    <3>3. QED  BY <3>2 DEF Kept
  <2>6. QED  BY <2>4, <2>5
<1>2. QED  BY Invariance, <1>1, PTL

-------------------------------------------------------------------------------
(* The deletion of a package.                                                   *)

(* The types the arguments below need. *)
Types ==
  /\ target \in [Tags -> PackageManifests \cup {NoTarget}]
  /\ listing.last \in Nat
  /\ pushes \in Nat

(* The tags that nobody has moved since the call. *)
Unmoved == Package!Present \ moved

Planned(m) ==
  m \in plan.manifests /\ Package!BlobsOf(m) \subseteq plan.blobs /\ Children[m] \subseteq queued

(* No tag that stays where it is is lost on the way from the pages to the plan. *)
Discovery ==
  /\ package_pc = "list" => \A t \in Unmoved : t <= listing.last => t \in listing.tags
  /\ package_pc = "resolve" => \A t \in Unmoved : t \in todo \/ target[t] \in queued
  /\ package_pc \in {"walk", "delete_manifests"} => \A t \in Unmoved : target[t] \in queued
  /\ package_pc = "walk" => \A m \in queued : m \in todo \/ Planned(m)
  /\ package_pc = "delete_manifests" => \A m \in queued : Planned(m)

Planning == plan.manifests \cup plan.blobs
Stored == manifests \cup package_blobs

(* What has been verified without a failure stays absent unless it is pushed. *)
Verification ==
  /\ package_pc \in {"verify", "done"} /\ failures = {} => Package!Present \subseteq late_tags
  /\ package_pc = "verify" /\ failures = {} => (Planning \ todo) \cap Stored \subseteq pushed
  /\ package_pc = "done" /\ failures = {} => Planning \cap Stored \subseteq pushed

Reached == UNION {Package!Graph(target[t]) \cup Package!GraphBlobs(target[t]) : t \in Package!Present}

(* When nobody pushes, whatever is stored can be found, is in the plan, or is  *)
(* named by a failure of this call or of an earlier one.                       *)
Leftovers ==
  pushes = 0 =>
    /\ moved = {}
    /\ package_pc \in {"list", "resolve", "walk", "err"} =>
         failures = {} /\ Stored \subseteq reported \cup Reached
    /\ package_pc \in {"delete_manifests", "delete_blobs", "relist"} => Stored \subseteq reported \cup Planning
    /\ package_pc = "verify" => Stored \subseteq reported \cup failures \cup todo
    /\ package_pc = "done" => Stored \subseteq reported \cup failures

(* A listing that has every quiet tag up to its cursor still has them after    *)
(* the next page, and has them all when the page is the last one: a page has   *)
(* no gap, and one that is not full is the rest.                               *)
LEMMA ListingCovers ==
  ASSUME Package!DeletionAssumption, PageSize <= PageCap, listing.last \in Nat, NEW page \in Package!Served,
         \A t \in Unmoved : t <= listing.last => t \in listing.tags
  PROVE  /\ \A t \in page : Package!Ends(t, page) =>
              \A u \in Unmoved : u <= t => u \in listing.tags \cup page
         /\ Package!Verdict(page, listing) = "complete" => Unmoved \subseteq listing.tags \cup page
<1>1. /\ Unmoved \subseteq Package!Present /\ Unmoved \subseteq Nat /\ 0 \notin Unmoved /\ Package!Present \subseteq Nat
      /\ PageSize \in Nat /\ PageCap \in Nat
  BY Zenon DEF Package!Present, Unmoved, Package!DeletionAssumption
<1>2. PICK last \in {0, listing.last} : page \in Package!Pages(last)
  BY DEF Package!Served
<1> DEFINE rest == {t \in Package!Present : t > last}
<1>3. /\ page \subseteq rest /\ \A t \in page, u \in rest : u < t => u \in page
      /\ page = rest \/ (page # {} /\ Package!Cardinality(page) = PageSize)
  BY <1>1, <1>2 DEF Package!Pages
<1>4. \A u \in Unmoved : u \in listing.tags \/ u \in rest
  BY <1>1, <1>2
<1> HIDE DEF rest
<1>5. \A t \in page, u \in rest : u <= t => u \in page
  <2>1. \A t \in page, u \in rest : t \in Nat /\ u \in Nat
    BY <1>1, <1>3 DEF rest
  <2> QED
    BY <1>3, <2>1
<1>6. \A t \in page : Package!Ends(t, page) => \A u \in Unmoved : u <= t => u \in listing.tags \cup page
  BY <1>4, <1>5
<1>7. ASSUME Package!Verdict(page, listing) = "complete" PROVE page = rest
  BY <1>1, <1>3, <1>7 DEF Package!Verdict
<1> QED
  BY <1>4, <1>6, <1>7

(* The verifying listing reports no failure only when no tag is left. *)
LEMMA EmptyListing ==
  ASSUME Package!DeletionAssumption, NEW page \in Package!Served,
         Package!Verdict(page, listing) # "more", ~ Package!ListFailed(page), listing.tags \cup page = {}
  PROVE  Package!Present = {}
<1>1. page = {} /\ listing.last = 0
  BY DEF Package!Verdict, Package!ListFailed
<1>2. page = {t \in Package!Present : t > 0}
  BY <1>1 DEF Package!Served, Package!Pages
<1>3. \A t \in Package!Present : t > 0
  BY DEF Package!Present, Package!DeletionAssumption
<1> QED
  BY <1>1, <1>2, <1>3

-------------------------------------------------------------------------------
(* The types hold initially. *)
LEMMA TypesInit == ASSUME Package!DeletionAssumption, Package!Init PROVE Types
<1> QED
  BY DEF Package!Init, Types, Package!NoListing, Package!DeletionAssumption

(* Every step keeps the types. *)
LEMMA TypesNext == ASSUME Package!DeletionAssumption, Types, [Package!Next]_(Package!vars) PROVE Types'
<1>1. CASE Package!Push
  BY <1>1 DEF Package!Push, Types
<1>2. CASE Package!ListMore \/ Package!Listed
  <2>1. UNCHANGED <<target, pushes>>
    BY <1>2 DEF Package!ListMore, Package!Listed, Package!registry
  <2>2. listing'.last = listing.last \/ \E page \in Package!Served : listing'.last \in page
    BY <1>2 DEF Package!ListMore, Package!Listed, Package!Collected
  <2>3. \A page \in Package!Served : page \subseteq Nat
    BY DEF Package!Served, Package!Pages, Package!Present, Package!DeletionAssumption
  <2> QED
    BY <2>1, <2>2, <2>3 DEF Types
<1>3. CASE Package!ListFails \/ Package!Resolve \/ Package!Resolved
        \/ Package!DiscoveryFails \/ Package!Discovered \/ Package!ManifestsDeleted
           \/ Package!Relisted \/ Package!Finish \/ UNCHANGED Package!vars
  <2>1. UNCHANGED <<target, pushes, listing>>
    BY <1>3, Zenon
    DEF Package!ListFails, Package!Resolve, Package!Resolved, Package!DiscoveryFails,
        Package!Discovered, Package!ManifestsDeleted, Package!Relisted, Package!Finish,
        Package!Fail, Package!registry, Package!vars
  <2> QED
    BY <2>1 DEF Types
<1>4. CASE Package!BlobsDeleted \/ Package!Again
  BY <1>4 DEF Package!BlobsDeleted, Package!Again, Package!NoListing, Types
<1>5. ASSUME NEW m \in PackageManifests, Package!Walk(m) \/ Package!DeleteManifest(m) PROVE Types'
  <2>1. CASE Package!Walk(m)
    BY <2>1 DEF Package!Walk, Package!registry, Types
  <2>2. CASE Package!DeleteManifest(m)
    BY <2>2 DEF Package!DeleteManifest, Types
  <2> QED
    BY <1>5, <2>1, <2>2
<1>6. ASSUME NEW b \in Blobs, Package!DeleteBlob(b) PROVE Types'
  BY <1>6 DEF Package!DeleteBlob, Types
<1>7. ASSUME NEW o \in PackageManifests \cup Blobs, Package!Verify(o) PROVE Types'
  BY <1>7 DEF Package!Verify, Package!registry, Types
<1> QED
  BY <1>1, <1>2, <1>3, <1>4, <1>5, <1>6, <1>7 DEF Package!Next

(* No step loses a quiet tag or anything it reaches. *)
LEMMA DiscoveryNext ==
  ASSUME Package!DeletionAssumption, PageSize <= PageCap, Types, Discovery, [Package!Next]_(Package!vars)
  PROVE  Discovery'
<1>1. CASE Package!Push
  <2>1. PICK t \in Tags, m \in PackageManifests :
          target' = [target EXCEPT ![t] = m] /\ moved' = moved \cup {t}
    BY <1>1, Zenon DEF Package!Push
  <2>2. UNCHANGED <<package_pc, listing, todo, queued, plan>>
    BY <1>1 DEF Package!Push
  <2>3. \A u \in Unmoved' : u \in Unmoved /\ target'[u] = target[u]
    BY <2>1 DEF Unmoved, Package!Present, Types
  <2>4. \A n : Planned(n)' <=> Planned(n)
    BY <2>2 DEF Planned, Package!BlobsOf
  <2> QED
    BY <2>2, <2>3, <2>4 DEF Discovery
<1>2. CASE Package!ListMore
  <2>1. PICK page \in Package!Served : \E t \in page :
          Package!Ends(t, page) /\ listing'.tags = listing.tags \cup page /\ listing'.last = t
    BY <1>2 DEF Package!ListMore, Package!Collected
  <2>2. UNCHANGED <<package_pc, todo, queued, plan, target, moved>> /\ package_pc \in {"list", "relist"}
    BY <1>2 DEF Package!ListMore, Package!registry
  <2>3. Unmoved' = Unmoved
    BY <2>2 DEF Unmoved, Package!Present
  <2> QED
    BY <2>1, <2>2, <2>3, ListingCovers DEF Discovery, Types
<1>3. CASE Package!Listed
  <2>1. PICK page \in Package!Served : Package!Verdict(page, listing) = "complete" /\ todo' = listing.tags \cup page
    BY <1>3 DEF Package!Listed
  <2>2. UNCHANGED <<queued, plan, target, moved>> /\ package_pc = "list" /\ package_pc' = "resolve"
    BY Zenon, <1>3 DEF Package!Listed, Package!registry
  <2>3. Unmoved' = Unmoved
    BY <2>2 DEF Unmoved, Package!Present
  <2>4. Unmoved \subseteq listing.tags \cup page
    BY <2>1, <2>2, ListingCovers DEF Discovery, Types
  <2> QED
    BY <2>1, <2>2, <2>3, <2>4 DEF Discovery
<1>4. CASE Package!Resolve
  <2>1. PICK t : /\ todo' = todo \ {t}
                 /\ queued' = IF target[t] = NoTarget THEN queued ELSE queued \cup {target[t]}
    BY <1>4, Zenon DEF Package!Resolve
  <2>2. UNCHANGED <<package_pc, target, moved>> /\ package_pc = "resolve"
    BY <1>4 DEF Package!Resolve, Package!registry
  <2>3. Unmoved' = Unmoved /\ \A u \in Unmoved : target[u] # NoTarget
    BY <2>2 DEF Unmoved, Package!Present
  <2> QED
    BY <2>1, <2>2, <2>3 DEF Discovery
<1>5. CASE Package!Resolved
  <2>1. /\ UNCHANGED <<queued, plan, target, moved>> /\ package_pc = "resolve" /\ todo = {}
        /\ package_pc' = "walk" /\ todo' = queued
    BY <1>5 DEF Package!Resolved, Package!registry
  <2>2. Unmoved' = Unmoved
    BY <2>1 DEF Unmoved, Package!Present
  <2> QED
    BY <2>1, <2>2 DEF Discovery
<1>6. ASSUME NEW m \in PackageManifests, Package!Walk(m) PROVE Discovery'
  <2>1. /\ UNCHANGED <<package_pc, target, moved>> /\ package_pc = "walk" /\ queued' = queued \cup Children[m]
        /\ todo' = (todo \ {m}) \cup (Children[m] \ queued)
        /\ plan'.manifests = plan.manifests \cup {m} /\ plan'.blobs = plan.blobs \cup Package!BlobsOf(m)
    BY <1>6 DEF Package!Walk, Package!registry
  <2>2. Unmoved' = Unmoved
    BY <2>1 DEF Unmoved, Package!Present
  <2>3. \A n \in queued' : n \in todo' \/ Planned(n)'
    BY <2>1 DEF Discovery, Planned, Package!BlobsOf
  <2> QED
    BY <2>1, <2>2, <2>3 DEF Discovery
<1>7. CASE Package!Discovered
  <2>1. UNCHANGED <<queued, plan, target, moved>> /\ package_pc = "walk" /\ todo = {} /\ package_pc' = "delete_manifests"
    BY <1>7 DEF Package!Discovered, Package!registry
  <2>2. Unmoved' = Unmoved /\ \A n : Planned(n)' <=> Planned(n)
    BY <2>1 DEF Unmoved, Package!Present, Planned, Package!BlobsOf
  <2> QED
    BY <2>1, <2>2 DEF Discovery
<1>8. ASSUME NEW m \in PackageManifests, Package!DeleteManifest(m) PROVE Discovery'
  <2>1. /\ UNCHANGED <<package_pc, queued, plan, moved>> /\ package_pc = "delete_manifests"
        /\ \E gone : target' = [t \in Tags |-> IF target[t] \in gone THEN NoTarget ELSE target[t]]
    BY <1>8 DEF Package!DeleteManifest
  <2>2. \A t \in Unmoved' : t \in Unmoved /\ target'[t] = target[t]
    BY <2>1 DEF Unmoved, Package!Present
  <2>3. \A n : Planned(n)' <=> Planned(n)
    BY <2>1 DEF Planned, Package!BlobsOf
  <2> QED
    BY <2>1, <2>2, <2>3 DEF Discovery
<1>9. CASE Package!Again
  <2>1. package_pc' = "list" /\ listing'.last = 0
    BY <1>9 DEF Package!Again, Package!NoListing
  <2>2. \A t \in Unmoved' : t \in Nat /\ t # 0
    BY DEF Unmoved, Package!Present, Package!DeletionAssumption
  <2> QED
    BY <2>1, <2>2 DEF Discovery
<1>10. CASE Package!ListFails \/ Package!DiscoveryFails \/ Package!ManifestsDeleted
         \/ Package!BlobsDeleted \/ Package!Relisted \/ Package!Finish
  <2>1. package_pc' \in {"err", "delete_blobs", "relist", "verify", "done"}
    BY <1>10, Zenon
    DEF Package!ListFails, Package!DiscoveryFails, Package!Fail, Package!ManifestsDeleted,
        Package!BlobsDeleted, Package!Relisted, Package!Finish
  <2> QED
    BY <2>1 DEF Discovery
<1>11. ASSUME (\E b \in Blobs : Package!DeleteBlob(b)) \/ (\E o \in PackageManifests \cup Blobs : Package!Verify(o))
       PROVE  Discovery'
  <2>1. package_pc' \in {"delete_blobs", "verify"}
    BY <1>11, Zenon DEF Package!DeleteBlob, Package!Verify
  <2> QED
    BY <2>1 DEF Discovery
<1>12. CASE UNCHANGED Package!vars
  <2>1. UNCHANGED <<package_pc, listing, todo, queued, plan, target, moved>>
    BY <1>12 DEF Package!vars, Package!registry
  <2>2. Unmoved' = Unmoved /\ \A n : Planned(n)' <=> Planned(n)
    BY <2>1 DEF Unmoved, Package!Present, Planned, Package!BlobsOf
  <2> QED
    BY <2>1, <2>2 DEF Discovery
<1> QED
  BY <1>1, <1>2, <1>3, <1>4, <1>5, <1>6, <1>7, <1>8, <1>9, <1>10, <1>11, <1>12 DEF Package!Next

(* Nothing that was verified comes back but by a push. *)
LEMMA VerificationNext ==
  ASSUME Package!DeletionAssumption, Types, Verification, [Package!Next]_(Package!vars)
  PROVE  Verification'
<1>1. CASE Package!Push
  <2>1. PICK t \in Tags, m \in PackageManifests :
          /\ target' = [target EXCEPT ![t] = m] /\ late_tags' = late_tags \cup {t}
          /\ manifests' = manifests \cup Package!Graph(m) /\ package_blobs' = package_blobs \cup Package!GraphBlobs(m)
          /\ pushed' = pushed \cup Package!Graph(m) \cup Package!GraphBlobs(m)
    BY <1>1, Zenon DEF Package!Push
  <2>2. UNCHANGED <<package_pc, todo, plan, failures>>
    BY <1>1 DEF Package!Push
  <2>3. Package!Present' \subseteq Package!Present \cup {t}
    BY <2>1 DEF Package!Present, Types
  <2>4. Stored' \subseteq Stored \cup pushed' /\ pushed \subseteq pushed' /\ Planning' = Planning
    BY Zenon, <2>1, <2>2 DEF Stored, Planning
  <2> QED
    BY <2>1, <2>2, <2>3, <2>4 DEF Verification
<1>2. CASE Package!Relisted
  <2>1. package_pc' = "verify" /\ todo' = Planning /\ UNCHANGED <<plan, target, late_tags>>
    BY <1>2 DEF Package!Relisted, Planning, Package!registry
  <2>2. Package!Present' = Package!Present /\ Planning' = Planning
    BY <2>1 DEF Package!Present, Planning
  <2>3. failures' = {} => Package!Present = {}
    BY <1>2, EmptyListing DEF Package!Relisted, Package!Judge
  <2> QED
    BY <2>1, <2>2, <2>3 DEF Verification
<1>3. ASSUME NEW o \in PackageManifests \cup Blobs, Package!Verify(o) PROVE Verification'
  <2>1. /\ package_pc = "verify" /\ package_pc' = "verify" /\ todo' = todo \ {o}
        /\ UNCHANGED <<plan, target, late_tags, manifests, package_blobs, pushed>>
    BY <1>3 DEF Package!Verify, Package!registry
  <2>2. Package!Present' = Package!Present /\ Planning' = Planning /\ Stored' = Stored
    BY <2>1 DEF Package!Present, Planning, Stored
  <2>3. failures' = {} => failures = {} /\ o \notin Stored
    BY <1>3 DEF Package!Verify, Package!Judge, Stored
  <2> QED
    BY <2>1, <2>2, <2>3 DEF Verification
<1>4. CASE Package!Finish
  <2>1. /\ package_pc = "verify" /\ package_pc' = "done" /\ todo = {}
        /\ UNCHANGED <<plan, target, late_tags, manifests, package_blobs, pushed, failures>>
    BY <1>4 DEF Package!Finish, Package!registry
  <2>2. Package!Present' = Package!Present /\ Planning' = Planning /\ Stored' = Stored
    BY <2>1 DEF Package!Present, Planning, Stored
  <2> QED
    BY <2>1, <2>2 DEF Verification
<1>5. CASE Package!ListMore \/ UNCHANGED Package!vars
  <2>1. UNCHANGED <<package_pc, todo, plan, target, late_tags, manifests, package_blobs, pushed, failures>>
    BY <1>5 DEF Package!ListMore, Package!registry, Package!vars
  <2>2. Package!Present' = Package!Present /\ Planning' = Planning /\ Stored' = Stored
    BY <2>1 DEF Package!Present, Planning, Stored
  <2> QED
    BY <2>1, <2>2 DEF Verification
<1>6. CASE Package!Listed \/ Package!ListFails \/ Package!Resolve \/ Package!Resolved
        \/ Package!DiscoveryFails \/ Package!Discovered \/ Package!ManifestsDeleted
           \/ Package!BlobsDeleted \/ Package!Again
  <2>1. package_pc' \notin {"verify", "done"}
    BY <1>6
    DEF Package!Listed, Package!ListFails, Package!Resolve, Package!Resolved,
        Package!DiscoveryFails, Package!Discovered, Package!ManifestsDeleted,
        Package!BlobsDeleted, Package!Again, Package!Fail
  <2> QED
    BY <2>1 DEF Verification
<1>7. ASSUME \/ \E m \in PackageManifests : Package!Walk(m) \/ Package!DeleteManifest(m)
             \/ \E b \in Blobs : Package!DeleteBlob(b)
      PROVE  Verification'
  <2>1. package_pc' \notin {"verify", "done"}
    BY <1>7, Zenon DEF Package!Walk, Package!DeleteManifest, Package!DeleteBlob
  <2> QED
    BY <2>1 DEF Verification
<1> QED
  BY <1>1, <1>2, <1>3, <1>4, <1>5, <1>6, <1>7 DEF Package!Next

(* A plan that holds what every quiet tag reaches. *)
LEMMA PlanReaches ==
  ASSUME Package!DeletionAssumption, Types, NEW t \in Unmoved, target[t] \in queued,
         \A m \in queued : Planned(m)
  PROVE  Package!Graph(target[t]) \subseteq plan.manifests /\ Package!GraphBlobs(target[t]) \subseteq plan.blobs
<1>1. Planned(target[t])
  OBVIOUS
<1>2. \A n \in Package!Graph(target[t]) : n \in queued
  BY <1>1 DEF Package!Graph, Planned
<1>3. \A n \in Package!Graph(target[t]) : n \in plan.manifests /\ Package!BlobsOf(n) \subseteq plan.blobs
  BY <1>2 DEF Planned
<1> QED
  BY <1>3 DEF Package!GraphBlobs

(* Whatever is stored stays accounted for. *)
LEMMA LeftoversNext ==
  ASSUME Package!DeletionAssumption, Types, Discovery, Leftovers, [Package!Next]_(Package!vars)
  PROVE  Leftovers'
<1>1. CASE Package!Push
  BY <1>1 DEF Package!Push, Types, Leftovers
<1>2. CASE Package!ListMore \/ Package!Listed \/ Package!ListFails \/ Package!Resolve
        \/ Package!Resolved \/ Package!DiscoveryFails
  <2>1. UNCHANGED <<pushes, moved, target, manifests, package_blobs, reported, failures, plan>>
    BY Zenon, <1>2
    DEF Package!ListMore, Package!Listed, Package!ListFails, Package!Resolve,
        Package!Resolved, Package!DiscoveryFails, Package!Fail, Package!registry,
        Package!history
  <2>2. Stored' = Stored /\ Reached' = Reached /\ Planning' = Planning
    BY ZenonT(30), <2>1
    DEF Stored, Reached, Planning, Package!Present, Package!Graph, Package!GraphBlobs,
        Package!BlobsOf
  <2>3. \/ package_pc' \in {"list", "resolve", "walk", "err"} /\ package_pc \in {"list", "resolve", "walk"}
        \/ package_pc' = "relist" /\ package_pc = "relist"
    BY <1>2
    DEF Package!ListMore, Package!Listed, Package!ListFails, Package!Resolve,
        Package!Resolved, Package!DiscoveryFails, Package!Fail
  <2> QED
    BY <2>1, <2>2, <2>3 DEF Leftovers
<1>3. ASSUME NEW m \in PackageManifests, Package!Walk(m) PROVE Leftovers'
  <2>1. UNCHANGED <<package_pc, pushes, moved, target, manifests, package_blobs, reported, failures>> /\ package_pc = "walk"
    BY Zenon, <1>3 DEF Package!Walk, Package!registry, Package!history
  <2>2. Stored' = Stored /\ Reached' = Reached
    BY Zenon, <2>1
    DEF Stored, Reached, Package!Present, Package!Graph, Package!GraphBlobs, Package!BlobsOf
  <2> QED
    BY <2>1, <2>2 DEF Leftovers
<1>4. CASE Package!Discovered
  <2>1. /\ UNCHANGED <<pushes, moved, target, manifests, package_blobs, reported, failures, plan, queued>>
        /\ package_pc = "walk" /\ todo = {} /\ package_pc' = "delete_manifests"
    BY <1>4 DEF Package!Discovered, Package!registry, Package!history
  <2>2. Stored' = Stored /\ Planning' = Planning
    BY <2>1 DEF Stored, Planning
  <2>3. moved = {} => Reached \subseteq Planning
    <3> SUFFICES ASSUME moved = {}, NEW t \in Package!Present
                 PROVE  Package!Graph(target[t]) \cup Package!GraphBlobs(target[t]) \subseteq Planning
      BY DEF Reached
    <3>1. t \in Unmoved
      BY DEF Unmoved
    <3>2. target[t] \in queued /\ \A n \in queued : Planned(n)
      BY <2>1, <3>1 DEF Discovery
    <3> QED
      BY <3>1, <3>2, PlanReaches DEF Planning
  <2> QED
    BY <2>1, <2>2, <2>3 DEF Leftovers
<1>5. ASSUME (\E m \in PackageManifests : Package!DeleteManifest(m)) \/ (\E b \in Blobs : Package!DeleteBlob(b))
      PROVE  Leftovers'
  <2>1. /\ UNCHANGED <<package_pc, pushes, moved, reported, plan>> /\ package_pc \in {"delete_manifests", "delete_blobs"}
        /\ manifests' \subseteq manifests /\ package_blobs' \subseteq package_blobs
    BY <1>5, Zenon DEF Package!DeleteManifest, Package!DeleteBlob, Package!history
  <2>2. Stored' \subseteq Stored /\ Planning' = Planning
    BY <2>1 DEF Stored, Planning
  <2> QED
    BY <2>1, <2>2 DEF Leftovers
<1>6. CASE Package!ManifestsDeleted \/ Package!BlobsDeleted \/ Package!Relisted
  <2>1. /\ UNCHANGED <<pushes, moved, manifests, package_blobs, reported, plan>>
        /\ package_pc \in {"delete_manifests", "delete_blobs", "relist"}
        /\ package_pc' \in {"delete_blobs", "relist"} \/ (package_pc' = "verify" /\ todo' = Planning)
    BY <1>6, Zenon
    DEF Package!ManifestsDeleted, Package!BlobsDeleted, Package!Relisted, Package!registry,
        Package!history, Planning
  <2>2. Stored' = Stored /\ Planning' = Planning
    BY <2>1 DEF Stored, Planning
  <2> QED
    BY <2>1, <2>2 DEF Leftovers
<1>7. ASSUME NEW o \in PackageManifests \cup Blobs, Package!Verify(o) PROVE Leftovers'
  <2>1. /\ UNCHANGED <<package_pc, pushes, moved, manifests, package_blobs, reported>> /\ package_pc = "verify"
        /\ todo' = todo \ {o}
    BY <1>7 DEF Package!Verify, Package!registry, Package!history
  <2>2. Stored' = Stored
    BY <2>1 DEF Stored
  <2>3. failures \subseteq failures' /\ (o \in Stored => o \in failures')
    BY <1>7 DEF Package!Verify, Package!Judge, Stored
  <2> QED
    BY <2>1, <2>2, <2>3 DEF Leftovers
<1>8. CASE Package!Finish
  <2>1. /\ UNCHANGED <<pushes, moved, manifests, package_blobs, reported, failures>>
        /\ package_pc = "verify" /\ package_pc' = "done" /\ todo = {}
    BY <1>8 DEF Package!Finish, Package!registry, Package!history
  <2>2. Stored' = Stored
    BY <2>1 DEF Stored
  <2> QED
    BY <2>1, <2>2 DEF Leftovers
<1>9. CASE Package!Again
  <2>1. /\ UNCHANGED <<pushes, target, manifests, package_blobs>> /\ moved' = {} /\ package_pc \in {"done", "err"}
        /\ package_pc' = "list" /\ failures' = {} /\ reported' = reported \cup failures
    BY <1>9 DEF Package!Again
  <2>2. Stored' = Stored /\ Reached' = Reached
    BY <2>1
    DEF Stored, Reached, Package!Present, Package!Graph, Package!GraphBlobs, Package!BlobsOf
  <2> QED
    BY <2>1, <2>2 DEF Leftovers
<1>10. CASE UNCHANGED Package!vars
  <2>1. UNCHANGED <<package_pc, todo, pushes, moved, target, manifests, package_blobs, reported, failures, plan>>
    BY <1>10 DEF Package!vars, Package!registry, Package!history
  <2>2. Stored' = Stored /\ Reached' = Reached /\ Planning' = Planning
    BY <2>1
    DEF Stored, Reached, Planning, Package!Present, Package!Graph, Package!GraphBlobs,
        Package!BlobsOf
  <2> QED
    BY <2>1, <2>2 DEF Leftovers
<1> QED
  BY <1>1, <1>2, <1>3, <1>4, <1>5, <1>6, <1>7, <1>8, <1>9, <1>10 DEF Package!Next

-------------------------------------------------------------------------------
(* A call starts with nothing listed, planned or verified, on a package whose  *)
(* objects its tags reach.                                                      *)
LEMMA InvInit == ASSUME Package!DeletionAssumption, Package!Init PROVE Discovery /\ Verification /\ Leftovers
<1>1. package_pc = "list" /\ failures = {} /\ moved = {} /\ listing.last = 0
  BY DEF Package!Init, Package!NoListing
<1>2. Discovery
  <2>1. \A t \in Unmoved : t \in Nat /\ t # 0
    BY DEF Unmoved, Package!Present, Package!DeletionAssumption
  <2> QED
    BY <1>1, <2>1 DEF Discovery
<1>3. Verification
  BY <1>1 DEF Verification
<1>4. Stored \subseteq Reached
  <2>1. manifests = UNION {Package!Graph(target[t]) : t \in Package!Present} /\ package_blobs = UNION {Package!BlobsOf(m) : m \in manifests}
    BY DEF Package!Init, Package!Present
  <2>2. ASSUME NEW o \in manifests PROVE o \in Reached
    BY <2>1 DEF Reached
  <2>3. ASSUME NEW o \in package_blobs PROVE o \in Reached
    <3>1. PICK m \in manifests : o \in Package!BlobsOf(m)
      BY <2>1
    <3>2. PICK t \in Package!Present : m \in Package!Graph(target[t])
      BY <2>1
    <3>3. o \in Package!GraphBlobs(target[t])
      BY <3>1, <3>2 DEF Package!GraphBlobs
    <3> QED
      BY <3>2, <3>3 DEF Reached
  <2> QED
    BY <2>2, <2>3 DEF Stored
<1> QED
  BY <1>1, <1>2, <1>3, <1>4 DEF Leftovers

(* When the first manifest of a package is deleted the plan holds every         *)
(* manifest and blob that a tag reaches which nobody has moved since the call   *)
(* (README.md:250), provided that a page of the registry holds at least as many *)
(* tags as list_manifest_tags asks for: a shorter one is taken for the last.    *)
THEOREM DiscoveredBeforeDeleted ==
  ASSUME Package!DeletionAssumption, PageSize <= PageCap
  PROVE  Package!Spec => []DeletesAfterDiscovery
<1>1. Package!Init => Types /\ Discovery
  BY TypesInit, InvInit
<1>2. Types /\ Discovery /\ [Package!Next]_(Package!vars) => (Types /\ Discovery)'
  BY TypesNext, DiscoveryNext
<1>3. Types /\ Discovery => DeletesAfterDiscovery
  <2> SUFFICES ASSUME Types, Discovery, package_pc = "delete_manifests",
                      NEW t \in Tags \ moved, target[t] # NoTarget
               PROVE  Package!Graph(target[t]) \subseteq plan.manifests /\ Package!GraphBlobs(target[t]) \subseteq plan.blobs
    BY DEF DeletesAfterDiscovery, Package!DeletesAfterDiscovery
  <2>1. t \in Unmoved
    BY DEF Unmoved, Package!Present
  <2> QED
    BY <2>1, PlanReaches DEF Discovery
<1> QED
  BY <1>1, <1>2, <1>3, PTL DEF Package!Spec

(* A deletion that reports complete leaves no tag and nothing of its plan but   *)
(* what another job has pushed since (PackageDeletionReport::is_complete).      *)
THEOREM CompleteIsGone == ASSUME Package!DeletionAssumption PROVE Package!Spec => []CompleteMeansGone
<1>1. Package!Init => Types /\ Verification
  BY TypesInit, InvInit
<1>2. Types /\ Verification /\ [Package!Next]_(Package!vars) => (Types /\ Verification)'
  BY TypesNext, VerificationNext
<1>3. Verification => CompleteMeansGone
  BY
  DEF Verification, CompleteMeansGone, Package!CompleteMeansGone, Package!Complete,
      Planning, Stored
<1> QED
  BY <1>1, <1>2, <1>3, PTL DEF Package!Spec

(* When nobody pushes, whatever a finished deletion leaves in the package is    *)
(* named by a failure of this call or of an earlier one (deletion.rs:80).       *)
THEOREM LeftoversAreReported ==
  ASSUME Package!DeletionAssumption, PageSize <= PageCap
  PROVE  Package!Spec => []LeftoversReported
<1>1. Package!Init => Types /\ Discovery /\ Leftovers
  BY TypesInit, InvInit
<1>2. Types /\ Discovery /\ Leftovers /\ [Package!Next]_(Package!vars) => (Types /\ Discovery /\ Leftovers)'
  BY TypesNext, DiscoveryNext, LeftoversNext
<1>3. Leftovers => LeftoversReported
  BY DEF Leftovers, LeftoversReported, Package!LeftoversReported, Package!Complete, Stored
<1> QED
  BY <1>1, <1>2, <1>3, PTL DEF Package!Spec
===============================================================================

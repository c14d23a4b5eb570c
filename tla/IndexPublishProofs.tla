-------------------------- MODULE IndexPublishProofs --------------------------
(* Proofs about IndexPublish, for any number of paths, architectures and jobs:  *)
(* what each step makes of a job, the invariants of all regimes and those of    *)
(* one concurrency group, that the index is what was promoted and not purged    *)
(* since, and that in one concurrency group the NAR of every entry and the      *)
(* closure of every GC root can be served.                                      *)
EXTENDS IndexPublish, TLAPS

(* A leaf that names no prover goes to the SMT solver and then to Zenon,   *)
(* with time to spare for a slow machine.                                  *)
USE SMTT(30), ZenonT(30)

(* The values of the state. *)
Root == [entries : SUBSET Hashes, gc_roots : SUBSET Hashes]
RootMap == [Systems -> Root \cup {NoRoot}]
Receipt == [system : Systems, new_entries : SUBSET Hashes, active_gc_roots : SUBSET Hashes]
Build == [system : Systems, root : Hashes, own : SUBSET Hashes]
Job ==
  [op : {"none", "promote", "purge"}, pc : {"idle", "discover", "push", "load", "compact", "published"},
   inbox : SUBSET Receipt, selector : Selectors \cup {NoSelector}, targets : SUBSET Systems,
   loaded : RootMap, pushed : RootMap, victims : SUBSET Hashes, doomed : SUBSET Nars]

(* What a job has read and written by the time it is where it is. *)
JobShape(j) ==
  /\ j.pc = "idle" => j = IdleRun
  /\ j.pc # "idle" => j.op # "none"
  /\ j.op = "promote" => j.pc \in {"discover", "push", "published"} /\ j.victims = {}
  /\ j.op = "purge" => j.pc \in {"discover", "load", "compact", "published"} /\ j.inbox = {}
  /\ j.pc = "discover" => \A s \in Systems : j.loaded[s] = NoRoot
  /\ j.pc \in {"discover", "load"} => (\A s \in Systems : j.pushed[s] = NoRoot) /\ j.victims = {}
  /\ j.pc = "compact" => \A s \in j.targets : j.loaded[s] # NoRoot

TypeInv ==
  /\ regime \in Regimes
  /\ arch_tag \in RootMap /\ top \in RootMap
  /\ blobs \in SUBSET Nars
  /\ build = NoBuild \/ build \in Build
  /\ receipts \in SUBSET Receipt
  /\ run \in [Runs -> Job]
  /\ \A r \in Runs : JobShape(run[r])
  /\ ledger \in [Systems -> SUBSET Hashes]

(* The roots of the architectures are published by one job at a time. *)
Apart == {"promote", "purge"} \subseteq regime.serialised

(* A job that is under way is the only one, and what it has read of a root it   *)
(* has not yet replaced is what is published.                                   *)
LedgerInv ==
  /\ IndexIsLedger
  /\ \A r, q \in Runs : run[r].pc # "idle" /\ run[q].pc # "idle" => r = q
  /\ \A r \in Runs, s \in Systems : run[r].loaded[s] # NoRoot /\ run[r].pushed[s] = NoRoot =>
       run[r].loaded[s].entries = EntriesOf(arch_tag, s)

(* Receipts that are written and not yet promoted, wherever they are. *)
Pending == receipts \cup UNION {run[r].inbox : r \in Runs}

(* A purge finds no receipt waiting, and nothing is built beside a job. *)
GroupInv ==
  \A r \in Runs : /\ run[r].op = "purge" => receipts = {}
                  /\ run[r].pc # "idle" => build = NoBuild

(* A purge knows every architecture that has entries, and has taken its victims *)
(* out of the roots it has replaced.                                            *)
PurgeInv(j, roots) ==
  j.op = "purge" =>
    /\ j.pc # "discover" => \A s \in Systems \ j.targets : EntriesOf(roots, s) = {}
    /\ j.doomed \subseteq {NarOf[h] : h \in j.victims}
    /\ \A s \in j.targets : j.pushed[s] # NoRoot => EntriesOf(roots, s) \cap j.victims = {}
    /\ j.pc = "published" => \A s \in j.targets : j.pushed[s] # NoRoot

(* A promote lists in the top-level index all that was listed, and the          *)
(* architectures of its receipts.                                               *)
PromoteInv(j, index) ==
  j.op = "promote" =>
    /\ j.pc = "push" => /\ \A s \in Systems : index[s] # NoRoot => s \in j.targets
                        /\ \A m \in j.inbox : m.system \in j.targets
    /\ j.pc = "published" => \A m \in j.inbox : index[m.system] # NoRoot

(* The blobs of what is published or waits in a receipt are there, and an       *)
(* architecture with entries that the top-level index does not list has a       *)
(* receipt that will have it listed.                                            *)
BlobsKept(waiting, roots, index, have) ==
  /\ \A m \in waiting : \A h \in m.new_entries : NarOf[h] \in have
  /\ \A s \in Systems : \A h \in EntriesOf(roots, s) : NarOf[h] \in have
  /\ \A s \in Systems : EntriesOf(roots, s) # {} /\ index[s] = NoRoot => \E m \in waiting : m.system = s

BlobInv ==
  /\ \A r \in Runs : PurgeInv(run[r], arch_tag) /\ PromoteInv(run[r], top)
  /\ BlobsKept(Pending, arch_tag, top, blobs)

(* The closures of GC roots are whole: those published, and those in a receipt  *)
(* together with what is published.                                             *)
RootsWhole(waiting, roots) ==
  /\ \A m \in waiting : \A h \in m.active_gc_roots :
       ClosureOf(h) \subseteq m.new_entries \cup EntriesOf(roots, m.system) \cup Upstream
  /\ \A s \in Systems : \A h \in RootsOf(roots, s) :
       ClosureOf(h) \subseteq EntriesOf(roots, s) \cup Upstream

(* So are those that a job has read, and a purge spares.                        *)
ReadWhole(j, roots) ==
  \A s \in Systems : j.loaded[s] # NoRoot /\ j.pushed[s] = NoRoot =>
    \A h \in j.loaded[s].gc_roots : /\ ClosureOf(h) \subseteq EntriesOf(roots, s) \cup Upstream
                                    /\ ClosureOf(h) \cap j.victims = {}

RootInv ==
  /\ build # NoBuild => build.own \subseteq EntriesOf(arch_tag, build.system)
  /\ RootsWhole(Pending, arch_tag)
  /\ \A r \in Runs : ReadWhole(run[r], arch_tag)

-------------------------------------------------------------------------------
(* A closure lies within the known hashes. *)
LEMMA ClosureKnown == \A h : ClosureOf(h) \subseteq Hashes
BY DEF ClosureOf, Reach

(* The initial job has nothing to show. *)
LEMMA IdleJob ==
  /\ IdleRun \in Job /\ JobShape(IdleRun)
  /\ NoRoots \in RootMap /\ \A s \in Systems : NoRoots[s] = NoRoot
<1>1. NoRoots \in RootMap /\ \A s \in Systems : NoRoots[s] = NoRoot
  BY DEF NoRoots, RootMap
<1>2. IdleRun \in Job
  BY <1>1 DEF IdleRun, Job
<1>3. JobShape(IdleRun)
  BY <1>1 DEF IdleRun, JobShape
<1> QED
  BY <1>1, <1>2, <1>3

(* A step of one job leaves the others alone. *)
LEMMA OneJob ==
  ASSUME TypeInv, NEW r \in Runs, NEW n \in Job, JobShape(n), run' = [run EXCEPT ![r] = n]
  PROVE  /\ run'[r] = n /\ \A q \in Runs : q # r => run'[q] = run[q]
         /\ run' \in [Runs -> Job]
         /\ \A q \in Runs : JobShape(run'[q])
BY DEF TypeInv

(* The survivors of an evaluation: their closures avoid what is purged. *)
LEMMA SoundKept ==
  ASSUME NEW e, DOMAIN e \subseteq Hashes, \A x \in DOMAIN e : e[x].references = RefsOf[x],
         NEW gone, NEW h \in Hashes, Sound(e, DOMAIN e \ gone, h)
  PROVE  ClosureOf(h) \cap gone = {}
<1> DEFINE C == Reach(e, "Transitive", {}, {h})
           full == [x \in Hashes |-> [references |-> RefsOf[x]]]
<1>1. C \subseteq Hashes /\ C \subseteq DOMAIN e \ gone /\ h \in C
  BY DEF Sound, Reach
<1>2. \A x \in C : Neighbours(e, "Transitive", x) \subseteq C
  BY DEF Reach, Closed, Neighbours
<1>3. \A x \in C : Neighbours(full, "Transitive", x) = Neighbours(e, "Transitive", x)
  <2> SUFFICES ASSUME NEW x \in C PROVE Neighbours(full, "Transitive", x) = Neighbours(e, "Transitive", x)
    OBVIOUS
  <2>1. References(full, x) = References(e, x)
    BY <1>1 DEF References
  <2> QED
    BY <2>1 DEF Neighbours
<1>4. Closed(full, "Transitive", {}, C)
  BY <1>2, <1>3, Zenon DEF Closed
<1>5. ClosureOf(h) \subseteq C
  BY <1>1, <1>4 DEF ClosureOf, Reach
<1> QED
  BY <1>1, <1>5, Zenon

(* What evaluate_cache_purge leaves of the roots a purge has read. *)
Spared(before, after, gone) ==
  \A s \in Systems :
    IF before[s] = NoRoot THEN after[s] = NoRoot
    ELSE /\ after[s] # NoRoot
         /\ after[s].entries = before[s].entries
         /\ after[s].gc_roots \subseteq before[s].gc_roots
         /\ \A h \in after[s].gc_roots : ClosureOf(h) \cap gone = {}

Evaluated(j, gone, kept) ==
  [j EXCEPT !.pc = "compact", !.victims = gone, !.doomed = {NarOf[h] : h \in gone}, !.loaded = kept]

(* An evaluation ends the purge, or picks the victims and spares whole closures. *)
LEMMA EvaluateOutcome ==
  ASSUME TypeInv, NEW r \in Runs, Evaluate(r)
  PROVE  \/ run' = [run EXCEPT ![r] = IdleRun]
         \/ \E gone \in SUBSET Hashes, kept \in RootMap :
              /\ Spared(run[r].loaded, kept, gone)
              /\ run' = [run EXCEPT ![r] = Evaluated(run[r], gone, kept)]
<1> USE PublishAssumption
<1> DEFINE L == run[r].loaded
           gc == [s \in Systems |-> RootsOf(L, s)]
<1>1. L \in RootMap /\ run[r] \in Job
  BY DEF TypeInv, Job
<1>2. PICK order \in Orders :
        LET e == Merged(L, order)
            gone == PurgedSet(run[r].selector, e, gc)
            survivors(s) == {h \in L[s].gc_roots : Sound(e, DOMAIN e \ gone, h)}
        IN  run' = IF gone = {} THEN [run EXCEPT ![r] = IdleRun]
                   ELSE [run EXCEPT
                          ![r].pc = "compact", ![r].victims = gone,
                          ![r].doomed = {NarOf[h] : h \in gone},
                          ![r].loaded = [s \in Systems |->
                             IF L[s] = NoRoot THEN NoRoot
                             ELSE [L[s] EXCEPT !.gc_roots = survivors(s)]]]
  BY Zenon DEF Evaluate
<1> DEFINE e == Merged(L, order)
           gone == PurgedSet(run[r].selector, e, gc)
           kept == [s \in Systems |->
                      IF L[s] = NoRoot THEN NoRoot
                      ELSE [L[s] EXCEPT !.gc_roots = {h \in L[s].gc_roots : Sound(e, DOMAIN e \ gone, h)}]]
<1>3. DOMAIN e \subseteq Hashes /\ \A x \in DOMAIN e : e[x].references = RefsOf[x]
  <2>1. \A s \in Systems : EntriesOf(L, s) \subseteq Hashes
    BY <1>1 DEF EntriesOf, RootMap, Root
  <2> QED
    BY <2>1 DEF Merged
<1>4. gone \in SUBSET Hashes
  BY <1>3 DEF PurgedSet, Reach
<1>5. \/ run' = [run EXCEPT ![r] = IdleRun]
      \/ run' = [run EXCEPT ![r] = Evaluated(run[r], gone, kept)]
  BY <1>2, Zenon DEF Evaluated, TypeInv
<1> HIDE DEF e, gone
<1>6. kept \in RootMap /\ Spared(L, kept, gone)
  <2> SUFFICES ASSUME NEW s \in Systems
               PROVE  /\ kept[s] \in Root \cup {NoRoot}
                      /\ IF L[s] = NoRoot THEN kept[s] = NoRoot
                         ELSE /\ kept[s] # NoRoot
                              /\ kept[s].entries = L[s].entries
                              /\ kept[s].gc_roots \subseteq L[s].gc_roots
                              /\ \A h \in kept[s].gc_roots : ClosureOf(h) \cap gone = {}
    BY Zenon DEF RootMap, Spared
  <2>1. CASE L[s] = NoRoot
    BY <2>1
  <2>2. CASE L[s] # NoRoot
    <3> DEFINE new == [L[s] EXCEPT !.gc_roots = {h \in L[s].gc_roots : Sound(e, DOMAIN e \ gone, h)}]
    <3>1. L[s] \in Root /\ kept[s] = new
      BY <1>1, <2>2 DEF RootMap
    <3>2. /\ new \in Root /\ new.entries = L[s].entries
          /\ new.gc_roots = {h \in L[s].gc_roots : Sound(e, DOMAIN e \ gone, h)}
      BY <3>1 DEF Root
    <3>3. \A h \in new.gc_roots : ClosureOf(h) \cap gone = {}
      BY <3>1, <3>2, <1>3, SoundKept DEF Root
    <3>4. new # NoRoot
      BY <3>2, Zenon DEF Root
    <3> HIDE DEF new, kept
    <3> QED
      BY <2>2, <3>1, <3>2, <3>3, <3>4, Zenon
  <2> QED
    BY <2>1, <2>2, Zenon
<1> HIDE DEF kept
<1> QED
  BY <1>4, <1>5, <1>6

(* The purge r has picked its victims, and becomes n. *)
Evaluates(r, n) ==
  /\ JobShape(n) /\ run' = [run EXCEPT ![r] = n]
  /\ n.op = "purge" /\ n.pc = "compact" /\ n.inbox = {}
  /\ n.targets = run[r].targets /\ n.pushed = run[r].pushed
  /\ n.doomed = {NarOf[h] : h \in n.victims}
  /\ Spared(run[r].loaded, n.loaded, n.victims)

(* The two outcomes of an evaluation. *)
LEMMA EvaluateEffect ==
  ASSUME TypeInv, NEW r \in Runs, Evaluate(r)
  PROVE  \/ run' = [run EXCEPT ![r] = IdleRun]
         \/ \E n \in Job : Evaluates(r, n)
<1>1. run[r] \in Job /\ JobShape(run[r])
  BY DEF TypeInv
<1>2. run[r].op = "purge" /\ run[r].pc = "load"
  BY Zenon DEF Evaluate, At
<1>3. \A s \in run[r].targets : run[r].loaded[s] # NoRoot
  BY Zenon DEF Evaluate, AllDone
<1>4. ASSUME NEW gone \in SUBSET Hashes, NEW kept \in RootMap, Spared(run[r].loaded, kept, gone),
             run' = [run EXCEPT ![r] = Evaluated(run[r], gone, kept)]
      PROVE  \E n \in Job : Evaluates(r, n)
  <2> DEFINE j == run[r]
             n == Evaluated(j, gone, kept)
  <2>1. {NarOf[h] : h \in gone} \subseteq Nars
    BY PublishAssumption
  <2>2. n \in Job
    BY <1>1, <2>1, Zenon DEF Evaluated, Job
  <2>3. /\ n.op = "purge" /\ n.pc = "compact" /\ n.victims = gone /\ n.loaded = kept
        /\ n.inbox = {} /\ n.targets = j.targets /\ n.pushed = j.pushed
        /\ n.doomed = {NarOf[h] : h \in gone}
    BY <1>1, <1>2 DEF Evaluated, Job, JobShape
  <2>4. run' = [run EXCEPT ![r] = n]
    BY <1>4
  <2> HIDE DEF n
  <2>5. JobShape(n)
    BY <1>1, <1>3, <1>4, <2>3 DEF JobShape, Spared, Job
  <2> QED
    BY <1>4, <2>2, <2>3, <2>4, <2>5, Zenon DEF Evaluates
<1> QED
  BY <1>4, EvaluateOutcome

-------------------------------------------------------------------------------
(* What each step of a job makes of it. *)

(* n is a well-formed job that agrees with j but for what the step changes. *)
Keeps(j, n, fields) ==
  /\ "op" \in fields => n.op = j.op
  /\ "inbox" \in fields => n.inbox = j.inbox
  /\ "targets" \in fields => n.targets = j.targets
  /\ "loaded" \in fields => n.loaded = j.loaded
  /\ "pushed" \in fields => n.pushed = j.pushed
  /\ "victims" \in fields => n.victims = j.victims
  /\ "doomed" \in fields => n.doomed = j.doomed

(* Starting reads receipts or takes a selector. *)
LEMMA StartEffect ==
  ASSUME TypeInv, NEW r \in Runs, StartPromote(r) \/ StartPurge(r)
  PROVE  \E n \in Job :
           /\ JobShape(n) /\ run' = [run EXCEPT ![r] = n]
           /\ n.pc = "discover" /\ n.loaded = NoRoots /\ n.pushed = NoRoots
           /\ n.victims = {} /\ n.doomed = {}
           /\ \/ /\ StartPromote(r) /\ n.op = "promote" /\ n.inbox \subseteq receipts
                 /\ receipts' = receipts \ n.inbox
              \/ /\ StartPurge(r) /\ n.op = "purge" /\ n.inbox = {} /\ receipts' = receipts
<1>1. CASE StartPromote(r)
  <2>1. PICK R \in SUBSET receipts :
          /\ run' = [run EXCEPT ![r] = [IdleRun EXCEPT !.op = "promote", !.pc = "discover", !.inbox = R]]
          /\ receipts' = receipts \ R
    BY <1>1, Zenon DEF StartPromote
  <2> DEFINE n == [IdleRun EXCEPT !.op = "promote", !.pc = "discover", !.inbox = R]
  <2>2. n \in Job
    BY IdleJob, Zenon DEF TypeInv, Job
  <2>3. /\ n.op = "promote" /\ n.pc = "discover" /\ n.inbox = R /\ n.loaded = NoRoots
        /\ n.pushed = NoRoots /\ n.victims = {} /\ n.doomed = {}
    BY DEF IdleRun
  <2>4. JobShape(n)
    BY <2>3, IdleJob DEF JobShape
  <2> QED
    BY <1>1, <2>1, <2>2, <2>3, <2>4, Zenon
<1>2. CASE StartPurge(r)
  <2>1. PICK x \in Selectors :
          run' = [run EXCEPT ![r] = [IdleRun EXCEPT !.op = "purge", !.pc = "discover", !.selector = x]]
    BY <1>2, Zenon DEF StartPurge
  <2> DEFINE n == [IdleRun EXCEPT !.op = "purge", !.pc = "discover", !.selector = x]
  <2>2. n \in Job
    BY IdleJob, Zenon DEF TypeInv, Job
  <2>3. /\ n.op = "purge" /\ n.pc = "discover" /\ n.inbox = {} /\ n.loaded = NoRoots
        /\ n.pushed = NoRoots /\ n.victims = {} /\ n.doomed = {}
    BY DEF IdleRun
  <2>4. JobShape(n)
    BY <2>3, IdleJob DEF JobShape
  <2>5. receipts' = receipts
    BY <1>2, Zenon DEF StartPurge
  <2> QED
    BY <1>2, <2>1, <2>2, <2>3, <2>4, <2>5, Zenon
<1> QED
  BY <1>1, <1>2

(* The job takes seen for the published architectures, and becomes n. *)
Discovers(r, n, seen) ==
  /\ JobShape(n) /\ run' = [run EXCEPT ![r] = n]
  /\ Keeps(run[r], n, {"op", "inbox", "loaded", "pushed", "victims", "doomed"})
  /\ \/ /\ n.op = "promote" /\ n.pc = "push"
        /\ seen \cup {m.system : m \in n.inbox} \subseteq n.targets
     \/ /\ n.op = "purge" /\ n.pc = "load"
        /\ n.targets = IF seen = {} THEN Systems ELSE seen

(* Discovery fixes the architectures. *)
LEMMA DiscoverEffect ==
  ASSUME TypeInv, NEW r \in Runs, DiscoverPromote(r) \/ DiscoverPurge(r)
  PROVE  \E n \in Job, seen \in SeenSystems : Discovers(r, n, seen)
<1> DEFINE j == run[r]
<1>1. j \in Job /\ JobShape(j)
  BY DEF TypeInv
<1>2. \A seen \in SeenSystems : seen \subseteq Systems
  BY DEF SeenSystems, Listed
<1>3. CASE DiscoverPromote(r)
  <2>1. PICK seen \in SeenSystems, current \in Systems :
          LET found == seen \cup {m.system : m \in j.inbox}
          IN  run' = [run EXCEPT ![r].targets = IF found = {} THEN {current} ELSE found,
                                 ![r].pc = "push"]
    BY <1>3, Zenon DEF DiscoverPromote
  <2> DEFINE found == seen \cup {m.system : m \in j.inbox}
             T == IF found = {} THEN {current} ELSE found
             n == [j EXCEPT !.targets = T, !.pc = "push"]
  <2>2. found \subseteq T /\ T \subseteq Systems
    BY <1>1, <1>2 DEF Job, Receipt
  <2>3. run' = [run EXCEPT ![r] = n]
    BY <2>1, Zenon DEF TypeInv
  <2> HIDE DEF T
  <2>4. n \in Job
    BY <1>1, <2>2, Zenon DEF Job
  <2>5. /\ n.op = "promote" /\ n.pc = "push" /\ n.targets = T
        /\ n.inbox = j.inbox /\ n.loaded = j.loaded /\ n.pushed = j.pushed
        /\ n.victims = j.victims /\ n.doomed = j.doomed
    BY <1>1, <1>3 DEF Job, DiscoverPromote, At
  <2> HIDE DEF n
  <2>6. JobShape(n)
    BY <1>1, <1>3, <2>5 DEF JobShape, DiscoverPromote, At
  <2>7. Keeps(j, n, {"op", "inbox", "loaded", "pushed", "victims", "doomed"})
    BY <1>3, <2>5 DEF Keeps, DiscoverPromote, At
  <2> QED
    BY <2>2, <2>3, <2>4, <2>5, <2>6, <2>7, Zenon DEF Discovers
<1>4. CASE DiscoverPurge(r)
  <2>1. PICK seen \in SeenSystems :
          run' = [run EXCEPT ![r].targets = IF seen = {} THEN Systems ELSE seen,
                             ![r].pc = "load"]
    BY <1>4 DEF DiscoverPurge
  <2> DEFINE T == IF seen = {} THEN Systems ELSE seen
             n == [j EXCEPT !.targets = T, !.pc = "load"]
  <2>2. T \subseteq Systems
    BY <1>2
  <2>3. run' = [run EXCEPT ![r] = n]
    BY <2>1, Zenon DEF TypeInv
  <2> HIDE DEF T
  <2>4. n \in Job
    BY <1>1, <2>2, Zenon DEF Job
  <2>5. /\ n.op = "purge" /\ n.pc = "load" /\ n.targets = T
        /\ n.inbox = j.inbox /\ n.loaded = j.loaded /\ n.pushed = j.pushed
        /\ n.victims = j.victims /\ n.doomed = j.doomed
    BY <1>1, <1>4 DEF Job, DiscoverPurge, At
  <2> HIDE DEF n
  <2>6. JobShape(n)
    BY <1>1, <1>4, <2>5 DEF JobShape, DiscoverPurge, At
  <2>7. Keeps(j, n, {"op", "inbox", "loaded", "pushed", "victims", "doomed"})
    BY <1>4, <2>5 DEF Keeps, DiscoverPurge, At
  <2> QED
    BY <2>3, <2>4, <2>5, <2>6, <2>7, Zenon DEF T, Discovers
<1> QED
  BY <1>3, <1>4

(* The job reads the root of s, and becomes n. *)
Reads(r, s, n) ==
  /\ JobShape(n) /\ run' = [run EXCEPT ![r] = n] /\ n.pc = run[r].pc
  /\ Keeps(run[r], n, {"op", "inbox", "pushed", "victims", "doomed"})
  /\ \/ /\ n.targets = run[r].targets
        /\ \E x \in Root :
             /\ n.loaded = [run[r].loaded EXCEPT ![s] = x]
             /\ x.entries = EntriesOf(arch_tag, s) /\ x.gc_roots = RootsOf(arch_tag, s)
     \/ /\ arch_tag[s] = NoRoot /\ LoadRoot(r, s)
        /\ n.targets = run[r].targets \ {s} /\ n.loaded = run[r].loaded

(* Reading a root takes it as it is published, or as an empty one. *)
LEMMA ReadEffect ==
  ASSUME TypeInv, NEW r \in Runs, NEW s \in Systems, ReadRoot(r, s) \/ LoadRoot(r, s)
  PROVE  \E n \in Job : Reads(r, s, n)
<1> USE PublishAssumption
<1> DEFINE j == run[r]
<1>1. j \in Job /\ JobShape(j) /\ arch_tag \in RootMap
  BY DEF TypeInv
<1>2. CASE LoadRoot(r, s) /\ arch_tag[s] = NoRoot
  <2> DEFINE n == [j EXCEPT !.targets = j.targets \ {s}]
  <2>1. run' = [run EXCEPT ![r] = n]
    BY <1>2 DEF LoadRoot, TypeInv
  <2>2. n \in Job
    BY <1>1 DEF Job
  <2>3. /\ n.pc = j.pc /\ n.op = j.op /\ n.inbox = j.inbox /\ n.loaded = j.loaded /\ n.pushed = j.pushed
        /\ n.victims = j.victims /\ n.doomed = j.doomed /\ n.targets = j.targets \ {s}
    BY <1>1 DEF Job
  <2> HIDE DEF n
  <2>4. JobShape(n)
    BY <1>1, <1>2, <2>3 DEF JobShape, LoadRoot, At
  <2> QED
    BY <1>2, <2>1, <2>2, <2>3, <2>4, Zenon DEF Keeps, Reads
<1>3. CASE ReadRoot(r, s) \/ (LoadRoot(r, s) /\ arch_tag[s] # NoRoot)
  <2> DEFINE x == IF arch_tag[s] = NoRoot THEN EmptyRoot ELSE arch_tag[s]
             n == [j EXCEPT !.loaded = [j.loaded EXCEPT ![s] = x]]
  <2>1. x \in Root /\ x.entries = EntriesOf(arch_tag, s) /\ x.gc_roots = RootsOf(arch_tag, s)
    BY <1>1 DEF EmptyRoot, Root, RootMap, EntriesOf, RootsOf
  <2>2. run' = [run EXCEPT ![r] = n]
    <3>1. CASE ReadRoot(r, s)
      BY <3>1 DEF ReadRoot
    <3>2. CASE LoadRoot(r, s) /\ arch_tag[s] # NoRoot
      BY <3>2 DEF LoadRoot
    <3> QED
      BY <1>3, <3>1, <3>2
  <2> HIDE DEF x
  <2>3. n \in Job
    BY <1>1, <2>1 DEF Job, RootMap
  <2>4. /\ n.pc = j.pc /\ n.op = j.op /\ n.inbox = j.inbox /\ n.pushed = j.pushed
        /\ n.victims = j.victims /\ n.doomed = j.doomed /\ n.targets = j.targets
        /\ n.loaded = [j.loaded EXCEPT ![s] = x]
    BY <1>1 DEF Job
  <2> HIDE DEF n
  <2>5. j.pc \in {"push", "load"}
    BY <1>3 DEF ReadRoot, LoadRoot, At
  <2>6. JobShape(n)
    BY <1>1, <2>4, <2>5 DEF JobShape
  <2> QED
    BY <2>1, <2>2, <2>3, <2>4, <2>6, Zenon DEF Keeps, Reads
<1> QED
  BY <1>2, <1>3

(* The job pushes root x for s, and becomes n. *)
Pushes(r, s, n, x) ==
  /\ JobShape(n) /\ run' = [run EXCEPT ![r] = n] /\ n.pc = run[r].pc
  /\ Keeps(run[r], n, {"op", "inbox", "targets", "loaded", "victims", "doomed"})
  /\ n.pushed = [run[r].pushed EXCEPT ![s] = x]
  /\ arch_tag' = [arch_tag EXCEPT ![s] = x]
  /\ run[r].loaded[s] \in Root /\ run[r].loaded[s] # NoRoot
  /\ \/ PromoteRoot(r, s) /\ x = PromotedRoot(run[r].loaded[s], Incoming(r, s))
     \/ /\ PurgeRoot(r, s)
        /\ x.entries = run[r].loaded[s].entries \ run[r].victims
        /\ x.gc_roots = run[r].loaded[s].gc_roots

(* Pushing a root replaces what is published by it. *)
LEMMA PushEffect ==
  ASSUME TypeInv, NEW r \in Runs, NEW s \in Systems, PromoteRoot(r, s) \/ PurgeRoot(r, s)
  PROVE  \E n \in Job, x \in Root : Pushes(r, s, n, x)
<1> USE PublishAssumption
<1> DEFINE j == run[r]
<1>1. j \in Job /\ JobShape(j) /\ arch_tag \in RootMap
  BY DEF TypeInv
<1>2. j.loaded[s] # NoRoot /\ j.loaded[s] \in Root
  BY <1>1 DEF PromoteRoot, PurgeRoot, At, JobShape, Job, RootMap
<1>3. ASSUME NEW x \in Root, run' = [run EXCEPT ![r].pushed[s] = x]
      PROVE  \E n \in Job :
           /\ JobShape(n) /\ run' = [run EXCEPT ![r] = n] /\ n.pc = run[r].pc
           /\ Keeps(run[r], n, {"op", "inbox", "targets", "loaded", "victims", "doomed"})
           /\ n.pushed = [run[r].pushed EXCEPT ![s] = x]
  <2> DEFINE n == [j EXCEPT !.pushed = [j.pushed EXCEPT ![s] = x]]
  <2>1. run' = [run EXCEPT ![r] = n]
    BY <1>3
  <2>2. n \in Job
    BY <1>1 DEF Job, RootMap
  <2>3. /\ n.pc = j.pc /\ n.op = j.op /\ n.inbox = j.inbox /\ n.loaded = j.loaded
        /\ n.victims = j.victims /\ n.doomed = j.doomed /\ n.targets = j.targets
        /\ n.pushed = [j.pushed EXCEPT ![s] = x]
    BY <1>1 DEF Job
  <2> HIDE DEF n
  <2>4. j.pc \in {"push", "compact"}
    BY DEF PromoteRoot, PurgeRoot, At
  <2>5. JobShape(n)
    BY <1>1, <2>3, <2>4 DEF JobShape
  <2> QED
    BY <2>1, <2>2, <2>3, <2>5, Zenon DEF Keeps
<1>4. CASE PromoteRoot(r, s)
  <2> DEFINE x == PromotedRoot(j.loaded[s], Incoming(r, s))
  <2>1. /\ UNION {m.new_entries : m \in Incoming(r, s)} \subseteq Hashes
        /\ UNION {m.active_gc_roots : m \in Incoming(r, s)} \subseteq Hashes
    BY <1>1 DEF Incoming, Job, Receipt
  <2>2. x \in Root
    BY <1>2, <2>1 DEF PromotedRoot, Root
  <2>3. arch_tag' = [arch_tag EXCEPT ![s] = x] /\ run' = [run EXCEPT ![r].pushed[s] = x]
    BY <1>4 DEF PromoteRoot
  <2> HIDE DEF x
  <2> QED
    BY <1>2, <1>3, <1>4, <2>2, <2>3, Zenon DEF x, Pushes
<1>5. CASE PurgeRoot(r, s)
  <2> DEFINE x == CompactedRoot(j.loaded[s], j.victims, arch_tag[s])
  <2>1. x \in Root /\ x.entries = j.loaded[s].entries \ j.victims /\ x.gc_roots = j.loaded[s].gc_roots
    BY <1>2 DEF CompactedRoot, Root
  <2>2. arch_tag' = [arch_tag EXCEPT ![s] = x] /\ run' = [run EXCEPT ![r].pushed[s] = x]
    BY <1>5 DEF PurgeRoot
  <2> HIDE DEF x
  <2> QED
    BY <1>2, <1>3, <1>5, <2>1, <2>2, Zenon DEF Pushes
<1> QED
  BY <1>4, <1>5

(* The job publishes the top-level index, and becomes n. *)
Publishes(r, n) ==
  /\ JobShape(n) /\ run' = [run EXCEPT ![r] = n] /\ n.pc = "published"
  /\ Keeps(run[r], n, {"op", "inbox", "targets", "loaded", "pushed", "victims", "doomed"})
  /\ top' = run[r].pushed /\ \A s \in n.targets : n.pushed[s] # NoRoot

(* Publishing makes the pushed roots the top-level index. *)
LEMMA PublishEffect ==
  ASSUME TypeInv, NEW r \in Runs, PublishPromote(r) \/ PublishPurge(r)
  PROVE  \E n \in Job : Publishes(r, n)
<1> DEFINE j == run[r]
           n == [j EXCEPT !.pc = "published"]
<1>1. j \in Job /\ JobShape(j)
  BY DEF TypeInv
<1>2. run' = [run EXCEPT ![r] = n] /\ top' = j.pushed /\ AllDone(j, j.pushed)
  BY DEF PublishPromote, PublishPurge, PutTop
<1>3. n \in Job
  BY <1>1 DEF Job
<1>4. /\ n.pc = "published" /\ n.op = j.op /\ n.inbox = j.inbox /\ n.loaded = j.loaded
      /\ n.victims = j.victims /\ n.doomed = j.doomed /\ n.targets = j.targets /\ n.pushed = j.pushed
  BY <1>1 DEF Job
<1> HIDE DEF n
<1>5. JobShape(n)
  BY <1>1, <1>4 DEF JobShape, PublishPromote, PublishPurge, PutTop, At
<1> QED
  BY <1>2, <1>3, <1>4, <1>5, Zenon DEF Keeps, AllDone, Publishes

(* The purge deletes b, and becomes n. *)
Deletes(r, b, n) ==
  /\ JobShape(n) /\ run' = [run EXCEPT ![r] = n] /\ n.pc = "published" /\ n.op = "purge"
  /\ Keeps(run[r], n, {"op", "inbox", "targets", "loaded", "pushed", "victims"})
  /\ n.doomed = run[r].doomed \ {b}

(* Deleting a blob crosses it off the list. *)
LEMMA DeleteEffect ==
  ASSUME TypeInv, NEW r \in Runs, NEW b \in Nars, DeleteBlob(r, b)
  PROVE  \E n \in Job : Deletes(r, b, n)
<1> DEFINE j == run[r]
           n == [j EXCEPT !.doomed = j.doomed \ {b}]
<1>1. j \in Job /\ JobShape(j)
  BY DEF TypeInv
<1>2. run' = [run EXCEPT ![r] = n] /\ j.op = "purge" /\ j.pc = "published"
  BY DEF DeleteBlob, At
<1>3. n \in Job
  BY <1>1 DEF Job
<1>4. /\ n.pc = j.pc /\ n.op = j.op /\ n.inbox = j.inbox /\ n.loaded = j.loaded
      /\ n.victims = j.victims /\ n.doomed = j.doomed \ {b} /\ n.targets = j.targets /\ n.pushed = j.pushed
  BY <1>1 DEF Job
<1> HIDE DEF n
<1>5. JobShape(n)
  BY <1>1, <1>2, <1>4 DEF JobShape
<1> QED
  BY <1>2, <1>3, <1>4, <1>5, Zenon DEF Keeps, Deletes

-------------------------------------------------------------------------------
(* Types and shapes hold in every initial state. *)
LEMMA TypeInit == Init => TypeInv
BY IdleJob DEF Init, TypeInv, RootMap

(* Every step keeps the types and the shapes. *)
LEMMA TypeStep == TypeInv /\ [Next]_vars => TypeInv'
<1> SUFFICES ASSUME TypeInv, [Next]_vars PROVE TypeInv'
  OBVIOUS
<1> USE PublishAssumption
<1>1. ASSUME NEW s \in Systems, NEW h \in Targets, StartBuild(s, h) PROVE TypeInv'
  <2>1. EntriesOf(arch_tag, s) \subseteq Hashes
    BY DEF TypeInv, EntriesOf, RootMap, Root
  <2>2. build' \in Build
    BY <1>1, <2>1 DEF StartBuild, Build
  <2> QED
    BY <1>1, <2>2 DEF StartBuild, TypeInv, registry
<1>2. CASE FinishBuild \/ FailBuild
  <2>1. build \in Build /\ UploadList \subseteq Hashes
    BY <1>2, ClosureKnown DEF TypeInv, FinishBuild, FailBuild, UploadList
  <2>2. \A E \in SUBSET UploadList : BuildReceipt(E) \in Receipt /\ {NarOf[h] : h \in E} \subseteq Nars
    BY <2>1 DEF BuildReceipt, Receipt, Build
  <2>3. PICK E \in SUBSET UploadList :
          /\ blobs' = blobs \cup {NarOf[h] : h \in E}
          /\ receipts' = receipts \/ receipts' = receipts \cup {BuildReceipt(E)}
    BY <1>2 DEF FinishBuild, FailBuild
  <2>4. blobs' \in SUBSET Nars /\ receipts' \in SUBSET Receipt
    BY <2>2, <2>3 DEF TypeInv
  <2> QED
    BY <1>2, <2>4 DEF TypeInv, FinishBuild, FailBuild
<1>3. ASSUME NEW r \in Runs, StartPromote(r) \/ StartPurge(r) PROVE TypeInv'
  <2>1. receipts' \subseteq receipts
    BY <1>3, Zenon DEF StartPromote, StartPurge
  <2>2. PICK n \in Job : JobShape(n) /\ run' = [run EXCEPT ![r] = n]
    BY <1>3, StartEffect
  <2>3. run' \in [Runs -> Job] /\ \A q \in Runs : JobShape(run'[q])
    BY <2>2, OneJob, Zenon
  <2> QED
    BY <1>3, <2>1, <2>3, Zenon DEF TypeInv, StartPromote, StartPurge, registry
<1>4. ASSUME NEW r \in Runs, DiscoverPromote(r) \/ DiscoverPurge(r) PROVE TypeInv'
  BY ZenonT(30), <1>4, DiscoverEffect, OneJob DEF Discovers, TypeInv, DiscoverPromote, DiscoverPurge, registry
<1>5. ASSUME NEW r \in Runs, NEW s \in Systems, ReadRoot(r, s) \/ LoadRoot(r, s) PROVE TypeInv'
  BY <1>5, ReadEffect, OneJob DEF Reads, TypeInv, ReadRoot, LoadRoot, registry
<1>6. ASSUME NEW r \in Runs, NEW s \in Systems, PromoteRoot(r, s) \/ PurgeRoot(r, s) PROVE TypeInv'
  <2>1. UNION {m.new_entries : m \in Incoming(r, s)} \subseteq Hashes
    BY DEF Incoming, TypeInv, Job, Receipt
  <2>2. ledger' \in [Systems -> SUBSET Hashes]
    BY <1>6, <2>1 DEF PromoteRoot, PurgeRoot, TypeInv
  <2>3. arch_tag' \in RootMap
    <3>1. PICK n \in Job, x \in Root : Pushes(r, s, n, x)
      BY <1>6, PushEffect
    <3> QED
      BY <3>1 DEF TypeInv, RootMap, Pushes
  <2>4. run' \in [Runs -> Job] /\ \A q \in Runs : JobShape(run'[q])
    <3>1. PICK n \in Job : JobShape(n) /\ run' = [run EXCEPT ![r] = n]
      BY ZenonT(30), <1>6, PushEffect DEF Pushes
    <3> QED
      BY <3>1, OneJob, Zenon
  <2>5. regime' = regime /\ top' = top /\ blobs' = blobs /\ build' = build /\ receipts' = receipts
    BY <1>6 DEF PromoteRoot, PurgeRoot
  <2> QED
    BY <2>2, <2>3, <2>4, <2>5, Zenon DEF TypeInv
<1>7. ASSUME NEW r \in Runs, PublishPromote(r) \/ PublishPurge(r) PROVE TypeInv'
  <2>1. run[r].pushed \in RootMap
    BY DEF TypeInv, Job
  <2> QED
    BY <1>7, <2>1, PublishEffect, OneJob DEF Publishes, TypeInv, PublishPromote, PublishPurge, PutTop
<1>8. ASSUME NEW r \in Runs, Evaluate(r) PROVE TypeInv'
  <2>1. PICK n \in Job : JobShape(n) /\ run' = [run EXCEPT ![r] = n]
    BY <1>8, EvaluateEffect, IdleJob DEF Evaluates
  <2> QED
    BY <1>8, <2>1, OneJob, Zenon DEF TypeInv, Evaluate, registry
<1>9. ASSUME NEW r \in Runs, NEW b \in Nars, DeleteBlob(r, b) PROVE TypeInv'
  BY <1>9, DeleteEffect, OneJob, Zenon DEF Deletes, TypeInv, DeleteBlob
<1>10. ASSUME NEW r \in Runs, Finish(r) \/ Abort(r) PROVE TypeInv'
  <2>1. run[r].inbox \subseteq Receipt
    BY DEF TypeInv, Job
  <2> QED
    BY <1>10, <2>1, IdleJob, OneJob DEF TypeInv, Finish, Abort, registry
<1>11. CASE Quiet \/ UNCHANGED vars
  BY <1>11 DEF Quiet, vars, registry, TypeInv
<1> QED
  BY <1>1, <1>2, <1>3, <1>4, <1>5, <1>6, <1>7, <1>8, <1>9, <1>10, <1>11 DEF Next

-------------------------------------------------------------------------------
(* The ledger. *)

(* LedgerInv of one job. *)
Fresh(j) ==
  \A s \in Systems : j.loaded[s] # NoRoot /\ j.pushed[s] = NoRoot =>
    j.loaded[s].entries = EntriesOf(arch_tag, s)

(* A job starts when no other is under way. *)
LEMMA Alone ==
  ASSUME TypeInv, Apart, NEW r \in Runs, StartPromote(r) \/ StartPurge(r)
  PROVE  \A q \in Runs : run[q].pc = "idle"
<1>1. \A q \in Runs : run[q].op = "none"
  BY Zenon DEF StartPromote, StartPurge, MayStart, Apart, TypeInv, Job
<1> QED
  BY <1>1 DEF TypeInv, JobShape

(* A step of the job under way that neither publishes nor forgets. *)
LEMMA LedgerFrame ==
  ASSUME TypeInv, LedgerInv, NEW r \in Runs, NEW n \in Job, JobShape(n),
         run' = [run EXCEPT ![r] = n], arch_tag' = arch_tag, ledger' = ledger,
         n.pc # "idle" => \A q \in Runs : q # r => run[q].pc = "idle",
         Fresh(n)
  PROVE  LedgerInv'
<1>1. run'[r] = n /\ \A q \in Runs : q # r => run'[q] = run[q]
  BY OneJob, Zenon
<1>2. IndexIsLedger'
  BY DEF LedgerInv, IndexIsLedger, EntriesOf
<1>3. \A p, q \in Runs : run'[p].pc # "idle" /\ run'[q].pc # "idle" => p = q
  BY <1>1 DEF LedgerInv
<1>4. \A q \in Runs, s \in Systems : run'[q].loaded[s] # NoRoot /\ run'[q].pushed[s] = NoRoot =>
        run'[q].loaded[s].entries = EntriesOf(arch_tag, s)
  <2> SUFFICES ASSUME NEW q \in Runs, NEW s \in Systems,
                      run'[q].loaded[s] # NoRoot, run'[q].pushed[s] = NoRoot
               PROVE  run'[q].loaded[s].entries = EntriesOf(arch_tag, s)
    OBVIOUS
  <2> QED
    BY <1>1 DEF LedgerInv, Fresh
<1>5. \A s : EntriesOf(arch_tag, s)' = EntriesOf(arch_tag, s)
  BY DEF EntriesOf
<1> QED
  BY <1>2, <1>3, <1>4, <1>5 DEF LedgerInv

(* While the jobs that publish roots are kept apart, every step keeps the      *)
(* ledger and the index together.                                              *)
LEMMA LedgerStep == TypeInv /\ Apart /\ LedgerInv /\ [Next]_vars => LedgerInv'
<1> SUFFICES ASSUME TypeInv, Apart, LedgerInv, [Next]_vars PROVE LedgerInv'
  OBVIOUS
<1> USE PublishAssumption
<1>idle. \A q, r \in Runs : run[r].pc # "idle" /\ q # r => run[q].pc = "idle"
  BY DEF LedgerInv
<1>fresh. \A r \in Runs : Fresh(run[r])
  BY DEF LedgerInv, Fresh
<1>1. CASE UNCHANGED <<arch_tag, run, ledger>>
  BY <1>1 DEF LedgerInv, IndexIsLedger, EntriesOf
<1>2. ASSUME NEW r \in Runs, StartPromote(r) \/ StartPurge(r) PROVE LedgerInv'
  <2>1. PICK n \in Job : /\ JobShape(n) /\ run' = [run EXCEPT ![r] = n]
                         /\ n.loaded = NoRoots
    BY <1>2, StartEffect
  <2>2. Fresh(n)
    BY <2>1, IdleJob DEF Fresh
  <2>3. arch_tag' = arch_tag /\ ledger' = ledger
    BY <1>2, Zenon DEF StartPromote, StartPurge, registry
  <2> QED
    BY <1>2, <2>1, <2>2, <2>3, Alone, LedgerFrame, Zenon
<1>3. ASSUME NEW r \in Runs, DiscoverPromote(r) \/ DiscoverPurge(r) PROVE LedgerInv'
  <2>1. PICK n \in Job : /\ JobShape(n) /\ run' = [run EXCEPT ![r] = n]
                         /\ n.loaded = run[r].loaded /\ n.pushed = run[r].pushed
    BY <1>3, DiscoverEffect DEF Keeps, Discovers
  <2>2. Fresh(n)
    BY <2>1, <1>fresh DEF Fresh
  <2>3. arch_tag' = arch_tag /\ ledger' = ledger /\ run[r].pc # "idle"
    BY <1>3 DEF DiscoverPromote, DiscoverPurge, registry, At
  <2> QED
    BY <1>idle, <2>1, <2>2, <2>3, LedgerFrame, Zenon
<1>4. ASSUME NEW r \in Runs, NEW s \in Systems, ReadRoot(r, s) \/ LoadRoot(r, s) PROVE LedgerInv'
  <2>1. PICK n \in Job :
          /\ JobShape(n) /\ run' = [run EXCEPT ![r] = n] /\ n.pushed = run[r].pushed
          /\ \/ n.loaded = run[r].loaded
             \/ \E x \in Root : /\ n.loaded = [run[r].loaded EXCEPT ![s] = x]
                                /\ x.entries = EntriesOf(arch_tag, s)
    BY <1>4, ReadEffect DEF Keeps, Reads
  <2>2. run[r].loaded \in RootMap
    BY DEF TypeInv, Job
  <2>3. Fresh(n)
    BY ZenonT(30), <2>1, <2>2, <1>fresh DEF Fresh, RootMap
  <2>4. arch_tag' = arch_tag /\ ledger' = ledger /\ run[r].pc # "idle"
    BY <1>4 DEF ReadRoot, LoadRoot, registry, At
  <2> QED
    BY ZenonT(30), <1>idle, <2>1, <2>3, <2>4, LedgerFrame
<1>5. ASSUME NEW r \in Runs, PublishPromote(r) \/ PublishPurge(r) PROVE LedgerInv'
  <2>1. PICK n \in Job : /\ JobShape(n) /\ run' = [run EXCEPT ![r] = n]
                         /\ n.loaded = run[r].loaded /\ n.pushed = run[r].pushed
    BY <1>5, PublishEffect DEF Keeps, Publishes
  <2>2. Fresh(n)
    BY <2>1, <1>fresh DEF Fresh
  <2>3. arch_tag' = arch_tag /\ ledger' = ledger /\ run[r].pc # "idle"
    BY <1>5 DEF PublishPromote, PublishPurge, PutTop, At
  <2> QED
    BY <1>idle, <2>1, <2>2, <2>3, LedgerFrame, Zenon
<1>6. ASSUME NEW r \in Runs, NEW b \in Nars, DeleteBlob(r, b) PROVE LedgerInv'
  <2>1. PICK n \in Job : /\ JobShape(n) /\ run' = [run EXCEPT ![r] = n]
                         /\ n.loaded = run[r].loaded /\ n.pushed = run[r].pushed
    BY <1>6, DeleteEffect DEF Keeps, Deletes
  <2>2. Fresh(n)
    BY <2>1, <1>fresh DEF Fresh
  <2>3. arch_tag' = arch_tag /\ ledger' = ledger /\ run[r].pc # "idle"
    BY <1>6 DEF DeleteBlob, At
  <2> QED
    BY <1>idle, <2>1, <2>2, <2>3, LedgerFrame, Zenon
<1>7. ASSUME NEW r \in Runs, run' = [run EXCEPT ![r] = IdleRun], arch_tag' = arch_tag, ledger' = ledger
      PROVE  LedgerInv'
  <2>1. Fresh(IdleRun) /\ IdleRun.pc = "idle"
    BY IdleJob DEF Fresh, IdleRun
  <2> QED
    BY ZenonT(30), <1>7, <2>1, IdleJob, LedgerFrame
<1>8. ASSUME NEW r \in Runs, Evaluate(r) PROVE LedgerInv'
  <2>1. arch_tag' = arch_tag /\ ledger' = ledger /\ run[r].pc # "idle"
    BY <1>8, Zenon DEF Evaluate, registry, At
  <2>2. CASE run' = [run EXCEPT ![r] = IdleRun]
    BY <1>7, <2>1, <2>2, Zenon
  <2>3. ASSUME NEW n \in Job, Evaluates(r, n) PROVE LedgerInv'
    <3>1. JobShape(n) /\ run' = [run EXCEPT ![r] = n]
      BY <2>3 DEF Evaluates
    <3>2. Fresh(n)
      BY <2>3, <1>fresh DEF Fresh, Evaluates, Spared
    <3> QED
      BY <1>idle, <2>1, <3>1, <3>2, LedgerFrame, Zenon
  <2> QED
    BY <1>8, <2>2, <2>3, EvaluateEffect
<1>9. ASSUME NEW r \in Runs, NEW s \in Systems, PromoteRoot(r, s) \/ PurgeRoot(r, s) PROVE LedgerInv'
  <2>0. PICK n \in Job, x \in Root : Pushes(r, s, n, x)
    BY <1>9, PushEffect
  <2>1. /\ JobShape(n) /\ run' = [run EXCEPT ![r] = n] /\ n.pc = run[r].pc
        /\ Keeps(run[r], n, {"op", "inbox", "targets", "loaded", "victims", "doomed"})
        /\ n.pushed = [run[r].pushed EXCEPT ![s] = x]
        /\ arch_tag' = [arch_tag EXCEPT ![s] = x]
        /\ run[r].loaded[s] \in Root /\ run[r].loaded[s] # NoRoot
        /\ \/ PromoteRoot(r, s) /\ x = PromotedRoot(run[r].loaded[s], Incoming(r, s))
           \/ /\ PurgeRoot(r, s)
              /\ x.entries = run[r].loaded[s].entries \ run[r].victims
              /\ x.gc_roots = run[r].loaded[s].gc_roots
    BY <2>0 DEF Pushes
  <2>keep. n.loaded = run[r].loaded
    BY <2>1 DEF Keeps
  <2>2. /\ run[r].pushed \in RootMap /\ run[r].pushed[s] = NoRoot /\ run[r].pc # "idle"
        /\ arch_tag \in RootMap /\ ledger \in [Systems -> SUBSET Hashes] /\ x # NoRoot
    BY <1>9, SMTT(30) DEF PromoteRoot, PurgeRoot, At, TypeInv, Job, Root
  <2>3. run[r].loaded[s].entries = ledger[s]
    BY <2>1, <2>2 DEF LedgerInv, IndexIsLedger
  <2>4. x.entries = ledger'[s]
    <3>1. CASE PromoteRoot(r, s) /\ x = PromotedRoot(run[r].loaded[s], Incoming(r, s))
      <4>1. x.entries = run[r].loaded[s].entries \cup UNION {m.new_entries : m \in Incoming(r, s)}
        BY <3>1 DEF PromotedRoot
      <4>2. ledger'[s] = ledger[s] \cup UNION {m.new_entries : m \in Incoming(r, s)}
        BY <3>1, <2>2 DEF PromoteRoot
      <4> QED
        BY <2>3, <4>1, <4>2
    <3>2. CASE PurgeRoot(r, s) /\ x.entries = run[r].loaded[s].entries \ run[r].victims
      BY <2>2, <2>3, <3>2 DEF PurgeRoot
    <3> QED
      BY <2>1, <3>1, <3>2
  <2>5. \A t \in Systems : t # s => ledger'[t] = ledger[t] /\ EntriesOf(arch_tag, t)' = EntriesOf(arch_tag, t)
    BY <1>9, <2>1, <2>2 DEF PromoteRoot, PurgeRoot, EntriesOf, RootMap
  <2>6. EntriesOf(arch_tag, s)' = x.entries
    BY <2>1, <2>2 DEF EntriesOf, RootMap
  <2>7. IndexIsLedger'
    BY <2>4, <2>5, <2>6 DEF IndexIsLedger, LedgerInv
  <2>8. run'[r] = n /\ \A q \in Runs : q # r => run'[q] = run[q]
    BY ZenonT(30), <2>1, OneJob
  <2>9. \A p, q \in Runs : run'[p].pc # "idle" /\ run'[q].pc # "idle" => p = q
    BY <2>1, <2>8 DEF LedgerInv
  <2>10. ASSUME NEW q \in Runs, NEW t \in Systems, run'[q].loaded[t] # NoRoot, run'[q].pushed[t] = NoRoot
         PROVE  run'[q].loaded[t].entries = EntriesOf(arch_tag, t)'
    <3>1. CASE q # r
      <4>1. run[q].pc = "idle" /\ run[q].loaded[t] = NoRoot
        <5>1. run[q] = IdleRun
          BY <1>idle, <2>2, <3>1 DEF TypeInv, JobShape
        <5> QED
          BY <5>1, IdleJob DEF IdleRun
      <4> QED
        BY <2>8, <2>10, <3>1, <4>1
    <3>2. CASE q = r
      <4>1. t # s /\ run[r].pushed[t] = NoRoot /\ run[r].loaded[t] # NoRoot
        BY <2>1, <2>2, <2>8, <2>10, <2>keep, <3>2 DEF RootMap
      <4>2. run[r].loaded[t].entries = EntriesOf(arch_tag, t)
        BY <4>1 DEF LedgerInv
      <4>3. EntriesOf(arch_tag, t)' = EntriesOf(arch_tag, t)
        BY <2>5, <4>1
      <4> QED
        BY <2>8, <2>keep, <3>2, <4>2, <4>3, SMTT(30)
    <3> QED
      BY <3>1, <3>2
  <2> QED
    BY <2>7, <2>9, <2>10 DEF LedgerInv
<1>10. ASSUME NEW r \in Runs, Finish(r) \/ Abort(r) PROVE LedgerInv'
  BY <1>7, <1>10 DEF Finish, Abort, registry
<1>11. CASE Quiet \/ UNCHANGED vars \/ FinishBuild \/ FailBuild \/ \E s \in Systems, h \in Targets : StartBuild(s, h)
  BY <1>1, <1>11 DEF Quiet, vars, registry, FinishBuild, FailBuild, StartBuild
<1> QED
  BY <1>2, <1>3, <1>4, <1>5, <1>6, <1>8, <1>9, <1>10, <1>11 DEF Next

(* So it is in the beginning. *)
LEMMA LedgerInit == Init => LedgerInv
<1> SUFFICES ASSUME Init PROVE LedgerInv
  OBVIOUS
<1>1. /\ \A r \in Runs : run[r] = IdleRun /\ IdleRun.pc = "idle" /\ IdleRun.loaded = NoRoots
      /\ \A s \in Systems : EntriesOf(arch_tag, s) = {} /\ ledger[s] = {}
  BY IdleJob, Zenon DEF Init, EntriesOf, IdleRun
<1> QED
  BY <1>1, IdleJob DEF LedgerInv, IndexIsLedger

(* Where promotes and purges are kept apart, whatever else overlaps, fails or   *)
(* dies, the published index of every architecture holds what was promoted and  *)
(* not purged since, for any number of paths, architectures and jobs.           *)
THEOREM LedgerKept ==
  ASSUME \A g \in Regimes : {"promote", "purge"} \subseteq g.serialised
  PROVE  Spec => []IndexIsLedger
<1> DEFINE Inv == TypeInv /\ LedgerInv
<1>1. TypeInv => Apart
  BY DEF TypeInv, Apart
<1>2. Init => Inv
  BY TypeInit, LedgerInit
<1>3. Inv /\ [Next]_vars => Inv'
  BY <1>1, TypeStep, LedgerStep
<1>4. Inv => IndexIsLedger
  BY DEF LedgerInv
<1> QED
  BY <1>2, <1>3, <1>4, PTL DEF Spec

-------------------------------------------------------------------------------
(* One concurrency group. *)

(* The jobs beside one that is under way are idle. *)
LEMMA Others ==
  ASSUME TypeInv, LedgerInv, NEW r \in Runs, run[r].pc # "idle"
  PROVE  \A q \in Runs : q # r => run[q] = IdleRun
BY DEF TypeInv, LedgerInv, JobShape

(* So are all when a job starts. *)
LEMMA NoneYet ==
  ASSUME TypeInv, OneGroup, NEW r \in Runs, StartPromote(r) \/ StartPurge(r)
  PROVE  /\ \A q \in Runs : run[q] = IdleRun
         /\ build = NoBuild
         /\ StartPurge(r) => receipts = {}
<1>1. Apart
  BY DEF OneGroup, Apart
<1>2. \A q \in Runs : run[q].pc = "idle"
  BY <1>1, Alone
<1>3. build = NoBuild
  BY Zenon DEF StartPromote, StartPurge, MayStart, OneGroup
<1>4. StartPurge(r) => receipts = {}
  BY Zenon DEF StartPurge, MayStart, OneGroup
<1> QED
  BY <1>2, <1>3, <1>4 DEF TypeInv, JobShape

(* Nothing is under way during a build. *)
LEMMA BuildAlone ==
  ASSUME TypeInv, OneGroup, GroupInv, build # NoBuild \/ MayStart("build")
  PROVE  \A q \in Runs : run[q] = IdleRun
<1>1. CASE build # NoBuild
  BY <1>1 DEF GroupInv, TypeInv, JobShape
<1>2. CASE MayStart("build")
  <2>1. \A q \in Runs : run[q].op = "none"
    BY <1>2 DEF MayStart, OneGroup
  <2> QED
    BY <2>1 DEF TypeInv, JobShape
<1> QED
  BY <1>1, <1>2

(* What waits, when one job at most is under way. *)
LEMMA PendingNow ==
  ASSUME NEW r \in Runs, \A q \in Runs : q # r => run[q] = IdleRun
  PROVE  Pending = receipts \cup run[r].inbox
BY DEF Pending, IdleRun

(* And after a step of it. *)
LEMMA PendingNext ==
  ASSUME TypeInv, NEW r \in Runs, \A q \in Runs : q # r => run[q] = IdleRun,
         NEW n \in Job, JobShape(n), run' = [run EXCEPT ![r] = n]
  PROVE  /\ Pending' = receipts' \cup n.inbox
         /\ run'[r] = n /\ \A q \in Runs : q # r => run'[q] = IdleRun
<1>1. run'[r] = n /\ \A q \in Runs : q # r => run'[q] = IdleRun
  BY OneJob, Zenon
<1>2. UNION {run'[q].inbox : q \in Runs} = n.inbox
  BY <1>1 DEF IdleRun
<1> QED
  BY <1>1, <1>2 DEF Pending

(* A step of the one job under way, as far as GroupInv goes. *)
LEMMA GroupFrame ==
  ASSUME TypeInv, NEW r \in Runs, \A q \in Runs : q # r => run[q] = IdleRun,
         NEW n \in Job, JobShape(n), run' = [run EXCEPT ![r] = n],
         n.op = "purge" => receipts' = {}, n.pc # "idle" => build' = NoBuild
  PROVE  GroupInv'
<1>1. run'[r] = n /\ \A q \in Runs : q # r => run'[q] = IdleRun
  BY PendingNext, Zenon
<1>2. IdleRun.op = "none" /\ IdleRun.pc = "idle"
  BY SMTT(30) DEF IdleRun
<1> QED
  BY <1>1, <1>2 DEF GroupInv

(* A step of a job that has started goes on with it: the job n that it becomes. *)
JobStep(r, n) ==
  /\ n \in Job /\ JobShape(n) /\ run' = [run EXCEPT ![r] = n]
  /\ n.op \in {run[r].op, "none"}
  /\ n.pc # "idle" => n.op # "none" /\ build' = build
  /\ \/ receipts' = receipts
     \/ Abort(r) /\ receipts' = receipts \cup run[r].inbox /\ n.op = "none"

(* The steps of a job under way. *)
Running(r) ==
  \/ DiscoverPromote(r) \/ PublishPromote(r) \/ DiscoverPurge(r) \/ Evaluate(r) \/ PublishPurge(r)
  \/ Finish(r) \/ Abort(r)
  \/ \E s \in Systems : ReadRoot(r, s) \/ PromoteRoot(r, s) \/ LoadRoot(r, s) \/ PurgeRoot(r, s)
  \/ \E b \in Nars : DeleteBlob(r, b)

(* Every step of a job under way is a JobStep. *)
LEMMA RunningStep ==
  ASSUME TypeInv, NEW r \in Runs, Running(r)
  PROVE  run[r].pc # "idle" /\ \E n : JobStep(r, n)
<1>idle. IdleRun.op = "none" /\ IdleRun.pc = "idle"
  BY DEF IdleRun
<1>1. CASE DiscoverPromote(r) \/ DiscoverPurge(r)
  <2>1. PICK n \in Job : JobShape(n) /\ run' = [run EXCEPT ![r] = n] /\ n.op = run[r].op
    BY <1>1, DiscoverEffect DEF Keeps, Discovers
  <2>2. build' = build /\ receipts' = receipts /\ run[r].pc # "idle"
    BY <1>1 DEF DiscoverPromote, DiscoverPurge, At
  <2> QED
    BY <2>1, <2>2, Zenon DEF JobStep, JobShape
<1>2. CASE PublishPromote(r) \/ PublishPurge(r)
  <2>1. PICK n \in Job : JobShape(n) /\ run' = [run EXCEPT ![r] = n] /\ n.op = run[r].op
    BY <1>2, PublishEffect DEF Keeps, Publishes
  <2>2. build' = build /\ receipts' = receipts /\ run[r].pc # "idle"
    BY <1>2 DEF PublishPromote, PublishPurge, PutTop, At
  <2> QED
    BY <2>1, <2>2, Zenon DEF JobStep, JobShape
<1>3. ASSUME NEW s \in Systems, ReadRoot(r, s) \/ LoadRoot(r, s)
      PROVE  run[r].pc # "idle" /\ \E n : JobStep(r, n)
  <2>1. PICK n \in Job : JobShape(n) /\ run' = [run EXCEPT ![r] = n] /\ n.op = run[r].op
    BY <1>3, ReadEffect DEF Keeps, Reads
  <2>2. build' = build /\ receipts' = receipts /\ run[r].pc # "idle"
    BY <1>3 DEF ReadRoot, LoadRoot, At
  <2> QED
    BY ZenonT(30), <2>1, <2>2 DEF JobStep, JobShape
<1>4. ASSUME NEW s \in Systems, PromoteRoot(r, s) \/ PurgeRoot(r, s)
      PROVE  run[r].pc # "idle" /\ \E n : JobStep(r, n)
  <2>1. PICK n \in Job, x \in Root : Pushes(r, s, n, x)
    BY <1>4, PushEffect
  <2>2. JobShape(n) /\ run' = [run EXCEPT ![r] = n] /\ n.op = run[r].op
    BY <2>1 DEF Pushes, Keeps
  <2>3. build' = build /\ receipts' = receipts /\ run[r].pc # "idle"
    BY <1>4 DEF PromoteRoot, PurgeRoot, At
  <2> QED
    BY <2>2, <2>3, Zenon DEF JobStep, JobShape
<1>5. CASE Evaluate(r)
  <2>1. build' = build /\ receipts' = receipts
    BY <1>5, Zenon DEF Evaluate
  <2>2. run[r].op = "purge" /\ run[r].pc = "load"
    BY <1>5, Zenon DEF Evaluate, At
  <2>3. CASE run' = [run EXCEPT ![r] = IdleRun]
    BY <1>idle, <2>1, <2>2, <2>3, IdleJob, Zenon DEF JobStep
  <2>4. ASSUME NEW n \in Job, Evaluates(r, n) PROVE JobStep(r, n)
    BY <2>1, <2>2, <2>4 DEF JobStep, Evaluates
  <2> QED
    BY <1>5, <2>2, <2>3, <2>4, EvaluateEffect
<1>6. ASSUME NEW b \in Nars, DeleteBlob(r, b) PROVE run[r].pc # "idle" /\ \E n : JobStep(r, n)
  <2>1. PICK n \in Job : JobShape(n) /\ run' = [run EXCEPT ![r] = n] /\ n.op = run[r].op
    BY <1>6, DeleteEffect DEF Keeps, Deletes
  <2>2. build' = build /\ receipts' = receipts /\ run[r].pc # "idle"
    BY <1>6 DEF DeleteBlob, At
  <2> QED
    BY <2>1, <2>2, Zenon DEF JobStep, JobShape
<1>7. CASE Finish(r) \/ Abort(r)
  <2>1. run' = [run EXCEPT ![r] = IdleRun] /\ run[r].pc # "idle"
    BY <1>7 DEF Finish, Abort
  <2>2. receipts' = receipts \/ (Abort(r) /\ receipts' = receipts \cup run[r].inbox)
    BY <1>7, SMTT(30) DEF Finish, Abort
  <2> QED
    BY <1>idle, <2>1, <2>2, IdleJob, Zenon DEF JobStep
<1> QED
  BY <1>1, <1>2, <1>3, <1>4, <1>5, <1>6, <1>7 DEF Running

(* A step is one of a build, of a job that starts, or of a job under way. *)
LEMMA Steps ==
  ASSUME [Next]_vars
  PROVE  \/ UNCHANGED vars
         \/ (\E s \in Systems, h \in Targets : StartBuild(s, h)) \/ FinishBuild \/ FailBuild
         \/ \E r \in Runs : StartPromote(r) \/ StartPurge(r)
         \/ \E r \in Runs : Running(r)
BY DEF Next, Quiet, Running

(* The regime of a cache never changes. *)
LEMMA RegimeFixed == [Next]_vars => regime' = regime
<1> SUFFICES ASSUME [Next]_vars PROVE regime' = regime
  OBVIOUS
<1>1. CASE UNCHANGED vars
  BY <1>1 DEF vars
<1>2. CASE (\E s \in Systems, h \in Targets : StartBuild(s, h)) \/ FinishBuild \/ FailBuild
  BY <1>2 DEF StartBuild, FinishBuild, FailBuild
<1>3. ASSUME NEW r \in Runs, StartPromote(r) \/ StartPurge(r) PROVE regime' = regime
  BY <1>3, Zenon DEF StartPromote, StartPurge
<1>4. ASSUME NEW r \in Runs, Running(r) PROVE regime' = regime
  BY <1>4, Zenon DEF Running, DiscoverPromote, PublishPromote, DiscoverPurge, Evaluate, PublishPurge, PutTop,
              Finish, Abort, ReadRoot, PromoteRoot, LoadRoot, PurgeRoot, DeleteBlob
<1> QED
  BY <1>1, <1>2, <1>3, <1>4, Steps

(* Every step keeps the group apart. *)
LEMMA GroupStep == TypeInv /\ OneGroup /\ LedgerInv /\ GroupInv /\ [Next]_vars => GroupInv'
<1> SUFFICES ASSUME TypeInv, OneGroup, LedgerInv, GroupInv, [Next]_vars PROVE GroupInv'
  OBVIOUS
<1>1. CASE UNCHANGED vars
  BY <1>1 DEF vars, GroupInv
<1>2. CASE (\E s \in Systems, h \in Targets : StartBuild(s, h)) \/ FinishBuild \/ FailBuild
  <2>1. \A q \in Runs : run[q] = IdleRun
    BY <1>2, BuildAlone DEF StartBuild, FinishBuild, FailBuild
  <2>2. run' = run
    BY <1>2 DEF StartBuild, FinishBuild, FailBuild
  <2> QED
    BY <2>1, <2>2 DEF GroupInv, IdleRun
<1>3. ASSUME NEW r \in Runs, StartPromote(r) \/ StartPurge(r) PROVE GroupInv'
  <2>1. PICK n \in Job :
          /\ JobShape(n) /\ run' = [run EXCEPT ![r] = n]
          /\ \/ StartPromote(r) /\ n.op = "promote"
             \/ StartPurge(r) /\ n.op = "purge" /\ receipts' = receipts
    BY <1>3, StartEffect
  <2>2. build' = NoBuild /\ \A q \in Runs : run[q] = IdleRun
    BY <1>3, NoneYet, Zenon DEF StartPromote, StartPurge
  <2>3. n.op = "purge" => receipts' = {}
    BY <1>3, <2>1, NoneYet
  <2> QED
    BY ZenonT(30), <2>1, <2>2, <2>3, GroupFrame
<1>4. ASSUME NEW r \in Runs, Running(r) PROVE GroupInv'
  <2>1. PICK n : JobStep(r, n)
    BY <1>4, RunningStep
  <2>2. run[r].pc # "idle" /\ \A q \in Runs : q # r => run[q] = IdleRun
    BY <1>4, RunningStep, Others
  <2>3. n.pc # "idle" => build' = NoBuild
    BY <2>1, <2>2 DEF GroupInv, JobStep
  <2>4. n.op = "purge" => receipts' = {}
    BY <2>1 DEF GroupInv, JobStep
  <2> QED
    BY <2>1, <2>2, <2>3, <2>4, GroupFrame, Zenon DEF JobStep
<1> QED
  BY <1>1, <1>2, <1>3, <1>4, Steps

-------------------------------------------------------------------------------
(* Blobs. *)

(* The group includes builds, and the published index can be read. *)
Careful == OneGroup /\ ~ regime.fetch_may_fail

(* What a step of the job under way may rely on. *)
LEMMA BlobNow ==
  ASSUME TypeInv, LedgerInv, BlobInv, NEW r \in Runs, Running(r)
  PROVE  /\ run[r] \in Job /\ JobShape(run[r]) /\ arch_tag \in RootMap /\ top \in RootMap
         /\ \A q \in Runs : q # r => run[q] = IdleRun
         /\ PurgeInv(run[r], arch_tag) /\ PromoteInv(run[r], top)
         /\ BlobsKept(receipts \cup run[r].inbox, arch_tag, top, blobs)
<1>1. \A q \in Runs : q # r => run[q] = IdleRun
  BY RunningStep, Others
<1>2. Pending = receipts \cup run[r].inbox
  BY <1>1, PendingNow
<1> QED
  BY <1>1, <1>2 DEF TypeInv, BlobInv

(* And what it has to show. *)
LEMMA BlobFrame ==
  ASSUME TypeInv, NEW r \in Runs, \A q \in Runs : q # r => run[q] = IdleRun,
         NEW n \in Job, JobShape(n), run' = [run EXCEPT ![r] = n],
         PurgeInv(n, arch_tag'), PromoteInv(n, top'),
         BlobsKept(receipts' \cup n.inbox, arch_tag', top', blobs')
  PROVE  BlobInv'
<1>1. run'[r] = n /\ (\A q \in Runs : q # r => run'[q] = IdleRun) /\ Pending' = receipts' \cup n.inbox
  BY PendingNext, Zenon
<1>2. PurgeInv(IdleRun, arch_tag') /\ PromoteInv(IdleRun, top')
  BY Zenon DEF PurgeInv, PromoteInv, IdleRun
<1>3. \A q \in Runs : PurgeInv(run'[q], arch_tag') /\ PromoteInv(run'[q], top')
  BY <1>1, <1>2, Zenon
<1>4. BlobsKept(Pending', arch_tag', top', blobs')
  BY <1>1
<1> QED
  BY <1>3, <1>4 DEF BlobInv

(* A build adds blobs, and a receipt whose blobs are there. *)
LEMMA BlobBuild ==
  ASSUME TypeInv, OneGroup, GroupInv, BlobInv,
         (\E s \in Systems, h \in Targets : StartBuild(s, h)) \/ FinishBuild \/ FailBuild
  PROVE  BlobInv'
<1>1. /\ run' = run /\ arch_tag' = arch_tag /\ top' = top
      /\ blobs \subseteq blobs' /\ receipts \subseteq receipts'
      /\ \A m \in receipts' \ receipts : \A h \in m.new_entries : NarOf[h] \in blobs'
  <2>1. CASE \E s \in Systems, h \in Targets : StartBuild(s, h)
    BY <2>1 DEF StartBuild, registry
  <2>2. CASE FinishBuild
    <3>1. PICK exported :
            /\ blobs' = blobs \cup {NarOf[h] : h \in exported}
            /\ receipts' = receipts \cup {BuildReceipt(exported)}
      BY <2>2 DEF FinishBuild
    <3>2. BuildReceipt(exported).new_entries = exported
      BY DEF BuildReceipt
    <3> QED
      BY <2>2, <3>1, <3>2 DEF FinishBuild
  <2>3. CASE FailBuild
    BY <2>3 DEF FailBuild
  <2> QED
    BY <2>1, <2>2, <2>3
<1>2. Pending \subseteq Pending' /\ Pending' \ Pending \subseteq receipts' \ receipts
  BY <1>1 DEF Pending
<1>3. BlobsKept(Pending', arch_tag, top, blobs')
  BY <1>1, <1>2 DEF BlobInv, BlobsKept
<1> QED
  BY <1>1, <1>3 DEF BlobInv

(* A job that starts takes receipts with it, or none. *)
LEMMA BlobStart ==
  ASSUME TypeInv, OneGroup, BlobInv, NEW r \in Runs, StartPromote(r) \/ StartPurge(r)
  PROVE  BlobInv'
<1>1. PICK n \in Job :
        /\ JobShape(n) /\ run' = [run EXCEPT ![r] = n]
        /\ n.pc = "discover" /\ n.pushed = NoRoots /\ n.doomed = {}
        /\ receipts' \cup n.inbox = receipts
  BY StartEffect
<1>2. \A q \in Runs : run[q] = IdleRun
  BY NoneYet
<1>3. arch_tag' = arch_tag /\ top' = top /\ blobs' = blobs
  BY Zenon DEF StartPromote, StartPurge, registry
<1>4. Pending = receipts
  <2>1. \A q \in Runs : run[q].inbox = {}
    BY <1>2 DEF IdleRun
  <2> QED
    BY <2>1 DEF Pending
<1>5. PurgeInv(n, arch_tag') /\ PromoteInv(n, top')
  BY <1>1, IdleJob DEF PurgeInv, PromoteInv, TypeInv, Job
<1>6. BlobsKept(receipts' \cup n.inbox, arch_tag', top', blobs')
  BY <1>1, <1>3, <1>4 DEF BlobInv
<1> QED
  BY <1>1, <1>2, <1>5, <1>6, BlobFrame, Zenon

(* A step of a job under way. *)
LEMMA BlobRunning ==
  ASSUME TypeInv, Careful, LedgerInv, GroupInv, BlobInv, NEW r \in Runs, Running(r),
         \A g, h \in Hashes : NarOf[g] = NarOf[h] => g = h
  PROVE  BlobInv'
<1> DEFINE j == run[r]
<1>now. /\ j \in Job /\ JobShape(j) /\ arch_tag \in RootMap /\ top \in RootMap
        /\ \A q \in Runs : q # r => run[q] = IdleRun
        /\ PurgeInv(j, arch_tag) /\ PromoteInv(j, top)
        /\ BlobsKept(receipts \cup j.inbox, arch_tag, top, blobs)
  BY Zenon, BlobNow
<1>1. CASE DiscoverPromote(r) \/ DiscoverPurge(r)
  <2>1. PICK n \in Job, seen \in SeenSystems : Discovers(r, n, seen)
    BY <1>1, DiscoverEffect
  <2>2. arch_tag' = arch_tag /\ top' = top /\ blobs' = blobs /\ receipts' = receipts
    BY <1>1 DEF DiscoverPromote, DiscoverPurge, registry
  <2>3. seen = Listed
    BY DEF SeenSystems, Careful
  <2>4. /\ JobShape(n) /\ run' = [run EXCEPT ![r] = n] /\ n.op = j.op /\ n.inbox = j.inbox
        /\ n.doomed = j.doomed /\ n.victims = j.victims /\ n.pushed = j.pushed
    BY <2>1 DEF Discovers, Keeps
  <2>5. PromoteInv(n, top)
    BY <2>1, <2>3 DEF Discovers, PromoteInv, Listed
  <2>6. PurgeInv(n, arch_tag)
    <3> SUFFICES ASSUME n.op = "purge" PROVE PurgeInv(n, arch_tag)
      BY DEF PurgeInv
    <3>1. n.pc = "load" /\ n.targets = IF seen = {} THEN Systems ELSE seen
      BY <2>1 DEF Discovers
    <3>2. receipts \cup j.inbox = {}
      BY <1>now, <2>4, Zenon DEF JobShape, GroupInv
    <3>3. \A s \in Systems \ n.targets : EntriesOf(arch_tag, s) = {}
      BY <1>now, <2>3, <3>1, <3>2 DEF BlobsKept, Listed
    <3>4. \A s \in n.targets : n.pushed[s] = NoRoot
      BY <3>1, <2>1 DEF Discovers, JobShape, Job
    <3> QED
      BY <1>now, <2>4, <3>1, <3>3, <3>4, Zenon DEF PurgeInv
  <2> QED
    BY <1>now, <2>2, <2>4, <2>5, <2>6, BlobFrame, Zenon
<1>2. CASE PublishPromote(r) \/ PublishPurge(r)
  <2>1. PICK n \in Job : Publishes(r, n)
    BY <1>2, PublishEffect
  <2>2. arch_tag' = arch_tag /\ top' = j.pushed /\ blobs' = blobs /\ receipts' = receipts
    BY <1>2 DEF PublishPromote, PublishPurge, PutTop
  <2>3. /\ JobShape(n) /\ run' = [run EXCEPT ![r] = n] /\ n.op = j.op /\ n.inbox = j.inbox
        /\ n.doomed = j.doomed /\ n.victims = j.victims /\ n.pushed = j.pushed
        /\ n.targets = j.targets /\ n.pc = "published"
        /\ \A s \in j.targets : j.pushed[s] # NoRoot
    BY <2>1 DEF Publishes, Keeps
  <2>4. (j.op = "promote" /\ j.pc = "push") \/ (j.op = "purge" /\ j.pc = "compact")
    BY <1>2 DEF PublishPromote, PublishPurge, PutTop, At
  <2>5. PromoteInv(n, top')
    BY <1>now, <2>2, <2>3, <2>4, Zenon DEF PromoteInv
  <2>6. PurgeInv(n, arch_tag)
    BY <1>now, <2>3, <2>4, Zenon DEF PurgeInv
  <2>7. BlobsKept(receipts \cup j.inbox, arch_tag, top', blobs)
    <3> SUFFICES ASSUME NEW s \in Systems, EntriesOf(arch_tag, s) # {}, top'[s] = NoRoot
                 PROVE  \E m \in receipts \cup j.inbox : m.system = s
      BY <1>now DEF BlobsKept
    <3>1. s \notin j.targets
      BY <2>2, <2>3
    <3>2. CASE j.op = "promote"
      <4>1. top[s] = NoRoot
        BY <1>now, <2>4, <3>1, <3>2 DEF PromoteInv
      <4> QED
        BY <1>now, <4>1 DEF BlobsKept
    <3>3. CASE j.op = "purge"
      BY <1>now, <2>4, <3>1, <3>3 DEF PurgeInv
    <3> QED
      BY <2>4, <3>2, <3>3
  <2> QED
    BY <1>now, <2>2, <2>3, <2>5, <2>6, <2>7, BlobFrame, Zenon
<1>3. ASSUME NEW s \in Systems, ReadRoot(r, s) \/ LoadRoot(r, s) PROVE BlobInv'
  <2>1. PICK n \in Job : Reads(r, s, n)
    BY <1>3, ReadEffect
  <2>2. arch_tag' = arch_tag /\ top' = top /\ blobs' = blobs /\ receipts' = receipts
    BY <1>3 DEF ReadRoot, LoadRoot, registry
  <2>3. /\ JobShape(n) /\ run' = [run EXCEPT ![r] = n] /\ n.op = j.op /\ n.inbox = j.inbox
        /\ n.doomed = j.doomed /\ n.victims = j.victims /\ n.pushed = j.pushed /\ n.pc = j.pc
    BY <2>1 DEF Reads, Keeps
  <2>4. \/ n.targets = j.targets
        \/ /\ j.op = "purge" /\ j.pc = "load" /\ n.targets = j.targets \ {s}
           /\ EntriesOf(arch_tag, s) = {}
    BY <2>1 DEF Reads, LoadRoot, At, EntriesOf
  <2>5. PromoteInv(n, top)
    BY <1>now, <2>3, <2>4 DEF PromoteInv
  <2>6. PurgeInv(n, arch_tag)
    BY <1>now, <2>3, <2>4, Zenon DEF PurgeInv
  <2> QED
    BY <1>now, <2>2, <2>3, <2>5, <2>6, BlobFrame, Zenon
<1>4. ASSUME NEW s \in Systems, PromoteRoot(r, s) \/ PurgeRoot(r, s) PROVE BlobInv'
  <2>1. PICK n \in Job, x \in Root : Pushes(r, s, n, x)
    BY <1>4, PushEffect
  <2>2. top' = top /\ blobs' = blobs /\ receipts' = receipts
    BY <1>4 DEF PromoteRoot, PurgeRoot
  <2>3. /\ JobShape(n) /\ run' = [run EXCEPT ![r] = n] /\ n.op = j.op /\ n.inbox = j.inbox
        /\ n.doomed = j.doomed /\ n.victims = j.victims /\ n.targets = j.targets /\ n.pc = j.pc
        /\ n.pushed = [j.pushed EXCEPT ![s] = x]
    BY <2>1, Zenon DEF Pushes, Keeps
  <2>4. j.pushed \in RootMap /\ j.pushed[s] = NoRoot /\ s \in j.targets
    BY <1>4, <1>now DEF PromoteRoot, PurgeRoot, Job
  <2>5. x # NoRoot
    BY PublishAssumption DEF Root
  <2>6. /\ EntriesOf(arch_tag', s) = x.entries
        /\ \A t \in Systems : t # s => EntriesOf(arch_tag', t) = EntriesOf(arch_tag, t)
    BY <1>now, <2>1, <2>5, Zenon DEF Pushes, EntriesOf, RootMap
  <2>7. j.loaded[s].entries = EntriesOf(arch_tag, s)
    BY <2>1, <2>4 DEF Pushes, LedgerInv
  <2>8. PromoteInv(n, top)
    BY <1>now, <2>3, Zenon DEF PromoteInv
  <2>9. CASE PromoteRoot(r, s)
    <3>1. j.op = "promote"
      BY <2>9 DEF PromoteRoot, At
    <3>2. x.entries = EntriesOf(arch_tag, s) \cup UNION {m.new_entries : m \in Incoming(r, s)}
      <4>1. x = PromotedRoot(j.loaded[s], Incoming(r, s))
        BY <2>1, <2>9, <3>1 DEF Pushes, PurgeRoot, At
      <4> QED
        BY <2>7, <4>1 DEF PromotedRoot
    <3>3. PurgeInv(n, arch_tag')
      BY <2>3, <3>1 DEF PurgeInv
    <3>4. BlobsKept(receipts \cup j.inbox, arch_tag', top, blobs)
      <4>1. \A t \in Systems : \A h \in EntriesOf(arch_tag', t) : NarOf[h] \in blobs
        BY <1>now, <2>6, <3>2 DEF BlobsKept, Incoming
      <4>2. ASSUME NEW t \in Systems, EntriesOf(arch_tag', t) # {}, top[t] = NoRoot
            PROVE  \E m \in receipts \cup j.inbox : m.system = t
        <5>1. CASE EntriesOf(arch_tag, t) # {}
          BY <1>now, <4>2, <5>1 DEF BlobsKept
        <5>2. CASE EntriesOf(arch_tag, t) = {}
          <6>1. t = s /\ Incoming(r, s) # {}
            BY <2>6, <3>2, <4>2, <5>2
          <6> QED
            BY <6>1 DEF Incoming
        <5> QED
          BY <5>1, <5>2
      <4> QED
        BY <1>now, <4>1, <4>2 DEF BlobsKept
    <3> QED
      BY <1>now, <2>2, <2>3, <2>8, <3>3, <3>4, BlobFrame, Zenon
  <2>10. CASE PurgeRoot(r, s)
    <3>1. j.op = "purge" /\ j.pc = "compact"
      BY <2>10 DEF PurgeRoot, At
    <3>2. x.entries = EntriesOf(arch_tag, s) \ j.victims
      <4>1. x.entries = j.loaded[s].entries \ j.victims
        BY <2>1, <2>10, <3>1 DEF Pushes, PromoteRoot, At
      <4> QED
        BY <2>7, <4>1
    <3>3. PurgeInv(n, arch_tag')
      <4>1. \A t \in Systems \ n.targets : EntriesOf(arch_tag', t) = {}
        BY <1>now, <2>3, <2>4, <2>6, <3>1, Zenon DEF PurgeInv
      <4>2. ASSUME NEW t \in n.targets, n.pushed[t] # NoRoot
            PROVE  EntriesOf(arch_tag', t) \cap n.victims = {}
        <5>1. t \in Systems /\ t \in j.targets
          BY <1>now, <2>3 DEF Job
        <5>2. CASE t = s
          BY <2>3, <2>6, <3>2, <5>2
        <5>3. CASE t # s
          <6>1. j.pushed[t] # NoRoot /\ EntriesOf(arch_tag', t) = EntriesOf(arch_tag, t)
            BY <2>3, <2>4, <2>6, <4>2, <5>1, <5>3 DEF RootMap
          <6> QED
            BY <1>now, <2>3, <3>1, <5>1, <6>1 DEF PurgeInv
        <5> QED
          BY <5>2, <5>3
      <4> QED
        BY <1>now, <2>3, <3>1, <4>1, <4>2, Zenon DEF PurgeInv
    <3>4. \A t \in Systems : EntriesOf(arch_tag', t) \subseteq EntriesOf(arch_tag, t)
      BY <2>6, <3>2
    <3>5. BlobsKept(receipts \cup j.inbox, arch_tag', top, blobs)
      BY <1>now, <3>4 DEF BlobsKept
    <3> QED
      BY <1>now, <2>2, <2>3, <2>8, <3>3, <3>5, BlobFrame, Zenon
  <2> QED
    BY <1>4, <2>9, <2>10
<1>5. CASE Evaluate(r)
  <2>1. arch_tag' = arch_tag /\ top' = top /\ blobs' = blobs /\ receipts' = receipts
    BY <1>5, Zenon DEF Evaluate, registry
  <2>2. j.op = "purge" /\ j.pc = "load" /\ j.inbox = {}
    BY <1>5, <1>now, Zenon DEF Evaluate, At, JobShape
  <2>3. CASE run' = [run EXCEPT ![r] = IdleRun]
    <3>1. IdleRun.inbox = {} /\ PurgeInv(IdleRun, arch_tag) /\ PromoteInv(IdleRun, top)
      BY Zenon DEF PurgeInv, PromoteInv, IdleRun
    <3> QED
      BY <1>now, <2>1, <2>2, <2>3, <3>1, IdleJob, BlobFrame, Zenon
  <2>4. ASSUME NEW n \in Job, Evaluates(r, n) PROVE BlobInv'
    <3>1. /\ JobShape(n) /\ run' = [run EXCEPT ![r] = n] /\ n.op = "purge" /\ n.inbox = {}
          /\ n.pc = "compact" /\ n.targets = j.targets /\ n.pushed = j.pushed
          /\ n.doomed = {NarOf[h] : h \in n.victims}
      BY <2>4 DEF Evaluates
    <3>2. \A t \in n.targets : n.pushed[t] = NoRoot
      BY <1>now, <2>2, <3>1, Zenon DEF JobShape, Job
    <3>3. PurgeInv(n, arch_tag) /\ PromoteInv(n, top)
      BY <1>now, <2>2, <3>1, <3>2, Zenon DEF PurgeInv, PromoteInv
    <3> QED
      BY <1>now, <2>1, <2>2, <3>1, <3>3, BlobFrame, Zenon
  <2> QED
    BY <1>5, <2>3, <2>4, EvaluateEffect
<1>6. ASSUME NEW b \in Nars, DeleteBlob(r, b) PROVE BlobInv'
  <2>1. PICK n \in Job : Deletes(r, b, n)
    BY <1>6, DeleteEffect
  <2>2. /\ arch_tag' = arch_tag /\ top' = top /\ blobs' = blobs \ {b} /\ receipts' = receipts
        /\ b \in j.doomed /\ j.op = "purge" /\ j.pc = "published"
    BY <1>6 DEF DeleteBlob, At
  <2>3. /\ JobShape(n) /\ run' = [run EXCEPT ![r] = n] /\ n.op = j.op /\ n.inbox = j.inbox
        /\ n.doomed \subseteq j.doomed /\ n.victims = j.victims /\ n.targets = j.targets /\ n.pc = j.pc
        /\ n.pushed = j.pushed
    BY <2>1, <2>2 DEF Deletes, Keeps
  <2>4. PurgeInv(n, arch_tag) /\ PromoteInv(n, top)
    BY <1>now, <2>2, <2>3, Zenon DEF PurgeInv, PromoteInv
  <2>5. receipts \cup j.inbox = {}
    BY <1>now, <2>2, Zenon DEF JobShape, GroupInv
  <2>6. \A t \in Systems : EntriesOf(arch_tag, t) \cap j.victims = {}
    BY <1>now, <2>2, Zenon DEF PurgeInv
  <2>7. PICK v \in j.victims : b = NarOf[v]
    BY <1>now, <2>2, Zenon DEF PurgeInv
  <2>8. j.victims \subseteq Hashes /\ \A t \in Systems : EntriesOf(arch_tag, t) \subseteq Hashes
    BY <1>now, Zenon DEF Job, EntriesOf, RootMap, Root
  <2>9. \A t \in Systems : \A h \in EntriesOf(arch_tag, t) : NarOf[h] # b
    BY <2>6, <2>7, <2>8
  <2>10. BlobsKept(receipts \cup j.inbox, arch_tag, top, blobs \ {b})
    BY <1>now, <2>5, <2>9 DEF BlobsKept
  <2> QED
    BY <1>now, <2>2, <2>3, <2>4, <2>10, BlobFrame, Zenon
<1>7. CASE Finish(r) \/ Abort(r)
  <2>1. run' = [run EXCEPT ![r] = IdleRun] /\ arch_tag' = arch_tag /\ top' = top /\ blobs' = blobs
    BY <1>7 DEF Finish, Abort, registry
  <2>2. IdleRun.inbox = {} /\ PurgeInv(IdleRun, arch_tag) /\ PromoteInv(IdleRun, top)
    BY Zenon DEF PurgeInv, PromoteInv, IdleRun
  <2>3. BlobsKept(receipts', arch_tag, top, blobs)
    <3>1. CASE Abort(r)
      BY <1>now, <3>1 DEF Abort
    <3>2. CASE Finish(r)
      <4>1. receipts' = receipts /\ j.pc = "published"
        BY <3>2 DEF Finish
      <4>2. \A m \in j.inbox : top[m.system] # NoRoot
        BY <1>now, <4>1, Zenon DEF JobShape, PromoteInv, Job
      <4> QED
        BY <1>now, <4>1, <4>2, Zenon DEF BlobsKept
    <3> QED
      BY <1>7, <3>1, <3>2
  <2>4. BlobsKept(receipts' \cup IdleRun.inbox, arch_tag', top', blobs')
    BY <2>1, <2>2, <2>3
  <2> QED
    BY <1>now, <2>1, <2>2, <2>4, IdleJob, BlobFrame, Zenon
<1> QED
  BY <1>1, <1>2, <1>3, <1>4, <1>5, <1>6, <1>7 DEF Running

(* Every step keeps the blobs that are needed. *)
LEMMA BlobStep ==
  ASSUME TypeInv, Careful, LedgerInv, GroupInv, BlobInv, [Next]_vars,
         \A g, h \in Hashes : NarOf[g] = NarOf[h] => g = h
  PROVE  BlobInv'
<1>1. CASE UNCHANGED vars
  BY <1>1 DEF vars, registry, BlobInv, Pending
<1>2. CASE (\E s \in Systems, h \in Targets : StartBuild(s, h)) \/ FinishBuild \/ FailBuild
  BY <1>2, BlobBuild DEF Careful
<1>3. ASSUME NEW r \in Runs, StartPromote(r) \/ StartPurge(r) PROVE BlobInv'
  BY <1>3, BlobStart DEF Careful
<1>4. ASSUME NEW r \in Runs, Running(r) PROVE BlobInv'
  BY <1>4, BlobRunning
<1> QED
  BY <1>1, <1>2, <1>3, <1>4, Steps

(* What the one concurrency group guarantees. *)
Grouped == OneGroup => LedgerInv /\ GroupInv

LEMMA GroupedInit == Init => TypeInv /\ Grouped
<1>1. Init => GroupInv
  BY DEF Init, GroupInv, IdleRun
<1> QED
  BY <1>1, TypeInit, LedgerInit DEF Grouped

LEMMA GroupedStep == TypeInv /\ Grouped /\ [Next]_vars => TypeInv' /\ Grouped'
<1>1. [Next]_vars => (OneGroup' <=> OneGroup)
  BY RegimeFixed DEF OneGroup
<1>2. OneGroup => Apart
  BY DEF OneGroup, Apart
<1> QED
  BY <1>1, <1>2, TypeStep, LedgerStep, GroupStep DEF Grouped

(* Where the whole pipeline is one concurrency group, the top-level index can   *)
(* be read and no two paths have the same NAR, the NAR of every published entry *)
(* is in the registry, although purges delete blobs and any job may die between *)
(* two requests.                                                                *)
THEOREM EntriesServable ==
  ASSUME \A g, h \in Hashes : NarOf[g] = NarOf[h] => g = h,
         \A g \in Regimes : g.serialised = {"build", "promote", "purge"} => ~ g.fetch_may_fail
  PROVE  Spec => []BlobsServable
<1> DEFINE Inv == TypeInv /\ Grouped /\ (OneGroup => BlobInv)
<1>1. TypeInv /\ OneGroup => Careful
  BY Zenon DEF TypeInv, OneGroup, Careful
<1>2. Init => Inv
  <2>1. Init => BlobInv
    <3> SUFFICES ASSUME Init PROVE BlobInv
      OBVIOUS
    <3>1. /\ \A r \in Runs : run[r] = IdleRun
          /\ \A s \in Systems : EntriesOf(arch_tag, s) = {}
          /\ Pending = {}
      BY IdleJob, Zenon DEF Init, EntriesOf, Pending, IdleRun
    <3>2. PurgeInv(IdleRun, arch_tag) /\ PromoteInv(IdleRun, top)
      BY Zenon DEF PurgeInv, PromoteInv, IdleRun
    <3> QED
      BY <3>1, <3>2 DEF BlobInv, BlobsKept
  <2> QED
    BY <2>1, GroupedInit
<1>3. Inv /\ [Next]_vars => Inv'
  <2>1. [Next]_vars => (OneGroup' <=> OneGroup)
    BY RegimeFixed DEF OneGroup
  <2>2. ASSUME Inv, [Next]_vars, OneGroup PROVE BlobInv'
    BY <1>1, <2>2, BlobStep DEF Grouped
  <2> QED
    BY <2>1, <2>2, GroupedStep
<1>4. Inv => BlobsServable
  BY DEF BlobInv, BlobsKept, BlobsServable
<1> QED
  BY <1>2, <1>3, <1>4, PTL DEF Spec

-------------------------------------------------------------------------------
(* Closures. *)

(* What a step of the job under way may rely on. *)
LEMMA RootNow ==
  ASSUME TypeInv, LedgerInv, GroupInv, RootInv, NEW r \in Runs, Running(r)
  PROVE  /\ run[r] \in Job /\ JobShape(run[r]) /\ arch_tag \in RootMap
         /\ \A q \in Runs : q # r => run[q] = IdleRun
         /\ build' = NoBuild
         /\ RootsWhole(receipts \cup run[r].inbox, arch_tag) /\ ReadWhole(run[r], arch_tag)
<1>1. run[r].pc # "idle" /\ \A q \in Runs : q # r => run[q] = IdleRun
  BY RunningStep, Others
<1>2. Pending = receipts \cup run[r].inbox
  BY <1>1, PendingNow
<1>3. build' = build
  BY Zenon DEF Running, DiscoverPromote, PublishPromote, DiscoverPurge, Evaluate, PublishPurge, PutTop,
         Finish, Abort, ReadRoot, PromoteRoot, LoadRoot, PurgeRoot, DeleteBlob
<1> QED
  BY <1>1, <1>2, <1>3, Zenon DEF TypeInv, RootInv, GroupInv

(* And what it has to show. *)
LEMMA RootFrame ==
  ASSUME TypeInv, NEW r \in Runs, \A q \in Runs : q # r => run[q] = IdleRun,
         NEW n \in Job, JobShape(n), run' = [run EXCEPT ![r] = n], build' = NoBuild,
         RootsWhole(receipts' \cup n.inbox, arch_tag'), ReadWhole(n, arch_tag')
  PROVE  RootInv'
<1>1. run'[r] = n /\ (\A q \in Runs : q # r => run'[q] = IdleRun) /\ Pending' = receipts' \cup n.inbox
  BY PendingNext, Zenon
<1>2. ReadWhole(IdleRun, arch_tag')
  BY IdleJob, Zenon DEF ReadWhole, IdleRun
<1>3. \A q \in Runs : ReadWhole(run'[q], arch_tag')
  BY <1>1, <1>2
<1>4. RootsWhole(Pending', arch_tag')
  BY <1>1
<1> QED
  BY <1>3, <1>4 DEF RootInv

(* A build in strict mode uploads what it has not seen in the index, and until  *)
(* it ends nothing leaves the index.                                            *)
LEMMA RootBuild ==
  ASSUME TypeInv, OneGroup, regime.strict, GroupInv, RootInv,
         (\E s \in Systems, h \in Targets : StartBuild(s, h)) \/ FinishBuild \/ FailBuild
  PROVE  RootInv'
<1>1. arch_tag' = arch_tag /\ run' = run
  BY DEF StartBuild, FinishBuild, FailBuild, registry
<1>2. \A q \in Runs : ReadWhole(run'[q], arch_tag')
  BY <1>1 DEF RootInv
<1>3. CASE \E s \in Systems, h \in Targets : StartBuild(s, h)
  <2>1. receipts' = receipts
    BY <1>3 DEF StartBuild
  <2>2. RootsWhole(Pending', arch_tag')
    BY <1>1, <2>1 DEF RootInv, Pending
  <2>3. build' # NoBuild => build'.own \subseteq EntriesOf(arch_tag', build'.system)
    <3>1. PICK s \in Systems, h \in Targets : StartBuild(s, h)
      BY <1>3
    <3>2. PICK own \in SUBSET EntriesOf(arch_tag, s) : build' = [system |-> s, root |-> h, own |-> own]
      BY <3>1 DEF StartBuild
    <3> QED
      BY <1>1, <3>2
  <2> QED
    BY <1>2, <2>2, <2>3 DEF RootInv
<1>4. CASE FinishBuild
  <2>1. receipts' = receipts \cup {BuildReceipt(UploadList)} /\ build' = NoBuild
    BY <1>4, Zenon DEF FinishBuild
  <2>2. Pending' = Pending \cup {BuildReceipt(UploadList)}
    BY <1>1, <2>1 DEF Pending
  <2>3. build.own \subseteq EntriesOf(arch_tag, build.system)
    BY <1>4 DEF FinishBuild, RootInv
  <2>4. \A h \in BuildReceipt(UploadList).active_gc_roots :
          ClosureOf(h) \subseteq BuildReceipt(UploadList).new_entries
            \cup EntriesOf(arch_tag, BuildReceipt(UploadList).system) \cup Upstream
    <3>1. /\ BuildReceipt(UploadList).active_gc_roots = {build.root}
          /\ BuildReceipt(UploadList).new_entries = UploadList
          /\ BuildReceipt(UploadList).system = build.system
      BY DEF BuildReceipt
    <3>2. ClosureOf(build.root) \subseteq UploadList \cup EntriesOf(arch_tag, build.system) \cup Upstream
      BY <2>3 DEF UploadList
    <3> QED
      BY <3>1, <3>2
  <2>5. RootsWhole(Pending', arch_tag')
    BY <1>1, <2>2, <2>4, Zenon DEF RootInv, RootsWhole
  <2> QED
    BY <1>2, <2>1, <2>5 DEF RootInv
<1>5. CASE FailBuild
  <2>1. receipts' = receipts /\ build' = NoBuild
    BY <1>5 DEF FailBuild
  <2>2. RootsWhole(Pending', arch_tag')
    BY <1>1, <2>1 DEF RootInv, Pending
  <2> QED
    BY <1>2, <2>1, <2>2, Zenon DEF RootInv
<1> QED
  BY <1>3, <1>4, <1>5

(* A job that starts has read nothing yet. *)
LEMMA RootStart ==
  ASSUME TypeInv, OneGroup, RootInv, NEW r \in Runs, StartPromote(r) \/ StartPurge(r)
  PROVE  RootInv'
<1>1. PICK n \in Job :
        /\ JobShape(n) /\ run' = [run EXCEPT ![r] = n]
        /\ n.loaded = NoRoots /\ receipts' \cup n.inbox = receipts
  BY StartEffect
<1>2. (\A q \in Runs : run[q] = IdleRun) /\ build = NoBuild
  BY NoneYet
<1>3. arch_tag' = arch_tag /\ build' = build
  BY Zenon DEF StartPromote, StartPurge, registry
<1>4. Pending = receipts
  <2>1. \A q \in Runs : run[q].inbox = {}
    BY <1>2 DEF IdleRun
  <2> QED
    BY <2>1 DEF Pending
<1>5. ReadWhole(n, arch_tag')
  BY <1>1, IdleJob DEF ReadWhole
<1>6. RootsWhole(receipts' \cup n.inbox, arch_tag')
  BY <1>1, <1>3, <1>4, Zenon DEF RootInv
<1> QED
  BY <1>1, <1>2, <1>3, <1>5, <1>6, RootFrame, Zenon

(* A step of a job under way. *)
LEMMA RootRunning ==
  ASSUME TypeInv, LedgerInv, GroupInv, RootInv, NEW r \in Runs, Running(r)
  PROVE  RootInv'
<1> DEFINE j == run[r]
<1>now. /\ j \in Job /\ JobShape(j) /\ arch_tag \in RootMap
        /\ \A q \in Runs : q # r => run[q] = IdleRun
        /\ build' = NoBuild
        /\ RootsWhole(receipts \cup j.inbox, arch_tag) /\ ReadWhole(j, arch_tag)
  BY RootNow
<1>same. ASSUME NEW n \in Job, JobShape(n), run' = [run EXCEPT ![r] = n], n.inbox = j.inbox,
                n.loaded = j.loaded, n.pushed = j.pushed, n.victims = j.victims,
                arch_tag' = arch_tag, receipts' = receipts
         PROVE  RootInv'
  <2>1. ReadWhole(n, arch_tag')
    BY <1>now, <1>same DEF ReadWhole
  <2>2. RootsWhole(receipts' \cup n.inbox, arch_tag')
    BY <1>now, <1>same, Zenon
  <2> QED
    BY ZenonT(30), <1>now, <1>same, <2>1, <2>2, RootFrame
<1>1. CASE DiscoverPromote(r) \/ DiscoverPurge(r)
  <2>1. PICK n \in Job, seen \in SeenSystems : Discovers(r, n, seen)
    BY <1>1, DiscoverEffect
  <2>2. arch_tag' = arch_tag /\ receipts' = receipts
    BY <1>1 DEF DiscoverPromote, DiscoverPurge, registry
  <2>3. /\ JobShape(n) /\ run' = [run EXCEPT ![r] = n] /\ n.inbox = j.inbox
        /\ n.loaded = j.loaded /\ n.pushed = j.pushed /\ n.victims = j.victims
    BY <2>1 DEF Discovers, Keeps
  <2> QED
    BY <1>same, <2>2, <2>3, Zenon
<1>2. CASE PublishPromote(r) \/ PublishPurge(r)
  <2>1. PICK n \in Job : Publishes(r, n)
    BY <1>2, PublishEffect
  <2>2. arch_tag' = arch_tag /\ receipts' = receipts
    BY <1>2 DEF PublishPromote, PublishPurge, PutTop
  <2>3. /\ JobShape(n) /\ run' = [run EXCEPT ![r] = n] /\ n.inbox = j.inbox
        /\ n.loaded = j.loaded /\ n.pushed = j.pushed /\ n.victims = j.victims
    BY <2>1 DEF Publishes, Keeps
  <2> QED
    BY <1>same, <2>2, <2>3, Zenon
<1>3. ASSUME NEW s \in Systems, ReadRoot(r, s) \/ LoadRoot(r, s) PROVE RootInv'
  <2>1. PICK n \in Job : Reads(r, s, n)
    BY <1>3, ReadEffect
  <2>2. arch_tag' = arch_tag /\ receipts' = receipts /\ j.victims = {}
    BY <1>3, <1>now DEF ReadRoot, LoadRoot, registry, At, JobShape
  <2>3. /\ JobShape(n) /\ run' = [run EXCEPT ![r] = n] /\ n.inbox = j.inbox
        /\ n.pushed = j.pushed /\ n.victims = j.victims
    BY <2>1, Zenon DEF Reads, Keeps
  <2>4. CASE n.loaded = j.loaded
    BY <1>same, <2>2, <2>3, <2>4, Zenon
  <2>5. ASSUME NEW x \in Root, n.loaded = [j.loaded EXCEPT ![s] = x], x.gc_roots = RootsOf(arch_tag, s)
        PROVE  RootInv'
    <3>1. j.loaded \in RootMap
      BY <1>now DEF Job
    <3>2. n.loaded[s] = x /\ \A t \in Systems : t # s => n.loaded[t] = j.loaded[t]
      BY <2>5, <3>1, SMTT(30) DEF RootMap
    <3>3. \A h \in x.gc_roots : ClosureOf(h) \subseteq EntriesOf(arch_tag, s) \cup Upstream
      BY <1>now, <2>5 DEF RootsWhole
    <3>4. ReadWhole(n, arch_tag')
      BY <1>now, <2>2, <2>3, <3>2, <3>3, Zenon DEF ReadWhole
    <3>5. RootsWhole(receipts' \cup n.inbox, arch_tag')
      BY <1>now, <2>2, <2>3
    <3> QED
      BY ZenonT(30), <1>now, <2>3, <3>4, <3>5, RootFrame
  <2> QED
    BY <2>1, <2>4, <2>5, Zenon DEF Reads
<1>4. ASSUME NEW s \in Systems, PromoteRoot(r, s) \/ PurgeRoot(r, s) PROVE RootInv'
  <2>1. PICK n \in Job, x \in Root : Pushes(r, s, n, x)
    BY <1>4, PushEffect
  <2>2. receipts' = receipts
    BY <1>4 DEF PromoteRoot, PurgeRoot
  <2>3. /\ JobShape(n) /\ run' = [run EXCEPT ![r] = n] /\ n.inbox = j.inbox
        /\ n.victims = j.victims /\ n.loaded = j.loaded
        /\ n.pushed = [j.pushed EXCEPT ![s] = x]
    BY <2>1, Zenon DEF Pushes, Keeps
  <2>4. j.pushed \in RootMap /\ j.pushed[s] = NoRoot
    BY <1>4, <1>now DEF PromoteRoot, PurgeRoot, Job
  <2>5. x # NoRoot
    BY PublishAssumption DEF Root
  <2>6. /\ EntriesOf(arch_tag', s) = x.entries /\ RootsOf(arch_tag', s) = x.gc_roots
        /\ \A t \in Systems : t # s => /\ EntriesOf(arch_tag', t) = EntriesOf(arch_tag, t)
                                       /\ RootsOf(arch_tag', t) = RootsOf(arch_tag, t)
    BY <1>now, <2>1, <2>5, Zenon DEF Pushes, EntriesOf, RootsOf, RootMap
  <2>7. j.loaded[s].entries = EntriesOf(arch_tag, s) /\ j.loaded[s] # NoRoot
    BY <2>1, <2>4, Zenon DEF Pushes, LedgerInv
  <2>8. \A h \in j.loaded[s].gc_roots : /\ ClosureOf(h) \subseteq EntriesOf(arch_tag, s) \cup Upstream
                                         /\ ClosureOf(h) \cap j.victims = {}
    BY <1>now, <2>4, <2>7, Zenon DEF ReadWhole
  <2>9. n.pushed[s] = x /\ \A t \in Systems : t # s => n.pushed[t] = j.pushed[t]
    BY <2>3, <2>4 DEF RootMap
  <2>10. ReadWhole(n, arch_tag')
    BY ZenonT(30), <1>now, <2>3, <2>5, <2>6, <2>9 DEF ReadWhole
  <2>11. CASE PromoteRoot(r, s)
    <3>1. x = PromotedRoot(j.loaded[s], Incoming(r, s))
      BY <2>1, <2>11 DEF Pushes, PromoteRoot, PurgeRoot, At
    <3>2. /\ x.entries = EntriesOf(arch_tag, s) \cup UNION {m.new_entries : m \in Incoming(r, s)}
          /\ x.gc_roots = j.loaded[s].gc_roots \cup UNION {m.active_gc_roots : m \in Incoming(r, s)}
      BY <2>7, <3>1, Zenon DEF PromotedRoot
    <3>3. \A t \in Systems : EntriesOf(arch_tag, t) \subseteq EntriesOf(arch_tag', t)
      BY <2>6, <3>2
    <3>4. \A m \in receipts \cup j.inbox : m.system \in Systems
      BY <1>now DEF TypeInv, Job, Receipt
    <3>5. \A m \in receipts \cup j.inbox : \A h \in m.active_gc_roots :
            ClosureOf(h) \subseteq m.new_entries \cup EntriesOf(arch_tag', m.system) \cup Upstream
      BY ZenonT(30), <1>now, <3>3, <3>4 DEF RootsWhole
    <3>6. \A h \in x.gc_roots : ClosureOf(h) \subseteq x.entries \cup Upstream
      <4>1. ASSUME NEW h \in j.loaded[s].gc_roots PROVE ClosureOf(h) \subseteq x.entries \cup Upstream
        BY <2>8, <3>2
      <4>2. ASSUME NEW m \in Incoming(r, s), NEW h \in m.active_gc_roots
            PROVE  ClosureOf(h) \subseteq x.entries \cup Upstream
        <5>1. m \in j.inbox /\ m.system = s
          BY DEF Incoming
        <5>2. ClosureOf(h) \subseteq m.new_entries \cup EntriesOf(arch_tag, s) \cup Upstream
          BY <1>now, <5>1, Zenon DEF RootsWhole
        <5>3. m.new_entries \subseteq x.entries /\ EntriesOf(arch_tag, s) \subseteq x.entries
          BY <3>2
        <5> QED
          BY <5>2, <5>3
      <4> QED
        BY <3>2, <4>1, <4>2
    <3>7. RootsWhole(receipts' \cup n.inbox, arch_tag')
      <4>1. \A t \in Systems : \A h \in RootsOf(arch_tag', t) :
              ClosureOf(h) \subseteq EntriesOf(arch_tag', t) \cup Upstream
        <5> SUFFICES ASSUME NEW t \in Systems, NEW h \in RootsOf(arch_tag', t)
                     PROVE  ClosureOf(h) \subseteq EntriesOf(arch_tag', t) \cup Upstream
          OBVIOUS
        <5>1. CASE t = s
          BY <2>6, <3>6, <5>1, SMTT(30)
        <5>2. CASE t # s
          BY <1>now, <2>6, <5>2 DEF RootsWhole
        <5> QED
          BY <5>1, <5>2
      <4>2. receipts' \cup n.inbox = receipts \cup j.inbox
        BY <2>2, <2>3
      <4> QED
        BY <3>5, <4>1, <4>2, Zenon DEF RootsWhole
    <3> QED
      BY <1>now, <2>3, <2>10, <3>7, RootFrame, Zenon
  <2>12. CASE PurgeRoot(r, s)
    <3>1. j.op = "purge"
      BY <2>12 DEF PurgeRoot, At
    <3>2. x.entries = EntriesOf(arch_tag, s) \ j.victims /\ x.gc_roots = j.loaded[s].gc_roots
      BY <2>1, <2>7, <2>12 DEF Pushes, PromoteRoot, PurgeRoot, At
    <3>3. receipts' \cup n.inbox = {}
      BY <1>now, <2>2, <2>3, <3>1, Zenon DEF JobShape, GroupInv
    <3>4. \A h \in x.gc_roots : ClosureOf(h) \subseteq x.entries \cup Upstream
      BY <2>8, <3>2, Zenon
    <3>5. RootsWhole(receipts' \cup n.inbox, arch_tag')
      BY <1>now, <2>6, <3>3, <3>4, Zenon DEF RootsWhole
    <3> QED
      BY <1>now, <2>3, <2>10, <3>5, RootFrame, Zenon
  <2> QED
    BY <1>4, <2>11, <2>12
<1>5. CASE Evaluate(r)
  <2>1. arch_tag' = arch_tag /\ receipts' = receipts
    BY <1>5, Zenon DEF Evaluate, registry
  <2>2. j.op = "purge" /\ j.pc = "load" /\ j.inbox = {}
    BY <1>5, <1>now, Zenon DEF Evaluate, At, JobShape
  <2>3. CASE run' = [run EXCEPT ![r] = IdleRun]
    <3>1. IdleRun.inbox = {} /\ ReadWhole(IdleRun, arch_tag)
      BY IdleJob, Zenon DEF ReadWhole, IdleRun
    <3> QED
      BY <1>now, <2>1, <2>2, <2>3, <3>1, IdleJob, RootFrame, Zenon
  <2>4. ASSUME NEW n \in Job, Evaluates(r, n) PROVE RootInv'
    <3>1. /\ JobShape(n) /\ run' = [run EXCEPT ![r] = n] /\ n.inbox = {} /\ n.pushed = j.pushed
          /\ Spared(j.loaded, n.loaded, n.victims)
      BY <2>4, Zenon DEF Evaluates
    <3>2. ReadWhole(n, arch_tag)
      BY <1>now, <3>1, Zenon DEF ReadWhole, Spared
    <3> QED
      BY <1>now, <2>1, <2>2, <3>1, <3>2, RootFrame, Zenon
  <2> QED
    BY <1>5, <2>3, <2>4, EvaluateEffect
<1>6. ASSUME NEW b \in Nars, DeleteBlob(r, b) PROVE RootInv'
  <2>1. PICK n \in Job : Deletes(r, b, n)
    BY <1>6, DeleteEffect
  <2>2. arch_tag' = arch_tag /\ receipts' = receipts
    BY <1>6 DEF DeleteBlob
  <2>3. /\ JobShape(n) /\ run' = [run EXCEPT ![r] = n] /\ n.inbox = j.inbox
        /\ n.loaded = j.loaded /\ n.pushed = j.pushed /\ n.victims = j.victims
    BY <2>1 DEF Deletes, Keeps
  <2> QED
    BY <1>same, <2>2, <2>3, Zenon
<1>7. CASE Finish(r) \/ Abort(r)
  <2>1. run' = [run EXCEPT ![r] = IdleRun] /\ arch_tag' = arch_tag
    BY <1>7 DEF Finish, Abort, registry
  <2>2. receipts' \subseteq receipts \cup j.inbox
    BY <1>7 DEF Finish, Abort
  <2>3. IdleRun.inbox = {} /\ ReadWhole(IdleRun, arch_tag)
    BY IdleJob, Zenon DEF ReadWhole, IdleRun
  <2>4. RootsWhole(receipts' \cup IdleRun.inbox, arch_tag')
    BY <1>now, <2>1, <2>2, <2>3, Zenon DEF RootsWhole
  <2> QED
    BY <1>now, <2>1, <2>3, <2>4, IdleJob, RootFrame, Zenon
<1> QED
  BY <1>1, <1>2, <1>3, <1>4, <1>5, <1>6, <1>7 DEF Running

(* Every step keeps the closures whole. *)
LEMMA RootStep ==
  ASSUME TypeInv, OneGroup, regime.strict, LedgerInv, GroupInv, RootInv, [Next]_vars
  PROVE  RootInv'
<1>1. CASE UNCHANGED vars
  BY <1>1 DEF vars, registry, RootInv, Pending
<1>2. CASE (\E s \in Systems, h \in Targets : StartBuild(s, h)) \/ FinishBuild \/ FailBuild
  BY <1>2, RootBuild
<1>3. ASSUME NEW r \in Runs, StartPromote(r) \/ StartPurge(r) PROVE RootInv'
  BY <1>3, RootStart
<1>4. ASSUME NEW r \in Runs, Running(r) PROVE RootInv'
  BY <1>4, RootRunning
<1> QED
  BY <1>1, <1>2, <1>3, <1>4, Steps

(* Where the whole pipeline is one concurrency group and builds are strict, the *)
(* closure of every published GC root is in the index of its architecture or on *)
(* a public cache: for every reference graph, every selector of a purge, shared *)
(* NARs and failing reads of the top-level index included.                      *)
THEOREM ClosuresServed == Spec => []RootsServed
<1> DEFINE Inv == TypeInv /\ Grouped /\ (OneGroup /\ regime.strict => RootInv)
<1>1. Init => Inv
  <2>1. Init => RootInv
    <3> SUFFICES ASSUME Init PROVE RootInv
      OBVIOUS
    <3>1. /\ build = NoBuild /\ \A r \in Runs : run[r] = IdleRun
          /\ \A s \in Systems : RootsOf(arch_tag, s) = {}
          /\ Pending = {}
      BY IdleJob, Zenon DEF Init, RootsOf, Pending, IdleRun
    <3>2. ReadWhole(IdleRun, arch_tag)
      BY IdleJob, Zenon DEF ReadWhole, IdleRun
    <3> QED
      BY <3>1, <3>2 DEF RootInv, RootsWhole
  <2> QED
    BY <2>1, GroupedInit
<1>2. Inv /\ [Next]_vars => Inv'
  <2>1. [Next]_vars => regime' = regime /\ (OneGroup' <=> OneGroup)
    BY RegimeFixed DEF OneGroup
  <2>2. ASSUME Inv, [Next]_vars, OneGroup, regime.strict PROVE RootInv'
    BY <2>2, RootStep DEF Grouped
  <2> QED
    BY <2>1, <2>2, GroupedStep
<1>3. Inv => RootsServed
  BY DEF RootInv, RootsWhole, RootsServed
<1> QED
  BY <1>1, <1>2, <1>3, PTL DEF Spec
=============================================================================

---------------------------- MODULE MCIndexPublish ----------------------------
(* Instances of IndexPublish. `app` needs `lib`; `tool` needs `libc`, which a  *)
(* public cache serves; `fork` is a rebuild of `lib` with an identical NAR.    *)
EXTENDS IndexPublish

CONSTANTS app, lib, tool, libc, fork

MCRefsOf ==
  [h \in Hashes |-> CASE h = app -> {lib} [] h = tool -> {tool, libc} [] OTHER -> {}]

(* One blob for each path, named after it. *)
OwnNar == [h \in Hashes |-> h]

(* `fork` and `lib` share a blob. *)
SharedNar == [h \in Hashes |-> IF h = fork THEN lib ELSE h]

(* gc: entries older than the retention, exact, GC roots protected. *)
GcSelectors ==
  [scope : {"Filtered"}, systems : {{}}, has_items : {TRUE}, items : SUBSET Hashes,
   cascade_mode : {"Exact"}, protect_gc_roots : {TRUE}]

(* purge by hash with the default cascade. *)
PurgeSelectors ==
  [scope : {"Filtered"}, systems : {{}}, has_items : {TRUE}, items : {{h} : h \in Hashes},
   cascade_mode : {"Dependents", "Exact"}, protect_gc_roots : {FALSE}]

AllSelectors == GcSelectors \cup PurgeSelectors

(* One concurrency group, as README.md asks for registries without If-Match. *)
OneGroupOnly ==
  {[serialised |-> {"build", "promote", "purge"}, strict |-> TRUE,
    fetch_may_fail |-> FALSE, builds |-> 3]}

(* Builds run outside the group and export leniently; the index cannot always  *)
(* be reached.                                                                 *)
LooseBuilds ==
  {[serialised |-> {"promote", "purge"}, strict |-> FALSE,
    fetch_may_fail |-> TRUE, builds |-> 2]}

BothRegimes == OneGroupOnly \cup LooseBuilds

(* Only promotes and builds are kept apart: If-Match has to order the purges. *)
PurgesOverlap ==
  {[serialised |-> {"build", "promote"}, strict |-> TRUE,
    fetch_may_fail |-> FALSE, builds |-> 3]}
===============================================================================

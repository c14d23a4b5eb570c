----------------------------- MODULE MCBuildJob ------------------------------
(* BuildJob with an application, a library, a path of a public cache and the *)
(* derivation of the application.                                            *)
EXTENDS BuildJob

MCPaths == {"app", "lib", "sys", "drv"}
MCKind == [p \in MCPaths |-> IF p = "drv" THEN "drv" ELSE "out"]
MCRefs == [p \in MCPaths |-> IF p = "app" THEN {"lib", "sys"} ELSE {}]
MCDeriver == [p \in MCPaths |-> IF p = "app" THEN << "drv" >> ELSE << >>]
MCRequisites == [p \in MCPaths |-> IF p = "drv" THEN {"drv", "lib", "sys"} ELSE {}]
MCBefore == {{"drv"}, {"drv", "sys", "lib"}}
MCRemotes == {{}, {"lib"}}

Worker(is_strict, has_key, runs) ==
  [kind |-> "worker", strict |-> is_strict, key |-> has_key, mode |-> "RuntimeClosure",
   snapshot |-> FALSE, exprs |-> {}, attempts |-> runs]
Session(is_strict, has_key, capture_mode, has_snapshot, targets) ==
  [kind |-> "session", strict |-> is_strict, key |-> has_key, mode |-> capture_mode,
   snapshot |-> has_snapshot, exprs |-> targets, attempts |-> 1]

MCWorkers == {Worker(s, TRUE, 1) : s \in BOOLEAN} \cup {Worker(s, FALSE, 2) : s \in BOOLEAN}
MCSessions ==
  {Session(FALSE, TRUE, "RuntimeClosure", TRUE, {"app"}), Session(TRUE, FALSE, "RuntimeClosure", TRUE, {}),
   Session(FALSE, TRUE, "BuildClosure", TRUE, {}), Session(FALSE, FALSE, "RootsOnly", FALSE, {"app"}),
   Session(FALSE, FALSE, "DiffAll", TRUE, {"app"}), Session(FALSE, FALSE, "DiffAll", FALSE, {})}
MCJobs == MCWorkers \cup MCSessions
MCRetried == {Worker(FALSE, TRUE, 2)}
=============================================================================

---------------------------- MODULE BuildJobProofs ----------------------------
(* Proofs about BuildJob and StoreExport, for any store, any length of a NAR,   *)
(* any buffer, any number of exports in flight and any number of faults.        *)
EXTENDS BuildJob, TLAPS

(* A leaf that names no prover goes to the SMT solver and then to Zenon,   *)
(* with time to spare for a slow machine.                                  *)
USE SMTT(30), ZenonT(30)

(* A worker is never in a step of a session, and has stopped its proxy before   *)
(* it writes its receipt.                                                       *)
ProxyInv ==
  job.kind = "worker" =>
    /\ pc \notin {"init", "snapshot", "user", "closure", "clean"}
    /\ pc \in {"receipt", "done", "err"} => proxy \in {"none", "dead"}

(* Every initial state satisfies it. *)
LEMMA ProxyInit == Init => ProxyInv
  BY DEF Init, ProxyInv

(* Every step keeps it: each error return of the worker goes through the guard  *)
(* that kills the proxy, or happens where the proxy has not been started.       *)
LEMMA ProxyStep == ProxyInv /\ [Next]_vars => ProxyInv'
<1> SUFFICES ASSUME ProxyInv, [Next]_vars PROVE ProxyInv'
  OBVIOUS
<1> USE DEF ProxyInv, fixed, process, IsWorker, ReturnErr
<1>1. CASE Spawn
  BY <1>1 DEF Spawn
<1>2. CASE Probe
  BY <1>2 DEF Probe, export_to_github_env, WaitAgain
<1>3. CASE Snapshot \/ UserBuild \/ Clean
  BY <1>3 DEF Snapshot, UserBuild, Clean
<1>4. CASE discover_outputs
  BY <1>4 DEF discover_outputs
<1>5. CASE build_outputs
  BY <1>5 DEF build_outputs
<1>6. CASE WorkerSelect
  BY <1>6 DEF WorkerSelect, Chosen
<1>7. CASE CaptureSelect
  BY <1>7 DEF CaptureSelect
<1>8. CASE Sign
  BY <1>8 DEF Sign
<1>9. CASE StartExport
  BY <1>9 DEF StartExport
<1>10. CASE Exported
  BY <1>10 DEF Exported
<1>11. CASE Register
  BY <1>11 DEF Register
<1>12. CASE WriteReceipt
  BY <1>12 DEF WriteReceipt
<1>13. CASE ProxyReady \/ ProxyExits
  BY <1>13 DEF ProxyReady, ProxyExits
<1>14. CASE Rerun
  BY <1>14 DEF Rerun
<1>15. CASE ExportStep \/ Over \/ UNCHANGED vars
  BY <1>15 DEF ExportStep, Over, vars, jobVars
<1> QED
  BY <1>1, <1>2, <1>3, <1>4, <1>5, <1>6, <1>7, <1>8, <1>9, <1>10, <1>11, <1>12, <1>13, <1>14, <1>15
  DEF Next, JobStep

(* run_build_worker returns with its proxy stopped, on every path and after any *)
(* number of attempts.                                                          *)
THEOREM WorkerStopsProxy == Spec => []ProxyGone
<1>1. ProxyInv => ProxyGone
  BY DEF ProxyInv, ProxyGone
<1> QED
  BY <1>1, ProxyInit, ProxyStep, PTL DEF Spec

-----------------------------------------------------------------------------
(* The blob of an exported path.                                              *)

(* The i-th thing a compressor that copied c chunks wrote. *)
Chunk(c, i) == IF i <= c THEN i ELSE End

(* What the upload has got and what the pipe holds are together what a          *)
(* compressor wrote that copied c chunks and ended e frames, in order.          *)
Written(g, b, c, e) ==
  /\ Len(g) + Len(b) = c + e
  /\ \A i \in 1 .. Len(g) : g[i] = Chunk(c, i)
  /\ \A i \in 1 .. Len(b) : b[i] = Chunk(c, Len(g) + i)

(* One chunk more. *)
LEMMA WrittenCopy ==
  ASSUME NEW g \in Seq(Nat), NEW b \in Seq(Nat), NEW c \in Nat, Written(g, b, c, 0)
  PROVE  Append(b, c + 1) \in Seq(Nat) /\ Written(g, Append(b, c + 1), c + 1, 0)
<1> DEFINE d == Append(b, c + 1)
<1>1. /\ d \in Seq(Nat) /\ Len(d) = Len(b) + 1 /\ d[Len(b) + 1] = c + 1
      /\ \A i \in 1 .. Len(b) : d[i] = b[i]
  OBVIOUS
<1>2. Len(g) \in Nat /\ Len(b) \in Nat /\ Len(g) + Len(b) = c
  BY DEF Written
<1> HIDE DEF d
<1>3. \A i \in 1 .. Len(g) : g[i] = Chunk(c + 1, i)
  BY <1>2 DEF Written, Chunk
<1>4. ASSUME NEW i \in 1 .. Len(d) PROVE d[i] = Chunk(c + 1, Len(g) + i)
  <2>1. CASE i \in 1 .. Len(b)
    <3>1. Len(g) + i \in Nat /\ Len(g) + i <= c /\ Len(g) + i <= c + 1
      BY <2>1, <1>2
    <3>2. d[i] = Chunk(c, Len(g) + i)
      BY <2>1, <1>1 DEF Written
    <3> QED
      BY <3>1, <3>2 DEF Chunk
  <2>2. CASE i = Len(b) + 1
    <3>1. Len(g) + i = c + 1
      BY <2>2, <1>2
    <3> QED
      BY <3>1, <2>2, <1>1 DEF Chunk
  <2> QED
    BY <2>1, <2>2, <1>1, <1>2
<1>5. Written(g, d, c + 1, 0)
  BY <1>1, <1>2, <1>3, <1>4 DEF Written
<1> QED
  BY <1>1, <1>5 DEF d

(* The end of the frame. *)
LEMMA WrittenEnd ==
  ASSUME NEW g \in Seq(Nat), NEW b \in Seq(Nat), NEW c \in Nat, Written(g, b, c, 0)
  PROVE  Append(b, End) \in Seq(Nat) /\ Written(g, Append(b, End), c, 1)
<1> DEFINE d == Append(b, End)
<1>0. End \in Nat
  BY ExportAssumption DEF End
<1>1. /\ d \in Seq(Nat) /\ Len(d) = Len(b) + 1 /\ d[Len(b) + 1] = End
      /\ \A i \in 1 .. Len(b) : d[i] = b[i]
  BY <1>0
<1>2. Len(g) \in Nat /\ Len(b) \in Nat /\ Len(g) + Len(b) = c
  BY DEF Written
<1> HIDE DEF d
<1>3. ASSUME NEW i \in 1 .. Len(d) PROVE d[i] = Chunk(c, Len(g) + i)
  <2>1. CASE i \in 1 .. Len(b)
    BY <2>1, <1>1, <1>2 DEF Written
  <2>2. CASE i = Len(b) + 1
    BY <2>2, <1>1, <1>2 DEF Chunk
  <2> QED
    BY <2>1, <2>2, <1>1, <1>2
<1>4. Len(g) + Len(d) = c + 1
  BY <1>1, <1>2
<1>5. Written(g, d, c, 1)
  BY <1>3, <1>4 DEF Written
<1> QED
  BY <1>1, <1>5 DEF d

(* One chunk read. *)
LEMMA WrittenRead ==
  ASSUME NEW g \in Seq(Nat), NEW b \in Seq(Nat), b # << >>, NEW c \in Nat, NEW e \in {0, 1}, Written(g, b, c, e)
  PROVE  /\ Append(g, Head(b)) \in Seq(Nat) /\ Tail(b) \in Seq(Nat)
         /\ Written(Append(g, Head(b)), Tail(b), c, e)
<1> DEFINE f == Append(g, Head(b))
           d == Tail(b)
<1>1. d \in Seq(Nat) /\ Len(d) = Len(b) - 1 /\ \A i \in 1 .. Len(d) : d[i] = b[i + 1]
  OBVIOUS
<1>2. Head(b) \in Nat /\ Head(b) = b[1] /\ Len(b) \in Nat \ {0} /\ Len(g) \in Nat
  OBVIOUS
<1>3. /\ f \in Seq(Nat) /\ Len(f) = Len(g) + 1 /\ f[Len(g) + 1] = b[1]
      /\ \A i \in 1 .. Len(g) : f[i] = g[i]
  BY <1>2
<1> HIDE DEF f, d
<1>4. ASSUME NEW i \in 1 .. Len(f) PROVE f[i] = Chunk(c, i)
  <2>1. CASE i \in 1 .. Len(g)
    BY ZenonT(30), <2>1, <1>3 DEF Written
  <2>2. CASE i = Len(g) + 1
    BY <2>2, <1>2, <1>3 DEF Written
  <2> QED
    BY <2>1, <2>2, <1>2, <1>3
<1>5. ASSUME NEW i \in 1 .. Len(d) PROVE d[i] = Chunk(c, Len(f) + i)
  <2>1. i + 1 \in 1 .. Len(b) /\ Len(f) + i = Len(g) + (i + 1)
    BY <1>1, <1>2, <1>3
  <2> QED
    BY <2>1, <1>1 DEF Written
<1>6. Len(f) + Len(d) = c + e
  BY <1>1, <1>2, <1>3 DEF Written
<1>7. Written(f, d, c, e)
  BY <1>4, <1>5, <1>6 DEF Written
<1> QED
  BY <1>1, <1>3, <1>7 DEF f, d

(* States of the export of one path. *)
Items ==
  [pc : {"idle", "upload", "join", "wait", "ok", "err", "over"}, dump : {"run", "ok", "fail"},
   produced : Nat, enc : {"none", "copy", "copied", "failed"} \cup EncOver, copied : Nat,
   buf : Seq(Nat), got : Seq(Nat)]

(* Frames a compressor has ended. *)
Ended(r) == IF r.enc \in {"ok", "err"} THEN 1 ELSE 0

(* The dump is at most one chunk ahead, and a copy that came to its end has     *)
(* taken all of it.                                                             *)
Flow(r) ==
  /\ r.copied <= r.produced /\ r.produced <= r.copied + 1 /\ r.produced <= NarLen
  /\ r.dump = "ok" => r.produced = NarLen
  /\ r.enc \in {"copied", "ok"} => r.copied = r.produced /\ r.dump # "run"

(* While the upload reads, nothing of what the compressor wrote is lost; after  *)
(* it, the blob is all of that.                                                 *)
Reading(r) == Written(r.got, r.buf, r.copied, Ended(r))
Read(r) == r.enc \in EncOver /\ Written(r.got, << >>, r.copied, Ended(r))

ItemOk(r) ==
  /\ r \in Items
  /\ Flow(r)
  /\ r.pc = "upload" => Reading(r)
  /\ r.pc \in {"join", "wait", "ok"} => Read(r)
  /\ r.pc \in {"wait", "ok"} => r.enc = "ok"
  /\ r.pc = "ok" => r.dump = "ok"

(* No path is queued twice, none that has started is queued, and what the       *)
(* report counts is over and whole.                                             *)
ExportInv ==
  /\ item \in [Paths -> Items]
  /\ \A p \in Paths : ItemOk(item[p])
  /\ queue \in Seq(Paths)
  /\ \A i, j \in 1 .. Len(queue) : queue[i] = queue[j] => i = j
  /\ \A i \in 1 .. Len(queue) : item[queue[i]].pc = "idle"
  /\ export = "idle" => \A p \in Paths : item[p] = NoItem
  /\ report \in [successful : SUBSET Paths, failed : SUBSET Paths]
  /\ \A p \in report.successful : item[p].pc = "over" /\ item[p].got = Whole

(* What the job hands to the exporter are paths. *)
TodoInv == store \subseteq Paths /\ todo \subseteq Paths

(* An export that succeeded has uploaded the whole compressed NAR. *)
LEMMA OkIsWhole == ASSUME NEW r, ItemOk(r), r.pc = "ok" PROVE r.got = Whole
<1>1. /\ r.copied = NarLen /\ Ended(r) = 1 /\ r.got \in Seq(Nat)
      /\ Written(r.got, << >>, r.copied, Ended(r))
  BY ExportAssumption DEF ItemOk, Items, Flow, Ended, Read
<1>2. ASSUME NEW g \in Seq(Nat), Written(g, << >>, NarLen, 1) PROVE g = Whole
  <2>1. Len(g) = End
    BY <1>2, ExportAssumption DEF Written, End
  <2>2. \A i \in 1 .. End : g[i] = i
    BY <1>2, <2>1, ExportAssumption DEF Written, Chunk, End
  <2> QED
    BY <2>1, <2>2 DEF Whole
<1> QED
  BY <1>1, <1>2

(* A path whose export has not started. *)
LEMMA NoItemOk == ItemOk(NoItem)
  BY ExportAssumption DEF ItemOk, NoItem, Items, Flow, EncOver

(* A step of one export that starts from a state the others allow, and neither  *)
(* starts nor ends it, keeps the invariant.                                     *)
LEMMA OneItem ==
  ASSUME ExportInv, NEW p \in Paths, NEW r, Break(p, r), ItemOk(r),
         item[p].pc # "idle" \/ item[p].enc # "none", r.pc # "idle" \/ item[p].pc = "idle",
         item[p].pc = "over" => r.pc = "over" /\ r.got = item[p].got,
         item[p].pc = "idle" => r.pc = "idle"
  PROVE  ExportInv'
<1> USE DEF ExportInv, Break
<1>1. item' \in [Paths -> Items] /\ \A q \in Paths : ItemOk(item[q])'
  BY DEF ItemOk, Items
<1>2. export # "idle"
  BY DEF NoItem
<1>3. \A i \in 1 .. Len(queue) : item'[queue[i]].pc = "idle"
  OBVIOUS
<1>4. \A q \in report.successful : item'[q].pc = "over" /\ item'[q].got = Whole
  OBVIOUS
<1> QED
  BY <1>1, <1>2, <1>3, <1>4

(* The steps of one export on its record: a step of the dump, *)
LEMMA DumpOk ==
  ASSUME NEW r, ItemOk(r), r.dump = "run",
         NEW s, \/ r.enc = "copy" /\ r.produced < NarLen /\ r.produced = r.copied /\ s = [r EXCEPT !.produced = @ + 1]
                \/ r.produced = NarLen /\ s = [r EXCEPT !.dump = "ok"]
                \/ s = [r EXCEPT !.dump = "fail"]
  PROVE  ItemOk(s) /\ s.pc = r.pc /\ s.got = r.got
<1>0. r \in Items /\ r.copied \in Nat /\ r.produced \in Nat /\ Flow(r)
  BY DEF ItemOk, Items
<1>1. s \in Items /\ s.pc = r.pc /\ s.got = r.got /\ s.buf = r.buf /\ s.copied = r.copied /\ s.enc = r.enc
  BY <1>0 DEF Items
<1>2. \/ s.produced = r.produced + 1 /\ s.dump = r.dump /\ r.enc = "copy" /\ r.produced < NarLen /\ r.produced = r.copied
      \/ s.produced = r.produced /\ s.dump = "ok" /\ r.produced = NarLen
      \/ s.produced = r.produced /\ s.dump = "fail"
  BY <1>0 DEF Items
<1>3. Flow(s)
  BY <1>0, <1>1, <1>2, ExportAssumption DEF Flow
<1>4. (Reading(r) => Reading(s)) /\ (Read(r) => Read(s))
  BY <1>1 DEF Reading, Read, Ended
<1>5. s.pc # "ok"
  BY <1>1 DEF ItemOk
<1> QED
  BY <1>1, <1>3, <1>4, <1>5 DEF ItemOk

(* the compressor passing a chunk on, *)
LEMMA CopyOk ==
  ASSUME NEW r, ItemOk(r), r.enc = "copy", r.pc = "upload", r.copied < r.produced
  PROVE  ItemOk([r EXCEPT !.copied = @ + 1, !.buf = Append(@, r.produced)])
<1> DEFINE b == Append(r.buf, r.produced)
           c == r.copied + 1
           s == [r EXCEPT !.copied = c, !.buf = b]
<1>0. /\ r \in Items /\ r.copied \in Nat /\ r.produced \in Nat /\ r.buf \in Seq(Nat) /\ r.got \in Seq(Nat)
      /\ Flow(r) /\ Written(r.got, r.buf, r.copied, 0)
  BY DEF ItemOk, Items, Reading, Ended
<1>1. r.produced = c /\ c \in Nat
  BY <1>0 DEF Flow
<1>2. b \in Seq(Nat) /\ Written(r.got, b, c, 0)
  BY <1>0, <1>1, WrittenCopy
<1> HIDE DEF b, c
<1>3. /\ s \in Items /\ s.pc = "upload" /\ s.got = r.got /\ s.enc = "copy" /\ s.dump = r.dump
      /\ s.copied = c /\ s.produced = r.produced /\ s.buf = b
  BY ZenonT(30), <1>0, <1>1, <1>2 DEF Items
<1> HIDE DEF s
<1>4. Flow(s)
  BY <1>0, <1>1, <1>3, ExportAssumption DEF Flow
<1>5. Reading(s)
  BY <1>2, <1>3 DEF Reading, Ended
<1>6. ItemOk(s)
  BY <1>3, <1>4, <1>5 DEF ItemOk
<1> QED
  BY <1>6 DEF s, c, b

(* the compressor stopping, with or without an error, *)
LEMMA StopOk ==
  ASSUME NEW r, ItemOk(r), r.enc \in {"copy", "copied", "failed"},
         NEW e, \/ e \in {"failed", "panic"}
                \/ e = "copied" /\ r.copied = r.produced /\ r.dump # "run"
                \/ e = "err" /\ r.pc # "upload"
  PROVE  ItemOk([r EXCEPT !.enc = e])
<1> DEFINE s == [r EXCEPT !.enc = e]
<1>0. r \in Items /\ Flow(r) /\ r.pc \notin {"join", "wait", "ok"}
  BY DEF ItemOk, Read, EncOver
<1>1. /\ s \in Items /\ s.pc = r.pc /\ s.got = r.got /\ s.buf = r.buf /\ s.copied = r.copied /\ s.enc = e
      /\ s.produced = r.produced /\ s.dump = r.dump
  BY ZenonT(30), <1>0 DEF Items, EncOver
<1> HIDE DEF s
<1>2. Flow(s)
  BY <1>0, <1>1 DEF Flow
<1>3. s.pc = "upload" => Reading(s)
  BY <1>1 DEF ItemOk, Reading, Ended
<1>4. ItemOk(s)
  BY <1>0, <1>1, <1>2, <1>3 DEF ItemOk
<1> QED
  BY <1>4 DEF s

(* its shutdown, which ends the frame, *)
LEMMA ShutdownOk ==
  ASSUME NEW r, ItemOk(r), r.enc \in {"copied", "failed"}, r.pc = "upload"
  PROVE  ItemOk([r EXCEPT !.buf = Append(@, End), !.enc = IF r.enc = "copied" THEN "ok" ELSE "err"])
<1> DEFINE b == Append(r.buf, End)
           e == IF r.enc = "copied" THEN "ok" ELSE "err"
           s == [r EXCEPT !.buf = b, !.enc = e]
<1>0. /\ r \in Items /\ r.copied \in Nat /\ r.buf \in Seq(Nat) /\ r.got \in Seq(Nat)
      /\ Flow(r) /\ Written(r.got, r.buf, r.copied, 0)
  BY DEF ItemOk, Items, Reading, Ended
<1>1. b \in Seq(Nat) /\ Written(r.got, b, r.copied, 1)
  BY <1>0, WrittenEnd
<1>2. e \in {"ok", "err"} /\ (e = "ok" => r.enc = "copied")
  OBVIOUS
<1> HIDE DEF b, e
<1>3. /\ s \in Items /\ s.pc = "upload" /\ s.got = r.got /\ s.dump = r.dump /\ s.buf = b /\ s.enc = e
      /\ s.copied = r.copied /\ s.produced = r.produced
  BY ZenonT(30), <1>0, <1>1, <1>2 DEF Items, EncOver
<1> HIDE DEF s
<1>4. Flow(s)
  BY <1>0, <1>2, <1>3 DEF Flow
<1>5. Reading(s)
  BY <1>1, <1>2, <1>3 DEF Reading, Ended
<1>6. ItemOk(s)
  BY <1>3, <1>4, <1>5 DEF ItemOk
<1> QED
  BY <1>6 DEF s, e, b

(* the upload reading a chunk, *)
LEMMA ReadOk ==
  ASSUME NEW r, ItemOk(r), r.pc = "upload", r.buf # << >>
  PROVE  ItemOk([r EXCEPT !.got = Append(@, Head(r.buf)), !.buf = Tail(@)])
<1> DEFINE b == Tail(r.buf)
           g == Append(r.got, Head(r.buf))
           s == [r EXCEPT !.got = g, !.buf = b]
<1>0. /\ r \in Items /\ r.copied \in Nat /\ r.buf \in Seq(Nat) /\ r.got \in Seq(Nat)
      /\ Flow(r) /\ Written(r.got, r.buf, r.copied, Ended(r)) /\ Ended(r) \in {0, 1}
  BY DEF ItemOk, Items, Reading, Ended
<1>1. b \in Seq(Nat) /\ g \in Seq(Nat) /\ Written(g, b, r.copied, Ended(r))
  BY <1>0, WrittenRead
<1> HIDE DEF b, g
<1>2. /\ s \in Items /\ s.pc = "upload" /\ s.got = g /\ s.dump = r.dump /\ s.buf = b /\ s.enc = r.enc
      /\ s.copied = r.copied /\ s.produced = r.produced
  BY ZenonT(30), <1>0, <1>1 DEF Items
<1> HIDE DEF s
<1>3. Flow(s)
  BY <1>0, <1>2 DEF Flow
<1>4. Reading(s)
  BY <1>1, <1>2 DEF Reading, Ended
<1>5. ItemOk(s)
  BY <1>2, <1>3, <1>4 DEF ItemOk
<1> QED
  BY <1>5 DEF s, g, b

(* and the export going on to its next await. *)
LEMMA NextOk ==
  ASSUME NEW r, ItemOk(r), NEW s,
         \/ r.pc = "upload" /\ r.buf = << >> /\ r.enc \in EncOver /\ s = [r EXCEPT !.pc = "join"]
         \/ r.pc = "upload" /\ s = [r EXCEPT !.pc = "err", !.buf = << >>]
         \/ r.pc = "join" /\ s = [r EXCEPT !.pc = IF r.enc = "ok" THEN "wait" ELSE "err"]
         \/ r.pc = "wait" /\ s = [r EXCEPT !.pc = IF r.dump = "ok" THEN "ok" ELSE "err"]
         \/ s = [r EXCEPT !.pc = "over"] \/ s = [r EXCEPT !.pc = "over", !.buf = << >>]
  PROVE  ItemOk(s) /\ s.got = r.got
<1>0. r \in Items /\ r.copied \in Nat /\ r.got \in Seq(Nat) /\ << >> \in Seq(Nat) /\ Flow(r)
  BY DEF ItemOk, Items
<1>1. /\ s \in Items /\ s.dump = r.dump /\ s.enc = r.enc /\ s.got = r.got
      /\ s.copied = r.copied /\ s.produced = r.produced /\ s.pc # "upload"
  BY <1>0, ZenonT(30) DEF Items
<1>2. /\ s.pc = "join" => r.pc = "upload" /\ r.buf = << >> /\ r.enc \in EncOver
      /\ s.pc = "wait" => r.pc = "join" /\ r.enc = "ok"
      /\ s.pc = "ok" => r.pc = "wait" /\ r.dump = "ok"
  BY ZenonT(30), <1>0 DEF Items
<1>3. Flow(s)
  BY <1>0, <1>1 DEF Flow
<1>4. s.pc \in {"join", "wait", "ok"} => Read(s)
  <2>1. Read(r) => Read(s)
    BY <1>1 DEF Read, Chunk, Ended
  <2>2. ASSUME s.pc = "join" PROVE Read(r)
    <3>1. Reading(r) /\ r.enc \in EncOver /\ Len(r.buf) = 0
      BY <2>2, <1>2 DEF ItemOk
    <3>2. Len(r.got) + 0 = Len(r.got)
      BY <1>0
    <3> QED
      BY <3>1, <3>2 DEF Reading, Read
  <2> QED
    BY <2>1, <2>2, <1>2 DEF ItemOk
<1> QED
  BY <1>1, <1>2, <1>3, <1>4 DEF ItemOk

(* A step of the dump process keeps the invariant of the pipeline. *)
LEMMA ChildInv == ASSUME ExportInv, NEW p \in Paths, Child(p) PROVE ExportInv'
<1>1. ItemOk(item[p]) /\ item[p].enc # "none" /\ item[p].dump = "run"
  BY DEF ExportInv, Child, Dump, DumpExit, Started
<1>2. PICK s \in {[item[p] EXCEPT !.produced = @ + 1], [item[p] EXCEPT !.dump = "ok"], [item[p] EXCEPT !.dump = "fail"]} :
        /\ Break(p, s)
        /\ \/ /\ item[p].enc = "copy" /\ item[p].produced < NarLen /\ item[p].produced = item[p].copied
              /\ s = [item[p] EXCEPT !.produced = @ + 1]
           \/ item[p].produced = NarLen /\ s = [item[p] EXCEPT !.dump = "ok"]
           \/ s = [item[p] EXCEPT !.dump = "fail"]
  BY DEF Child, Dump, DumpExit, Set
<1>3. ItemOk(s) /\ s.pc = item[p].pc /\ s.got = item[p].got
  BY <1>1, <1>2, DumpOk
<1> QED
  BY <1>1, <1>2, <1>3, OneItem

(* The compressor's own steps, and the panic of its task, change one export only. *)
LEMMA CompressorInv == ASSUME ExportInv, NEW p \in Paths, Compressor(p) \/ Panic(p) PROVE ExportInv'
<1> DEFINE r == item[p]
<1>1. ItemOk(r) /\ r \in Items /\ r.enc \in {"copy", "copied", "failed"}
  BY DEF ExportInv, Compressor, Panic, copy_nar_stream, Shutdown, ItemOk
<1>2. ASSUME NEW e, Break(p, [r EXCEPT !.enc = e]),
             \/ e \in {"failed", "panic"}
             \/ e = "copied" /\ r.copied = r.produced /\ r.dump # "run"
             \/ e = "err" /\ r.pc # "upload"
      PROVE  ExportInv'
  <2> DEFINE s == [r EXCEPT !.enc = e]
  <2>1. ItemOk(s)
    BY <1>1, <1>2, StopOk
  <2>2. s.pc = r.pc /\ s.got = r.got
    BY <1>1 DEF Items
  <2> QED
    BY ZenonT(30), <1>1, <1>2, <2>1, <2>2, OneItem
<1>3. CASE /\ r.enc = "copy" /\ r.pc = "upload" /\ r.copied < r.produced
           /\ Break(p, [r EXCEPT !.copied = @ + 1, !.buf = Append(@, r.produced)])
  <2> DEFINE s == [r EXCEPT !.copied = @ + 1, !.buf = Append(@, r.produced)]
  <2>1. ItemOk(s)
    BY ZenonT(30), <1>1, <1>3, CopyOk
  <2>2. s.pc = "upload"
    BY <1>1, <1>3 DEF Items
  <2> QED
    BY ZenonT(30), <1>3, <2>1, <2>2, OneItem
<1>4. CASE /\ r.enc \in {"copied", "failed"} /\ r.pc = "upload"
           /\ Break(p, [r EXCEPT !.buf = Append(@, End), !.enc = IF r.enc = "copied" THEN "ok" ELSE "err"])
  <2> DEFINE s == [r EXCEPT !.buf = Append(@, End), !.enc = IF r.enc = "copied" THEN "ok" ELSE "err"]
  <2>1. ItemOk(s)
    BY ZenonT(30), <1>1, <1>4, ShutdownOk
  <2>2. s.pc = "upload"
    BY <1>1, <1>4 DEF Items
  <2> QED
    BY ZenonT(30), <1>4, <2>1, <2>2, OneItem
<1>5. CASE copy_nar_stream(p)
  BY <1>5, <1>2, <1>3 DEF copy_nar_stream, Set, ReaderGone
<1>6. CASE Shutdown(p)
  BY <1>6, <1>2, <1>4 DEF Shutdown, Set, ReaderGone
<1>7. CASE Panic(p)
  BY <1>7, <1>2 DEF Panic
<1> QED
  BY <1>5, <1>6, <1>7 DEF Compressor

(* So do the reads of the upload and the two awaits that follow it. *)
LEMMA UploadInv == ASSUME ExportInv, NEW p \in Paths, Push(p) \/ Join(p) \/ Wait(p) PROVE ExportInv'
<1> DEFINE r == item[p]
<1>1. ItemOk(r) /\ r \in Items /\ r.pc \in {"upload", "join", "wait"}
  BY DEF ExportInv, Push, Join, Wait, ItemOk
<1>2. CASE /\ r.pc = "upload" /\ r.buf # << >>
           /\ Break(p, [r EXCEPT !.got = Append(@, Head(r.buf)), !.buf = Tail(@)])
  <2> DEFINE s == [r EXCEPT !.got = Append(@, Head(r.buf)), !.buf = Tail(@)]
  <2>1. ItemOk(s)
    BY ZenonT(30), <1>1, <1>2, ReadOk
  <2>2. s.pc = "upload"
    BY <1>1, <1>2 DEF Items
  <2> QED
    BY ZenonT(30), <1>2, <2>1, <2>2, OneItem
<1>3. ASSUME NEW s, Break(p, s),
             \/ r.pc = "upload" /\ r.buf = << >> /\ r.enc \in EncOver /\ s = [r EXCEPT !.pc = "join"]
             \/ r.pc = "upload" /\ s = [r EXCEPT !.pc = "err", !.buf = << >>]
             \/ r.pc = "join" /\ s = [r EXCEPT !.pc = IF r.enc = "ok" THEN "wait" ELSE "err"]
             \/ r.pc = "wait" /\ s = [r EXCEPT !.pc = IF r.dump = "ok" THEN "ok" ELSE "err"]
      PROVE  ExportInv'
  <2>1. ItemOk(s)
    BY ZenonT(30), <1>1, <1>3, NextOk
  <2>2. s.pc # "idle"
    BY ZenonT(30), <1>1, <1>3 DEF Items
  <2> QED
    BY <1>1, <1>3, <2>1, <2>2, OneItem
<1>4. CASE Push(p)
  BY <1>4, <1>2, <1>3 DEF Push, Set
<1>5. CASE Join(p)
  BY <1>5, <1>3 DEF Join, Set
<1>6. CASE Wait(p)
  BY <1>6, <1>3 DEF Wait, Set
<1> QED
  BY <1>4, <1>5, <1>6

(* An export starts once: the path leaves the queue, which does not name it twice. *)
LEMMA StartInv == ASSUME ExportInv, NEW p \in Paths, StartItem(p) PROVE ExportInv'
<1>1. /\ queue \in Seq(Paths) /\ queue # << >> /\ p = queue[1] /\ 1 \in 1 .. Len(queue)
      /\ queue' = Tail(queue)
  BY DEF ExportInv, StartItem
<1>2. /\ queue' \in Seq(Paths) /\ Len(queue') = Len(queue) - 1 /\ Len(queue) \in Nat
      /\ \A i \in 1 .. Len(queue') : i + 1 \in 1 .. Len(queue) /\ queue'[i] = queue[i + 1]
  BY <1>1
<1>3. item[p].pc = "idle" /\ item[p] \in Items /\ ItemOk(item[p])
  BY <1>1 DEF ExportInv
<1>4. PICK s : item' = [item EXCEPT ![p] = s] /\ s \in Items /\ ItemOk(s)
  <2>1. CASE item' = [item EXCEPT ![p] = [NoItem EXCEPT !.pc = "upload", !.enc = "copy"]]
    <3> DEFINE s == [NoItem EXCEPT !.pc = "upload", !.enc = "copy"]
    <3>1. /\ s \in Items /\ s.pc = "upload" /\ s.enc = "copy" /\ s.produced = 0 /\ s.copied = 0
          /\ s.buf = << >> /\ s.got = << >> /\ s.dump = "run"
      <4>1. /\ NoItem \in Items /\ NoItem.produced = 0 /\ NoItem.copied = 0
            /\ NoItem.buf = << >> /\ NoItem.got = << >> /\ NoItem.dump = "run"
        BY NoItemOk DEF ItemOk, NoItem
      <4> QED
        BY <4>1, ZenonT(30) DEF Items
    <3>2. Flow(s)
      BY <3>1, ExportAssumption DEF Flow
    <3>3. Reading(s)
      <4>1. Ended(s) = 0
        BY <3>1 DEF Ended
      <4>2. Written(<< >>, << >>, 0, 0)
        BY DEF Written
      <4> QED
        BY <3>1, <4>1, <4>2 DEF Reading
    <3> QED
      BY ZenonT(30), <2>1, <3>1, <3>2, <3>3 DEF ItemOk
  <2>2. CASE item' = [item EXCEPT ![p].pc = "err", ![p].dump = "fail"]
    <3> DEFINE s == [item[p] EXCEPT !.pc = "err", !.dump = "fail"]
    <3>1. /\ s \in Items /\ s.pc = "err" /\ s.enc = item[p].enc /\ s.produced = item[p].produced
          /\ s.copied = item[p].copied /\ s.dump = "fail"
      BY <1>3, ZenonT(30) DEF Items
    <3>2. Flow(s)
      BY <1>3, <3>1 DEF Flow, ItemOk
    <3>3. item' = [item EXCEPT ![p] = s]
      BY ZenonT(30), <2>2 DEF ExportInv
    <3> QED
      BY ZenonT(30), <3>1, <3>2, <3>3 DEF ItemOk
  <2> QED
    BY <2>1, <2>2 DEF StartItem
<1>5. item' \in [Paths -> Items] /\ \A q \in Paths : ItemOk(item'[q])
  BY <1>4 DEF ExportInv
<1>6. ASSUME NEW i \in 1 .. Len(queue'), NEW j \in 1 .. Len(queue'), queue'[i] = queue'[j] PROVE i = j
  <2>1. i + 1 = j + 1
    BY <1>2, <1>6 DEF ExportInv
  <2> QED
    BY <2>1, <1>2
<1>7. ASSUME NEW i \in 1 .. Len(queue') PROVE item'[queue'[i]].pc = "idle"
  <2>1. i + 1 # 1
    BY <1>2
  <2>2. queue[i + 1] # p /\ queue[i + 1] \in Paths
    BY <2>1, <1>1, <1>2 DEF ExportInv
  <2>3. item[queue[i + 1]].pc = "idle"
    BY <1>2 DEF ExportInv
  <2> QED
    BY <2>2, <2>3, <1>2, <1>4 DEF ExportInv
<1>8. \A q \in report.successful : q # p
  BY <1>3 DEF ExportInv
<1> QED
  BY <1>2, <1>4, <1>5, <1>6, <1>7, <1>8 DEF ExportInv, StartItem

(* The loop counts a path as successful only after its export has succeeded. *)
LEMMA ConsumeInv == ASSUME ExportInv, NEW p \in Paths, Consume(p) PROVE ExportInv'
<1>1. export = "running" /\ item[p].pc \in {"ok", "err"} /\ UNCHANGED queue /\ export' # "idle"
  BY ZenonT(30) DEF Consume
<1>2. ASSUME NEW q \in Paths, item[q].pc \in {"upload", "join", "wait", "ok", "err"},
             NEW s, s = [item[q] EXCEPT !.pc = "over"] \/ s = [item[q] EXCEPT !.pc = "over", !.buf = << >>]
      PROVE  s \in Items /\ ItemOk(s) /\ s.pc = "over" /\ s.got = item[q].got
  <2>1. item[q] \in Items /\ ItemOk(item[q])
    BY DEF ExportInv
  <2>2. ItemOk(s) /\ s.got = item[q].got
    BY ZenonT(30), <1>2, <2>1, NextOk
  <2>3. s.pc = "over"
    BY ZenonT(30), <1>2, <2>1 DEF Items
  <2> QED
    BY <2>2, <2>3 DEF ItemOk
<1>3. CASE item[p].pc = "err" /\ strict
  <2>1. item' = [q \in Paths |-> IF q \in InFlight THEN [item[q] EXCEPT !.pc = "over", !.buf = << >>] ELSE item[q]]
    BY <1>3, ZenonT(30) DEF Consume
  <2>2. item' \in [Paths -> Items] /\ \A q \in Paths : ItemOk(item'[q])
    BY ZenonT(30), <1>2, <2>1 DEF ExportInv, InFlight
  <2>3. \A q \in Paths : item[q].pc \in {"idle", "over"} => item'[q] = item[q]
    BY ZenonT(30), <2>1 DEF InFlight
  <2>4. \A i \in 1 .. Len(queue) : item'[queue[i]].pc = "idle"
    BY <2>3 DEF ExportInv
  <2>5. \A q \in report.successful : item'[q].pc = "over" /\ item'[q].got = Whole
    BY <2>3 DEF ExportInv
  <2>6. UNCHANGED report
    BY ZenonT(30), <1>3 DEF Consume
  <2> QED
    BY <1>1, <2>2, <2>4, <2>5, <2>6 DEF ExportInv
<1>4. CASE ~ (item[p].pc = "err" /\ strict)
  <2> DEFINE s == [item[p] EXCEPT !.pc = "over"]
  <2>1. item' = [item EXCEPT ![p] = s]
    BY ZenonT(30), <1>4 DEF Consume, ExportInv
  <2>2. s \in Items /\ ItemOk(s) /\ s.pc = "over" /\ s.got = item[p].got
    BY ZenonT(30), <1>1, <1>2
  <2> HIDE DEF s
  <2>3. item' \in [Paths -> Items] /\ \A q \in Paths : ItemOk(item'[q])
    BY <2>1, <2>2 DEF ExportInv
  <2>4. report'.successful \subseteq report.successful \cup {p}
        /\ (p \in report'.successful => item[p].pc = "ok" \/ p \in report.successful)
    BY ZenonT(30), <1>4 DEF Consume, ExportInv
  <2>5. \A i \in 1 .. Len(queue) : item'[queue[i]].pc = "idle"
    BY <1>1, <2>1 DEF ExportInv
  <2>6. \A q \in report'.successful : item'[q].pc = "over" /\ item'[q].got = Whole
    BY <1>1, <2>1, <2>2, <2>4, OkIsWhole DEF ExportInv
  <2>7. report' \in [successful : SUBSET Paths, failed : SUBSET Paths]
    <3>1. report \in [successful : SUBSET Paths, failed : SUBSET Paths]
      BY DEF ExportInv
    <3>2. /\ report.successful \cup {p} \in SUBSET Paths /\ report.failed \cup {p} \in SUBSET Paths
      BY <3>1
    <3>3. \/ report' = [report EXCEPT !.successful = report.successful \cup {p}]
          \/ report' = [report EXCEPT !.failed = report.failed \cup {p}]
      BY ZenonT(30), <1>4 DEF Consume
    <3> QED
      BY <3>1, <3>2, <3>3
  <2>8. /\ queue' \in Seq(Paths) /\ \A i, j \in 1 .. Len(queue') : queue'[i] = queue'[j] => i = j
        /\ \A i \in 1 .. Len(queue') : item'[queue'[i]].pc = "idle"
    BY <1>1, <2>5 DEF ExportInv
  <2> QED
    BY <1>1, <2>3, <2>6, <2>7, <2>8 DEF ExportInv
<1> QED
  BY <1>3, <1>4

(* Every step of the pipeline keeps the invariant. *)
LEMMA PipelineInv == ASSUME ExportInv, ExportNext PROVE ExportInv'
<1>1. PICK p \in Paths : ItemNext(p)
  BY DEF ExportNext
<1> QED
  BY <1>1, ChildInv, CompressorInv, UploadInv, StartInv, ConsumeInv DEF ItemNext, Task

(* The candidates of a capture are paths: the snapshot, the scan of the store   *)
(* and the closures only narrow down what is in the store or reachable.         *)
LEMMA CandidatesArePaths ==
  ASSUME store \subseteq Paths, NEW R, NEW b, NEW mode, NEW is_strict,
         compute_candidate_closure(R, snap, mode, is_strict, store, b) # Err
  PROVE  compute_candidate_closure(R, snap, mode, is_strict, store, b)[1].items \subseteq Paths
<1>1. DiffPaths(snap, store, b) \subseteq Paths
  BY DEF DiffPaths, scan_store_names
<1>2. \A Q : get_path_infos_typed(Q, store) # Err => get_path_infos_typed(Q, store)[1] \subseteq Paths
  BY DEF get_path_infos_typed, Ok, Err
<1>3. \A Q : get_recursive_path_infos(Q, store) # Err => get_recursive_path_infos(Q, store)[1] \subseteq Paths
  BY DEF get_recursive_path_infos, Closure, Ok, Err
<1>4. CASE R = {}
  BY <1>1, <1>4 DEF compute_candidate_closure, Ok, Err
<1>5. CASE R # {}
  <2> DEFINE build == get_build_closure(R, store)
             raw == CASE mode = "RootsOnly" -> get_path_infos_typed(R, store)
                      [] mode = "RuntimeClosure" -> get_recursive_path_infos(R, store)
                      [] mode = "BuildClosure" ->
                           IF build = Err THEN Err ELSE get_path_infos_typed(build[1], store)
                      [] mode = "DiffAll" /\ snap # << >> -> Ok(DiffPaths(snap, store, b))
                      [] OTHER -> get_recursive_path_infos(R, store)
  <2>1. raw # Err => raw[1] \subseteq Paths
    <3>1. CASE mode = "RootsOnly"
      BY <3>1, <1>2
    <3>2. CASE mode = "RuntimeClosure"
      BY <3>2, <1>3
    <3>3. CASE mode = "BuildClosure"
      BY <3>3, <1>2
    <3>4. CASE mode = "DiffAll" /\ snap # << >>
      BY <3>4, <1>1 DEF Ok
    <3>5. CASE mode \notin {"RootsOnly", "RuntimeClosure", "BuildClosure"} /\ ~ (mode = "DiffAll" /\ snap # << >>)
      BY <3>5, <1>3
    <3> QED
      BY <3>1, <3>2, <3>3, <3>4, <3>5
  <2> HIDE DEF raw
  <2>2. /\ raw # Err
        /\ compute_candidate_closure(R, snap, mode, is_strict, store, b) =
             Ok([items |-> IF snap = << >> THEN raw[1] ELSE filter_snapshot_diff(raw[1], snap[1]),
                 active_gc_roots |-> extract_gc_roots(R)])
    BY <1>5 DEF compute_candidate_closure, raw
  <2> QED
    BY <2>1, <2>2 DEF filter_snapshot_diff, Ok
<1> QED
  BY <1>4, <1>5

(* Every step keeps what is to be exported among the paths. *)
LEMMA TodoStep == ASSUME TodoInv, [Next]_vars PROVE TodoInv'
<1> USE DEF TodoInv, machine, work
<1>1. CASE Spawn \/ Probe \/ Snapshot \/ discover_outputs \/ Sign \/ StartExport \/ Exported \/ Register
           \/ WriteReceipt \/ Clean \/ ProxyReady \/ ProxyExits \/ Rerun
  BY <1>1, ZenonT(30) DEF Spawn, Probe, Snapshot, discover_outputs, Sign, StartExport, Exported, Register, WriteReceipt,
              Clean, ProxyReady, ProxyExits, Rerun
<1>2. CASE build_outputs \/ UserBuild
  BY <1>2, ZenonT(30) DEF build_outputs, UserBuild, Realise, Finished, Closure
<1>3. CASE WorkerSelect
  <2>1. ASSUME NEW own, find_locally_built_paths(roots, sigs, own, store) # Err
        PROVE  find_locally_built_paths(roots, sigs, own, store)[1] \subseteq Paths
    BY <2>1 DEF find_locally_built_paths, get_recursive_path_infos, classify_and_filter, Closure, Ok, Err
  <2> QED
    BY ZenonT(30), <1>3, <2>1 DEF WorkerSelect, Chosen
<1>4. CASE CaptureSelect
  <2>1. ASSUME NEW items, NEW ctx, items \subseteq Paths PROVE classify_and_filter(items, sigs, ctx) \subseteq Paths
    BY <2>1 DEF classify_and_filter
  <2>2. store' = store
    BY ZenonT(30), <1>4 DEF CaptureSelect
  <2>3. todo' \subseteq Paths
    <3>1. CASE todo' = todo
      BY <3>1
    <3>2. CASE todo' # todo
      <4> DEFINE Found(target, b) == compute_candidate_closure(target, snap, job.mode, job.strict, store, b)
      <4>1. PICK target, ctx, b : Found(target, b) # Err
                                  /\ todo' = classify_and_filter(Found(target, b)[1].items, sigs, ctx)
        BY ZenonT(30), <1>4, <3>2 DEF CaptureSelect, Chosen
      <4>2. Found(target, b)[1].items \subseteq Paths
        BY <4>1, CandidatesArePaths
      <4> QED
        BY <4>1, <4>2, <2>1
    <3> QED
      BY <3>1, <3>2
  <2> QED
    BY <2>2, <2>3
<1>5. CASE ExportStep \/ Over \/ UNCHANGED vars
  BY <1>5 DEF ExportStep, Over, vars, jobVars
<1> QED
  BY <1>1, <1>2, <1>3, <1>4, <1>5 DEF Next, JobStep

(* Every step of the job keeps the invariant of the pipeline. *)
LEMMA ExportStepInv == ASSUME ExportInv, TodoInv, [Next]_vars PROVE ExportInv'
<1>1. CASE UNCHANGED pipeline
  BY <1>1 DEF pipeline, ExportInv
<1>2. CASE ExportStep
  BY <1>2, PipelineInv DEF ExportStep
<1>3. CASE Rerun
  <2>1. /\ item' = [p \in Paths |-> NoItem] /\ queue' = << >> /\ export' = "idle"
        /\ report' = [successful |-> {}, failed |-> {}]
    BY <1>3 DEF Rerun
  <2>2. NoItem \in Items
    BY NoItemOk DEF ItemOk
  <2> QED
    BY <2>1, <2>2, NoItemOk DEF ExportInv
<1>4. ASSUME NEW q \in Lists(todo), export_and_upload(q, IsWorker /\ job.strict) PROVE ExportInv'
  <2>1. export = "idle" /\ export' # "idle" /\ queue' = q /\ UNCHANGED << item, report >>
    BY <1>4 DEF export_and_upload
  <2>2. /\ queue' \in Seq(Paths)
        /\ \A i, j \in 1 .. Len(queue') : queue'[i] = queue'[j] => i = j
    <3>1. q \in Seq(todo) /\ q \in Seq(Paths)
      BY DEF Lists, TodoInv
    <3>2. \A i \in 1 .. Len(q) : q[i] \in todo
      BY <3>1
    <3>3. \A i, j \in 1 .. Len(q) : q[i] = q[j] => i = j
      BY <3>2, ZenonT(30) DEF Lists
    <3> QED
      BY <3>1, <3>3, <2>1
  <2>3. \A i \in 1 .. Len(queue') : item[queue'[i]].pc = "idle"
    BY <2>1, <2>2 DEF ExportInv, NoItem
  <2> QED
    BY <2>1, <2>2, <2>3 DEF ExportInv
<1> QED
  <2>1. CASE StartExport
    BY <2>1, <1>1, <1>4 DEF StartExport
  <2>2. CASE Spawn \/ Probe \/ Snapshot \/ discover_outputs \/ build_outputs \/ UserBuild \/ WorkerSelect
             \/ CaptureSelect \/ Sign \/ Exported \/ Register \/ WriteReceipt \/ Clean \/ ProxyReady \/ ProxyExits
    <3>1. UNCHANGED pipeline
      BY <2>2, ZenonT(30) DEF Spawn, Probe, Snapshot, discover_outputs, build_outputs, UserBuild, WorkerSelect, CaptureSelect,
                  Sign, Exported, Register, WriteReceipt, Clean, ProxyReady, ProxyExits
    <3> QED
      BY <3>1, <1>1
  <2>3. CASE Over \/ UNCHANGED vars
    BY <2>3, <1>1 DEF Over, vars, exportVars
  <2> QED
    BY <2>1, <2>2, <2>3, <1>2, <1>3 DEF Next, JobStep

(* Every initial state satisfies both. *)
LEMMA ExportInitInv == Init => ExportInv /\ TodoInv
<1> SUFFICES ASSUME Init PROVE ExportInv /\ TodoInv
  OBVIOUS
<1>1. /\ item = [p \in Paths |-> NoItem] /\ queue = << >> /\ export = "idle"
      /\ report = [successful |-> {}, failed |-> {}]
  BY DEF Init, ExportInit
<1>2. NoItem \in Items
  BY NoItemOk DEF ItemOk
<1>3. ExportInv
  BY <1>1, <1>2, NoItemOk DEF ExportInv
<1>4. TodoInv
  BY JobAssumption DEF Init, TodoInv
<1> QED
  BY <1>3, <1>4

(* A path is reported as exported only when its blob is the whole compressed    *)
(* NAR, for any number of paths, chunks, exports in flight, faults and runs:    *)
(* export_single_item_stream looks at the upload, the compressing task and the  *)
(* exit status of the dump before it returns an entry.                          *)
THEOREM EntriesAreWhole == Spec => []EntryIsWhole
<1>1. ExportInv => EntryIsWhole
  BY DEF ExportInv, EntryIsWhole
<1>2. ExportInv /\ TodoInv /\ [Next]_vars => (ExportInv /\ TodoInv)'
  BY ExportStepInv, TodoStep
<1> QED
  BY <1>1, <1>2, ExportInitInv, PTL DEF Spec

-----------------------------------------------------------------------------
(* What a receipt accounts for.                                               *)

(* Outputs refer to outputs only, and what is asked for are outputs: the filter *)
(* ignores .drv, .lock and .check files and names without a hash.               *)
Outputs == {p \in Paths : Kind[p] = "out"}
OutputsOnly == Targets \subseteq Outputs /\ ReferenceClosed(Outputs)

(* A machine starts with a valid store. *)
StoresClosed == \A S \in Before : ReferenceClosed(S)

(* A job with a key is not run again. *)
KeysRunOnce == \A j \in Jobs : j.key => j.attempts = 1

(* Who else has a path: a signature that is not the repository's, or a          *)
(* snapshot that has it.                                                        *)
Elsewhere(p) ==
  \/ p \in remote
  \/ sigs[p] \ {"own"} # {}
  \/ job.kind = "session" /\ job.snapshot /\ p \in before

Protecting == job.kind = "worker" \/ job.mode \in Closures

(* The roots of the receipt are covered by what is to be exported. *)
Covered == Protecting => \A p \in Closure(extract_gc_roots(roots)) : p \in todo \/ Elsewhere(p)

(* What a job is before it has chosen, and before it exports. *)
Choosing == {"setup", "init", "probe", "snapshot", "user", "discover", "build", "fetch", "closure"}
Early == Choosing \cup {"sign", "start"}
Late == {"register", "receipt", "clean", "done"}

(* The store of a job: what is new in it was asked for, the snapshot is older,  *)
(* and the repository's signature is on paths of the index, until this job      *)
(* has signed what it exports.                                                  *)
StoreInv ==
  /\ job \in Jobs /\ before \subseteq store /\ ReferenceClosed(store)
  /\ store \ before \subseteq Closure(Targets)
  /\ links \subseteq Targets
  /\ job.kind = "worker" => roots \subseteq Targets
  /\ pc \in {"setup", "init", "probe", "snapshot"} /\ job.kind = "session" => store = before
  /\ snap # << >> => job.kind = "session" /\ job.snapshot /\ snap = << scan_store_names(before) >>
  /\ DOMAIN sigs = Paths
  /\ pc \in Choosing \/ ~ job.key => \A p \in Paths : sigs[p] # {} /\ sigs[p] \ {"own"} = {} => p \in remote
  /\ job.key => attempt = job.attempts

(* What was to be exported is waiting, in flight or reported. *)
Queued == {queue[i] : i \in 1 .. Len(queue)}
Reported == report.successful \cup report.failed
AccountInv ==
  /\ export = "running" => todo \subseteq Queued \cup InFlight \cup Reported
  /\ export = "ok" => todo \subseteq Reported

(* The course of a job up to its receipt. *)
CourseInv ==
  /\ pc \in {"discover", "build", "fetch"} => job.kind = "worker"
  /\ pc \in Early => export = "idle"
  /\ pc \in {"sign", "start", "export"} \cup Late => Covered
  /\ pc \in Late => export \in {"idle", "ok"} /\ todo \subseteq Reported
  /\ receipt # << >> =>
       /\ pc \in {"clean", "done"}
       /\ receipt[1].entries = report.successful
       /\ receipt[1].active_gc_roots = extract_gc_roots(roots)

HoleInv == StoreInv /\ AccountInv /\ CourseInv

(* The closure is the least closed set above its roots. *)
LEMMA ClosureIsLeast ==
  ASSUME NEW R \in SUBSET Paths
  PROVE  /\ R \subseteq Closure(R) /\ Closure(R) \subseteq Paths /\ ReferenceClosed(Closure(R))
         /\ \A S \in SUBSET Paths : R \subseteq S /\ ReferenceClosed(S) => Closure(R) \subseteq S
<1>1. R \subseteq Closure(R) /\ Closure(R) \subseteq Paths
  BY DEF Closure
<1>2. \A S \in SUBSET Paths : R \subseteq S /\ ReferenceClosed(S) => Closure(R) \subseteq S
  BY DEF Closure
<1>3. ASSUME NEW p \in Closure(R), NEW q \in Refs[p] PROVE q \in Closure(R)
  <2>1. p \in Paths /\ q \in Paths
    BY CandidatesAssumption DEF Closure
  <2>2. ASSUME NEW S \in SUBSET Paths, R \subseteq S, ReferenceClosed(S) PROVE q \in S
    BY <2>2 DEF Closure, ReferenceClosed
  <2> QED
    BY <2>1, <2>2 DEF Closure
<1> QED
  BY <1>1, <1>2, <1>3 DEF ReferenceClosed

(* Fewer roots have a smaller closure. *)
LEMMA ClosureGrows ==
  ASSUME NEW R \in SUBSET Paths, NEW Q \in SUBSET R
  PROVE  Closure(Q) \subseteq Closure(R)
BY ClosureIsLeast

(* What is asked for consists of outputs. *)
LEMMA TargetsAreOutputs ==
  ASSUME OutputsOnly
  PROVE  Targets \subseteq Paths /\ Closure(Targets) \subseteq Outputs
<1>1. Targets \subseteq Paths /\ Outputs \subseteq Paths
  BY JobAssumption DEF Outputs
<1> QED
  BY <1>1, ClosureIsLeast DEF OutputsOnly

(* The filter skips an output only if somebody else has it. *)
LEMMA SkippedIsElsewhere ==
  ASSUME NEW p \in Outputs, NEW ctx,
         ctx.remote_cached_hashes \subseteq remote, ctx.trusted_upstream_prefixes \subseteq {"upstream"},
         ctx.own_public_key \in {<< >>, << "own" >>},
         sigs[p] # {} /\ sigs[p] \ {"own"} = {} => p \in remote
  PROVE  Classify(p, sigs[p], ctx) = "LocallyBuilt" \/ p \in remote \/ sigs[p] \ {"own"} # {}
<1>1. Kind[p] = "out" /\ store_hash(p) # << >>
  BY DEF Outputs, store_hash
<1>2. has_upstream_signature(sigs[p], ctx.trusted_upstream_prefixes) => sigs[p] \ {"own"} # {}
  BY DEF has_upstream_signature
<1>3. has_external_signature(sigs[p], ctx.own_public_key) => p \in remote \/ sigs[p] \ {"own"} # {}
  <2>1. CASE ctx.own_public_key = << >>
    BY <2>1 DEF has_external_signature
  <2>2. CASE ctx.own_public_key = << "own" >>
    BY <2>2 DEF has_external_signature
  <2> QED
    BY <2>1, <2>2
<1> QED
  BY <1>1, <1>2, <1>3 DEF Classify

(* Roots without a hash are left out. *)
LEMMA GcRoots == ASSUME NEW R PROVE extract_gc_roots(R) \subseteq R
BY DEF extract_gc_roots

(* What the worker chooses covers the closure of its outputs. *)
LEMMA WorkerCovers ==
  ASSUME OutputsOnly, StoreInv, pc = "fetch", job.kind = "worker", NEW own \in SUBSET remote,
         find_locally_built_paths(roots, sigs, own, store) # Err,
         NEW p \in Closure(extract_gc_roots(roots))
  PROVE  p \in find_locally_built_paths(roots, sigs, own, store)[1] \/ Elsewhere(p)
<1> DEFINE ctx == [own_public_key |-> << >>, remote_cached_hashes |-> own, trusted_upstream_prefixes |-> {}]
<1>1. Targets \in SUBSET Paths /\ roots \subseteq Targets /\ extract_gc_roots(roots) \subseteq roots
  BY TargetsAreOutputs, GcRoots DEF StoreInv
<1>2. p \in Closure(roots) /\ p \in Outputs /\ p \in Paths
  BY <1>1, ClosureGrows, TargetsAreOutputs DEF Outputs
<1>3. find_locally_built_paths(roots, sigs, own, store)[1] = classify_and_filter(Closure(roots), sigs, ctx)
  BY DEF find_locally_built_paths, get_recursive_path_infos, Ok, Err
<1>4. sigs[p] # {} /\ sigs[p] \ {"own"} = {} => p \in remote
  BY <1>2 DEF StoreInv, Choosing
<1>5. Classify(p, sigs[p], ctx) = "LocallyBuilt" \/ p \in remote \/ sigs[p] \ {"own"} # {}
  BY <1>2, <1>4, SkippedIsElsewhere
<1> QED
  BY <1>2, <1>3, <1>5 DEF classify_and_filter, Elsewhere

(* A candidate that the session keeps is exported or elsewhere. *)
LEMMA CandidateCovers ==
  ASSUME StoreInv, pc = "closure", NEW own \in SUBSET remote, NEW reads \in BOOLEAN,
         NEW items, NEW p \in items \cap Outputs
  PROVE  LET ctx == [own_public_key |-> get_own_public_key(reads), remote_cached_hashes |-> own,
                     trusted_upstream_prefixes |-> {"upstream"}]
         IN  p \in classify_and_filter(items, sigs, ctx) \/ Elsewhere(p)
<1> DEFINE ctx == [own_public_key |-> get_own_public_key(reads), remote_cached_hashes |-> own,
                   trusted_upstream_prefixes |-> {"upstream"}]
<1>1. sigs[p] # {} /\ sigs[p] \ {"own"} = {} => p \in remote
  BY DEF StoreInv, Choosing, Outputs
<1>2. ctx.own_public_key \in {<< >>, << "own" >>}
  BY DEF get_own_public_key
<1>3. Classify(p, sigs[p], ctx) = "LocallyBuilt" \/ p \in remote \/ sigs[p] \ {"own"} # {}
  BY <1>1, <1>2, SkippedIsElsewhere
<1> QED
  BY <1>3 DEF classify_and_filter, Elsewhere

(* The candidates of a session that protects its roots hold their closure, but  *)
(* for what the snapshot has.                                                   *)
LEMMA CandidatesHoldClosure ==
  ASSUME OutputsOnly, StoreInv, TodoInv, job.mode \in Closures, NEW T \in SUBSET Targets, NEW b \in BOOLEAN, NEW s,
         NEW found, found = compute_candidate_closure(T, snap, job.mode, s, store, b), found # Err,
         NEW p \in Closure(extract_gc_roots(found[1].active_gc_roots))
  PROVE  p \in Outputs /\ (p \in found[1].items \/ (job.kind = "session" /\ job.snapshot /\ p \in before))
<1> DEFINE D == DiffPaths(snap, store, b)
<1>0. Targets \in SUBSET Paths /\ T \in SUBSET Paths /\ store \in SUBSET Paths /\ Closure(Targets) \subseteq Outputs
  BY TargetsAreOutputs DEF TodoInv
<1>1. snap # << >> => /\ job.kind = "session" /\ job.snapshot /\ snap[1] = scan_store_names(before)
                      /\ snap[1] \subseteq before
  BY DEF StoreInv, scan_store_names
<1>2. CASE T = {} /\ snap = << >>
  <2>1. found[1] = [items |-> {}, active_gc_roots |-> {}]
    BY <1>2 DEF compute_candidate_closure, Ok, Err
  <2>2. extract_gc_roots(found[1].active_gc_roots) = {}
    BY <2>1, GcRoots
  <2>3. Closure({}) \subseteq {}
    BY ClosureIsLeast DEF ReferenceClosed
  <2> QED
    BY <2>2, <2>3
<1>3. CASE T = {} /\ snap # << >>
  <2>1. found[1].items = D /\ found[1].active_gc_roots = extract_gc_roots(D)
    BY <1>3 DEF compute_candidate_closure, Ok, Err
  <2>2. D \subseteq store /\ D \cap before \subseteq {} /\ (\A q \in store : Kind[q] = "out" /\ q \notin D /\ b => q \in before)
    BY <1>1, <1>3 DEF DiffPaths, scan_store_names, TodoInv, StoreInv
  <2>3. D \subseteq Closure(Targets) /\ D \in SUBSET Paths
    BY <1>0, <2>2 DEF StoreInv
  <2>4. extract_gc_roots(extract_gc_roots(D)) \subseteq D
    BY ZenonT(30), GcRoots
  <2>5. p \in Closure(D)
    BY <2>1, <2>3, <2>4, ClosureGrows
  <2>6. p \in Closure(Targets) /\ p \in store
    BY <1>0, <2>2, <2>3, <2>5, ClosureIsLeast DEF StoreInv
  <2>7. D = {} => p \notin Closure(D)
    <3>1. Closure({}) \subseteq {}
      BY ClosureIsLeast DEF ReferenceClosed
    <3> QED
      BY <3>1
  <2>8. b
    BY <2>5, <2>7 DEF DiffPaths
  <2> QED
    BY ZenonT(30), <1>0, <1>1, <1>3, <2>1, <2>2, <2>6, <2>8 DEF Outputs
<1>4. CASE T # {}
  <2> DEFINE build == get_build_closure(T, store)
             raw == IF job.mode = "RuntimeClosure" THEN get_recursive_path_infos(T, store)
                    ELSE IF build = Err THEN Err ELSE get_path_infos_typed(build[1], store)
  <2>1. /\ raw # Err
        /\ found = Ok([items |-> IF snap = << >> THEN raw[1] ELSE filter_snapshot_diff(raw[1], snap[1]),
                       active_gc_roots |-> extract_gc_roots(T)])
    <3>1. CASE job.mode = "RuntimeClosure"
      BY <1>4, <3>1 DEF compute_candidate_closure
    <3>2. CASE job.mode = "BuildClosure"
      BY <1>4, <3>2 DEF compute_candidate_closure
    <3> QED
      BY ZenonT(30), <3>1, <3>2 DEF Closures
  <2>2. Closure(T) \subseteq raw[1]
    BY ZenonT(30), <2>1 DEF get_recursive_path_infos, get_path_infos_typed, get_build_closure, Ok, Err
  <2> HIDE DEF raw
  <2>3. /\ found[1].items = (IF snap = << >> THEN raw[1] ELSE raw[1] \ snap[1])
        /\ found[1].active_gc_roots = extract_gc_roots(T)
    <3> DEFINE kept == IF snap = << >> THEN raw[1] ELSE filter_snapshot_diff(raw[1], snap[1])
               protected == extract_gc_roots(T)
    <3>1. found = << [items |-> kept, active_gc_roots |-> protected] >>
      BY <2>1, ZenonT(30) DEF Ok
    <3>2. kept = IF snap = << >> THEN raw[1] ELSE raw[1] \ snap[1]
      BY DEF filter_snapshot_diff
    <3> HIDE DEF kept, protected
    <3>3. found[1].items = kept /\ found[1].active_gc_roots = protected
      BY <3>1
    <3> QED
      BY ZenonT(30), <3>2, <3>3 DEF protected
  <2>4. extract_gc_roots(extract_gc_roots(T)) \subseteq T
    BY GcRoots
  <2>5. p \in Closure(T) /\ p \in Closure(Targets)
    BY <1>0, <2>3, <2>4, ClosureGrows
  <2> QED
    BY <1>0, <1>1, <2>2, <2>3, <2>5
<1> QED
  BY <1>2, <1>3, <1>4

(* A build adds a closed part of what was asked for, with the signatures of     *)
(* those it has it from.                                                        *)
LEMMA Realised ==
  ASSUME StoreInv, TodoInv, NEW S \in SUBSET Closure(Targets), ReferenceClosed(S), Realise(S), pc \in {"build", "user"}
  PROVE  /\ before \subseteq store' /\ ReferenceClosed(store') /\ store' \ before \subseteq Closure(Targets)
         /\ DOMAIN sigs' = Paths
         /\ \A p \in Paths : sigs'[p] # {} /\ sigs'[p] \ {"own"} = {} => p \in remote
<1>1. before \subseteq store' /\ store' \ before \subseteq Closure(Targets)
  BY DEF StoreInv, Realise
<1>2. ReferenceClosed(store')
  BY DEF StoreInv, Realise, ReferenceClosed
<1>3. DOMAIN sigs' = Paths
  BY DEF Realise
<1>4. ASSUME NEW p \in Paths, sigs'[p] # {}, sigs'[p] \ {"own"} = {} PROVE p \in remote
  <2>1. CASE p \in S \ store
    BY <1>4, <2>1 DEF Realise, SignaturesOf
  <2>2. CASE p \notin S \ store
    BY <1>4, <2>2 DEF Realise, StoreInv, Choosing
  <2> QED
    BY <2>1, <2>2
<1> QED
  BY <1>1, <1>2, <1>3, <1>4

(* A step that leaves the store and the options alone, and does not go back. *)
LEMMA SameStore ==
  ASSUME StoreInv, UNCHANGED << fixed, attempt, store, sigs, snap, links >>,
         UNCHANGED roots \/ job.kind # "worker",
         pc' \in Choosing => pc \in Choosing,
         pc' \in {"setup", "init", "probe", "snapshot"} => pc \in {"setup", "init", "probe", "snapshot"}
  PROVE  StoreInv'
<1>1. UNCHANGED << job, before, remote, attempt, store, sigs, snap, links >>
  BY DEF fixed
<1> QED
  BY <1>1 DEF StoreInv

(* Every step keeps what is known of the store. *)
LEMMA StoreStep == ASSUME OutputsOnly, StoreInv, TodoInv, ProxyInv, [Next]_vars PROVE StoreInv'
<1> USE DEF fixed, machine, process, work
<1>1. CASE Spawn \/ discover_outputs \/ WorkerSelect \/ StartExport \/ Exported \/ Register \/ WriteReceipt
           \/ ProxyReady \/ ProxyExits
  <2>1. UNCHANGED << fixed, attempt, store, sigs, snap, links, roots >>
    BY <1>1, ZenonT(30) DEF Spawn, discover_outputs, WorkerSelect, StartExport, Exported, Register, WriteReceipt,
                            ProxyReady, ProxyExits
  <2>2. /\ pc' \in Choosing => pc \in Choosing
        /\ pc' \in {"setup", "init", "probe", "snapshot"} => pc \in {"setup", "init", "probe", "snapshot"}
    BY ZenonT(30), <1>1 DEF Spawn, discover_outputs, WorkerSelect, StartExport, Exported, Register, WriteReceipt,
                ProxyReady, ProxyExits, Chosen, ReturnErr, Choosing
  <2> QED
    BY <2>1, <2>2, SameStore
<1>2. CASE Probe
  <2>1. UNCHANGED << fixed, attempt, store, sigs, snap, links, roots >> /\ pc = "probe"
    BY <1>2, ZenonT(30) DEF Probe
  <2> QED
    BY <2>1, SameStore DEF Choosing
<1>3. CASE CaptureSelect
  <2>1. UNCHANGED << fixed, attempt, store, sigs, snap, links >> /\ pc = "closure" /\ pc' \in {"register", "sign", "err"}
    BY ZenonT(30), <1>3 DEF CaptureSelect, Chosen
  <2>2. job.kind # "worker"
    BY <2>1 DEF ProxyInv
  <2> QED
    BY <2>1, <2>2, SameStore DEF Choosing
<1>4. CASE Snapshot
  <2>1. UNCHANGED << job, before, remote, attempt, store, sigs, links, roots >> /\ pc = "snapshot" /\ pc' \in {"user", "err"}
        /\ snap' \in {snap, << >>, << scan_store_names(store) >>}
        /\ (snap' = << scan_store_names(store) >> => job.snapshot \/ snap' = snap)
    BY <1>4 DEF Snapshot
  <2>2. job.kind = "session"
    BY <2>1, JobAssumption DEF ProxyInv, StoreInv
  <2>3. store = before
    BY <2>1, <2>2 DEF StoreInv
  <2>4. snap' # << >> => job.snapshot /\ snap' = << scan_store_names(before) >>
    BY <2>1, <2>3 DEF StoreInv
  <2> QED
    BY <2>1, <2>2, <2>4 DEF StoreInv, Choosing
<1>5. CASE build_outputs
  <2>0. UNCHANGED << job, before, remote, attempt, snap, links >> /\ pc = "build" /\ pc' \in {"fetch", "err"}
        /\ roots' \in {roots, Targets}
    BY <1>5, ZenonT(30) DEF build_outputs, ReturnErr
  <2>1. PICK S \in SUBSET Closure(Targets) : ReferenceClosed(S) /\ Realise(S)
    BY <1>5, TargetsAreOutputs, ClosureIsLeast, ZenonT(30) DEF build_outputs, Finished
  <2> QED
    BY <2>0, <2>1, Realised DEF StoreInv
<1>6. CASE UserBuild
  <2>0. UNCHANGED << job, before, remote, attempt, snap, roots >> /\ pc = "user" /\ pc' = "closure"
        /\ links' \in {links, Targets, {}}
    BY <1>6 DEF UserBuild
  <2>1. PICK S \in SUBSET Closure(Targets) : ReferenceClosed(S) /\ Realise(S)
    BY <1>6, TargetsAreOutputs, ClosureIsLeast DEF UserBuild, Finished
  <2> QED
    BY <2>0, <2>1, Realised DEF StoreInv
<1>7. CASE Sign
  <2>1. UNCHANGED << job, before, remote, attempt, store, snap, links, roots >> /\ job.key /\ pc' = "start"
        /\ DOMAIN sigs' = Paths
    BY <1>7 DEF Sign, SignPaths, StoreInv
  <2> QED
    BY <2>1 DEF StoreInv, Choosing
<1>8. CASE Clean
  BY <1>8 DEF Clean, StoreInv, Choosing
<1>9. CASE Rerun
  <2>1. UNCHANGED << job, before, remote, store, sigs, snap, links >> /\ roots' = {} /\ job.kind = "worker" /\ ~ job.key
    <3>1. job.attempts \in Nat /\ (job.key => attempt = job.attempts)
      BY JobAssumption DEF StoreInv
    <3>2. attempt < job.attempts
      BY <1>9 DEF Rerun
    <3> QED
      BY <1>9, <3>1, <3>2 DEF Rerun, IsWorker
  <2> QED
    BY <2>1 DEF StoreInv
<1>10. CASE ExportStep \/ Over \/ UNCHANGED vars
  BY <1>10 DEF ExportStep, Over, vars, jobVars, StoreInv
<1> QED
  BY <1>1, <1>2, <1>3, <1>4, <1>5, <1>6, <1>7, <1>8, <1>9, <1>10 DEF Next, JobStep

(* A step of one export that neither starts nor ends it loses no path. *)
LEMMA FlightKept ==
  ASSUME ExportInv, AccountInv, NEW p \in Paths, NEW r, Break(p, r), r.pc = item[p].pc \/ r.pc \in {"join", "wait", "ok", "err"},
         UNCHANGED todo
  PROVE  AccountInv'
<1>1. item' = [item EXCEPT ![p] = r] /\ UNCHANGED << queue, export, report >>
  BY DEF Break
<1>2. InFlight \subseteq InFlight'
  BY <1>1 DEF InFlight, ExportInv
<1>3. Queued' = Queued /\ Reported' = Reported
  BY <1>1 DEF Queued, Reported
<1> QED
  BY <1>1, <1>2, <1>3 DEF AccountInv

(* Every step of an export keeps account of what was to be exported. *)
LEMMA AccountItem ==
  ASSUME ExportInv, AccountInv, NEW p \in Paths, ItemNext(p), UNCHANGED todo
  PROVE  AccountInv' /\ (export = "running" \/ UNCHANGED << export, report >>)
<1>0. item \in [Paths -> Items] /\ item[p] \in Items
  BY DEF ExportInv
<1>1. CASE Dump(p) \/ DumpExit(p) \/ copy_nar_stream(p) \/ Shutdown(p) \/ Panic(p) \/ Push(p) \/ Join(p) \/ Wait(p)
  <2> DEFINE Kept == AccountInv' /\ UNCHANGED << export, report >>
  <2>1. ASSUME NEW r, Break(p, r), r.pc = item[p].pc \/ r.pc \in {"join", "wait", "ok", "err"} PROVE Kept
    <3>1. UNCHANGED << export, report >>
      BY <2>1 DEF Break
    <3> QED
      BY <2>1, <3>1, FlightKept
  <2> HIDE DEF Kept
  <2>2. \A b, c, e :
          /\ Break(p, [item[p] EXCEPT !.enc = e]) => Kept
          /\ Break(p, [item[p] EXCEPT !.dump = e]) => Kept
          /\ Break(p, [item[p] EXCEPT !.produced = e]) => Kept
          /\ Break(p, [item[p] EXCEPT !.copied = c, !.buf = b]) => Kept
          /\ Break(p, [item[p] EXCEPT !.buf = b, !.enc = e]) => Kept
          /\ Break(p, [item[p] EXCEPT !.got = c, !.buf = b]) => Kept
          /\ e \in {"join", "wait", "ok", "err"} =>
               (Break(p, [item[p] EXCEPT !.pc = e]) \/ Break(p, [item[p] EXCEPT !.pc = e, !.buf = b]) => Kept)
    <3>1. \A b, c, e :
            /\ [item[p] EXCEPT !.enc = e].pc = item[p].pc
            /\ [item[p] EXCEPT !.dump = e].pc = item[p].pc
            /\ [item[p] EXCEPT !.produced = e].pc = item[p].pc
            /\ [item[p] EXCEPT !.copied = c, !.buf = b].pc = item[p].pc
            /\ [item[p] EXCEPT !.buf = b, !.enc = e].pc = item[p].pc
            /\ [item[p] EXCEPT !.got = c, !.buf = b].pc = item[p].pc
            /\ [item[p] EXCEPT !.pc = e].pc = e
            /\ [item[p] EXCEPT !.pc = e, !.buf = b].pc = e
      BY <1>0, ZenonT(30) DEF Items
    <3>2. \A r : Break(p, r) /\ r.pc = item[p].pc => Kept
      BY <2>1, ZenonT(30)
    <3>3. \A r : Break(p, r) /\ r.pc \in {"join", "wait", "ok", "err"} => Kept
      BY <2>1, ZenonT(30)
    <3> TAKE b, c, e
    <3>4. /\ Break(p, [item[p] EXCEPT !.enc = e]) => Kept
          /\ Break(p, [item[p] EXCEPT !.dump = e]) => Kept
          /\ Break(p, [item[p] EXCEPT !.produced = e]) => Kept
      BY <3>1, <3>2, ZenonT(30)
    <3>5. /\ Break(p, [item[p] EXCEPT !.copied = c, !.buf = b]) => Kept
          /\ Break(p, [item[p] EXCEPT !.buf = b, !.enc = e]) => Kept
          /\ Break(p, [item[p] EXCEPT !.got = c, !.buf = b]) => Kept
      BY <3>1, <3>2, ZenonT(30)
    <3>6. e \in {"join", "wait", "ok", "err"} =>
            (Break(p, [item[p] EXCEPT !.pc = e]) \/ Break(p, [item[p] EXCEPT !.pc = e, !.buf = b]) => Kept)
      BY <3>1, <3>3, ZenonT(30)
    <3> QED
      BY <3>4, <3>5, <3>6
  <2>3. Kept
    <3>1. CASE Dump(p) \/ DumpExit(p)
      BY <2>2, <3>1, ZenonT(30) DEF Dump, DumpExit, Set
    <3>2. CASE copy_nar_stream(p)
      BY <2>2, <3>2, ZenonT(30) DEF copy_nar_stream, Set
    <3>3. CASE Shutdown(p) \/ Panic(p)
      BY <2>2, <3>3, ZenonT(30) DEF Shutdown, Panic, Set
    <3>4. CASE Push(p)
      BY <2>2, <3>4, ZenonT(30) DEF Push, Set
    <3>5. CASE Join(p) \/ Wait(p)
      BY <2>2, <3>5, ZenonT(30) DEF Join, Wait, Set
    <3> QED
      BY <1>1, <3>1, <3>2, <3>3, <3>4, <3>5
  <2> QED
    BY <2>3 DEF Kept
<1>2. CASE StartItem(p)
  <2>1. /\ export = "running" /\ UNCHANGED << export, report >> /\ queue \in Seq(Paths) /\ queue # << >>
        /\ p = Head(queue) /\ queue' = Tail(queue)
    BY <1>2 DEF StartItem, ExportInv
  <2>2. InFlight \subseteq InFlight' /\ p \in InFlight'
    <3>1. CASE item' = [item EXCEPT ![p] = [NoItem EXCEPT !.pc = "upload", !.enc = "copy"]]
      <4>1. [NoItem EXCEPT !.pc = "upload", !.enc = "copy"].pc = "upload"
        BY DEF NoItem
      <4> QED
        BY <1>0, <3>1, <4>1 DEF InFlight
    <3>2. CASE item' = [item EXCEPT ![p].pc = "err", ![p].dump = "fail"]
      <4>1. item'[p].pc = "err" /\ \A q \in Paths \ {p} : item'[q] = item[q]
        BY <1>0, <3>2 DEF Items
      <4> QED
        BY <4>1 DEF InFlight
    <3> QED
      BY <1>2, <3>1, <3>2 DEF StartItem
  <2>3. ASSUME NEW i \in 1 .. Len(queue) PROVE queue[i] = p \/ queue[i] \in Queued'
    <3>1. Len(queue') = Len(queue) - 1 /\ Len(queue) \in Nat /\ p = queue[1]
          /\ \A j \in 1 .. Len(queue') : queue'[j] = queue[j + 1]
      BY <2>1
    <3>2. CASE i = 1
      BY <3>1, <3>2
    <3>3. CASE i # 1
      <4>1. i - 1 \in 1 .. Len(queue') /\ (i - 1) + 1 = i
        BY <3>1, <3>3
      <4>2. queue'[i - 1] = queue[i]
        BY <3>1, <4>1
      <4> QED
        BY <4>1, <4>2 DEF Queued
    <3> QED
      BY <3>2, <3>3
  <2>4. Queued \subseteq Queued' \cup {p} /\ Reported' = Reported
    BY <2>1, <2>3 DEF Queued, Reported
  <2> QED
    BY <2>1, <2>2, <2>4 DEF AccountInv
<1>3. CASE Consume(p)
  <2>0. export = "running" /\ item[p].pc \in {"ok", "err"} /\ p \in InFlight
    BY <1>3, ZenonT(30) DEF Consume, InFlight
  <2>1. CASE item[p].pc = "err" /\ strict
    <3>1. export' = "err"
      BY <1>3, <2>1, ZenonT(30) DEF Consume
    <3> QED
      BY <2>0, <3>1 DEF AccountInv
  <2>2. CASE ~ (item[p].pc = "err" /\ strict)
    <3>1. /\ item' = [item EXCEPT ![p].pc = "over"] /\ UNCHANGED queue
          /\ export' = IF LastExport(p) THEN "ok" ELSE "running"
          /\ report' = IF item[p].pc = "ok" THEN [report EXCEPT !.successful = @ \cup {p}]
                       ELSE [report EXCEPT !.failed = @ \cup {p}]
      BY <1>3, <2>2, ZenonT(30) DEF Consume
    <3>2. Reported' = Reported \cup {p}
      BY <3>1 DEF Reported, ExportInv
    <3>3. InFlight \ {p} \subseteq InFlight'
      BY <1>0, <3>1 DEF InFlight
    <3>4. Queued' = Queued
      BY <3>1 DEF Queued
    <3>5. CASE LastExport(p)
      <4>1. Queued = {} /\ InFlight = {p}
        BY <3>5 DEF LastExport, Queued
      <4> QED
        BY <2>0, <3>1, <3>2, <3>5, <4>1 DEF AccountInv
    <3>6. CASE ~ LastExport(p)
      BY <2>0, <3>1, <3>2, <3>3, <3>4, <3>6 DEF AccountInv
    <3> QED
      BY <3>5, <3>6, <2>0
  <2> QED
    BY <2>1, <2>2
<1> QED
  BY <1>1, <1>2, <1>3 DEF ItemNext, Child, Compressor, Task

(* The list that is exported holds every path that was chosen. *)
LEMMA ListsHoldAll ==
  ASSUME NEW q \in Lists(todo)
  PROVE  todo \subseteq {q[i] : i \in 1 .. Len(q)} /\ (q = << >> => todo = {})
<1>1. \A p \in todo : \E i \in 1 .. Len(q) : q[i] = p
  BY DEF Lists
<1> QED
  BY <1>1

(* Every step keeps account of what was to be exported. *)
LEMMA AccountStep == ASSUME ExportInv, AccountInv, CourseInv, [Next]_vars PROVE AccountInv'
<1> USE DEF work
<1>1. CASE Spawn \/ Probe \/ Snapshot \/ discover_outputs \/ build_outputs \/ UserBuild \/ Sign \/ Exported \/ Register
           \/ WriteReceipt \/ Clean \/ ProxyReady \/ ProxyExits \/ Over \/ UNCHANGED vars
  <2>1. UNCHANGED << queue, export, item, report, todo >>
    BY <1>1, ZenonT(30) DEF Spawn, Probe, Snapshot, discover_outputs, build_outputs, UserBuild, Sign, Exported, Register,
       WriteReceipt, Clean, ProxyReady, ProxyExits, Over, vars, exportVars, jobVars, pipeline
  <2> QED
    BY <2>1 DEF AccountInv, Queued, Reported, InFlight
<1>2. CASE WorkerSelect \/ CaptureSelect
  <2>1. export' = export /\ pc \in Early
    BY <1>2, ZenonT(30) DEF WorkerSelect, CaptureSelect, pipeline, Early, Choosing
  <2> QED
    BY <2>1 DEF AccountInv, CourseInv
<1>3. CASE StartExport
  <2>1. CASE UNCHANGED pipeline
    <3>1. UNCHANGED << queue, export, item, report, todo >>
      BY <1>3, <2>1 DEF StartExport, pipeline
    <3> QED
      BY <3>1 DEF AccountInv, Queued, Reported, InFlight
  <2>2. CASE ~ UNCHANGED pipeline
    <3>1. PICK q \in Lists(todo) : export_and_upload(q, IsWorker /\ job.strict)
      BY <1>3, <2>2 DEF StartExport
    <3>2. queue' = q /\ export' = (IF q = << >> THEN "ok" ELSE "running") /\ todo' = todo
      BY <1>3, <3>1 DEF StartExport, export_and_upload
    <3> QED
      BY <3>2, ListsHoldAll DEF AccountInv, Queued
  <2> QED
    BY <2>1, <2>2
<1>4. CASE ExportStep
  BY <1>4, AccountItem DEF ExportStep, ExportNext, jobVars
<1>5. CASE Rerun
  BY <1>5 DEF Rerun, AccountInv
<1> QED
  BY <1>1, <1>2, <1>3, <1>4, <1>5 DEF Next, JobStep

(* Roots stay covered when signatures are only added. *)
LEMMA CoveredKept ==
  ASSUME Covered, UNCHANGED << job, before, remote, roots, todo >>, \A p \in Paths : sigs[p] \subseteq sigs'[p]
  PROVE  Covered'
<1>1. ASSUME NEW p \in Paths, Elsewhere(p) PROVE Elsewhere(p)'
  BY <1>1 DEF Elsewhere
<1>2. Closure(extract_gc_roots(roots)) \subseteq Paths
  BY DEF Closure
<1> QED
  BY <1>1, <1>2 DEF Covered, Protecting

(* What the worker chooses covers its roots, *)
LEMMA WorkerChooses ==
  ASSUME OutputsOnly, StoreInv, CourseInv, WorkerSelect
  PROVE  /\ pc = "fetch" /\ UNCHANGED << job, export, report, receipt >>
         /\ pc' = "err" \/ (Covered' /\ (pc' = "sign" \/ (pc' = "register" /\ todo' = {})))
<1>1. /\ pc = "fetch" /\ job.kind = "worker"
      /\ UNCHANGED << job, before, remote, sigs, roots, export, report, receipt >>
  BY DEF WorkerSelect, CourseInv, pipeline, fixed, machine
<1>2. PICK own \in SUBSET remote :
        \/ pc' = "err"
        \/ /\ find_locally_built_paths(roots, sigs, own, store) # Err
           /\ Chosen(find_locally_built_paths(roots, sigs, own, store)[1])
  BY ZenonT(30) DEF WorkerSelect, ReturnErr, fetch_remote_arch_hashes
<1>3. CASE pc' # "err"
  <2>1. \A p \in Closure(extract_gc_roots(roots)) : p \in todo' \/ Elsewhere(p)
    BY ZenonT(30), <1>1, <1>2, <1>3, WorkerCovers DEF Chosen
  <2>2. Covered'
    BY <1>1, <2>1 DEF Covered, Elsewhere
  <2>3. pc' = "sign" \/ (pc' = "register" /\ todo' = {})
    BY <1>2, <1>3 DEF Chosen
  <2> QED
    BY <1>1, <2>2, <2>3
<1> QED
  BY <1>1, <1>3

(* and so does what a session chooses. *)
LEMMA SessionChooses ==
  ASSUME OutputsOnly, StoreInv, TodoInv, ProxyInv, CaptureSelect
  PROVE  /\ pc = "closure" /\ UNCHANGED << job, export, report, receipt >>
         /\ pc' = "err" \/ (Covered' /\ (pc' = "sign" \/ (pc' = "register" /\ todo' = {})))
<1> DEFINE ctx(own, reads) == [own_public_key |-> get_own_public_key(reads), remote_cached_hashes |-> own,
                               trusted_upstream_prefixes |-> {"upstream"}]
           target == resolve_target_roots({}, job.exprs, Targets, links, store)
           result(scans) == compute_candidate_closure(target[1], snap, job.mode, job.strict, store, scans)
<1>1. pc = "closure" /\ UNCHANGED << job, before, remote, sigs, export, report, receipt >>
  BY ZenonT(30) DEF CaptureSelect, pipeline, fixed, machine
<1>2. CASE pc' # "err"
  <2>1. PICK own \in SUBSET remote, scans \in BOOLEAN, reads \in BOOLEAN :
          /\ target # Err /\ result(scans) # Err /\ roots' = result(scans)[1].active_gc_roots
          /\ Chosen(classify_and_filter(result(scans)[1].items, sigs, ctx(own, reads)))
    BY <1>2, ZenonT(30) DEF CaptureSelect, fetch_remote_arch_hashes
  <2>2. target[1] \in SUBSET Targets
    <3>1. job.exprs \subseteq Targets /\ links \subseteq Targets
      BY JobAssumption DEF StoreInv
    <3> QED
      BY ZenonT(30), <2>1, <3>1 DEF resolve_target_roots, resolve_flake_or_attr_targets, find_symlink_targets, Ok, Err
  <2> HIDE DEF target
  <2>3. ASSUME job.mode \in Closures, NEW p \in Closure(extract_gc_roots(roots')) PROVE p \in todo' \/ Elsewhere(p)
    <3>1. p \in Outputs /\ (p \in result(scans)[1].items \/ (job.kind = "session" /\ job.snapshot /\ p \in before))
      BY ZenonT(30), <2>1, <2>2, <2>3, CandidatesHoldClosure
    <3>2. todo' = classify_and_filter(result(scans)[1].items, sigs, ctx(own, reads))
      BY <2>1 DEF Chosen
    <3>3. CASE p \in result(scans)[1].items
      BY ZenonT(30), <1>1, <3>1, <3>2, <3>3, CandidateCovers
    <3> QED
      BY <3>1, <3>3 DEF Elsewhere
  <2>4. Covered'
    <3>1. job.kind # "worker"
      BY <1>1 DEF ProxyInv
    <3> QED
      BY <1>1, <2>3, <3>1 DEF Covered, Elsewhere, Protecting
  <2>5. pc' = "sign" \/ (pc' = "register" /\ todo' = {})
    BY <2>1 DEF Chosen
  <2> QED
    BY <1>1, <2>4, <2>5
<1> QED
  BY <1>1, <1>2

(* Every step keeps the course of the job. *)
LEMMA CourseStep ==
  ASSUME OutputsOnly, StoreInv, TodoInv, ProxyInv, ExportInv, AccountInv, CourseInv, [Next]_vars
  PROVE  CourseInv'
<1> USE DEF fixed, machine, process, work
<1> DEFINE Choice == {"sign", "start", "export"} \cup Late
<1>1. CASE Spawn \/ Probe \/ Snapshot \/ discover_outputs \/ build_outputs \/ UserBuild
  <2>1. /\ UNCHANGED << job, export, receipt >> /\ pc \in Choosing /\ pc' \in Choosing \cup {"err"}
        /\ pc' \in {"discover", "build", "fetch"} => job.kind = "worker"
    <3>1. CASE Spawn
      BY <3>1 DEF Spawn, IsWorker, pipeline, Choosing
    <3>2. CASE Probe
      BY <3>2 DEF Probe, export_to_github_env, WaitAgain, ReturnErr, IsWorker, pipeline, Choosing
    <3>3. CASE Snapshot
      BY <3>3 DEF Snapshot, pipeline, Choosing
    <3>4. CASE discover_outputs
      BY <3>4 DEF discover_outputs, ReturnErr, pipeline, Choosing, CourseInv
    <3>5. CASE build_outputs
      BY <3>5, ZenonT(30) DEF build_outputs, ReturnErr, pipeline, Choosing, CourseInv
    <3>6. CASE UserBuild
      BY <3>6 DEF UserBuild, pipeline, Choosing
    <3> QED
      BY <1>1, <3>1, <3>2, <3>3, <3>4, <3>5, <3>6
  <2> QED
    BY <2>1 DEF CourseInv, Choosing, Early, Late
<1>2. CASE WorkerSelect \/ CaptureSelect
  <2>1. /\ pc \in {"fetch", "closure"} /\ UNCHANGED << job, export, report, receipt >>
        /\ pc' = "err" \/ (Covered' /\ (pc' = "sign" \/ (pc' = "register" /\ todo' = {})))
    BY <1>2, WorkerChooses, SessionChooses
  <2> QED
    BY <2>1 DEF CourseInv, Choosing, Early, Late
<1>3. CASE Sign
  <2>1. /\ UNCHANGED << job, before, remote, roots, todo, export, receipt >> /\ pc = "sign" /\ pc' = "start"
        /\ \A p \in Paths : sigs[p] \subseteq sigs'[p]
    BY <1>3 DEF Sign, SignPaths, pipeline
  <2>2. Covered'
    BY <2>1, CoveredKept DEF CourseInv
  <2> QED
    BY <2>1, <2>2 DEF CourseInv, Choosing, Early, Late
<1>4. CASE StartExport
  <2>1. /\ UNCHANGED << job, before, remote, sigs, roots, todo, report, receipt >> /\ pc \in {"sign", "start"}
        /\ pc' \in {"export", "err"}
    BY <1>4 DEF StartExport, ReturnErr, export_and_upload, pipeline
  <2>2. Covered'
    BY <2>1, CoveredKept DEF CourseInv
  <2> QED
    BY <2>1, <2>2 DEF CourseInv, Choosing, Early, Late
<1>5. CASE Exported \/ Register \/ Clean \/ WriteReceipt
  <2>1. UNCHANGED << job, before, remote, sigs, roots, todo, export, report >> /\ pc \in Choice
    BY ZenonT(30), <1>5 DEF Exported, Register, Clean, WriteReceipt, pipeline, Late
  <2>2. Covered'
    BY ZenonT(30), <2>1, CoveredKept DEF CourseInv
  <2>3. CASE Exported
    <3>1. pc = "export" /\ ((export = "ok" /\ pc' = "register") \/ pc' = "err") /\ UNCHANGED receipt
      BY <2>3 DEF Exported, ReturnErr
    <3> QED
      BY <2>1, <2>2, <3>1 DEF CourseInv, AccountInv, Choosing, Early, Late, Reported
  <2>4. CASE Register \/ Clean
    <3>1. ((pc = "register" /\ pc' = "receipt") \/ (pc = "clean" /\ pc' = "done")) /\ UNCHANGED receipt
      BY <2>4 DEF Register, Clean
    <3> QED
      BY ZenonT(30), <2>1, <2>2, <3>1 DEF CourseInv, Choosing, Early, Late, Reported
  <2>5. CASE WriteReceipt
    <3>1. /\ pc = "receipt"
          /\ (pc' \in {"clean", "done"} /\ receipt' = << Receipt >>) \/ (pc' = "err" /\ UNCHANGED receipt)
      BY <2>5 DEF WriteReceipt
    <3>2. << Receipt >>[1].entries = report.successful /\ << Receipt >>[1].active_gc_roots = extract_gc_roots(roots)
      BY DEF Receipt
    <3> HIDE DEF Receipt
    <3> QED
      BY <2>1, <2>2, <3>1, <3>2 DEF CourseInv, Choosing, Early, Late, Reported
  <2> QED
    BY <1>5, <2>3, <2>4, <2>5
<1>6. CASE ExportStep
  <2>1. UNCHANGED << job, before, remote, sigs, roots, todo, receipt, pc >>
    BY <1>6 DEF ExportStep, jobVars
  <2>2. export = "running" \/ UNCHANGED << export, report >>
    BY <1>6, <2>1, AccountItem DEF ExportStep, ExportNext
  <2>3. Covered => Covered'
    BY <2>1, CoveredKept
  <2> QED
    BY <2>1, <2>2, <2>3 DEF CourseInv, Reported, Late
<1>7. CASE ProxyReady \/ ProxyExits \/ Over \/ UNCHANGED vars
  <2>1. UNCHANGED << job, before, remote, sigs, roots, todo, export, report, receipt, pc >>
    BY <1>7 DEF ProxyReady, ProxyExits, Over, vars, jobVars, exportVars, pipeline
  <2>2. Covered => Covered'
    BY <2>1, CoveredKept
  <2> QED
    BY <2>1, <2>2 DEF CourseInv, Reported
<1>8. CASE Rerun
  BY ZenonT(30), <1>8 DEF Rerun, CourseInv, Choosing, Early, Late
<1> QED
  BY <1>1, <1>2, <1>3, <1>4, <1>5, <1>6, <1>7, <1>8 DEF Next, JobStep

(* Every initial state is as it should be. *)
LEMMA HoleInit == ASSUME StoresClosed, KeysRunOnce, Init PROVE HoleInv
<1>1. /\ job \in Jobs /\ attempt = 1 /\ pc \in {"setup", "init"} /\ store \in Before /\ before = store
      /\ snap = << >> /\ links = {} /\ roots = {} /\ receipt = << >> /\ export = "idle"
      /\ sigs = [p \in Paths |-> IF p \in store \cap Upstream THEN {"upstream"} ELSE {}]
  BY DEF Init, ExportInit
<1>2. StoreInv
  BY <1>1 DEF StoreInv, StoresClosed, KeysRunOnce
<1>3. AccountInv /\ CourseInv
  BY <1>1 DEF AccountInv, CourseInv, Early, Choosing, Late
<1> QED
  BY <1>2, <1>3 DEF HoleInv

(* A receipt whose roots it protects leaves no hole behind them: what the       *)
(* closures of run_build_worker's or run_session_capture's roots hold and the   *)
(* receipt does not list failed, or is in the index, or has the signature of    *)
(* somebody else, or was there before the session.  A job that signs is run     *)
(* once: run again, it would take its own signature for that of somebody else.  *)
THEOREM NothingIsForgotten ==
  ASSUME OutputsOnly, StoresClosed, KeysRunOnce
  PROVE  Spec => []NothingForgotten
<1> DEFINE Inv == HoleInv /\ ProxyInv /\ ExportInv /\ TodoInv
<1>1. Init => Inv
  BY HoleInit, ProxyInit, ExportInitInv
<1>2. Inv /\ [Next]_vars => Inv'
  BY StoreStep, AccountStep, CourseStep, ProxyStep, ExportStepInv, TodoStep DEF HoleInv
<1>3. Inv => NothingForgotten
  <2> SUFFICES ASSUME Inv, receipt # << >>, Protecting, NEW p \in Closure(receipt[1].active_gc_roots)
               PROVE  p \in receipt[1].entries \cup report.failed \/ Elsewhere(p)
    BY DEF NothingForgotten, Elsewhere, Protecting
  <2>1. pc \in Late /\ receipt[1].entries = report.successful /\ receipt[1].active_gc_roots = extract_gc_roots(roots)
    BY DEF HoleInv, CourseInv, Late
  <2>2. p \in todo \/ Elsewhere(p)
    BY <2>1 DEF HoleInv, CourseInv, Covered
  <2>3. todo \subseteq Reported
    BY <2>1 DEF HoleInv, CourseInv
  <2> QED
    BY <2>1, <2>2, <2>3 DEF Reported
<1> QED
  BY <1>1, <1>2, <1>3, PTL DEF Spec
=============================================================================

----------------------------- MODULE StoreExport -----------------------------
(***************************************************************************)
(* ParallelExporter (nixcache-builder: nix/exporter.rs): every store path   *)
(* goes through a pipeline of three parties that share no lock:             *)
(*   nix-store --dump  ->  a spawned task that compresses into a bounded    *)
(*   duplex pipe  ->  the upload, which reads the pipe to its end.          *)
(* The export of a path awaits the upload, then the task, then the exit     *)
(* status of the process; a failing upload leaves task and process behind.  *)
(* buffer_unordered keeps up to Concurrency exports in flight, and in       *)
(* strict mode the first failure drops the others.                          *)
(*                                                                          *)
(* A NAR is the sequence of its chunks 1 .. NarLen, a compressed NAR the    *)
(* same sequence and End, the end of the frame.  push_resumable is taken    *)
(* at its word: it fails, or stores what it read to the end of the stream.  *)
(***************************************************************************)
EXTENDS Candidates, Sequences

CONSTANTS
  NarLen,        \* chunks of a NAR
  BufCap,        \* DUPLEX_BUFFER_SIZE in chunks
  Concurrency,
  MaxFaults      \* things that go wrong in one history

ASSUME ExportAssumption ==
  NarLen \in Nat \ {0} /\ BufCap \in Nat \ {0} /\ Concurrency \in Nat /\ MaxFaults \in Nat

VARIABLES
  queue,    \* paths whose export has not started, in order
  strict,   \* ParallelExportConfig.strict
  export,   \* "idle", "running", "ok", "err": the call as a whole
  item,     \* Paths -> state of the export of a path
  report,   \* ParallelExportReport: successful and failed paths
  faults    \* things that have gone wrong so far

pipeline == << queue, strict, export, item, report >>
exportVars == << pipeline, faults >>

Fault == faults < MaxFaults /\ faults' = faults + 1
NoFault == UNCHANGED faults

End == NarLen + 1
Whole == [n \in 1 .. End |-> n]
EncOver == {"ok", "err", "panic"}

\* pc: "idle", "upload", "join", "wait", "ok", "err", "over" (taken by the loop, or dropped).
NoItem == [pc |-> "idle", dump |-> "run", produced |-> 0, enc |-> "none", copied |-> 0,
           buf |-> << >>, got |-> << >>]

InFlight == {p \in Paths : item[p].pc \in {"upload", "join", "wait", "ok", "err"}}

ExportInit ==
  /\ queue = << >> /\ strict = FALSE /\ export = "idle"
  /\ item = [p \in Paths |-> NoItem]
  /\ report = [successful |-> {}, failed |-> {}]
  /\ faults = 0

\* export_and_upload_paths_with_preinfo, called with items.
export_and_upload(items, is_strict) ==
  /\ export = "idle"
  /\ queue' = items /\ strict' = is_strict
  /\ export' = IF items = << >> THEN "ok" ELSE "running"
  /\ UNCHANGED << item, report >>

-----------------------------------------------------------------------------
(* One export.                                                              *)

Break(p, r) == item' = [item EXCEPT ![p] = r] /\ UNCHANGED << queue, strict, export, report >>
Set(p, r) == Break(p, r) /\ NoFault

\* export_single_item_stream up to its first await.
StartItem(p) ==
  /\ export = "running" /\ queue # << >> /\ p = Head(queue)
  /\ Cardinality(InFlight) < IF Concurrency = 0 THEN 1 ELSE Concurrency
  /\ queue' = Tail(queue)
  /\ \/ NoFault /\ item' = [item EXCEPT ![p] = [NoItem EXCEPT !.pc = "upload", !.enc = "copy"]]
     \/ Fault /\ item' = [item EXCEPT ![p].pc = "err", ![p].dump = "fail"]
  /\ UNCHANGED << strict, export, report >>

Started(p) == item[p].enc # "none"

\* nix-store --dump writes to its pipe, which holds one chunk here.
Dump(p) ==
  /\ Started(p) /\ item[p].dump = "run" /\ item[p].enc = "copy"
  /\ item[p].produced < NarLen /\ item[p].produced = item[p].copied
  /\ Set(p, [item[p] EXCEPT !.produced = @ + 1])

\* It exits at the end of the NAR, on an error of its own, or because nobody
\* reads its output any more.
DumpExit(p) ==
  /\ Started(p) /\ item[p].dump = "run"
  /\ \/ item[p].produced = NarLen /\ Set(p, [item[p] EXCEPT !.dump = "ok"])
     \/ Fault /\ Break(p, [item[p] EXCEPT !.dump = "fail"])
     \/ item[p].enc \in EncOver /\ item[p].produced < NarLen /\ Set(p, [item[p] EXCEPT !.dump = "fail"])

ReaderGone(p) == item[p].pc # "upload"
Room(p) == Len(item[p].buf) < BufCap

\* copy_nar_stream: one chunk read and written, or the end of the output.
copy_nar_stream(p) ==
  /\ item[p].enc = "copy"
  /\ \/ /\ item[p].copied < item[p].produced
        /\ \/ ReaderGone(p) /\ Set(p, [item[p] EXCEPT !.enc = "failed"])
           \/ /\ ~ReaderGone(p) /\ Room(p)
              /\ Set(p, [item[p] EXCEPT !.copied = @ + 1, !.buf = Append(@, item[p].produced)])
     \/ /\ item[p].copied = item[p].produced /\ item[p].dump # "run"
        /\ Set(p, [item[p] EXCEPT !.enc = "copied"])
     \/ Fault /\ Break(p, [item[p] EXCEPT !.enc = "failed"])

\* The encoder is shut down whatever the copy returned, which ends the frame.
Shutdown(p) ==
  /\ item[p].enc \in {"copied", "failed"}
  /\ \/ ReaderGone(p) /\ Set(p, [item[p] EXCEPT !.enc = "err"])
     \/ /\ ~ReaderGone(p) /\ Room(p)
        /\ Set(p, [item[p] EXCEPT !.buf = Append(@, End),
                                  !.enc = IF item[p].enc = "copied" THEN "ok" ELSE "err"])

\* The task panics: its end of the duplex pipe is dropped as it is.
Panic(p) ==
  /\ item[p].enc \in {"copy", "copied", "failed"}
  /\ Fault /\ Break(p, [item[p] EXCEPT !.enc = "panic"])

\* push_resumable over the reading end.
Push(p) ==
  /\ item[p].pc = "upload"
  /\ \/ /\ item[p].buf # << >>
        /\ Set(p, [item[p] EXCEPT !.got = Append(@, Head(item[p].buf)), !.buf = Tail(@)])
     \/ /\ item[p].buf = << >> /\ item[p].enc \in EncOver
        /\ Set(p, [item[p] EXCEPT !.pc = "join"])
     \/ Fault /\ Break(p, [item[p] EXCEPT !.pc = "err", !.buf = << >>])

\* Changed form: the result of the compressing task is not looked at.
JoinAnyway(p) ==
  /\ item[p].pc = "join" /\ item[p].enc \in EncOver
  /\ Set(p, [item[p] EXCEPT !.pc = "wait"])

\* compress_handle.await.
Join(p) ==
  /\ item[p].pc = "join" /\ item[p].enc \in EncOver
  /\ Set(p, [item[p] EXCEPT !.pc = IF item[p].enc = "ok" THEN "wait" ELSE "err"])

\* dump_proc.wait, then the entry.
Wait(p) ==
  /\ item[p].pc = "wait" /\ item[p].dump # "run"
  /\ Set(p, [item[p] EXCEPT !.pc = IF item[p].dump = "ok" THEN "ok" ELSE "err"])

\* buffered.next() has nothing left after p.
LastExport(p) == queue = << >> /\ InFlight = {p}

\* The loop over the finished exports.
Consume(p) ==
  /\ export = "running" /\ item[p].pc \in {"ok", "err"}
  /\ IF item[p].pc = "err" /\ strict
     THEN /\ export' = "err"
          /\ item' = [q \in Paths |-> IF q \in InFlight THEN [item[q] EXCEPT !.pc = "over", !.buf = << >>] ELSE item[q]]
          /\ UNCHANGED << queue, report >>
     ELSE /\ item' = [item EXCEPT ![p].pc = "over"]
          /\ report' = IF item[p].pc = "ok" THEN [report EXCEPT !.successful = @ \cup {p}]
                       ELSE [report EXCEPT !.failed = @ \cup {p}]
          /\ export' = IF LastExport(p) THEN "ok" ELSE "running"
          /\ UNCHANGED queue
  /\ NoFault /\ UNCHANGED strict

\* The parties of one export: the dump, the thread that compresses, the task.
Child(p) == Dump(p) \/ DumpExit(p)
Compressor(p) == copy_nar_stream(p) \/ Shutdown(p)
Task(p) == StartItem(p) \/ Push(p) \/ Join(p) \/ Wait(p) \/ Consume(p)

ItemNext(p) == Child(p) \/ Compressor(p) \/ Panic(p) \/ Task(p)

ExportNext == \E p \in Paths : ItemNext(p)

-----------------------------------------------------------------------------
(* Properties.                                                              *)

\* A path is reported as exported only when the blob it was uploaded as is the
\* whole compressed NAR: a dump that dies, a compressor that fails but still
\* ends its frame, or one that panics, leaves a truncated blob and no entry.
EntryIsWhole == \A p \in report.successful : item[p].got = Whole
=============================================================================

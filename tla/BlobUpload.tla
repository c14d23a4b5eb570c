------------------------------ MODULE BlobUpload ------------------------------
(* push_resumable and push_bytes (nixcache-oci, client/upload.rs): one blob is  *)
(* streamed to a registry, buffered or in chunks of an upload session. Bytes    *)
(* are counted: the session of a registry that keeps to Content-Range holds a   *)
(* prefix of the stream, stored bytes long.                                     *)
EXTENDS Naturals, FiniteSets

CONSTANTS
  Sizes,         \* lengths of the stream
  Pieces,        \* lengths of the items it yields
  ChunkLimit,    \* chunk_limit
  Threshold,     \* threshold
  MaxRetries,    \* config.max_retry_attempts
  Strategies,    \* the upload strategies of the registry kinds
  Conducts,      \* how a registry behaves in one upload, see Conduct
  NoRange, Invalid

(* What goes wrong in an upload (see the actions), and how the registry reports *)
(* an empty session to a probe: without a Range, or as 0-0.                     *)
Conduct ==
  [faults : SUBSET {"stream", "loss", "late", "partial", "refuse", "probe", "answer", "headers"},
   empty : {"absent", "zero"}]

(* The limits have floors: chunk_limit is at least a MiB and threshold at least *)
(* chunk_limit.                                                                 *)
UploadAssumption ==
  /\ Sizes \subseteq Nat /\ Pieces \subseteq Nat \ {0}
  /\ ChunkLimit \in Nat /\ ChunkLimit > 1 /\ Threshold \in Nat /\ Threshold >= ChunkLimit
  /\ NoRange \notin Nat \X Nat /\ Invalid \notin Nat
  /\ MaxRetries \in Nat /\ Conducts \subseteq Conduct
  /\ Strategies \subseteq {"two_step", "monolithic", "chunked"}

VARIABLES
  size, strategy, conduct,
  pc,
  read,        \* hash_state.bytes_streamed
  offset,      \* current_offset: the chunks before it are uploaded
  chunk,       \* the locals of upload_chunk_with_retry
  session,     \* of the registry, as is what follows
  stored,
  late,        \* PATCHes the client has given up that may still be applied
  blob,        \* the blob exists
  interrupted  \* auxiliary: interruptions of the current chunk

vars == <<size, strategy, conduct, pc, read, offset, chunk, session, stored, late, blob, interrupted>>

stream == <<size, strategy, conduct, read>>
registry == <<session, stored, late, blob>>

NoChunk == [start |-> 0, end |-> 0, next |-> 0, retries |-> 0, patches |-> 0, probed |-> FALSE]

Faults == conduct.faults

AllowChunked == strategy = "chunked"

Init ==
  /\ size \in Sizes /\ strategy \in Strategies /\ conduct \in Conducts
  /\ pc = "read" /\ read = 0 /\ offset = 0 /\ chunk = NoChunk
  /\ session = "none" /\ stored = 0 /\ late = {} /\ blob = FALSE
  /\ interrupted = 0

To(next) == pc' = next

-------------------------------------------------------------------------------
(* The stream is read up to the threshold, or to its end. *)

ReadItem ==
  /\ pc = "read"
  /\ \E n \in Pieces : read + n <= size /\ read' = read + n
  /\ To(IF read' >= Threshold /\ AllowChunked THEN "init" ELSE "read")
  /\ UNCHANGED <<size, strategy, conduct, offset, chunk, registry, interrupted>>

ReadEnd ==
  /\ pc = "read" /\ read = size
  /\ To("head")
  /\ UNCHANGED <<stream, offset, chunk, registry, interrupted>>

ReadFails ==
  /\ pc = "read" /\ "stream" \in Faults
  /\ To("err")
  /\ UNCHANGED <<stream, offset, chunk, registry, interrupted>>

(* push_bytes_with_digest: nothing to do when another upload was faster. *)
Head ==
  /\ pc = "head"
  /\ \/ blob' = TRUE /\ To("ok")
     \/ blob' = blob /\ To(IF strategy = "two_step" THEN "open" ELSE "post")
     \/ "refuse" \in Faults /\ blob' = blob /\ To("err")
  /\ UNCHANGED <<stream, offset, chunk, session, stored, late, interrupted>>

(* The monolithic POST; any failure, a lost answer too, falls back to two steps. *)
Post ==
  /\ pc = "post"
  /\ \/ blob' = TRUE /\ To("ok")
     \/ "refuse" \in Faults /\ UNCHANGED blob /\ To("open")
     \/ "answer" \in Faults /\ blob' \in {blob, TRUE} /\ To("open")
  /\ UNCHANGED <<stream, offset, chunk, session, stored, late, interrupted>>

(* execute_two_step_put; the token for the PUT may be refused. *)
Open ==
  /\ pc = "open"
  /\ \/ session' = "open" /\ To("put")
     \/ "headers" \in Faults /\ session' = "open" /\ To("err")
     \/ "refuse" \in Faults /\ UNCHANGED session /\ To("err")
  /\ UNCHANGED <<stream, offset, chunk, stored, late, blob, interrupted>>

Put ==
  /\ pc = "put"
  /\ \/ blob' = TRUE /\ session' = "committed" /\ To("ok")
     \/ "refuse" \in Faults /\ UNCHANGED <<blob, session>> /\ To("abort")
     \/ /\ "answer" \in Faults /\ To("abort")
        /\ \/ UNCHANGED <<blob, session>>
           \/ blob' = TRUE /\ session' = "committed"
  /\ UNCHANGED <<stream, offset, chunk, stored, late, interrupted>>

-------------------------------------------------------------------------------
(* push_resumable with a session. *)

InitSession ==
  /\ pc = "init"
  /\ \/ session' = "open" /\ To("fill")
     \/ "refuse" \in Faults /\ UNCHANGED session /\ To("err")
  /\ UNCHANGED <<stream, offset, chunk, stored, late, blob, interrupted>>

Fill ==
  /\ pc = "fill" /\ read - offset < ChunkLimit
  /\ \E n \in Pieces : read + n <= size /\ read' = read + n
  /\ UNCHANGED <<size, strategy, conduct, pc, offset, chunk, registry, interrupted>>

FillFails ==
  /\ pc = "fill" /\ read - offset < ChunkLimit /\ "stream" \in Faults
  /\ To("abort")
  /\ UNCHANGED <<stream, offset, chunk, registry, interrupted>>

(* A chunk is cut off the buffer when the buffer is full or the stream ended. *)
StartChunk ==
  /\ pc = "fill" /\ read > offset /\ (read - offset >= ChunkLimit \/ read = size)
  /\ LET len == IF read - offset < ChunkLimit THEN read - offset ELSE ChunkLimit
     IN  chunk' = [NoChunk EXCEPT !.start = offset, !.end = offset + len - 1, !.next = offset]
  /\ interrupted' = 0
  /\ To("patch")
  /\ UNCHANGED <<stream, offset, registry>>

StreamEnded ==
  /\ pc = "fill" /\ read = offset /\ read = size
  /\ To("finish")
  /\ UNCHANGED <<stream, offset, chunk, registry, interrupted>>

-------------------------------------------------------------------------------
(* upload_chunk_with_retry *)

(* response_next_offset that trusts any success. *)
ResponseNextOffsetBlind(range, c) == c.end + 1

(* response_next_offset: where the next PATCH starts; no Range means all of it. *)
ResponseNextOffset(range, c) ==
  IF range = NoRange THEN c.end + 1
  ELSE IF range[1] \notin {0, c.start, c.next} \/ range[2] < c.next \/ range[2] > c.end
       THEN Invalid
       ELSE range[2] + 1

(* probe_next_offset that takes the end of the range for the next byte. *)
ProbeNextOffsetShort(range, c) ==
  IF range = NoRange THEN c.next
  ELSE IF range[1] \notin {0, c.start} \/ range[2] > c.end \/ range[2] < c.next
       THEN Invalid
       ELSE range[2]

(* probe_next_offset: no Range leaves the offset as it is. *)
ProbeNextOffset(range, c) ==
  IF range = NoRange THEN c.next
  ELSE IF range[1] \notin {0, c.start} \/ range[2] > c.end \/ range[2] + 1 < c.next
       THEN Invalid
       ELSE range[2] + 1

(* The end of the loop's body: the chunk is complete, the offset is refused, or *)
(* the loop goes on, which fails when no PATCH is left.                         *)
Advance(next, c) ==
  IF next = Invalid
  THEN To("abort") /\ chunk' = c /\ UNCHANGED offset
  ELSE /\ chunk' = [c EXCEPT !.next = next]
       /\ IF next > c.end
          THEN To("fill") /\ offset' = c.end + 1
          ELSE To(IF c.patches <= MaxRetries THEN "patch" ELSE "abort") /\ UNCHANGED offset

Patched == [chunk EXCEPT !.patches = @ + 1]

(* What the registry may have kept of an accepted PATCH whose transfer broke. *)
Kept == chunk.next .. chunk.end + 1

PatchOk ==
  /\ pc = "patch" /\ chunk.next = stored
  /\ \E n \in IF "partial" \in Faults THEN Kept \ {chunk.next} ELSE {chunk.end + 1} :
       /\ stored' = n
       /\ \E range \in {<<0, n - 1>>} \cup (IF n = chunk.end + 1 THEN {NoRange} ELSE {}) :
            Advance(ResponseNextOffset(range, chunk), Patched)
  /\ UNCHANGED <<stream, session, late, blob, interrupted>>

(* A retryable failure. *)
Retryable == To(IF chunk.retries >= MaxRetries THEN "abort" ELSE "probe")

(* A lost request or answer, or a status of retryable_status: the registry has  *)
(* kept all, some or nothing of it.                                             *)
PatchInterrupted ==
  /\ pc = "patch" /\ "loss" \in Faults
  /\ stored' \in IF chunk.next = stored THEN Kept ELSE {stored}
  /\ chunk' = Patched /\ Retryable
  /\ interrupted' = interrupted + 1
  /\ UNCHANGED <<stream, offset, session, late, blob>>

(* A PATCH times out and the registry will get to it later. *)
PatchLate ==
  /\ pc = "patch" /\ "late" \in Faults
  /\ late' = late \cup {[from |-> chunk.next, to |-> chunk.end]}
  /\ chunk' = Patched /\ Retryable
  /\ interrupted' = interrupted + 1
  /\ UNCHANGED <<stream, offset, session, stored, blob>>

LateApplied ==
  /\ session = "open"
  /\ \E l \in late : l.from = stored /\ stored' = l.to + 1 /\ late' = late \ {l}
  /\ UNCHANGED <<stream, pc, offset, chunk, session, blob, interrupted>>

(* 416 probed again and again, and not counted. *)
PatchOutOfRangeAgain ==
  /\ pc = "patch" /\ chunk.next # stored
  /\ chunk' = [chunk EXCEPT !.retries = 0]
  /\ To("probe")
  /\ UNCHANGED <<stream, offset, registry, interrupted>>

(* 416: probed once. *)
PatchOutOfRange ==
  /\ pc = "patch" /\ chunk.next # stored
  /\ chunk' = [Patched EXCEPT !.probed = TRUE]
  /\ To(IF chunk.probed THEN "abort" ELSE "probe")
  /\ UNCHANGED <<stream, offset, registry, interrupted>>

PatchRefused ==
  /\ pc = "patch" /\ "refuse" \in Faults
  /\ chunk' = Patched /\ To("abort")
  /\ UNCHANGED <<stream, offset, registry, interrupted>>

(* The Range of the session, as GET reports it. *)
SessionRange ==
  IF stored > 0 THEN <<0, stored - 1>> ELSE IF conduct.empty = "zero" THEN <<0, 0>> ELSE NoRange

Probe ==
  /\ pc = "probe"
  /\ LET next == ProbeNextOffset(SessionRange, chunk)
     IN  IF \/ chunk.probed /\ SessionRange = NoRange
            \/ next \in 0 .. chunk.end /\ chunk.retries >= MaxRetries
         THEN To("abort") /\ UNCHANGED <<chunk, offset>>
         ELSE Advance(next, IF next \in 0 .. chunk.end THEN [chunk EXCEPT !.retries = @ + 1]
                            ELSE chunk)
  /\ UNCHANGED <<stream, registry, interrupted>>

ProbeFails ==
  /\ pc = "probe" /\ "probe" \in Faults
  /\ To("abort")
  /\ UNCHANGED <<stream, offset, chunk, registry, interrupted>>

-------------------------------------------------------------------------------
(* A finishing PUT whose refusal is overlooked. *)
FinishUnchecked ==
  /\ pc = "finish"
  /\ \/ stored = size /\ blob' = TRUE /\ session' = "committed"
     \/ "refuse" \in Faults /\ UNCHANGED <<blob, session>>
  /\ To("ok")
  /\ UNCHANGED <<stream, offset, chunk, stored, late, interrupted>>

(* The finishing PUT names the digest; the registry commits a whole blob only. *)
Finish ==
  /\ pc = "finish"
  /\ \/ /\ stored = size /\ blob' = TRUE /\ session' = "committed"
        /\ To("ok") \/ ("answer" \in Faults /\ To("abort"))
     \/ /\ stored # size \/ Faults \cap {"answer", "refuse"} # {}
        /\ UNCHANGED <<blob, session>> /\ To("abort")
  /\ UNCHANGED <<stream, offset, chunk, stored, late, interrupted>>

(* abort_upload_session, best effort. *)
Abort ==
  /\ pc = "abort"
  /\ \/ session' = IF session = "open" THEN "aborted" ELSE session
     \/ "answer" \in Faults /\ session' = IF session = "open" THEN "abort_failed" ELSE session
  /\ To("err")
  /\ UNCHANGED <<stream, offset, chunk, stored, late, blob, interrupted>>

Client ==
  \/ ReadItem \/ ReadEnd \/ ReadFails \/ Head \/ Post \/ Open \/ Put
  \/ InitSession \/ Fill \/ FillFails \/ StartChunk \/ StreamEnded
  \/ PatchOk \/ PatchInterrupted \/ PatchLate \/ PatchOutOfRange \/ PatchRefused
  \/ Probe \/ ProbeFails \/ Finish \/ Abort

Next == Client \/ LateApplied

Spec == Init /\ [][Next]_vars

(* The call is driven by its runtime; every request is answered or times out. *)
FairSpec == Spec /\ WF_vars(Client)

-------------------------------------------------------------------------------
(* The finishing PUT is sent only when the stream was read to its end and the   *)
(* session holds every byte of it, whatever answers were lost or came late on   *)
(* the way (README.md:725, upload.rs:450).                                      *)
FinishWhole == pc = "finish" => read = size /\ stored = size

(* Success means that the registry has the blob. *)
OkMeansStored == pc = "ok" => blob

(* An upload that meets nothing but interruptions, at a registry that reports   *)
(* an empty session without a Range, fails only when one chunk meets more of    *)
(* them than max_retry_attempts (crates/nixcache-oci/src/upload.rs:26).         *)
InterruptionsSurvived ==
  /\ pc = "err" /\ Faults \subseteq {"loss"} /\ conduct.empty = "absent"
  => interrupted > MaxRetries

(* Every upload returns: the retries of a chunk are bounded. *)
Returns == <>(pc \in {"ok", "err"})
===============================================================================

---------------------------- MODULE OciClientProofs ---------------------------
(* Proofs about two machines of the OCI client: the conditional update of an    *)
(* index (CasIndex), for any set of clients and any number of retries, and the  *)
(* upload of one blob (BlobUpload), for streams, chunks and retries of any size.*)
EXTENDS OciClient, TLAPS

(* A leaf that names no prover goes to the SMT solver and then to Zenon,   *)
(* with time to spare for a slow machine.                                  *)
USE SMTT(30), ZenonT(30)

-------------------------------------------------------------------------------
(* CasIndex *)

(* An update has been applied only by a call that has returned, and once. *)
AppliedInv ==
  \A c \in Clients : applied[c] <= 1 /\ (pc[c] \notin {"done", "failed"} => applied[c] = 0)

(* Every failed attempt is paid for by a change of the tag by somebody else; an *)
(* attempt under way is, as soon as its condition has become false.             *)
RetryInv ==
  \A c \in Clients :
    /\ pc[c] = "idle" => attempt[c] = 0
    /\ pc[c] \in {"fetch", "sleep"} => attempt[c] <= others[c] /\ attempt[c] <= MaxRetries
    /\ pc[c] = "put" => attempt[c] <= others[c] + 1 /\ (tag # seen[c] => attempt[c] <= others[c])
    /\ pc[c] = "conflict" => others[c] > MaxRetries

(* A single writer is alone, so what it has read is still there. *)
SingleInv ==
  \A c \in Clients \ Capable :
    /\ pc[c] \notin Ended => Alone(c)
    /\ pc[c] = "put" => tag = seen[c]

Inv == TypeOK /\ AckedKept /\ AppliedInv /\ RetryInv /\ SingleInv

(* Every initial state satisfies the invariant. *)
LEMMA InitInv == Init => Inv
<1> SUFFICES ASSUME Init PROVE Inv
  OBVIOUS
<1>1. TypeOK
  BY CasAssumption DEF Init, TypeOK, Manifests, NoManifest, Foreign, Index, Ended
<1>2. AckedKept /\ AppliedInv /\ RetryInv /\ SingleInv
  BY CasAssumption DEF Init, AckedKept, AppliedInv, RetryInv, SingleInv, Ended
<1> QED
  BY <1>1, <1>2 DEF Inv

(* What a PUT that the registry accepts writes holds the clients whose update   *)
(* was there: the condition, or the lock, makes the index read current.         *)
LEMMA WrittenOnCurrent ==
  ASSUME Inv, NEW c \in Clients, Written(c)
  PROVE  tag = seen[c] /\ tag'.members = tag.members \cup {c}
<1>1. tag = seen[c]
  <2>1. CASE c \in Capable
    BY <2>1 DEF Written, ConditionHolds
  <2>2. CASE c \notin Capable
    BY <2>2 DEF Written, Inv, SingleInv
  <2> QED
    BY <2>1, <2>2
<1> QED
  BY <1>1 DEF Written, Index

(* A PUT that is written keeps the invariant, whatever the caller is told. *)
LEMMA WriteInv ==
  ASSUME Inv, NEW c \in Clients, PutOk(c) \/ PutLost(c)
  PROVE  Inv'
<1> USE CasAssumption
<1>1. Written(c) /\ UNCHANGED <<attempt, seen, deletes>>
  BY DEF PutOk, PutLost
<1>2. pc[c] = "put" /\ pc' \in {[pc EXCEPT ![c] = "done"], [pc EXCEPT ![c] = "failed"]}
  BY DEF PutOk, PutLost, Written
<1>3. tag = seen[c] /\ tag'.members = tag.members \cup {c}
  BY <1>1, WrittenOnCurrent
<1>4. TypeOK'
  <2>1. tag' \in Manifests
    BY <1>1 DEF Inv, TypeOK, Manifests, Written, Index
  <2>2. pc' \in [Clients -> Ended \cup {"fetch", "put", "sleep"}] /\ acked' \subseteq Clients
    BY DEF Inv, TypeOK, PutOk, PutLost, Ended
  <2>3. applied' \in [Clients -> Nat] /\ others' \in [Clients -> Nat]
    BY <1>1 DEF Inv, TypeOK, Written
  <2> QED
    BY <1>1, <2>1, <2>2, <2>3 DEF Inv, TypeOK
<1>5. AckedKept'
  BY <1>3 DEF Inv, AckedKept, PutOk, PutLost
<1>6. AppliedInv'
  BY <1>1, <1>2 DEF Inv, TypeOK, AppliedInv, Written
<1>7. RetryInv'
  <2> SUFFICES ASSUME NEW d \in Clients
               PROVE  /\ pc'[d] = "idle" => attempt'[d] = 0
                      /\ pc'[d] \in {"fetch", "sleep"} =>
                           attempt'[d] <= others'[d] /\ attempt'[d] <= MaxRetries
                      /\ pc'[d] = "put" => /\ attempt'[d] <= others'[d] + 1
                                           /\ tag' # seen'[d] => attempt'[d] <= others'[d]
                      /\ pc'[d] = "conflict" => others'[d] > MaxRetries
    BY DEF RetryInv
  <2>1. CASE d = c
    BY <1>2, <2>1 DEF Inv, TypeOK
  <2>2. CASE d # c
    BY <1>1, <1>2, <2>2 DEF Inv, TypeOK, RetryInv, Written
  <2> QED
    BY <2>1, <2>2
<1>8. SingleInv'
  BY <1>1, <1>2 DEF Inv, TypeOK, SingleInv, Alone, Ended
<1> QED
  BY <1>4, <1>5, <1>6, <1>7, <1>8 DEF Inv

(* A step of a call that leaves the tag alone keeps the invariant. *)
LEMMA CallInv ==
  ASSUME Inv, NEW c \in Clients,
         Start(c) \/ Fetch(c) \/ Fail(c) \/ PutConflict(c) \/ Wake(c)
  PROVE  Inv'
<1> USE CasAssumption
<1>1. UNCHANGED <<tag, acked, applied, deletes>>
  BY DEF Start, Fetch, Fail, PutConflict, Wake
<1>2. TypeOK'
  <2>1. pc' \in [Clients -> Ended \cup {"fetch", "put", "sleep"}]
    BY DEF Inv, TypeOK, Start, Fetch, Fail, PutConflict, Wake, Ended
  <2>2. attempt' \in [Clients -> Nat] /\ \A d \in Clients : attempt'[d] <= MaxRetries + 1
    BY DEF Inv, TypeOK, RetryInv, Start, Fetch, Fail, PutConflict, Wake
  <2>3. seen' \in [Clients -> Manifests] /\ others' \in [Clients -> Nat]
    BY DEF Inv, TypeOK, Start, Fetch, Fail, PutConflict, Wake
  <2> QED
    BY <1>1, <2>1, <2>2, <2>3 DEF Inv, TypeOK
<1>3. AckedKept'
  BY <1>1 DEF Inv, AckedKept
<1>4. AppliedInv'
  BY <1>1 DEF Inv, TypeOK, AppliedInv, Start, Fetch, Fail, PutConflict, Wake
<1>5. RetryInv'
  <2>1. CASE Start(c)
    BY <1>1, <2>1 DEF Inv, TypeOK, RetryInv, Start
  <2>2. CASE Fetch(c)
    BY <1>1, <2>2 DEF Inv, TypeOK, RetryInv, Fetch
  <2>3. CASE Fail(c) \/ Wake(c)
    BY <1>1, <2>3 DEF Inv, TypeOK, RetryInv, Fail, Wake
  <2>4. CASE PutConflict(c)
    BY <1>1, <2>4 DEF Inv, TypeOK, RetryInv, SingleInv, PutConflict, ConditionHolds, RetriesLeft
  <2> QED
    BY <2>1, <2>2, <2>3, <2>4
<1>6. SingleInv'
  <2>1. CASE Start(c)
    BY <1>1, <2>1 DEF Inv, TypeOK, SingleInv, Start, Alone, NoSingleWriter, Ended
  <2>2. CASE Fetch(c)
    BY <1>1, <2>2 DEF Inv, TypeOK, SingleInv, Fetch, Alone, Ended
  <2>3. CASE Fail(c) \/ PutConflict(c) \/ Wake(c)
    BY <1>1, <2>3 DEF Inv, TypeOK, SingleInv, Fail, PutConflict, Wake, Alone, Ended
  <2> QED
    BY <2>1, <2>2, <2>3
<1> QED
  BY <1>2, <1>3, <1>4, <1>5, <1>6 DEF Inv

(* The deletion of the tag keeps the invariant. *)
LEMMA DeleteInv == Inv /\ DeleteTag => Inv'
<1> SUFFICES ASSUME Inv, DeleteTag PROVE Inv'
  OBVIOUS
<1> USE CasAssumption
<1>1. TypeOK'
  BY DEF Inv, TypeOK, DeleteTag, Manifests, NoManifest
<1>2. AckedKept' /\ AppliedInv'
  BY DEF Inv, AckedKept, AppliedInv, DeleteTag
<1>3. RetryInv'
  BY DEF Inv, TypeOK, RetryInv, DeleteTag
<1>4. SingleInv'
  BY DEF Inv, SingleInv, DeleteTag, Alone, NoSingleWriter, Ended
<1> QED
  BY <1>1, <1>2, <1>3, <1>4 DEF Inv

(* Every step keeps the invariant. *)
LEMMA NextInv == Inv /\ [Next]_vars => Inv'
<1> SUFFICES ASSUME Inv, [Next]_vars PROVE Inv'
  OBVIOUS
<1>1. CASE Next
  BY <1>1, WriteInv, CallInv, DeleteInv DEF Next, Step
<1>2. CASE UNCHANGED vars
  BY <1>2 DEF vars, Inv, TypeOK, AckedKept, AppliedInv, RetryInv, SingleInv, Alone
<1> QED
  BY <1>1, <1>2

(* The invariant holds in every reachable state. *)
THEOREM Invariance == Spec => []Inv
  BY InitInv, NextInv, PTL DEF Spec

(* The types of the state, for any clients and any max_retries. *)
THEOREM TypeCorrect == Spec => []TypeOK
<1>1. Inv => TypeOK
  BY DEF Inv
<1> QED
  BY <1>1, Invariance, PTL

(* No acknowledged update is overwritten by another (update.rs:34). *)
THEOREM AcknowledgedKept == Spec => []AckedKept
<1>1. Inv => AckedKept
  BY DEF Inv
<1> QED
  BY <1>1, Invariance, PTL

(* A call applies its update at most once, and not if it reports a conflict. *)
THEOREM UpdateAppliedOnce == Spec => []AppliedOnce
<1>1. Inv => AppliedOnce
  BY Zenon DEF Inv, AppliedInv, AppliedOnce
<1> QED
  BY <1>1, Invariance, PTL

(* A conflict is reported only after more than max_retries foreign changes. *)
THEOREM ConflictsAreExplained == Spec => []ConflictsExplained
<1>1. Inv => ConflictsExplained
  BY DEF Inv, RetryInv, ConflictsExplained
<1> QED
  BY <1>1, Invariance, PTL

(* Read, mutate and conditional PUT implement the atomic update of AtomicIndex. *)
THEOREM Refinement == Spec => ImplementsAtomic
<1>1. Init => Atomic!Init
  BY DEF Init, Atomic!Init, Outcome, NoManifest, Foreign, Index
<1>2. Inv /\ [Next]_vars => [Atomic!Next]_(Atomic!vars)
  <2> SUFFICES ASSUME Inv, [Next]_vars PROVE Atomic!Next \/ UNCHANGED Atomic!vars
    OBVIOUS
  <2>0. pc \in [Clients -> Ended \cup {"fetch", "put", "sleep"}]
    BY DEF Inv, TypeOK
  <2>1. ASSUME NEW c \in Clients, PutOk(c) \/ PutLost(c) PROVE Atomic!Apply(c)
    <3>1. tag'.members = tag.members \cup {c}
      BY <2>1, WrittenOnCurrent DEF PutOk, PutLost
    <3>2. Outcome[c] = "none"
      BY <2>1 DEF Outcome, PutOk, PutLost, Written
    <3>3. Outcome' \in {[Outcome EXCEPT ![c] = "ok"], [Outcome EXCEPT ![c] = "failed"]}
      BY <2>0, <2>1, Zenon DEF Outcome, PutOk, PutLost
    <3> QED
      BY <3>1, <3>2, <3>3 DEF Atomic!Apply
  <2>2. ASSUME NEW c \in Clients, Fail(c) PROVE Atomic!Fail(c)
    <3>1. Outcome[c] = "none" /\ Outcome' = [Outcome EXCEPT ![c] = "failed"]
      BY Zenon, <2>0, <2>2 DEF Outcome, Fail
    <3> QED
      BY <2>2, <3>1 DEF Atomic!Fail, Fail
  <2>3. ASSUME NEW c \in Clients, PutConflict(c) PROVE Atomic!Fail(c) \/ UNCHANGED Atomic!vars
    <3>1. CASE RetriesLeft(c)
      <4>1. Outcome' = Outcome
        BY <2>0, <2>3, <3>1 DEF Outcome, PutConflict
      <4> QED
        BY <2>3, <4>1 DEF PutConflict, Atomic!vars
    <3>2. CASE ~ RetriesLeft(c)
      <4>1. Outcome[c] = "none" /\ Outcome' = [Outcome EXCEPT ![c] = "conflict"]
        BY <2>0, <2>3, <3>2, Zenon DEF Outcome, PutConflict
      <4> QED
        BY <2>3, <4>1 DEF Atomic!Fail, PutConflict
    <3> QED
      BY <3>1, <3>2
  <2>4. ASSUME NEW c \in Clients, Start(c) \/ Fetch(c) \/ Wake(c) PROVE UNCHANGED Atomic!vars
    <3>1. Outcome' = Outcome
      BY <2>0, <2>4 DEF Outcome, Start, Fetch, Wake
    <3> QED
      BY <2>4, <3>1 DEF Atomic!vars, Start, Fetch, Wake
  <2>5. ASSUME DeleteTag PROVE Atomic!Clear
    BY <2>5 DEF DeleteTag, Atomic!Clear, Outcome, NoManifest
  <2>6. CASE UNCHANGED vars
    BY <2>6 DEF vars, Atomic!vars, Outcome
  <2>7. CASE Next
    BY <2>1, <2>2, <2>3, <2>4, <2>5, <2>7 DEF Next, Step, Atomic!Next
  <2> QED
    BY <2>6, <2>7
<1> QED
  BY <1>1, <1>2, Invariance, PTL DEF Spec, ImplementsAtomic, Atomic!Spec

-------------------------------------------------------------------------------
(* BlobUpload *)

(* The values of the state. *)
Chunk == [start : Nat, end : Nat, next : Nat, retries : Nat, patches : Nat, probed : BOOLEAN]

UploadTypes ==
  /\ size \in Nat /\ conduct \in Upload!Conduct /\ read \in Nat /\ offset \in Nat
  /\ chunk \in Chunk /\ stored \in Nat /\ interrupted \in Nat
  /\ late \subseteq [from : Nat, to : Nat] /\ \A l \in late : l.from <= l.to

(* The session holds what has been uploaded and a part of the chunk under way.  *)
(* A PATCH that the registry applies late fits only on what it was made for, so *)
(* those of earlier chunks never apply.                                         *)
UploadInv ==
  /\ read <= size
  /\ upload_pc \in {"read", "head", "post", "open", "put", "init"} => stored = 0 /\ offset = 0 /\ late = {}
  /\ upload_pc = "init" => read >= ChunkLimit
  /\ upload_pc = "fill" =>
       stored = offset /\ offset <= read /\ read >= ChunkLimit /\ \A l \in late : l.to < offset
  /\ upload_pc \in {"patch", "probe"} =>
       /\ chunk.start = offset /\ offset <= chunk.next /\ chunk.next <= chunk.end /\ chunk.end < read
       /\ offset <= stored /\ stored <= chunk.end + 1 /\ read >= ChunkLimit
       /\ chunk.start = 0 => chunk.end >= 1
       /\ \A l \in late : l.to <= chunk.end
  /\ upload_pc = "finish" => read = size /\ stored = size /\ \A l \in late : l.to < stored

(* Nothing goes wrong but the connection. *)
LossOnly == Upload!Faults \subseteq {"loss"} /\ conduct.empty = "absent"

(* Then every retry is paid for by an interruption of the chunk. *)
LossInv ==
  /\ late = {}
  /\ upload_pc = "patch" => /\ chunk.next = stored /\ ~ chunk.probed
                     /\ chunk.retries = interrupted /\ chunk.patches = interrupted
  /\ upload_pc = "probe" => /\ chunk.next <= stored /\ ~ chunk.probed
                     /\ chunk.retries + 1 = interrupted /\ chunk.patches = interrupted
  /\ upload_pc \in {"abort", "err"} => interrupted > UploadRetries

(* The values have their types when the upload starts. *)
LEMMA UploadInit ==
  ASSUME Upload!UploadAssumption, Upload!Init
  PROVE  UploadTypes /\ UploadInv /\ LossInv
<1>1. UploadTypes
  BY DEF Upload!UploadAssumption, Upload!Init, UploadTypes, Chunk, Upload!NoChunk
<1>2. UploadInv
  BY DEF Upload!UploadAssumption, Upload!Init, UploadInv
<1>3. LossInv
  BY DEF Upload!Init, LossInv
<1> QED
  BY <1>1, <1>2, <1>3

(* Where the loop of upload_chunk_with_retry goes with the next offset n. *)
LEMMA AdvanceCases ==
  ASSUME Upload!UploadAssumption, NEW n \in Nat, NEW c \in Chunk, Upload!Advance(n, c)
  PROVE  /\ chunk' \in Chunk /\ chunk' = [c EXCEPT !.next = n]
         /\ n > c.end => upload_pc' = "fill" /\ offset' = c.end + 1
         /\ n <= c.end => /\ upload_pc' = (IF c.patches <= UploadRetries THEN "patch" ELSE "abort")
                          /\ offset' = offset
<1>1. n # Invalid
  BY DEF Upload!UploadAssumption
<1>2. c.end \in Nat
  BY DEF Chunk
<1>3. chunk' = [c EXCEPT !.next = n]
  BY <1>1 DEF Upload!Advance
<1>4. chunk' \in Chunk
  BY <1>3 DEF Chunk
<1>5. n > c.end => upload_pc' = "fill" /\ offset' = c.end + 1
  BY <1>1 DEF Upload!Advance, Upload!To
<1>6. ~ (n > c.end) => /\ upload_pc' = (IF c.patches <= UploadRetries THEN "patch" ELSE "abort")
                       /\ offset' = offset
  BY <1>1 DEF Upload!Advance, Upload!To
<1> QED
  BY <1>2, <1>3, <1>4, <1>5, <1>6

(* A refused offset ends the upload. *)
LEMMA AdvanceInvalid ==
  ASSUME NEW c, Upload!Advance(Invalid, c)
  PROVE  chunk' = c /\ upload_pc' = "abort" /\ offset' = offset
BY DEF Upload!Advance, Upload!To

(* The answer to a PATCH says how much of the chunk the registry has. *)
LEMMA PatchAdvances ==
  ASSUME Upload!UploadAssumption, UploadTypes, UploadInv, Upload!PatchOk
  PROVE  /\ stored' \in chunk.next + 1 .. chunk.end + 1
         /\ "partial" \notin Upload!Faults => stored' = chunk.end + 1
         /\ Upload!Patched \in Chunk /\ Upload!Advance(stored', Upload!Patched)
         /\ Upload!Patched.start = chunk.start /\ Upload!Patched.end = chunk.end /\ Upload!Patched.next = chunk.next
         /\ Upload!Patched.patches = chunk.patches + 1
         /\ chunk.next = stored
         /\ UNCHANGED <<size, conduct, read, late, blob, interrupted>>
<1>1. /\ chunk \in Chunk /\ chunk.start \in Nat /\ chunk.end \in Nat /\ chunk.next \in Nat
      /\ chunk.patches \in Nat /\ chunk.next <= chunk.end
  BY DEF UploadTypes, UploadInv, Upload!PatchOk, Chunk
<1>2. /\ Upload!Patched \in Chunk
      /\ Upload!Patched.start = chunk.start /\ Upload!Patched.end = chunk.end /\ Upload!Patched.next = chunk.next
      /\ Upload!Patched.patches = chunk.patches + 1
  BY <1>1 DEF Upload!Patched, Chunk
<1>3. PICK n \in IF "partial" \in Upload!Faults THEN Upload!Kept \ {chunk.next} ELSE {chunk.end + 1} :
        /\ stored' = n
        /\ \E range \in {<<0, n - 1>>} \cup (IF n = chunk.end + 1 THEN {NoRange} ELSE {}) :
             Upload!Advance(Upload!ResponseNextOffset(range, chunk), Upload!Patched)
  BY DEF Upload!PatchOk
<1>4. n \in chunk.next + 1 .. chunk.end + 1 /\ ("partial" \notin Upload!Faults => n = chunk.end + 1)
  BY <1>1, <1>3 DEF Upload!Kept
<1>5. n - 1 \in Nat /\ <<0, n - 1>> \in Nat \X Nat
  BY <1>1, <1>4
<1>6. Upload!ResponseNextOffset(<<0, n - 1>>, chunk) = n
  <2>1. <<0, n - 1>> # NoRange
    BY <1>5 DEF Upload!UploadAssumption
  <2> QED
    BY <1>1, <1>4, <1>5, <2>1 DEF Upload!ResponseNextOffset
<1>7. Upload!ResponseNextOffset(NoRange, chunk) = chunk.end + 1
  BY DEF Upload!ResponseNextOffset
<1>8. Upload!Advance(n, Upload!Patched)
  <2> HIDE DEF Upload!Advance
  <2> QED
    BY <1>3, <1>6, <1>7
<1> QED
  BY <1>2, <1>3, <1>4, <1>8 DEF Upload!PatchOk, Upload!stream

(* What a probe makes of the session. *)
LEMMA ProbeFinds ==
  ASSUME Upload!UploadAssumption, UploadTypes, UploadInv, upload_pc = "probe",
         NEW next, next = Upload!ProbeNextOffset(Upload!SessionRange, chunk)
  PROVE  /\ \/ next = Invalid
            \/ /\ next \in Nat /\ chunk.next <= next /\ next <= chunk.end + 1
               /\ next = chunk.end + 1 => stored = chunk.end + 1
         /\ chunk.next <= stored /\ stored > 0 => next = stored
         /\ stored = 0 /\ conduct.empty = "absent" => next = chunk.next
<1>1. /\ chunk \in Chunk /\ chunk.start \in Nat /\ chunk.end \in Nat /\ chunk.next \in Nat
      /\ chunk.next <= chunk.end /\ stored \in Nat /\ stored <= chunk.end + 1
      /\ stored = 0 => chunk.end >= 1
  BY DEF UploadTypes, UploadInv, Chunk
<1>2. CASE stored > 0
  <2>1. stored - 1 \in Nat /\ <<0, stored - 1>> \in Nat \X Nat
    BY <1>1, <1>2
  <2>2. Upload!SessionRange = <<0, stored - 1>> /\ Upload!SessionRange # NoRange
    BY <1>2, <2>1 DEF Upload!SessionRange, Upload!UploadAssumption
  <2>3. Upload!SessionRange[1] = 0 /\ Upload!SessionRange[2] = stored - 1
    BY <2>2
  <2>4. next = IF stored - 1 > chunk.end \/ stored < chunk.next THEN Invalid ELSE stored
    BY <1>1, <2>2, <2>3 DEF Upload!ProbeNextOffset
  <2> QED
    BY <1>1, <1>2, <2>4
<1>3. CASE stored = 0 /\ conduct.empty = "zero"
  <2>1. <<0, 0>> \in Nat \X Nat
    OBVIOUS
  <2>2. Upload!SessionRange = <<0, 0>> /\ Upload!SessionRange # NoRange
    BY <1>3, <2>1 DEF Upload!SessionRange, Upload!UploadAssumption
  <2>3. Upload!SessionRange[1] = 0 /\ Upload!SessionRange[2] = 0
    BY <2>2
  <2>4. next = IF 1 < chunk.next THEN Invalid ELSE 1
    BY <1>1, <1>3, <2>2, <2>3 DEF Upload!ProbeNextOffset
  <2> QED
    BY <1>1, <1>3, <2>4
<1>4. CASE stored = 0 /\ conduct.empty # "zero"
  BY <1>1, <1>4 DEF Upload!SessionRange, Upload!ProbeNextOffset
<1> QED
  BY <1>1, <1>2, <1>3, <1>4

(* A probe that does not end the upload. *)
LEMMA ProbeCases ==
  ASSUME Upload!UploadAssumption, UploadTypes, UploadInv, Upload!Probe
  PROVE  /\ UNCHANGED <<size, conduct, read, stored, late, blob, interrupted>>
         /\ \/ upload_pc' = "abort" /\ offset' = offset /\ chunk' = chunk
            \/ \E n \in Nat, c \in Chunk :
                 /\ n = Upload!ProbeNextOffset(Upload!SessionRange, chunk) /\ Upload!Advance(n, c)
                 /\ c = IF n <= chunk.end THEN [chunk EXCEPT !.retries = @ + 1] ELSE chunk
<1>1. upload_pc = "probe" /\ chunk \in Chunk /\ chunk.end \in Nat /\ chunk.retries \in Nat
  BY DEF Upload!Probe, UploadTypes, Chunk
<1> DEFINE n == Upload!ProbeNextOffset(Upload!SessionRange, chunk)
           c == IF n \in 0 .. chunk.end THEN [chunk EXCEPT !.retries = @ + 1] ELSE chunk
<1>2. n = Invalid \/ n \in Nat
  BY <1>1, ProbeFinds
<1>3. c \in Chunk
  BY <1>1 DEF Chunk
<1>4. \/ upload_pc' = "abort" /\ offset' = offset /\ chunk' = chunk
      \/ Upload!Advance(n, c)
  BY DEF Upload!Probe, Upload!To
<1>5. UNCHANGED <<size, conduct, read, stored, late, blob, interrupted>>
  BY DEF Upload!Probe, Upload!stream, Upload!registry
<1>6. n \in Nat => c = IF n <= chunk.end THEN [chunk EXCEPT !.retries = @ + 1] ELSE chunk
  BY <1>1
<1>7. n = Invalid => c = chunk
  BY <1>1 DEF Upload!UploadAssumption
<1>8. n = Invalid /\ Upload!Advance(n, c) => upload_pc' = "abort" /\ offset' = offset /\ chunk' = chunk
  <2> HIDE DEF c, n
  <2> QED
    BY <1>7, AdvanceInvalid
<1> HIDE DEF c, n
<1>9. n = Upload!ProbeNextOffset(Upload!SessionRange, chunk)
  BY DEF n
<1> QED
  BY <1>2, <1>3, <1>4, <1>5, <1>6, <1>8, <1>9

(* The steps that leave the chunk, its PATCHes and the session's bytes alone. *)
Quiet == UNCHANGED <<size, conduct, chunk, stored, late, interrupted>>

(* The chunk loop and its ends. *)
LoopStep == Upload!PatchOk \/ Upload!PatchInterrupted \/ Upload!PatchLate
  \/ Upload!PatchOutOfRange \/ Upload!PatchRefused \/ Upload!Probe
QuietStep ==
  \/ Upload!ReadItem \/ Upload!ReadEnd \/ Upload!ReadFails \/ Upload!Head \/ Upload!Post
  \/ Upload!Open \/ Upload!Put \/ Upload!InitSession
  \/ Upload!Fill \/ Upload!FillFails \/ Upload!StreamEnded \/ Upload!ProbeFails
  \/ Upload!Finish \/ Upload!Abort

(* Reading, the buffered upload, the session's opening and its end are quiet. *)
LEMMA QuietFields ==
  ASSUME Upload!UploadAssumption, UploadTypes, UploadInv, QuietStep
  PROVE  Quiet /\ offset' = offset /\ read' \in Nat /\ read <= read' /\ read' <= size
<1>1. CASE Upload!ReadItem \/ Upload!Fill
  BY <1>1 DEF Upload!ReadItem, Upload!Fill, Upload!UploadAssumption, UploadTypes, Quiet,
      Upload!registry
<1>2. CASE Upload!ReadEnd \/ Upload!ReadFails \/ Upload!FillFails \/ Upload!StreamEnded
    \/ Upload!ProbeFails
  BY <1>2 DEF Upload!ReadEnd, Upload!ReadFails, Upload!FillFails, Upload!StreamEnded,
      Upload!ProbeFails, Quiet, Upload!stream, Upload!registry,
    UploadTypes, UploadInv
<1>3. CASE Upload!Head \/ Upload!Post \/ Upload!Open \/ Upload!Put
  <2>1. Quiet /\ offset' = offset /\ read' = read
    BY <1>3, Zenon DEF Upload!Head, Upload!Post, Upload!Open, Upload!Put, Quiet, Upload!stream
  <2> QED
    BY <2>1 DEF UploadTypes, UploadInv
<1>4. CASE Upload!InitSession \/ Upload!Finish \/ Upload!Abort
  BY <1>4 DEF Upload!InitSession, Upload!Finish, Upload!Abort, Quiet, Upload!stream, UploadTypes,
      UploadInv
<1> QED
  BY <1>1, <1>2, <1>3, <1>4 DEF QuietStep

(* The loop that sends a chunk touches neither the stream nor the blob. *)
LEMMA LoopFields ==
  ASSUME Upload!UploadAssumption, UploadTypes, UploadInv, LoopStep
  PROVE  UNCHANGED <<size, conduct, read, blob>> /\ upload_pc \in {"patch", "probe"}
<1>1. CASE Upload!PatchOk
  BY <1>1, PatchAdvances DEF Upload!PatchOk
<1>2. CASE Upload!PatchInterrupted \/ Upload!PatchLate \/ Upload!PatchOutOfRange
    \/ Upload!PatchRefused
  BY <1>2 DEF Upload!PatchInterrupted, Upload!PatchLate, Upload!PatchOutOfRange,
      Upload!PatchRefused, Upload!stream, Upload!registry
<1>3. CASE Upload!Probe
  BY <1>3, ProbeCases DEF Upload!Probe
<1> QED
  BY <1>1, <1>2, <1>3, SMTT(30) DEF LoopStep

(* What the loop does to the chunk keeps the types. *)
LEMMA LoopTypes ==
  ASSUME Upload!UploadAssumption, UploadTypes, UploadInv, LoopStep
  PROVE  UploadTypes'
<1>1. /\ chunk \in Chunk /\ chunk.next \in Nat /\ chunk.end \in Nat /\ Upload!Patched \in Chunk
      /\ chunk.next <= chunk.end
  BY LoopFields DEF UploadTypes, UploadInv, Chunk, Upload!Patched
<1>2. CASE Upload!PatchOk
  <2>1. stored' \in Nat /\ Upload!Advance(stored', Upload!Patched) /\ UNCHANGED <<size, conduct, read, late, interrupted>>
    BY <1>1, <1>2, PatchAdvances
  <2>2. chunk' \in Chunk /\ offset' \in Nat
    BY <1>1, <2>1, AdvanceCases DEF UploadTypes, Chunk
  <2> QED
    BY <2>1, <2>2 DEF UploadTypes
<1>3. CASE Upload!PatchInterrupted
  BY <1>1, <1>3 DEF Upload!PatchInterrupted, UploadTypes, Upload!Kept, Upload!stream
<1>4. CASE Upload!PatchLate
  BY <1>1, <1>4 DEF Upload!PatchLate, UploadTypes, Upload!stream
<1>5. CASE Upload!PatchOutOfRange
  <2>1. [Upload!Patched EXCEPT !.probed = TRUE] \in Chunk
    BY <1>1, Zenon DEF Chunk
  <2> QED
    BY <1>5, <2>1 DEF Upload!PatchOutOfRange, UploadTypes, Upload!stream, Upload!registry
<1>6. CASE Upload!PatchRefused
  BY <1>1, <1>6 DEF Upload!PatchRefused, UploadTypes, Upload!stream, Upload!registry
<1>7. CASE Upload!Probe
  <2>1. CASE upload_pc' = "abort" /\ offset' = offset /\ chunk' = chunk
    BY <1>7, <2>1, ProbeCases DEF UploadTypes
  <2>2. CASE \E n \in Nat, c \in Chunk : Upload!Advance(n, c)
    <3>1. PICK n \in Nat, c \in Chunk : Upload!Advance(n, c)
      BY <2>2
    <3>2. chunk' \in Chunk /\ offset' \in Nat
      BY <3>1, AdvanceCases DEF UploadTypes, Chunk
    <3> QED
      BY <1>7, <3>2, ProbeCases DEF UploadTypes
  <2> QED
    BY <1>7, <2>1, <2>2, ProbeCases
<1> QED
  BY <1>2, <1>3, <1>4, <1>5, <1>6, <1>7 DEF LoopStep

(* A chunk is what the buffer holds, up to the limit. *)
LEMMA StartFields ==
  ASSUME Upload!UploadAssumption, UploadTypes, UploadInv, Upload!StartChunk
  PROVE  /\ chunk' \in Chunk /\ chunk'.start = offset /\ chunk'.next = offset
         /\ offset <= chunk'.end /\ chunk'.end < read /\ (offset = 0 => chunk'.end >= 1)
         /\ chunk'.retries = 0 /\ chunk'.patches = 0 /\ ~ chunk'.probed
         /\ upload_pc = "fill" /\ upload_pc' = "patch" /\ interrupted' = 0
         /\ UNCHANGED <<size, conduct, read, offset, stored, late, blob>>
<1> DEFINE len == IF read - offset < ChunkLimit THEN read - offset ELSE ChunkLimit
<1>1. /\ read \in Nat /\ offset \in Nat /\ read > offset /\ read >= ChunkLimit
      /\ ChunkLimit \in Nat /\ ChunkLimit > 1
  BY DEF Upload!UploadAssumption, UploadTypes, UploadInv, Upload!StartChunk
<1>2. /\ len \in Nat /\ len >= 1 /\ offset + len <= read /\ (offset = 0 => len > 1)
  BY <1>1
<1>3. chunk' = [Upload!NoChunk EXCEPT !.start = offset, !.end = offset + len - 1, !.next = offset]
  BY DEF Upload!StartChunk
<1>4. /\ upload_pc = "fill" /\ upload_pc' = "patch" /\ interrupted' = 0
      /\ UNCHANGED <<size, conduct, read, offset, stored, late, blob>>
  BY DEF Upload!StartChunk, Upload!To, Upload!stream, Upload!registry
<1> HIDE DEF len
<1>5. offset + len - 1 \in Nat
  BY <1>1, <1>2
<1>6. /\ chunk' \in Chunk /\ chunk'.start = offset /\ chunk'.next = offset
      /\ chunk'.end = offset + len - 1 /\ chunk'.retries = 0 /\ chunk'.patches = 0 /\ ~ chunk'.probed
  BY <1>1, <1>3, <1>5, Zenon DEF Upload!NoChunk, Chunk
<1> QED
  BY <1>1, <1>2, <1>4, <1>6

(* Every value keeps its type. *)
LEMMA UploadTypeStep ==
  ASSUME Upload!UploadAssumption, UploadTypes, UploadInv, [Upload!Next]_(Upload!vars)
  PROVE  UploadTypes'
<1>1. CASE QuietStep
  BY <1>1, QuietFields DEF Quiet, UploadTypes
<1>2. CASE LoopStep
  BY <1>2, LoopTypes
<1>3. CASE Upload!StartChunk
  BY <1>3, StartFields DEF UploadTypes
<1>4. CASE Upload!LateApplied
  BY <1>4 DEF Upload!LateApplied, UploadTypes, Upload!stream
<1>5. CASE UNCHANGED Upload!vars
  BY <1>5 DEF Upload!vars, UploadTypes
<1> QED
  BY <1>1, <1>2, <1>3, <1>4, <1>5 DEF Upload!Next, Upload!Client, QuietStep, LoopStep

(* The loop fills the session up to the end of its chunk. *)
LEMMA LoopWhole ==
  ASSUME Upload!UploadAssumption, UploadTypes, UploadInv, LoopStep
  PROVE  UploadInv'
<1>1. /\ chunk \in Chunk /\ chunk.next \in Nat /\ chunk.end \in Nat /\ chunk.start \in Nat
      /\ offset \in Nat /\ stored \in Nat /\ read \in Nat /\ size \in Nat
      /\ late \subseteq [from : Nat, to : Nat] /\ ChunkLimit \in Nat
  BY DEF UploadTypes, Chunk, Upload!UploadAssumption
<1>2. /\ chunk.start = offset /\ offset <= chunk.next /\ chunk.next <= chunk.end /\ chunk.end < read
      /\ offset <= stored /\ stored <= chunk.end + 1 /\ read >= ChunkLimit
      /\ chunk.start = 0 => chunk.end >= 1
      /\ \A l \in late : l.to <= chunk.end
      /\ read <= size
  BY LoopFields DEF UploadInv
<1>3. UNCHANGED <<size, read>>
  BY LoopFields
<1>4. CASE Upload!PatchOk
  <2>1. /\ stored' \in chunk.next + 1 .. chunk.end + 1
        /\ Upload!Patched \in Chunk /\ Upload!Advance(stored', Upload!Patched)
        /\ Upload!Patched.start = chunk.start /\ Upload!Patched.end = chunk.end /\ late' = late
    BY <1>4, PatchAdvances
  <2>2. stored' \in Nat
    BY <1>1, <2>1
  <2>3. /\ chunk'.start = chunk.start /\ chunk'.end = chunk.end /\ chunk'.next = stored'
        /\ stored' > chunk.end => upload_pc' = "fill" /\ offset' = chunk.end + 1
        /\ stored' <= chunk.end => upload_pc' \in {"patch", "abort"} /\ offset' = offset
    BY <2>1, <2>2, AdvanceCases DEF Chunk
  <2> QED
    BY <1>1, <1>2, <1>3, <2>1, <2>3, SMTT(30) DEF UploadInv
<1>5. CASE Upload!PatchInterrupted
  <2>1. /\ offset' = offset /\ late' = late /\ upload_pc' \in {"probe", "abort"}
        /\ chunk'.start = chunk.start /\ chunk'.end = chunk.end /\ chunk'.next = chunk.next
    BY <1>1, <1>5 DEF Upload!PatchInterrupted, Upload!Retryable, Upload!To, Upload!Patched, Chunk
  <2>2. stored' = stored \/ stored' \in chunk.next .. chunk.end + 1
    BY <1>5 DEF Upload!PatchInterrupted, Upload!Kept
  <2> QED
    BY <1>1, <1>2, <1>3, <2>1, <2>2 DEF UploadInv
<1>6. CASE Upload!PatchLate
  <2>1. /\ offset' = offset /\ stored' = stored /\ upload_pc' \in {"probe", "abort"}
        /\ chunk'.start = chunk.start /\ chunk'.end = chunk.end /\ chunk'.next = chunk.next
        /\ late' = late \cup {[from |-> chunk.next, to |-> chunk.end]}
    BY <1>1, <1>6 DEF Upload!PatchLate, Upload!Retryable, Upload!To, Upload!Patched, Chunk
  <2>2. \A l \in late' : l.to <= chunk.end
    BY <1>1, <1>2, <2>1
  <2> QED
    BY <1>1, <1>2, <1>3, <2>1, <2>2 DEF UploadInv
<1>7. CASE Upload!PatchOutOfRange \/ Upload!PatchRefused
  <2>1. /\ offset' = offset /\ stored' = stored /\ late' = late /\ upload_pc' \in {"probe", "abort"}
        /\ chunk'.start = chunk.start /\ chunk'.end = chunk.end /\ chunk'.next = chunk.next
    BY <1>1, <1>7, Zenon DEF Upload!PatchOutOfRange, Upload!PatchRefused, Upload!To, Upload!Patched,
        Chunk, Upload!registry
  <2> QED
    BY <1>1, <1>2, <1>3, <2>1 DEF UploadInv
<1>8. CASE Upload!Probe
  <2>1. stored' = stored /\ late' = late
    BY <1>8, ProbeCases
  <2>2. CASE upload_pc' = "abort" /\ offset' = offset /\ chunk' = chunk
    BY <1>3, <2>2 DEF UploadInv
  <2>3. ASSUME NEW n \in Nat, NEW c \in Chunk, n = Upload!ProbeNextOffset(Upload!SessionRange, chunk),
               Upload!Advance(n, c), c = IF n <= chunk.end THEN [chunk EXCEPT !.retries = @ + 1] ELSE chunk
        PROVE  UploadInv'
    <3>1. /\ chunk.next <= n /\ n <= chunk.end + 1 /\ (n = chunk.end + 1 => stored = chunk.end + 1)
      <4>1. n # Invalid
        BY DEF Upload!UploadAssumption
      <4> QED
        BY <1>8, <2>3, <4>1, ProbeFinds DEF Upload!Probe
    <3>2. c.start = chunk.start /\ c.end = chunk.end
      BY <1>1, <2>3 DEF Chunk
    <3>3. /\ chunk'.start = chunk.start /\ chunk'.end = chunk.end /\ chunk'.next = n
          /\ n > chunk.end => upload_pc' = "fill" /\ offset' = chunk.end + 1
          /\ n <= chunk.end => upload_pc' \in {"patch", "abort"} /\ offset' = offset
      BY <2>3, <3>2, AdvanceCases DEF Chunk
    <3> QED
      BY <1>1, <1>2, <1>3, <2>1, <3>1, <3>3 DEF UploadInv
  <2> QED
    BY <1>8, <2>2, <2>3, ProbeCases
<1> QED
  BY <1>4, <1>5, <1>6, <1>7, <1>8 DEF LoopStep

(* Every step keeps the session the prefix that the client takes it for. *)
LEMMA UploadStep ==
  ASSUME Upload!UploadAssumption, UploadTypes, UploadInv, [Upload!Next]_(Upload!vars)
  PROVE  UploadInv'
<1>1. /\ offset \in Nat /\ stored \in Nat /\ read \in Nat /\ size \in Nat
      /\ late \subseteq [from : Nat, to : Nat] /\ ChunkLimit \in Nat /\ ChunkLimit > 1
      /\ Threshold \in Nat /\ Threshold >= ChunkLimit /\ chunk.end \in Nat
      /\ \A l \in late : l.from <= l.to
  BY DEF UploadTypes, Upload!UploadAssumption, Chunk
<1>2. CASE QuietStep
  <2>1. /\ UNCHANGED <<size, chunk, stored, late, offset>>
        /\ read' \in Nat /\ read <= read' /\ read' <= size
    BY <1>2, QuietFields DEF Quiet
  <2>2. CASE Upload!ReadItem \/ Upload!ReadEnd \/ Upload!ReadFails
    BY <1>1, <2>1, <2>2 DEF Upload!ReadItem, Upload!ReadEnd, Upload!ReadFails, Upload!To, UploadInv
  <2>3. CASE Upload!Head \/ Upload!Post \/ Upload!Open \/ Upload!Put
    BY ZenonT(30), <1>1, <2>1, <2>3 DEF Upload!Head, Upload!Post, Upload!Open, Upload!Put, Upload!To, UploadInv
  <2>4. CASE Upload!InitSession \/ Upload!FillFails \/ Upload!ProbeFails \/ Upload!Finish
      \/ Upload!Abort
    BY <1>1, <2>1, <2>4 DEF Upload!InitSession, Upload!FillFails, Upload!ProbeFails,
        Upload!Finish, Upload!Abort, Upload!To, UploadInv
  <2>5. CASE Upload!Fill
    BY <1>1, <2>1, <2>5 DEF Upload!Fill, UploadInv
  <2>6. CASE Upload!StreamEnded
    BY <1>1, <2>1, <2>6 DEF Upload!StreamEnded, Upload!To, UploadInv
  <2> QED
    BY <1>2, <2>2, <2>3, <2>4, <2>5, <2>6 DEF QuietStep
<1>3. CASE LoopStep
  BY <1>3, LoopWhole
<1>4. CASE Upload!StartChunk
  <2>1. /\ chunk' \in Chunk /\ chunk'.start = offset /\ chunk'.next = offset
        /\ offset <= chunk'.end /\ chunk'.end < read /\ (offset = 0 => chunk'.end >= 1)
        /\ upload_pc = "fill" /\ upload_pc' = "patch"
        /\ UNCHANGED <<size, conduct, read, offset, stored, late, blob>>
    BY <1>4, StartFields
  <2>2. chunk'.end \in Nat
    BY <2>1 DEF Chunk
  <2> QED
    BY <1>1, <2>1, <2>2 DEF UploadInv
<1>5. CASE Upload!LateApplied
  <2>1. PICK l \in late : l.from = stored /\ stored' = l.to + 1 /\ late' = late \ {l}
    BY <1>5 DEF Upload!LateApplied
  <2>2. l.from \in Nat /\ l.to \in Nat /\ l.from <= l.to
    BY <1>1
  <2>3. UNCHANGED <<size, read, upload_pc, offset, chunk>>
    BY <1>5 DEF Upload!LateApplied, Upload!stream
  <2> QED
    BY <1>1, <2>1, <2>2, <2>3 DEF UploadInv
<1>6. CASE UNCHANGED Upload!vars
  BY <1>6 DEF Upload!vars, UploadInv
<1> QED
  BY <1>2, <1>3, <1>4, <1>5, <1>6 DEF Upload!Next, Upload!Client, QuietStep, LoopStep

(* The invariant holds throughout an upload. *)
LEMMA UploadAlways ==
  ASSUME Upload!UploadAssumption
  PROVE  Upload!Spec => [](UploadTypes /\ UploadInv)
<1>1. Upload!Init => UploadTypes /\ UploadInv
  BY UploadInit
<1>2. UploadTypes /\ UploadInv /\ [Upload!Next]_(Upload!vars) => (UploadTypes /\ UploadInv)'
  BY UploadTypeStep, UploadStep
<1> QED
  BY <1>1, <1>2, PTL DEF Upload!Spec

(* The finishing PUT is sent only for a stream that was read to its end, with   *)
(* every byte of it in the session, whatever the pieces of the stream, whatever *)
(* answers are lost, partial or late (upload.rs:450).                           *)
THEOREM FinishCommitsAll ==
  ASSUME Upload!UploadAssumption
  PROVE  Upload!Spec => []FinishWhole
<1>1. UploadTypes /\ UploadInv => FinishWhole
  BY DEF UploadInv, FinishWhole, Upload!FinishWhole
<1> QED
  BY <1>1, UploadAlways, PTL

(* An upload that returns Ok has left the blob in the registry, in every        *)
(* strategy.                                                                    *)
THEOREM OkIsStored ==
  ASSUME Upload!UploadAssumption
  PROVE  Upload!Spec => []OkMeansStored
<1>1. Upload!Init => OkMeansStored
  BY DEF Upload!Init, OkMeansStored, Upload!OkMeansStored
<1>2. UploadTypes /\ UploadInv /\ OkMeansStored /\ [Upload!Next]_(Upload!vars) => OkMeansStored'
  <2> SUFFICES ASSUME UploadTypes, UploadInv, OkMeansStored, [Upload!Next]_(Upload!vars) PROVE OkMeansStored'
    OBVIOUS
  <2>1. CASE LoopStep
    <3>1. upload_pc' # "ok"
      <4>1. CASE Upload!PatchOk
        <5>1. stored' \in Nat /\ Upload!Advance(stored', Upload!Patched) /\ Upload!Patched \in Chunk
          BY <4>1, PatchAdvances DEF UploadTypes, Chunk
        <5>2. stored' > Upload!Patched.end \/ stored' <= Upload!Patched.end
          BY <5>1 DEF Chunk
        <5> QED
          BY <5>1, <5>2, AdvanceCases
      <4>2. CASE Upload!Probe
        <5>1. ASSUME NEW n \in Nat, NEW c \in Chunk, Upload!Advance(n, c) PROVE upload_pc' # "ok"
          <6>1. n > c.end \/ n <= c.end
            BY DEF Chunk
          <6> QED
            BY <5>1, <6>1, AdvanceCases
        <5> QED
          BY <4>2, <5>1, ProbeCases
      <4>3. CASE Upload!PatchInterrupted \/ Upload!PatchLate \/ Upload!PatchOutOfRange
          \/ Upload!PatchRefused
        BY <4>3 DEF Upload!PatchInterrupted, Upload!PatchLate, Upload!PatchOutOfRange,
            Upload!PatchRefused, Upload!Retryable, Upload!To
      <4> QED
        BY <2>1, <4>1, <4>2, <4>3 DEF LoopStep
    <3> QED
      BY <3>1 DEF OkMeansStored, Upload!OkMeansStored
  <2>2. CASE Upload!StartChunk
    BY <2>2 DEF Upload!StartChunk, Upload!To, OkMeansStored, Upload!OkMeansStored
  <2>3. CASE Upload!LateApplied \/ UNCHANGED Upload!vars
    BY <2>3 DEF Upload!LateApplied, Upload!vars, OkMeansStored, Upload!OkMeansStored
  <2>4. CASE Upload!ReadItem \/ Upload!ReadEnd \/ Upload!ReadFails \/ Upload!Fill
      \/ Upload!FillFails \/ Upload!StreamEnded \/ Upload!ProbeFails
    BY <2>4 DEF Upload!ReadItem, Upload!ReadEnd, Upload!ReadFails, Upload!Fill, Upload!FillFails,
        Upload!StreamEnded, Upload!ProbeFails, Upload!To,
      OkMeansStored, Upload!OkMeansStored
  <2>5. CASE Upload!Head \/ Upload!Post \/ Upload!Open \/ Upload!Put \/ Upload!InitSession
      \/ Upload!Finish \/ Upload!Abort
    BY <2>5 DEF Upload!Head, Upload!Post, Upload!Open, Upload!Put, Upload!InitSession,
        Upload!Finish, Upload!Abort, Upload!To, OkMeansStored, Upload!OkMeansStored
  <2> QED
    BY <2>1, <2>2, <2>3, <2>4, <2>5 DEF Upload!Next, Upload!Client, LoopStep
<1> QED
  BY <1>1, <1>2, UploadAlways, PTL DEF Upload!Spec

(* Where nothing but the connection fails, the loop ends only beyond the        *)
(* retries of the chunk.                                                        *)
LEMMA LoopLoss ==
  ASSUME Upload!UploadAssumption, UploadTypes, UploadInv, LossOnly, LossInv, LoopStep
  PROVE  LossInv'
<1>1. /\ chunk \in Chunk /\ chunk.next \in Nat /\ chunk.end \in Nat /\ chunk.retries \in Nat
      /\ chunk.patches \in Nat /\ stored \in Nat /\ interrupted \in Nat /\ UploadRetries \in Nat
  BY DEF UploadTypes, Chunk, Upload!UploadAssumption
<1>2. chunk.next <= chunk.end /\ stored <= chunk.end + 1
  BY LoopFields DEF UploadInv
<1>3. "partial" \notin Upload!Faults /\ "late" \notin Upload!Faults /\ "refuse" \notin Upload!Faults /\ late = {}
  BY DEF LossOnly, LossInv
<1>4. CASE Upload!PatchOk
  <2>1. /\ stored' = chunk.end + 1 /\ Upload!Advance(stored', Upload!Patched) /\ Upload!Patched \in Chunk
        /\ Upload!Patched.end = chunk.end /\ late' = late
    BY <1>3, <1>4, PatchAdvances
  <2>2. stored' \in Nat /\ stored' > Upload!Patched.end
    BY <1>1, <2>1
  <2>3. upload_pc' = "fill"
    BY <2>1, <2>2, AdvanceCases
  <2> QED
    BY <1>3, <2>1, <2>3 DEF LossInv
<1>5. CASE Upload!PatchInterrupted
  <2>1. /\ upload_pc = "patch" /\ late' = late /\ interrupted' = interrupted + 1
        /\ upload_pc' = (IF chunk.retries >= UploadRetries THEN "abort" ELSE "probe")
        /\ chunk'.next = chunk.next /\ chunk'.retries = chunk.retries
        /\ chunk'.probed = chunk.probed /\ chunk'.patches = chunk.patches + 1
    BY <1>1, <1>5 DEF Upload!PatchInterrupted, Upload!Retryable, Upload!To, Upload!Patched, Chunk
  <2>2. stored' \in chunk.next .. chunk.end + 1
    BY <1>5, <2>1 DEF Upload!PatchInterrupted, Upload!Kept, LossInv
  <2> QED
    BY <1>1, <2>1, <2>2 DEF LossInv
<1>6. ~ Upload!PatchLate /\ ~ Upload!PatchRefused
  BY <1>3 DEF Upload!PatchLate, Upload!PatchRefused
<1>7. ~ Upload!PatchOutOfRange
  BY DEF Upload!PatchOutOfRange, LossInv
<1>8. CASE Upload!Probe
  <2>1. /\ upload_pc = "probe" /\ late' = late /\ stored' = stored /\ interrupted' = interrupted
    BY <1>8, ProbeCases DEF Upload!Probe
  <2>2. /\ chunk.next <= stored /\ ~ chunk.probed
        /\ chunk.retries + 1 = interrupted /\ chunk.patches = interrupted
    BY <2>1 DEF LossInv
  <2> DEFINE n == Upload!ProbeNextOffset(Upload!SessionRange, chunk)
  <2>3. n = stored
    <3>1. n = n
      OBVIOUS
    <3> QED
      BY <1>1, <2>1, <2>2, ProbeFinds DEF LossOnly
  <2>4. CASE chunk.retries >= UploadRetries /\ n <= chunk.end
    <3>1. upload_pc' = "abort"
      BY <1>1, <1>8, <2>3, <2>4 DEF Upload!Probe, Upload!To
    <3> QED
      BY <1>1, <1>3, <2>1, <2>2, <2>4, <3>1 DEF LossInv
  <2>5. CASE ~ (chunk.retries >= UploadRetries /\ n <= chunk.end)
    <3> DEFINE c == IF n \in 0 .. chunk.end THEN [chunk EXCEPT !.retries = @ + 1] ELSE chunk
    <3>1. Upload!Advance(n, c)
      BY <1>1, <1>8, <2>2, <2>3, <2>5 DEF Upload!Probe
    <3>2. c \in Chunk /\ c.end = chunk.end /\ c.patches = chunk.patches /\ c.probed = chunk.probed
      BY <1>1 DEF Chunk
    <3>3. n <= chunk.end => c.retries = chunk.retries + 1
      BY <1>1, <2>3 DEF Chunk
    <3> HIDE DEF c, n
    <3>4. /\ chunk' = [c EXCEPT !.next = n] /\ chunk' \in Chunk
          /\ n > c.end => upload_pc' = "fill"
          /\ n <= c.end => upload_pc' = (IF c.patches <= UploadRetries THEN "patch" ELSE "abort")
      BY <1>1, <2>3, <3>1, <3>2, AdvanceCases
    <3>5. /\ chunk'.next = stored /\ chunk'.retries = c.retries /\ chunk'.patches = c.patches
          /\ chunk'.probed = c.probed
      BY <2>3, <3>2, <3>4 DEF Chunk
    <3>6. CASE n > chunk.end
      BY <1>3, <2>1, <3>2, <3>4, <3>6 DEF LossInv
    <3>7. CASE n <= chunk.end
      BY <1>1, <1>3, <2>1, <2>2, <3>2, <3>3, <3>4, <3>5, <3>7 DEF LossInv
    <3> QED
      BY <1>1, <2>3, <3>6, <3>7
  <2> QED
    BY <2>4, <2>5
<1> QED
  BY <1>4, <1>5, <1>6, <1>7, <1>8 DEF LoopStep

(* Every other step keeps this. *)
LEMMA LossStep ==
  ASSUME Upload!UploadAssumption, UploadTypes, UploadInv, LossOnly, LossInv, [Upload!Next]_(Upload!vars)
  PROVE  LossInv'
<1>1. /\ Upload!Faults \cap {"stream", "late", "partial", "refuse", "probe", "answer", "headers"} = {}
      /\ late = {}
  BY DEF LossOnly, LossInv
<1>2. CASE LoopStep
  BY <1>2, LoopLoss
<1>3. CASE Upload!StartChunk
  <2>1. /\ chunk'.next = offset /\ chunk'.retries = 0 /\ chunk'.patches = 0 /\ ~ chunk'.probed
        /\ upload_pc = "fill" /\ upload_pc' = "patch" /\ interrupted' = 0 /\ stored' = stored /\ late' = late
    BY <1>3, StartFields
  <2>2. stored = offset
    BY <2>1 DEF UploadInv
  <2> QED
    BY <1>1, <2>1, <2>2 DEF LossInv
<1>4. CASE QuietStep
  <2>1. Quiet
    BY <1>4, QuietFields
  <2>2. upload_pc' \notin {"patch", "probe"} /\ (upload_pc' \in {"abort", "err"} => upload_pc = "abort")
    <3>1. CASE Upload!ReadItem \/ Upload!ReadEnd \/ Upload!ReadFails \/ Upload!Fill
        \/ Upload!FillFails \/ Upload!StreamEnded \/ Upload!ProbeFails
      BY <1>1, <3>1 DEF Upload!ReadItem, Upload!ReadEnd, Upload!ReadFails, Upload!Fill,
          Upload!FillFails, Upload!StreamEnded, Upload!ProbeFails, Upload!To
    <3>2. CASE Upload!Head \/ Upload!Post \/ Upload!Open \/ Upload!Put \/ Upload!InitSession
        \/ Upload!Abort
      BY <1>1, <3>2, Zenon DEF Upload!Head, Upload!Post, Upload!Open, Upload!Put, Upload!InitSession,
          Upload!Abort, Upload!To
    <3>3. CASE Upload!Finish
      BY <1>1, <3>3 DEF Upload!Finish, UploadInv, Upload!To
    <3> QED
      BY <1>4, <3>1, <3>2, <3>3 DEF QuietStep
  <2> QED
    BY <1>1, <2>1, <2>2 DEF LossInv, Quiet
<1>5. ~ Upload!LateApplied
  BY <1>1 DEF Upload!LateApplied
<1>6. CASE UNCHANGED Upload!vars
  BY <1>6 DEF Upload!vars, LossInv
<1> QED
  BY <1>2, <1>3, <1>4, <1>5, <1>6 DEF Upload!Next, Upload!Client, QuietStep, LoopStep

(* The registry of an upload does not change its conduct. *)
LEMMA ConductFixed ==
  ASSUME Upload!UploadAssumption, UploadTypes, UploadInv, [Upload!Next]_(Upload!vars)
  PROVE  conduct' = conduct
<1>1. CASE QuietStep
  BY <1>1, QuietFields DEF Quiet
<1>2. CASE LoopStep
  BY <1>2, LoopFields
<1>3. CASE Upload!StartChunk \/ Upload!LateApplied \/ UNCHANGED Upload!vars
  BY <1>3 DEF Upload!StartChunk, Upload!LateApplied, Upload!vars, Upload!stream
<1> QED
  BY <1>1, <1>2, <1>3 DEF Upload!Next, Upload!Client, QuietStep, LoopStep

(* An upload that meets nothing but interruptions fails only when one chunk has *)
(* met more of them than max_retry_attempts (upload.rs of nixcache-oci).        *)
THEOREM InterruptionsAreSurvived ==
  ASSUME Upload!UploadAssumption
  PROVE  Upload!Spec => []InterruptionsSurvived
<1>1. Upload!Init => LossInv
  BY UploadInit
<1>2. UploadTypes /\ UploadInv /\ (LossOnly => LossInv) /\ [Upload!Next]_(Upload!vars) => (LossOnly => LossInv)'
  BY LossStep, ConductFixed DEF LossOnly, Upload!Faults
<1>3. (LossOnly => LossInv) => InterruptionsSurvived
  BY DEF LossInv, LossOnly, InterruptionsSurvived, Upload!InterruptionsSurvived
<1> QED
  BY <1>1, <1>2, <1>3, UploadAlways, PTL DEF Upload!Spec
===============================================================================

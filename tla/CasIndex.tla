------------------------------- MODULE CasIndex -------------------------------
(* update_cas, update_sharded_cas and their single-writer forms                 *)
(* (client/index/update.rs) over the conditional PUT of a tag (put_cas). The    *)
(* index is the set of the clients whose update it holds; a digest is its       *)
(* content.                                                                     *)
EXTENDS Naturals

CONSTANTS
  Clients,
  Capable,       \* the clients whose registry kind has ManifestCasSupport::IfMatch
  MaxRetries,    \* max_retries
  MaxDeletes     \* bound: deletions of the tag

ASSUME CasAssumption ==
  MaxRetries \in Nat /\ MaxDeletes \in Nat /\ Capable \subseteq Clients

(* What a tag holds. The mutator is given the members, which only an index has. *)
Manifests == [kind : {"none", "foreign", "index"}, members : SUBSET Clients]

NoManifest == [kind |-> "none", members |-> {}]
Foreign == [kind |-> "foreign", members |-> {}]
Index(members) == [kind |-> "index", members |-> members]

VARIABLES
  tag,
  pc, attempt,
  seen,      \* the manifest fetched, whose digest the condition carries
  acked,     \* auxiliary: updates reported done since the tag was last deleted
  applied,   \* auxiliary: how often the update of a client was applied
  others,    \* auxiliary: changes of the tag by others since the call began
  deletes

vars == <<tag, pc, attempt, seen, acked, applied, others, deletes>>

Init ==
  /\ tag \in {NoManifest, Foreign, Index({})}
  /\ pc = [c \in Clients |-> "idle"]
  /\ attempt = [c \in Clients |-> 0]
  /\ seen = [c \in Clients |-> NoManifest]
  /\ acked = {}
  /\ applied = [c \in Clients |-> 0]
  /\ others = [c \in Clients |-> 0]
  /\ deletes = 0

Ended == {"idle", "done", "conflict", "failed"}

(* The lock of the CI job, which single-writer updates need: nobody else is at  *)
(* work on the tag.                                                             *)
Alone(c) == \A d \in Clients \ {c} : pc[d] \in Ended
NoSingleWriter == \A d \in Clients \ Capable : pc[d] \in Ended

(* The call begins; without If-Match the caller uses update_single_writer. *)
Start(c) ==
  /\ pc[c] = "idle"
  /\ NoSingleWriter /\ (c \notin Capable => Alone(c))
  /\ pc' = [pc EXCEPT ![c] = "fetch"]
  /\ others' = [others EXCEPT ![c] = 0]
  /\ UNCHANGED <<tag, attempt, seen, acked, applied, deletes>>

(* fetch_artifact, which decides the content and the condition of the PUT. *)
Fetch(c) ==
  /\ pc[c] = "fetch"
  /\ seen' = [seen EXCEPT ![c] = tag]
  /\ attempt' = [attempt EXCEPT ![c] = @ + 1]
  /\ pc' = [pc EXCEPT ![c] = "put"]
  /\ UNCHANGED <<tag, acked, applied, others, deletes>>

(* The fetch, the mutator or the PUT fails without changing the tag. *)
Fail(c) ==
  /\ pc[c] \in {"fetch", "put"}
  /\ pc' = [pc EXCEPT ![c] = "failed"]
  /\ UNCHANGED <<tag, attempt, seen, acked, applied, others, deletes>>

(* A PUT that creates the tag with no condition. *)
ConditionIfExists(c) == c \in Capable => seen[c] \in {tag, NoManifest}

(* If-Match with the digest read, or If-None-Match: * for a tag that was not    *)
(* there; a single writer sends neither.                                        *)
ConditionHolds(c) == c \in Capable => tag = seen[c]

Written(c) ==
  /\ pc[c] = "put" /\ ConditionHolds(c)
  /\ tag' = Index(seen[c].members \cup {c})
  /\ applied' = [applied EXCEPT ![c] = @ + 1]
  /\ others' = [d \in Clients |-> IF d = c THEN others[d] ELSE others[d] + 1]

PutOk(c) ==
  /\ Written(c)
  /\ pc' = [pc EXCEPT ![c] = "done"]
  /\ acked' = acked \cup {c}
  /\ UNCHANGED <<attempt, seen, deletes>>

(* A lost answer that is taken for a conflict. *)
PutLostRetried(c) ==
  /\ Written(c)
  /\ pc' = [pc EXCEPT ![c] = IF attempt[c] <= MaxRetries THEN "sleep" ELSE "conflict"]
  /\ UNCHANGED <<attempt, seen, acked, deletes>>

(* The registry has written the tag and the answer is lost: a transport error,  *)
(* which is not retried.                                                        *)
PutLost(c) ==
  /\ Written(c)
  /\ pc' = [pc EXCEPT ![c] = "failed"]
  /\ UNCHANGED <<attempt, seen, acked, deletes>>

(* One attempt too few. *)
RetriesLeftButOne(c) == attempt[c] < MaxRetries

RetriesLeft(c) == attempt[c] <= MaxRetries

(* CasPreconditionFailed: retried while attempt <= max_retries. *)
PutConflict(c) ==
  /\ pc[c] = "put" /\ ~ ConditionHolds(c)
  /\ pc' = [pc EXCEPT ![c] = IF RetriesLeft(c) THEN "sleep" ELSE "conflict"]
  /\ UNCHANGED <<tag, attempt, seen, acked, applied, others, deletes>>

(* A retry that sends again what it has read before. *)
WakeWithoutFetch(c) ==
  /\ pc[c] = "sleep"
  /\ pc' = [pc EXCEPT ![c] = "put"]
  /\ UNCHANGED <<tag, attempt, seen, acked, applied, others, deletes>>

Wake(c) ==
  /\ pc[c] = "sleep"
  /\ pc' = [pc EXCEPT ![c] = "fetch"]
  /\ UNCHANGED <<tag, attempt, seen, acked, applied, others, deletes>>

(* The tag is deleted, by a job that respects the single writer's lock. *)
DeleteTag ==
  /\ tag # NoManifest /\ NoSingleWriter
  /\ deletes < MaxDeletes /\ deletes' = deletes + 1
  /\ tag' = NoManifest /\ acked' = {}
  /\ others' = [d \in Clients |-> others[d] + 1]
  /\ UNCHANGED <<pc, attempt, seen, applied>>

Step(c) ==
  \/ Fetch(c) \/ Fail(c) \/ PutOk(c) \/ PutLost(c) \/ PutConflict(c) \/ Wake(c)

Next == DeleteTag \/ \E c \in Clients : Start(c) \/ Step(c)

Spec == Init /\ [][Next]_vars

(* A call that has begun is driven by its runtime until it returns. *)
FairSpec == Spec /\ \A c \in Clients : WF_vars(Step(c))

-------------------------------------------------------------------------------
(* The types of the state. *)
TypeOK ==
  /\ tag \in Manifests
  /\ pc \in [Clients -> Ended \cup {"fetch", "put", "sleep"}]
  /\ attempt \in [Clients -> Nat] /\ \A c \in Clients : attempt[c] <= MaxRetries + 1
  /\ seen \in [Clients -> Manifests]
  /\ acked \subseteq Clients
  /\ applied \in [Clients -> Nat] /\ others \in [Clients -> Nat]
  /\ deletes \in 0 .. MaxDeletes

(* An update that was reported done stays in the index until the tag is         *)
(* deleted: no other update overwrites it (update.rs:34).                       *)
AckedKept == acked \subseteq tag.members

(* A call applies its update at most once, also when an answer is lost, and     *)
(* not at all when it reports a conflict (update.rs:36).                        *)
AppliedOnce ==
  \A c \in Clients : applied[c] <= 1 /\ (pc[c] = "conflict" => applied[c] = 0)

(* A call gives up with a conflict only when the tag has changed under it more  *)
(* than max_retries times (update.rs:36): with fewer writers it cannot fail so. *)
ConflictsExplained ==
  \A c \in Clients : pc[c] = "conflict" => others[c] > MaxRetries

Outcome ==
  [c \in Clients |-> IF pc[c] = "done" THEN "ok"
                     ELSE IF pc[c] \in {"conflict", "failed"} THEN pc[c] ELSE "none"]

Atomic == INSTANCE AtomicIndex WITH contents <- tag.members, outcome <- Outcome

(* The read, the mutation and the conditional PUT of update.rs:23-50 implement  *)
(* an atomic update.                                                            *)
ImplementsAtomic == Atomic!Spec

(* Every call that has begun returns: retries are bounded. (A client calls once,   *)
(* so that no call is left running for ever when again and again none is.)      *)
CallsReturn == []<>(\A c \in Clients : pc[c] \in Ended)
===============================================================================

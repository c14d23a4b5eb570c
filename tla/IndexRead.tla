------------------------------ MODULE IndexRead ------------------------------
(***************************************************************************)
(* Reading the index of one architecture from the registry: get_sharded_root *)
(* (tag of the architecture first, the tag of the image index second), the  *)
(* decoding and validation of the root it leads to, and get_shard_data for  *)
(* a shard of that root (nixcache-oci: client/index.rs, client/manifest.rs, *)
(* client/blob.rs, integrity.rs, manifest.rs, codec.rs).                    *)
(*                                                                          *)
(* Readers run while a writer pushes new roots, replaces the image index    *)
(* and purges old blobs, and while the registry may misbehave: an answer    *)
(* may be another object of the registry, a damaged body, or an error.      *)
(* Objects written by other tools or by older versions of this one lie in   *)
(* the same registry.                                                       *)
(*                                                                          *)
(* A body is a small tuple that names its content, so its digest is the     *)
(* body itself:                                                             *)
(*   << "shard", system, id, part, kind >>    a shard blob                  *)
(*   << "root", system, ledger, kind >>       a root blob                   *)
(*   << "manifest", root, kind >>             an image manifest             *)
(*   << "index", manifests, kind >>           an image index                *)
(*   << "damaged" >>                          bytes that do not decode      *)
(* A ledger maps store hashes to the revision of their entry; "v8" is the   *)
(* kind this code writes, the other kinds are the foreign objects.          *)
(***************************************************************************)
EXTENDS IndexFormat

CONSTANTS
  Readers,
  Asked,          \* architectures that are read and written, the others lie still
  Ledgers,        \* the sequence of ledgers a writer publishes, per system
  MaxFaults,      \* bound: misbehaving answers in one history
  ForeignRoots,   \* kinds of foreign root blobs
  ForeignManifests, \* kinds of foreign manifests
  ForeignIndexes,   \* kinds of foreign image indexes
  MaxManifestBytes, MaxBufferedBytes, MaxDescriptors, MaxLayers

ReadAssumption == MaxFaults \in Nat /\ Asked \subseteq KnownSystems

VARIABLES
  arch,      \* system -> manifest the architecture's tag names, or None
  top,       \* what the image-index tag names, or None
  stored,    \* bodies the registry holds by digest
  version,   \* system -> number of ledgers pushed
  faults,    \* misbehaving answers so far
  reader     \* Readers -> state of the call

vars == << arch, top, stored, version, faults, reader >>

Repo == << 1 >>
Registry == << 1 >>
Other(s) == CHOOSE t \in KnownSystems : t # s

-----------------------------------------------------------------------------
(* What bodies decode to.                                                  *)

\* Revision n of the entry of hash h.
Entry(h, n, system) ==
  [name |-> << 1 >>, system |-> << system >>, store_path |-> h \o << 97 >>,
   nar_basename |-> << n >>, compression |-> None, file_hash |-> None, file_size |-> None,
   nar_hash |-> << n >>, references |-> << >>, deriver |-> None, signatures |-> << >>, ca |-> None,
   nar_digest |-> Sha256(<< << n >> >>), nar_size |-> n, added |-> << 1 >>, origin |-> None]

Part(ledger, id) ==
  LET parts == partition_entries_by_shard(ledger)
  IN IF id \in DOMAIN parts THEN parts[id] ELSE NoEntries

ShardBody(system, id, part) == << "shard", system, id, part, "v8" >>

DecodeShard(b) ==
  ShardDataPayload_with_entries(b[3], [h \in DOMAIN b[4] |-> Entry(h, b[4][h], b[2])])

\* JSON size of a payload, and its compressed size.
JsonSize(part) == 2 + Cardinality(DOMAIN part)
ZstdSize(part) == 1 + Cardinality(DOMAIN part)

\* The descriptor update_shard leaves in the root for a shard with this part.
Descriptor(system, id, part) ==
  IF DOMAIN part = {} THEN ShardDescriptor_empty(id)
  ELSE LET body == ShardBody(system, id, part) IN
       ShardDescriptor_new(id, << "sha256", body >>, ZstdSize(part), JsonSize(part),
         Cardinality(DOMAIN part), compute_shard_merkle_hash(id, DecodeShard(body).entries))[1]

Descriptors(system, ledger) == [i \in 1 .. NUM_SHARDS |-> Descriptor(system, i - 1, Part(ledger, i - 1))]

\* Foreign roots: the root of another repository; one whose Merkle root was
\* not recomputed; one that names, for each shard, the blob of its neighbour,
\* of the other architecture, or a blob with another number of entries.
Neighbour(i) == IF i % 2 = 1 THEN i + 1 ELSE i - 1
Swapped(d, e) == IF d.entry_count = 0 \/ e.entry_count = 0 THEN d
                 ELSE [e EXCEPT !.shard_id = d.shard_id, !.prefix = d.prefix]
Miscounted(d) == IF d.entry_count = 0 THEN d ELSE [d EXCEPT !.entry_count = @ + 1]

Altered(shards, kind) ==
  [i \in 1 .. NUM_SHARDS |-> CASE kind = "neighbour" -> Swapped(shards[i], shards[Neighbour(i)])
                               [] kind = "miscounted" -> Miscounted(shards[i])
                               [] OTHER -> shards[i]]

WithShards(root, shards, kind) ==
  [root EXCEPT !.shards = shards, !.repo = IF kind = "other_repo" THEN << 2 >> ELSE Repo,
     !.merkle_root = IF kind = "stale_merkle" THEN Sha256(<< << 0 >> >>) ELSE compute_merkle_root(shards)]

RootContent(b) ==
  WithShards(ShardedArchCacheIndexData_new(b[2], Repo, Registry),
             Altered(Descriptors(IF b[4] = "other_system" THEN Other(b[2]) ELSE b[2], b[3]), b[4]), b[4])

RootBody(system, ledger, kind) == << "root", system, ledger, kind >>
RootBodies ==
  UNION {{RootBody(s, Ledgers[s][n], k) : n \in DOMAIN Ledgers[s], k \in {"v8"} \cup ForeignRoots} :
         s \in KnownSystems}
RootTable == [b \in RootBodies |-> RootContent(b)]
DecodeRoot(b) == RootTable[b]

\* Foreign manifests: schema 7, no annotations, two layers, the Merkle root of
\* another root, a layer for another platform, a layer beyond the size limit.
BodySize(b) == IF b[1] = "shard" THEN ZstdSize(b[4]) ELSE IF b[1] = "damaged" THEN 1 ELSE 3

Platform(system) == [system |-> system, alias |-> FALSE]
to_system(platform) == platform.system

build_sharded_arch_index_manifest(root, merkle_root, kind) ==
  LET system == IF kind = "other_platform" THEN Other(root[2]) ELSE root[2]
      schema == IF kind = "v7" THEN 7 ELSE 8
      notes  == [system |-> root[2], schema |-> schema, merkle_root |-> merkle_root]
      layer  == [media_type |-> IF kind = "v7" THEN "root.v7" ELSE "root.v8", digest |-> root,
                 size |-> IF kind = "too_big" THEN MaxBufferedBytes + 1 ELSE BodySize(root),
                 platform |-> << Platform(system) >>, annotations |-> << notes >>]
  IN [schema_version |-> 2, media_type |-> "image.manifest", config |-> "image.config",
      layers |-> IF kind = "two_layers" THEN << layer, layer >> ELSE << layer >>,
      annotations |-> IF kind = "unannotated" THEN None ELSE << notes >>]

DecodeManifest(b) ==
  build_sharded_arch_index_manifest(b[2],
    IF b[3] = "other_merkle" THEN Sha256(<< << 0 >> >>) ELSE DecodeRoot(b[2]).merkle_root, b[3])

\* The image index promote and purge write has the platform and the system
\* annotation of each manifest, and 0 for its size.  Foreign indexes: with the
\* true sizes; with another spelling of the platform; without platform; with
\* two manifests of one platform; with a platform and an annotation at odds.
IndexDescriptor(m, kind) ==
  LET system == m[2][2] IN
  [media_type |-> "image.manifest", digest |-> m,
   size |-> IF kind = "v8" THEN 0 ELSE BodySize(m),
   platform |-> CASE kind = "no_platform" -> None
                  [] kind = "alias" -> << [system |-> system, alias |-> TRUE] >>
                  [] kind = "at_odds" -> << Platform(Other(system)) >>
                  [] OTHER -> << Platform(system) >>,
   system |-> IF kind \in {"v8", "at_odds"} THEN << system >> ELSE None]

DecodeIndex(b) ==
  [schema_version |-> 2, media_type |-> "image.index",
   manifests |-> [i \in 1 .. Len(b[2]) |-> IndexDescriptor(b[2][i], b[3])]]

-----------------------------------------------------------------------------
(* Validation of manifests and indexes (manifest.rs).                      *)

OciDescriptorOk(d, max) == d.size <= max /\ d.media_type # ""

\* OciImageManifest::validate_for; the empty config is within every limit.
ManifestOk(m) ==
  /\ m.schema_version = 2
  /\ m.media_type = "image.manifest"
  /\ Len(m.layers) <= MaxLayers
  /\ m.config = "image.config"
  /\ \A i \in DOMAIN m.layers : OciDescriptorOk(m.layers[i], MaxBufferedBytes)

validate_v8_annotations(notes, system, merkle_root) ==
  /\ notes # None
  /\ notes[1].system = system
  /\ notes[1].schema = 8
  /\ notes[1].merkle_root = merkle_root
  /\ is_sha256(merkle_root)

\* The layer, or None.
validate_schema_v8_root(m, system, merkle_root) ==
  IF /\ ManifestOk(m)
     /\ Len(m.layers) = 1
     /\ validate_v8_annotations(m.annotations, system, merkle_root)
     /\ m.layers[1].media_type = "root.v8"
     /\ m.layers[1].platform # None /\ to_system(m.layers[1].platform[1]) = system
     /\ validate_v8_annotations(m.layers[1].annotations, system, merkle_root)
  THEN << m.layers[1] >> ELSE None

\* The system of a child of an image index; None when it has none that is
\* known, or two that differ.
ChildSystem(d) ==
  IF /\ d.platform # None => is_known(to_system(d.platform[1]))
     /\ d.system # None => is_known(d.system[1])
     /\ d.platform # None /\ d.system # None => to_system(d.platform[1]) = d.system[1]
  THEN IF d.platform # None THEN << to_system(d.platform[1]) >> ELSE d.system
  ELSE None

\* OciImageIndex::validate_for.
IndexOk(x) ==
  /\ x.schema_version = 2
  /\ x.media_type = "image.index"
  /\ Len(x.manifests) <= MaxDescriptors
  /\ \A i \in DOMAIN x.manifests :
       /\ OciDescriptorOk(x.manifests[i], MaxManifestBytes)
       /\ x.manifests[i].media_type = "image.manifest"
       /\ ChildSystem(x.manifests[i]) # None
  /\ \A i, j \in DOMAIN x.manifests :
       ChildSystem(x.manifests[i]) = ChildSystem(x.manifests[j]) => i = j

\* The first child with exactly the platform this code writes for the system,
\* or annotated with it; None when there is none.
find_manifest_for_system(x, system) ==
  LET matches == SelectSeq(x.manifests, LAMBDA d : \/ d.platform = << Platform(system) >>
                                                  \/ d.system = << system >>)
  IN IF matches = << >> THEN None ELSE << matches[1] >>

-----------------------------------------------------------------------------
(* Answers of the registry and their verification.                         *)

Answer(status, b, header, length) ==
  [status |-> status, body |-> b, header |-> header, length |-> length]

Damaged == << "damaged" >>
Honest(b) == IF b = None THEN Answer("404", Damaged, None, None)
             ELSE Answer("ok", b, << b >>, << BodySize(b) >>)

\* An error, a wrong 404, or another body: with its own headers, with none, or
\* with those of the body that was asked for.
Misbehaving(b) ==
  {Answer("error", Damaged, None, None), Answer("404", Damaged, None, None)}
    \cup {Answer("ok", c, h, None) : c \in stored \cup {Damaged}, h \in {None, IF b = None THEN None ELSE << b >>}}
    \cup {Answer("ok", c, << c >>, << BodySize(c) >>) : c \in stored \cup {Damaged}}

\* The answers to one request for what is b in the registry.
Answers(b) == {Honest(b)} \cup (IF faults < MaxFaults THEN Misbehaving(b) ELSE {})
Answered(b, a) == faults' = IF a = Honest(b) THEN faults ELSE faults + 1

verify_buffered_body(expected_digest, expected_size, a) ==
  /\ expected_size # None => expected_size[1] = BodySize(a.body)
  /\ a.length # None => a.length[1] = BodySize(a.body)
  /\ a.header # None => a.header[1] = a.body
  /\ expected_digest # None => expected_digest[1] = a.body

\* One manifest request: "missing", "failed", or "ok" with a.body verified.
get_with_expected_size(name, size, a) ==
  IF size # None /\ size[1] > MaxManifestBytes THEN "failed"
  ELSE IF a.status = "404" THEN "missing"
  ELSE IF a.status = "ok" /\ verify_buffered_body(name, size, a) THEN "ok" ELSE "failed"

get_image_manifest(a) ==
  IF get_with_expected_size(None, None, a) # "ok" THEN get_with_expected_size(None, None, a)
  ELSE IF a.body[1] = "manifest" /\ ManifestOk(DecodeManifest(a.body)) THEN "ok" ELSE "failed"

fetch_artifact(a) ==
  IF get_with_expected_size(None, None, a) # "ok" THEN get_with_expected_size(None, None, a)
  ELSE IF \/ a.body[1] = "manifest" /\ ManifestOk(DecodeManifest(a.body))
          \/ a.body[1] = "index" /\ IndexOk(DecodeIndex(a.body)) THEN "ok" ELSE "failed"

get_verified(name, size, a) == a.status = "ok" /\ verify_buffered_body(<< name >>, << size >>, a)

get_descriptor(name, size, a) == size <= MaxBufferedBytes /\ get_verified(name, size, a)

\* decode_zstd of a shard: within the output limit, and a payload.
decode_zstd(b) ==
  /\ b[1] = "shard"
  /\ JsonSize(b[4]) <= MaxUncompressed
  /\ ShardDataPayload_deserialize(DecodeShard(b)) # None

IfStored(b) == IF b \in stored THEN b ELSE None

-----------------------------------------------------------------------------
(* The readers.                                                            *)

Idle == [pc |-> "idle", system |-> None, via |-> "arch", tag_manifest |-> None, manifest |-> None, child |-> None,
         root |-> None, shard |-> 0, payload |-> None, since |-> 0]

\* get_sharded_root starts with the tag of the architecture.
get_sharded_root(r, system) ==
  /\ reader[r].pc = "idle"
  /\ reader' = [reader EXCEPT ![r] = [Idle EXCEPT !.pc = "arch", !.system = system,
                                                  !.since = version[system]]]
  /\ UNCHANGED << arch, top, stored, version, faults >>

\* The layer of the root, under the Merkle root the manifest announces.
root_layer(manifest, system) ==
  IF manifest.annotations = None THEN None
  ELSE validate_schema_v8_root(manifest, system, manifest.annotations[1].merkle_root)

\* decode_root_manifest up to its request for the root blob; tag_manifest is
\* what the digest that will be returned names.
ToRoot(r, m, tag_manifest) ==
  reader' = [reader EXCEPT ![r] =
       IF m[1] # "manifest" \/ root_layer(DecodeManifest(m), reader[r].system) = None
       THEN [@ EXCEPT !.pc = "failed"]
       ELSE [@ EXCEPT !.pc = "root", !.manifest = m, !.tag_manifest = tag_manifest,
                      !.via = IF reader[r].pc = "arch" THEN "arch" ELSE "top"]]

ToFailed(r) == reader' = [reader EXCEPT ![r].pc = "failed"]
ToMissing(r) == reader' = [reader EXCEPT ![r].pc = "missing"]

ArchAnswered(r) ==
  /\ reader[r].pc = "arch"
  /\ \E a \in Answers(arch[reader[r].system]) :
       /\ Answered(arch[reader[r].system], a)
       /\ CASE get_image_manifest(a) = "missing" -> reader' = [reader EXCEPT ![r].pc = "top"]
            [] get_image_manifest(a) = "failed" -> ToFailed(r)
            [] OTHER -> ToRoot(r, a.body, a.body)
  /\ UNCHANGED << arch, top, stored, version >>

\* The image index, or a manifest directly under the tag.
TopAnswered(r) ==
  /\ reader[r].pc = "top"
  /\ \E a \in Answers(top) :
       /\ Answered(top, a)
       /\ IF fetch_artifact(a) = "missing" THEN ToMissing(r)
          ELSE IF fetch_artifact(a) = "failed" THEN ToFailed(r)
          ELSE IF a.body[1] = "manifest" THEN ToRoot(r, a.body, a.body)
          ELSE LET child == find_manifest_for_system(DecodeIndex(a.body), reader[r].system) IN
               IF child = None THEN ToMissing(r)
               ELSE IF ChildSystem(child[1]) # << reader[r].system >> THEN ToFailed(r)
               ELSE reader' = [reader EXCEPT ![r].pc = "sub", ![r].child = child,
                                             ![r].tag_manifest = a.body]
  /\ UNCHANGED << arch, top, stored, version >>

SubAnswered(r) ==
  LET child == reader[r].child[1] IN
  /\ reader[r].pc = "sub"
  /\ \E a \in Answers(IfStored(child.digest)) :
       /\ Answered(IfStored(child.digest), a)
       /\ IF /\ get_with_expected_size(<< child.digest >>, << child.size >>, a) = "ok"
             /\ a.body[1] = "manifest" /\ ManifestOk(DecodeManifest(a.body))
          THEN ToRoot(r, a.body, reader[r].tag_manifest)
          ELSE ToFailed(r)
  /\ UNCHANGED << arch, top, stored, version >>

\* The rest of decode_root_manifest, on the root blob.
RootAccepted(root, manifest, system) ==
  /\ ShardedArchCacheIndexData_deserialize(root) # None
  /\ RootOkFor(root, system, Repo, Registry)
  /\ \A i \in DOMAIN root.shards : root.shards[i].compressed_size <= MaxBufferedBytes
  /\ root.merkle_root = manifest.annotations[1].merkle_root

\* get_descriptor of the root layer, and what is made of the answer.
RootFetched(r, manifest) ==
  LET layer == manifest.layers[1] IN
  \E a \in Answers(IfStored(layer.digest)) :
    /\ Answered(IfStored(layer.digest), a)
    /\ IF /\ get_descriptor(layer.digest, layer.size, a)
          /\ a.body[1] = "root" /\ RootAccepted(DecodeRoot(a.body), manifest, reader[r].system)
       THEN reader' = [reader EXCEPT ![r].pc = "got", ![r].root = a.body]
       ELSE ToFailed(r)

RootAnswered(r) ==
  /\ reader[r].pc = "root"
  /\ RootFetched(r, DecodeManifest(reader[r].manifest))
  /\ UNCHANGED << arch, top, stored, version >>

RootDescriptor(r, id) == DecodeRoot(reader[r].root).shards[id + 1]

\* get_shard_data for the shard of some hash; an empty one needs no request.
ToShard(state, d) ==
  IF ~DescriptorOk(d) THEN [state EXCEPT !.pc = "failed"]
  ELSE IF d.entry_count = 0
  THEN [state EXCEPT !.pc = "done", !.shard = d.shard_id,
                     !.payload = ShardBody(state.system, d.shard_id, NoEntries)]
  ELSE [state EXCEPT !.pc = "shard", !.shard = d.shard_id]

get_shard_data(r, id) ==
  /\ reader[r].pc = "got"
  /\ reader' = [reader EXCEPT ![r] = ToShard(reader[r], RootDescriptor(r, id))]
  /\ UNCHANGED << arch, top, stored, version, faults >>

ShardAccepted(payload, d, system) ==
  /\ PayloadOkFor(payload, d.shard_id, system)
  /\ Cardinality(DOMAIN payload.entries) = d.entry_count
  /\ validate_merkle_hash(payload, d.merkle_hash)

ShardFetched(r, d) ==
  LET blob == d.blob_digest[2] IN
  \E a \in Answers(IfStored(blob)) :
    /\ Answered(IfStored(blob), a)
    /\ IF /\ get_descriptor(blob, d.compressed_size, a)
          /\ decode_zstd(a.body)
          /\ JsonSize(a.body[4]) = d.uncompressed_size
          /\ ShardAccepted(DecodeShard(a.body), d, reader[r].system)
       THEN reader' = [reader EXCEPT ![r].pc = "done", ![r].payload = a.body]
       ELSE ToFailed(r)

ShardAnswered(r) ==
  /\ reader[r].pc = "shard"
  /\ ShardFetched(r, RootDescriptor(r, reader[r].shard))
  /\ UNCHANGED << arch, top, stored, version >>

-----------------------------------------------------------------------------
(* The writers, and what lies in the registry at the start.                *)

ManifestBody(root, kind) == << "manifest", root, kind >>

\* Every body a body leads to.
ShardsOf(root) ==
  {d.blob_digest[2] : d \in {e \in Range(DecodeRoot(root).shards) : e.entry_count > 0}}
ManifestsOf(b) ==
  IF b = None THEN {} ELSE IF b[1] = "manifest" THEN {b} ELSE IF b[1] = "index" THEN Range(b[2]) ELSE {}
RootsOf(b) == IF b # None /\ b[1] = "root" THEN {b} ELSE {m[2] : m \in ManifestsOf(b)}
Reaches(bodies) ==
  LET roots == UNION {RootsOf(b) : b \in bodies} IN
  (bodies \ {None}) \cup UNION {ManifestsOf(b) : b \in bodies} \cup roots \cup UNION {ShardsOf(root) : root \in roots}

\* What the tags name.
Tagged == Range(arch) \cup {top}

\* push_shard_data of the changed shards, then the root blob.
push_shard_data(system) ==
  LET root == RootBody(system, Ledgers[system][version[system] + 1], "v8") IN
  /\ version[system] < Len(Ledgers[system])
  /\ stored' = stored \cup Reaches({root})
  /\ stored' # stored
  /\ UNCHANGED << arch, top, version, faults, reader >>

\* push_sharded_root: the manifest of the root under the architecture's tag.
push_sharded_root(system) ==
  LET root == RootBody(system, Ledgers[system][version[system] + 1], "v8")
      m == ManifestBody(root, "v8")
  IN
  /\ version[system] < Len(Ledgers[system])
  /\ Reaches({root}) \subseteq stored
  /\ stored' = stored \cup {m}
  /\ arch' = [arch EXCEPT ![system] = m]
  /\ version' = [version EXCEPT ![system] = @ + 1]
  /\ UNCHANGED << top, faults, reader >>

\* promote and purge put the image index of the architectures they know.
PutIndex ==
  LET tagged == SelectSeq(SetToSeq(KnownSystems), LAMBDA s : arch[s] # None)
      index == << "index", [i \in 1 .. Len(tagged) |-> arch[tagged[i]]], "v8" >>
  IN
  /\ tagged # << >> /\ top # index
  /\ top' = index
  /\ stored' = stored \cup {index}
  /\ UNCHANGED << arch, version, faults, reader >>

\* Blobs no tag leads to are deleted.
PurgeBlobs ==
  /\ stored' = Reaches(Tagged)
  /\ stored' # stored
  /\ UNCHANGED << arch, top, version, faults, reader >>

Published(s, n) == ManifestBody(RootBody(s, Ledgers[s][n], "v8"), "v8")

ForeignManifestBodies(s) ==
  {ManifestBody(RootBody(s, Ledgers[s][1], "v8"), k) : k \in ForeignManifests}
    \cup {ManifestBody(RootBody(s, Ledgers[s][1], k), "v8") : k \in ForeignRoots}

\* An image index of every architecture, or one with two roots of the same.
IndexBodies ==
  LET all == SetToSeq(KnownSystems) IN
  {<< "index", [i \in 1 .. Len(all) |-> Published(all[i], 1)], k >> : k \in {"v8"} \cup ForeignIndexes}
    \cup {<< "index", << Published(s, 1), Published(s, Len(Ledgers[s])) >>, "sized" >> : s \in KnownSystems}

\* The first root of every architecture is published, or none is, or a foreign
\* manifest lies under the tag of one that is read; the tag of the image index holds an
\* image index, a manifest or nothing.
Init ==
  /\ faults = 0
  /\ reader = [r \in Readers |-> Idle]
  /\ \/ /\ arch = [s \in KnownSystems |-> Published(s, 1)]
        /\ top \in {None} \cup IndexBodies
     \/ /\ arch = [s \in KnownSystems |-> None]
        /\ top \in IndexBodies \cup UNION {ForeignManifestBodies(s) : s \in KnownSystems}
     \/ /\ top = None
        /\ \E s \in Asked : \E m \in ForeignManifestBodies(s) :
             arch = [t \in KnownSystems |-> IF t = s THEN m ELSE None]
  /\ version = [s \in KnownSystems |-> IF arch[s] = Published(s, 1) THEN 1 ELSE 0]
  /\ stored = Reaches(Tagged)

Finished ==
  /\ \A r \in Readers : reader[r].pc \in {"missing", "failed", "done"}
  /\ UNCHANGED vars

ReaderNext(r) ==
  \/ \E s \in Asked : get_sharded_root(r, s)
  \/ ArchAnswered(r)
  \/ TopAnswered(r)
  \/ SubAnswered(r)
  \/ RootAnswered(r)
  \/ \E id \in 0 .. NUM_SHARDS - 1 : get_shard_data(r, id)
  \/ ShardAnswered(r)

WriterNext ==
  \/ \E s \in Asked : push_shard_data(s) \/ push_sharded_root(s)
  \/ PutIndex
  \/ PurgeBlobs

Next == (\E r \in Readers : ReaderNext(r)) \/ WriterNext \/ Finished

Spec == Init /\ [][Next]_vars

-----------------------------------------------------------------------------
(* Properties.                                                             *)

Returns(r) == reader[r].pc = "got"

\* Whatever the registry answered, a root get_sharded_root returns is for the
\* architecture and the repository that were asked for, its Merkle root is the
\* one of its descriptors and the one its manifest announces; and when the
\* registry answered honestly and the tag of the architecture existed, it is
\* a root that tag named during the call.
RootSound ==
  \A r \in Readers : Returns(r) =>
    LET root == DecodeRoot(reader[r].root) IN
    /\ root.system = reader[r].system /\ root.repo = Repo
    /\ root.merkle_root = compute_merkle_root(root.shards)
    /\ root.merkle_root = DecodeManifest(reader[r].manifest).annotations[1].merkle_root
    /\ reader[r].manifest[2] = reader[r].root
    /\ faults = 0 /\ reader[r].via = "arch" /\ reader[r].since > 0 =>
         \E k \in reader[r].since .. version[reader[r].system] :
           reader[r].root = RootBody(reader[r].system, Ledgers[reader[r].system][k], "v8")

\* The entries get_shard_data returns are exactly those the root commits to:
\* they belong to the shard and to the architecture that were asked for, each
\* is filed under its own store hash, and for a root this code wrote they are
\* the published entries of the shard, even when the registry misbehaves or
\* another tool wrote the root.
ShardSound ==
  \A r \in Readers : reader[r].payload # None =>
    LET entries == DecodeShard(reader[r].payload).entries
        d == DecodeRoot(reader[r].root).shards[reader[r].shard + 1]
    IN /\ \A h \in DOMAIN entries : /\ calculate_shard_id(h) = reader[r].shard
                                    /\ entries[h].system = << reader[r].system >>
                                    /\ store_hash(entries[h]) = h
       /\ compute_shard_merkle_hash(reader[r].shard, entries) = d.merkle_hash
       /\ reader[r].root[4] = "v8" => reader[r].payload[4] = Part(reader[r].root[3], reader[r].shard)

\* A reader that the image index routes to a manifest the registry holds does
\* not fail: what the image index written by promote is for.
IndexRoutes ==
  \A r \in Readers :
    reader[r].pc = "failed" /\ reader[r].child # None => reader[r].child[1].digest \notin stored
=============================================================================

----------------------------- MODULE IndexFormat -----------------------------
(***************************************************************************)
(* The persistent format of the cache index: store hashes and the shard    *)
(* they fall into, index entries, shard payloads and descriptors, the root *)
(* of one architecture, the Merkle hashes that tie them together, and the  *)
(* validation every reader applies (nixcache-core: sharding.rs, types.rs). *)
(*                                                                         *)
(* Data.  A string is a short sequence of numbers; the framing that is the *)
(* same in every value ("/nix/store/", the dash, "sha256:") is left out, so *)
(* a store path is the sequence  hash \o name.  A byte string fed to the   *)
(* hash function is a sequence of bytes << n >>, and SHA-256 is injective: *)
(* the digest of b is << "sha256", b >>.  A digest inside a byte string is *)
(* one opaque byte.  << >> is the absent value (None, the empty digest, a  *)
(* failed computation); << v >> is Some(v).                                *)
(***************************************************************************)
EXTENDS Naturals, FiniteSets, Sequences, SequencesExt

CONSTANTS
  Bits,           \* bits of one character of a shard prefix (5 in the code)
  HashLen,        \* characters of a store hash (32 in the code)
  KnownSystems,   \* the SystemArch values other than Unknown
  MaxShardEntries, MaxGcRoots, MaxUncompressed, MaxNarSize

FormatAssumption ==
  /\ Bits \in Nat \ {0}
  /\ HashLen \in Nat /\ HashLen >= 2
  /\ \A n \in {MaxShardEntries, MaxGcRoots, MaxUncompressed, MaxNarSize} : n \in Nat \ {0}

SCHEMA_VERSION_V8 == 8
Radix == 2 ^ Bits
NUM_SHARDS == Radix * Radix
None == << >>

-----------------------------------------------------------------------------
(* Base 32 and shards (sharding.rs).  A byte is its ASCII code.            *)

NIX_BASE32_ALPHABET ==
  [i \in 1 .. 10 |-> 47 + i] \o [i \in 1 .. 4 |-> 96 + i] \o [i \in 1 .. 9 |-> 101 + i]
    \o [i \in 1 .. 4 |-> 111 + i] \o [i \in 1 .. 5 |-> 117 + i]

nix_base32_val(byte) ==
  CASE byte \in 48 .. 57   -> << byte - 48 >>
    [] byte \in 97 .. 100  -> << byte - 97 + 10 >>
    [] byte \in 102 .. 110 -> << byte - 102 + 14 >>
    [] byte \in 112 .. 115 -> << byte - 112 + 23 >>
    [] byte \in 118 .. 122 -> << byte - 118 + 27 >>
    [] OTHER -> None

\* The value of a character, 0 for one outside the alphabet (unwrap_or(0)).
ValOrZero(byte) == IF nix_base32_val(byte) = None THEN 0 ELSE nix_base32_val(byte)[1]

calculate_shard_id(hash) == ValOrZero(hash[1]) * Radix + ValOrZero(hash[2])

\* Only called with an id the caller has not yet range-checked: the masks of
\* the code make it total.
shard_id_to_prefix(id) ==
  << NIX_BASE32_ALPHABET[((id \div Radix) % Radix) + 1], NIX_BASE32_ALPHABET[(id % Radix) + 1] >>

partition_entries_by_shard(entries) ==
  [id \in {calculate_shard_id(h) : h \in DOMAIN entries} |->
     [h \in {k \in DOMAIN entries : calculate_shard_id(k) = id} |-> entries[h]]]

-----------------------------------------------------------------------------
(* StoreHash, NarDigest, entries (types.rs).                               *)

StoreHash_parse(s) ==
  IF Len(s) = HashLen /\ \A i \in 1 .. Len(s) : nix_base32_val(s[i]) # None THEN s ELSE None

\* hash, then a name that is not empty.
validate_store_path(path) ==
  IF Len(path) > HashLen THEN StoreHash_parse(SubSeq(path, 1, HashLen)) ELSE None

is_known(system) == system \in KnownSystems
is_sha256(d) == d # None /\ d[1] = "sha256"

OriginOk(origin) ==
  origin # None => (origin[1].run_id # None \/ origin[1].job_id # None)
                   /\ origin[1].job_id # << << >> >>

\* A Nix hash or a timestamp is well formed when it is not the empty string;
\* a derivation is a path that ends in DrvSuffix.
DrvSuffix == 0
NarInfoOk(e) ==
  /\ validate_store_path(e.store_path) # None
  /\ e.nar_basename # << >> /\ e.nar_hash # << >>
  /\ e.file_hash # << << >> >> /\ e.compression # << << >> >> /\ e.ca # << << >> >>
  /\ e.file_size # << 0 >>
  /\ \A i \in DOMAIN e.references : validate_store_path(e.references[i]) # None
  /\ e.deriver # None => /\ validate_store_path(e.deriver[1]) # None
                         /\ Last(e.deriver[1]) = DrvSuffix

NarInfoMeta_deserialize(e) == IF NarInfoOk(e) THEN << e >> ELSE None

\* IndexEntry::validate_structure: what every entry must satisfy alone.
EntryOk(e) ==
  /\ e.name # << >>
  /\ e.system # None => is_known(e.system[1])
  /\ NarInfoOk(e)
  /\ is_sha256(e.nar_digest)
  /\ e.nar_size > 0
  /\ e.added # << >>
  /\ OriginOk(e.origin)

IndexEntry_deserialize(e) ==
  IF NarInfoMeta_deserialize(e) # None /\ EntryOk(e) THEN << e >> ELSE None

store_hash(e) == validate_store_path(e.store_path)

-----------------------------------------------------------------------------
(* The canonical encoder (sharding.rs).  A u64 takes two bytes here (eight *)
(* in the code), enough for every number of an instance.                   *)

u8(n)  == << << n >> >>
u16(n) == << << n \div 256 >>, << n % 256 >> >>
u64(n) == u16(n)
bytes(s) == u64(Len(s)) \o [i \in 1 .. Len(s) |-> << s[i] >>]
digest(d) == << d >>
option_string(o) == IF o = None THEN u8(0) ELSE u8(1) \o bytes(o[1])
option_u64(o) == IF o = None THEN u8(0) ELSE u8(1) \o u64(o[1])
option_digest(o) == IF o = None THEN u8(0) ELSE u8(1) \o digest(o)
string_vec(v) == FoldLeft(LAMBDA acc, s : acc \o bytes(s), u64(Len(v)), v)

Sha256(b) == << "sha256", b >>
hash_with_encoder(domain, b) == Sha256(bytes(domain) \o b)

ENTRY_LEAF_DOMAIN == << 1 >>
SHARD_NODE_DOMAIN == << 2 >>
SHARD_ROOT_DOMAIN == << 3 >>
DESCRIPTOR_LEAF_DOMAIN == << 4 >>
ROOT_NODE_DOMAIN == << 5 >>
ROOT_ROOT_DOMAIN == << 6 >>
EMPTY_SUBTREE_DOMAIN == << 7 >>

entry_leaf_hash(hash, e) ==
  hash_with_encoder(ENTRY_LEAF_DOMAIN,
    bytes(hash) \o bytes(e.name) \o option_string(e.system)
      \o bytes(e.store_path) \o bytes(e.nar_basename) \o option_string(e.compression)
      \o option_string(e.file_hash) \o option_u64(e.file_size) \o bytes(e.nar_hash)
      \o string_vec(e.references) \o option_string(e.deriver)
      \o string_vec(e.signatures) \o option_string(e.ca)
      \o digest(e.nar_digest) \o u64(e.nar_size) \o bytes(e.added)
      \o (IF e.origin = None THEN u8(0)
          ELSE u8(1) \o option_u64(e.origin[1].run_id) \o option_string(e.origin[1].job_id)))

\* One level of the binary tree: pairs, and a last node of arity 1 when the
\* level has an odd length.
NextLevel(level, n, domain) ==
  [i \in 1 .. (Len(level) + 1) \div 2 |->
     IF 2 * i <= Len(level)
     THEN hash_with_encoder(domain, u64(n) \o u8(2) \o digest(level[2 * i - 1]) \o digest(level[2 * i]))
     ELSE hash_with_encoder(domain, u64(n) \o u8(1) \o digest(level[2 * i - 1]))]

RECURSIVE Layers(_, _, _)
Layers(level, n, domain) ==
  IF Len(level) = 1 THEN level[1] ELSE Layers(NextLevel(level, n, domain), n + 1, domain)

layered_root(leaves, domain) ==
  IF leaves = << >> THEN hash_with_encoder(EMPTY_SUBTREE_DOMAIN, u64(0) \o u8(0))
  ELSE Layers(leaves, 1, domain)

\* Store hashes have one length: their lexicographic order is that of numbers.
HashBefore(a, b) ==
  \E i \in 1 .. HashLen : a[i] < b[i] /\ \A j \in 1 .. i - 1 : a[j] = b[j]

validate_entry_identity(hash, e, id) ==
  /\ StoreHash_parse(hash) # None
  /\ EntryOk(e)
  /\ calculate_shard_id(hash) = id
  /\ store_hash(e) = hash

Leaves(sorted, entries) == [i \in 1 .. Len(sorted) |-> entry_leaf_hash(sorted[i], entries[sorted[i]])]

compute_shard_merkle_hash(id, entries) ==
  IF id >= NUM_SHARDS \/ \E h \in DOMAIN entries : ~validate_entry_identity(h, entries[h], id)
  THEN None
  ELSE hash_with_encoder(SHARD_ROOT_DOMAIN,
         u16(id) \o bytes(shard_id_to_prefix(id)) \o u64(Cardinality(DOMAIN entries))
           \o digest(layered_root(Leaves(SetToSortSeq(DOMAIN entries, HashBefore), entries), SHARD_NODE_DOMAIN)))

-----------------------------------------------------------------------------
(* Shard descriptors and the Merkle root.                                  *)

NoEntries == [h \in {} |-> None]

ShardDescriptor_empty(id) ==
  [shard_id |-> id, prefix |-> shard_id_to_prefix(id), blob_digest |-> None,
   compressed_size |-> 0, uncompressed_size |-> 0, entry_count |-> 0,
   merkle_hash |-> compute_shard_merkle_hash(id, NoEntries)]

\* ShardDescriptor::validate_structure.
DescriptorOk(d) ==
  /\ d.shard_id < NUM_SHARDS
  /\ d.prefix = shard_id_to_prefix(d.shard_id)
  /\ \/ d = ShardDescriptor_empty(d.shard_id)
     \/ /\ d.entry_count > 0
        /\ is_sha256(d.blob_digest) /\ is_sha256(d.merkle_hash)
        /\ d.compressed_size > 0 /\ d.uncompressed_size > 0

ShardDescriptor_new(id, blob, compressed, uncompressed, count, merkle_hash) ==
  LET d == [shard_id |-> id, prefix |-> shard_id_to_prefix(id), blob_digest |-> blob,
            compressed_size |-> compressed, uncompressed_size |-> uncompressed, entry_count |-> count,
            merkle_hash |-> merkle_hash]
  IN IF DescriptorOk(d) THEN << d >> ELSE None

ShardDescriptor_deserialize(d) == IF DescriptorOk(d) THEN << d >> ELSE None

descriptor_leaf_hash(d) ==
  hash_with_encoder(DESCRIPTOR_LEAF_DOMAIN,
    u16(d.shard_id) \o bytes(d.prefix) \o option_digest(d.blob_digest)
      \o u64(d.compressed_size) \o u64(d.uncompressed_size) \o u64(d.entry_count)
      \o digest(d.merkle_hash))

\* A complete set of descriptors, whatever its order: the sequence of them by
\* id; None when one is missing, repeated or malformed.
index_shard_descriptors(shards) ==
  IF /\ Len(shards) = NUM_SHARDS
     /\ \A i \in DOMAIN shards : DescriptorOk(shards[i])
     /\ \A i, j \in DOMAIN shards : shards[i].shard_id = shards[j].shard_id => i = j
  THEN [n \in 1 .. NUM_SHARDS |-> CHOOSE d \in Range(shards) : d.shard_id = n - 1]
  ELSE None

HashOfOrdered(ordered) ==
  IF ordered = None THEN None
  ELSE hash_with_encoder(ROOT_ROOT_DOMAIN,
         u64(NUM_SHARDS)
           \o digest(layered_root([i \in DOMAIN ordered |-> descriptor_leaf_hash(ordered[i])],
                                  ROOT_NODE_DOMAIN)))

compute_merkle_root(shards) == HashOfOrdered(index_shard_descriptors(shards))

-----------------------------------------------------------------------------
(* Payload of a shard, root of an architecture (types.rs).                 *)

ShardDataPayload_with_entries(id, entries) ==
  [version |-> SCHEMA_VERSION_V8, shard_id |-> id, prefix |-> shard_id_to_prefix(id),
   entries |-> entries]

\* ShardDataPayload::validate_structure.
PayloadOk(p) ==
  /\ p.version = SCHEMA_VERSION_V8
  /\ p.shard_id < NUM_SHARDS
  /\ p.prefix = shard_id_to_prefix(p.shard_id)
  /\ \A h \in DOMAIN p.entries :
       /\ EntryOk(p.entries[h])
       /\ calculate_shard_id(h) = p.shard_id
       /\ p.entries[h].system # None
       /\ store_hash(p.entries[h]) = h

ShardDataPayload_deserialize(p) ==
  IF /\ \A h \in DOMAIN p.entries : StoreHash_parse(h) # None /\ IndexEntry_deserialize(p.entries[h]) # None
     /\ PayloadOk(p)
  THEN << p >> ELSE None

\* Changed form: the payload is not compared with the shard that was asked for.
PayloadOkForAnyShard(p, id, system) ==
  /\ PayloadOk(p)
  /\ Cardinality(DOMAIN p.entries) <= MaxShardEntries
  /\ \A h \in DOMAIN p.entries :
       p.entries[h].system = << system >> /\ p.entries[h].nar_size <= MaxNarSize

\* ShardDataPayload::validate_for.
PayloadOkFor(p, id, system) ==
  /\ PayloadOk(p)
  /\ p.shard_id = id
  /\ Cardinality(DOMAIN p.entries) <= MaxShardEntries
  /\ \A h \in DOMAIN p.entries :
       p.entries[h].system = << system >> /\ p.entries[h].nar_size <= MaxNarSize

validate_merkle_hash(p, expected) == compute_shard_merkle_hash(p.shard_id, p.entries) = expected

ShardedArchCacheIndexData_new(system, repo, registry) ==
  LET shards == [i \in 1 .. NUM_SHARDS |-> ShardDescriptor_empty(i - 1)] IN
  [version |-> SCHEMA_VERSION_V8, system |-> system, repo |-> repo, registry |-> registry,
   shards |-> shards, merkle_root |-> compute_merkle_root(shards), gc_roots |-> << >>]

\* ShardedArchCacheIndexData::validate_structure.
RootOk(r) ==
  /\ r.version = SCHEMA_VERSION_V8
  /\ is_known(r.system)
  /\ r.repo # << >> /\ r.registry # << >>
  /\ Len(r.shards) = NUM_SHARDS
  /\ \A i \in DOMAIN r.shards : r.shards[i].shard_id = i - 1 /\ DescriptorOk(r.shards[i])
  /\ is_sha256(r.merkle_root)
  /\ compute_merkle_root(r.shards) = r.merkle_root

ShardedArchCacheIndexData_deserialize(r) ==
  IF (\A i \in DOMAIN r.shards : ShardDescriptor_deserialize(r.shards[i]) # None) /\ RootOk(r)
  THEN << r >> ELSE None

\* Changed form: the root of another repository is taken.
RootOkForAnyRepo(r, system, repo, registry) ==
  /\ RootOk(r)
  /\ r.system = system
  /\ r.registry = registry
  /\ \A i \in DOMAIN r.shards :
       r.shards[i].entry_count > 0 => /\ r.shards[i].uncompressed_size <= MaxUncompressed
                                      /\ r.shards[i].entry_count <= MaxShardEntries
  /\ Len(r.gc_roots) <= MaxGcRoots

\* ShardedArchCacheIndexData::validate_for.
RootOkFor(r, system, repo, registry) ==
  /\ RootOk(r)
  /\ r.system = system
  /\ r.repo = repo /\ r.registry = registry
  /\ \A i \in DOMAIN r.shards :
       r.shards[i].entry_count > 0 => /\ r.shards[i].uncompressed_size <= MaxUncompressed
                                      /\ r.shards[i].entry_count <= MaxShardEntries
  /\ Len(r.gc_roots) <= MaxGcRoots
=============================================================================

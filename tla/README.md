# A TLA+ verification of oqs-provider

oqs-provider is an OpenSSL 3 provider: a shared library that libcrypto's EVP
layer loads and calls through dispatch tables. It offers quantum-safe
signatures and KEMs from liboqs, alone or as hybrids with a classical
algorithm that libcrypto provides. The library has no threads of its own; it
runs on the threads of the application, and its objects are shared between
threads through OpenSSL.

This directory holds TLA+ modules translated from the source
(`src/oqsprov`), TLC configurations that check them on small instances, and
proofs that TLAPS checks for every value of the constants. `PROJECT.json`
lists the parts of the system, the runs, a mutant for every property (a
plausible bug the run finds), the source lines of every definition, the
disagreements between code and comments that were met, the hazards the
properties are for, and the theorems.

To check: `tlc -config MCX.cfg MCX` for a run, `tlapm X_proofs.tla` for a
proof module.

## Inventory

| part | source | state | operations | modelled in |
|---|---|---|---|---|
| key object lifetime | `oqsprov_keys.c`, `oqs_sig.c`, `oqs_kem.c`, `oqs_kmgmt.c`, `oqs_decode_der2key.c` | `references` of each `OQSX_KEY`; the pointers to it in EVP handles, contexts and the decoder's local | constructor, genkey, load, decode, context init, dup, free, up_ref, key free | `OqsxKeyRef` |
| key material | `oqsprov_keys.c`, `oqs_kmgmt.c`, `oqs_encode_key2any.c` | `privkey`, `pubkey`, `comp_privkey`, `comp_pubkey`, `classical_pkey` | generate, import, export, encode and decode blobs, get and set the encoded point, has, match | `OqsxKeyLayout`, `OqsxKeyMaterial` |
| signature context | `oqs_sig.c` | key, operation, `flag_allow_md`, `md`, `mdctx`, `mddata`, `aid`, `propq` | newctx, inits, update, finals, dupctx, freectx, get and set ctx params | `OqsSigCtx` |
| signing, verifying | `oqs_sig.c` | none | sign, verify | `OqsSign` |
| KEM | `oqs_kem.c` | the context's key | encaps, decaps: plain, classical key slot, hybrid | `OqsKem` |
| encoder, decoder | `oqs_encode_key2any.c`, `oqs_decode_der2key.c` | `cipher`, `cipher_intent`; the decoder's local key | newctx, freectx, set_ctx_params, check_selection, encode, key2text, decode | `OqsCodec` |
| memory of keys and generation contexts | `oqsprov_keys.c`, `oqs_kmgmt.c` | the thirteen pointers of a key that own a block, where its comp pointers lead, the strings of a generation context | `oqsx_key_new`, generation, decode, import, key free, `gen_init`, `gen_set_params`, `gen`, `gen_cleanup`, `set_params`, with every allocation failing | `OqsxKeyHeap` |
| provider load and unload | `oqsprov.c`, NID table of `oqsprov_keys.c` | static OID list and NID table, libcrypto's object tables, the provider context | init, query, teardown | `OqsProvInit` |
| TLS capabilities | `oqsprov_capabilities.c` | the static code points, patched at every load | get_capabilities, patch_codepoints | `OqsProvInit` |
| core BIO bridge | `oqsprov_bio.c` | first core's function pointers; a reference per bridge BIO | method, new_from_core_bio, forwarders | method only, in `OqsProvInit` |
| common helpers | `oqs_endecoder_common.c` | none | import_key, free_key | references, in `OqsxKeyRef` |
| external encoding library, generated tables, tests, scripts | `USE_ENCODING_LIB` code, `*.inc`, `oqs-template/`, `test/`, `scripts/` | | | not modelled |

How the parts meet. The application calls EVP; EVP holds `EVP_PKEY` objects
with a pointer to an `OQSX_KEY` each, and contexts with a pointer to a provider
context each. Contexts take counted references to keys. The decoder makes a
key and hands it to a callback, which may pass it to `oqsx_load`. The provider
calls liboqs for the quantum-safe half and EVP again for the classical one.
Key files name an algorithm by OID; the table that `OSSL_provider_init` fills
with NIDs leads from there to the algorithm. All library contexts of a process
share that table.

What is hard. Not the control flow of single functions, but:

* the life of keys shared by threads and contexts (one atomic counter, several
  places that may give the same reference back);
* buffers other fields point into, whose inner borders depend on the actual
  length of a classical key or signature;
* contexts copied field by field, with an error possible after each field;
* calls in orders no test has: a size query in the middle of a message, a
  digest set after init, a peer's point set on a generated key;
* files read by a decoder that was not meant for them;
* static tables written by loads that run at the same time, from an environment
  that may have changed, and read by whatever the loads before left behind;
* failure half way: one of two key generations, one of several allocations,
  one of many registrations.

What makes each part correct. A key is freed once, after its last user.
Material reads back as it was generated whichever way it came. A signature
covers the message given to its own context and verifies only if both halves
were made for that message by that pair. Both ends of a KEM agree on the
secret and nobody else has it. A private key is never written in the clear if
encryption was asked for, and files say what is in them. Memory has one owner,
and what is lost on an error path is known. A loaded provider keeps finding its
algorithms and tells TLS the right code points. The hazards of `PROJECT.json` point to the lines
where each of these could go wrong.

## Modules

`EXTENDS` and `INSTANCE` relations: `OqsxKeyMaterial`, `OqsKem` and `OqsSign`
extend `OqsxKeyLayout` (pure operators on buffers); `OqsxKeyRef`,
`OqsSigCtx` and `OqsSign` instantiate their abstract specifications
`KeyLifetime`, `SigStream` and `SigScheme`; `MCOqsxKeyBuilds` extends
`OqsxKeyMaterial` for one build and instantiates it for the other. Operators whose comment says "mutant" (or "a bug") are the mutated forms
that `PROJECT.json` names; the specifications do not use them.

### `OqsxKeyRef`, implementing `KeyLifetime`

Threads run provider calls step by step: `call[t]` is a frame with a program
counter. The atomic addition of `oqsx_key_up_ref` (`UpRef`) and subtraction of
`oqsx_key_free` (`Decr`) are one step each; the assertion, the return, the
release of the memory and the store into the context are later steps, so
everything other threads do falls between. `own[x]` says which key the token
`x` (an EVP handle, a context, a thread's local variable) must give back once;
`ptr[c]` is the field the code reads. The two differ exactly while
`oqsx_key_free(ctx->sig)` has run and the field is not yet overwritten.

EVP's own reference count of an `EVP_PKEY` is the set `hold[h]` of threads;
only the last of them reaches the provider's free, which is how
`EVP_PKEY_free` works. A context belongs to one thread, as OpenSSL demands.
`GenkeyFails` leaves a reference nobody has a pointer to, because
`oqsx_genkey` does not free the key it made when generation fails
(`oqs_kmgmt.c:501`): it is held by the token `Lost`.

`KeyLifetime` is the promise without a counter: a key has holders; a holder
joins while there is one; memory goes once, when there is none. The counter
implements it with `held[k] <- HeldBy(k)`.

### `OqsxKeyLayout`, `OqsxKeyMaterial`

A buffer is a function from offsets to cells that say which byte of which part
of which pair they hold. The operators of `OqsxKeyLayout` follow the functions
of `oqsprov_keys.c` that write and read it: `KeyGen`, `SetComposites`,
`RecreateClassicKey`, `KeyFromData`, `KeyOpPublic`, `KeyOpPrivate`, and from
the other files `PkiPrivBytes`, `PointBytes`, `SetEncodedPub`, `Has`, `Match`.
`OqsxKeyMaterial` lets key objects be generated, exported, imported, encoded,
decoded and given a point in any order. Each call is one step, because a key
under construction is seen by one thread.

### `OqsxKeyHeap`

Where `OqsxKeyMaterial` has the bytes and `OqsxKeyRef` the holders, this module
has the blocks. An object is its pointer fields (`ptr`), the blocks the heap
has given it (`live`), and where its comp pointers lead (`comp`): nowhere yet,
NULL, into the buffer, or to a block no field owns. A freed address is used
again, so that a stale field would own somebody else's block. `KeyNew` gives
every outcome of `oqsx_key_new`: for each kind the order of its allocations
(`NewOrder`), the first checked one that fails, and any of the unchecked ones
that failed before it. The functions that fill a key (`KeyGen`, `KeyOp`,
`FromData`, `Recreate`) are operators that give the set of all outcomes, one
per failing step; `Generate`, `Decode` and `Import` are the calls built from
them. A key has one holder here. Each call is one step per stage, as a key
under construction is seen by one thread.

### `OqsSigCtx`, implementing `SigStream`

The context with the four heap blocks it owns (`propq`, `mdctx`, `mddata`,
`aid`). Blocks are explicit so that a copy that shares one, a free that is
forgotten or doubled, or a pointer left behind can be seen. `hist[c]` is what
the user did with the context. `SigStream` is the promise: contexts are
independent values, a copy starts with the same message and goes its own way.

### `OqsSign`, implementing `SigScheme`

`oqs_sig_sign` and `oqs_sig_verify` on the keys of `OqsxKeyLayout`. The
classical half works on `classical_pkey`, the other on the bytes behind the
last comp pointer. Parts have any length up to that of the tables. What
arrives may be cut, lengthened, or the head of one and the tail of another
signature. Its specification is called `SignSpec`, so that a module can extend
it and `OqsSigCtx`, its neighbour in `oqs_sig.c`.

`SigScheme` is the promise, without parts, lengths, buffers or key objects: a
pair issues signatures of messages, once issued they stay good; what the pair
issued for a message is accepted, and when anything is accepted the pair has
issued one for that message before. `OqsSign` implements it with
`issued <- Issued`, the signatures that `sig` remembers. It promises no more:
the head of one and the tail of another hybrid signature that one pair made of
one message verify, though nobody issued the two together.

### `OqsKem`

Encapsulation and decapsulation on keys that were generated, read from files,
or set as points. A ciphertext may come for another session, cut, lengthened
or mixed from two.

### `OqsCodec`

One key object, one encoder context, one file, and every decoder. A file has a
structure, the algorithm identifier written into it, and as ghosts what it
really holds and what its writer was asked for. `Decode(d, s, sel, taken)` is
`oqs_der2key_decode` with algorithm `d`'s descriptor for structure `s`, with
its fall-through from private to public key; `taken` is whether the callback
loads the object. A key carries the name it is announced by (`type`), its own
`tls_name` (`name`) and, as a ghost, the algorithm its bytes are of (`of`):
`GenerateAs` sets a group name for the generation, which becomes the name of
the key and of nothing else. Its specification is called `CodecSpec`, so that one
module can prove about it and `OqsProvInit`.

### `OqsProvInit`

Loads of the provider in several library contexts, interleaved at every access
to shared tables: libcrypto's objects (the core's, and the provider's own copy
when it is linked with another libcrypto), the OID list and the TLS code points,
both patched from the environment, the NID table, and the type that the
descriptor of a decoder takes from the object table at its first use and then
keeps (`evpType`). Any allocation may fail. The application may change the
environment once (`SetEnv`, external: `setenv`). `alone`, `oom` and `unseen`
are ghosts: whether another load overlapped, whether an allocation failed,
whether an object was not created although the provider went on.

## Runs

All runs finish with no error unless marked V: there TLC finds the property
violated, which is a finding (below). Times are for two workers.

| run | instance | distinct states | what it shows |
|---|---|---|---|
| `ref` | 2 threads, 2 keys, 2 handles, 2 signature contexts, fair | 193 111, 70 s | the counter is exact and implements `KeyLifetime`, no freed key is touched, the assertions hold, contexts hold live keys, no key is revived, unheld keys are freed |
| `sig_safety` | 2 contexts, 2 pieces, 2 digests, 2 updates each | 879 083, 141 s | block ownership, no leak, what a signature covers and with which hash, when the digest may change, `SigStream` |
| `sig_mdchange` V | the same with 1 piece | | the digest changes in the middle of a message |
| `material` | 2 objects, 2 pairs, 4 kinds, both builds | 26 466, 5 s | material reads back, same end state as after generation, nothing given out is refused, equality tells pairs apart, a peer's key has no private half |
| `material_half` V | hybrids | | a failed classical generation is reported as success |
| `material_match` V | hybrids | | private keys not compared |
| `key_heap` | 1 key of each of 6 kinds, 1 generation context, 2 addresses, with key locks | 95 887, 10 s | every block has one owner; what is lost, and where; comp pointers lead into the buffers |
| `sign` | 2 objects, 2 pairs, 2 messages, 2 signatures, parts of 1 or 2 bytes | 75 471, 37 s | implements `SigScheme`; both halves are needed |
| `kem` | 2 objects, 2 pairs, 2 encapsulations | 5 441, 2 s | secrets agree, bind and are whole |
| `codec` | 2 algorithms, 1 cipher | 2 491, 1 s | files are encrypted when asked, labelled, typed, and have the half asked for, whatever name a key was generated under |
| `codec_type` V | the same | | a public key is announced as another algorithm's |
| `init` | 2 loads, 1 KEM and 1 signature algorithm, one more in the TLS tables only, 5 environments, 4 object tables, 8 kinds of process | 1 170 906, 30 s | loaded providers and their decoders find their algorithms for good; TLS gets the right code points; one load's failure does not spoil the next; resources |

Why the bounds are enough. *References:* the code's cases are one counter and
two calls on it; two threads give every race of a pair of calls on a key, two
keys let a context change its key for another and for the same one, two
contexts and two handles can hold it. A KEM context takes its reference by the
same steps as a signature context and is never copied; with one more context
of that kind everything holds too, in a run that takes minutes. The theorems
lift the bounds. *Signature contexts:*
dup involves two contexts; two updates give a first and a later piece, which
the code treats differently; two digests give a change. *Material:* what
matters is a length field with room (2 cells in the material runs), a
classical part that fills its room and one that is shorter (`long`, `short`),
different lengths of all parts, and chains of two objects with a wire in
between. *Signing and KEM:* two of everything that can be confused. *Codec:*
algorithms differ in name only; with two there is a right and a wrong one.
*Heap:*
keys share nothing but the allocator, so that one key of each kind shows every
outcome; two addresses per field let a freed one come back. *Init:* two loads
race, or one comes after the other ended in any way, the environment the same
or not; two algorithms so that OIDs can collide and a load can stop between
them; both tables in different orders; in the TLS table a row that the build
lacks before one that it has. A third load would be one more that comes after.

Deadlock checking is off where the system may stop for good: keys, pairs and runs
are used up, loads end unloaded or failed, an address is not reused.

Symmetry sets are used for interchangeable model values only, and not in `ref`,
the run with the liveness property.

Fairness. `ref` assumes weak fairness of `Continue(t)` for each thread:
a thread inside a provider call goes on. The code justifies it: no step of
these calls waits for another thread (the counter operations are lock-free and
unconditional). No fairness is assumed of `Begin`, of the application letting
go of what it holds, or of the decoder's callback loading a key.

## Proofs

TLAPS proves every safety property of the passing runs, action properties and
refinements included, for every value of the constants the assumptions allow;
the exceptions are named at the end of this section. Eight modules hold the
proofs:

| module | proves about | results |
|---|---|---|
| `OqsxKeyRef_proofs` | `OqsxKeyRef` | `InvariantHolds`, `TypeCorrect`, `CounterIsExact`, `Safe`, `AssertionsNeverFire`, `ContextsAreSafe`, `CounterImplementsLifetime`, `NothingIsRevived`, `NothingIsStranded` |
| `OqsxKeyHeap_proofs` | `OqsxKeyHeap` | `HeapInvariant`, `HeapTypeCorrect`, `OwnedOnceHolds`, `LeaksAreKnownHolds`, `HalvesLeadHolds` |
| `OqsxKeyLayout_proofs` | `OqsxKeyLayout` | `PkiRoundTrip`, `SpkiRoundTrip`, `ParamsRoundTrip`, `PkiCanonical`; the lemmas of the modules that extend it |
| `OqsxKeyMaterial_proofs` | `OqsxKeyMaterial` | `MaterialInvariant`, `PartsReadBackHolds`, `SameEndStateHolds`, `NothingRefusedHolds`, `PeerKeyIsPublicHolds`, `EqTellsPairsHolds` |
| `OqsxKeyBuilds_proofs` | `MCOqsxKeyBuilds` | `OneBuild`, `EqTellsPairsInBuildHolds`, `MaterialInBuild` |
| `OqsKem_proofs` | `OqsKem` | `KemInvariant`, `SecretsAgreeHolds`, `SecretsBindHolds`, `SecretsWholeHolds` |
| `OqsSig_proofs` | `OqsSigCtx`, then `OqsSign` | `SigInvariant`, `OwnBuffersHolds`, `NoLeakHolds`, `CoversUpdatesHolds`, `HashedAsInitialisedHolds`, `MdFrozenHolds`, `StreamRefinementHolds`; `SignInvariant`, `SignaturesVerifyHolds`, `BothHalvesSignHolds`, `SchemeRefinementHolds` |
| `OqsProv_proofs` | `OqsCodec`, then `OqsProvInit` | `CodecInvariant`, `CodecTypes`, `NeverInTheClear`, `FilesAreLabelled`, `PrivateKeysAreTyped`, `SelectionsAreServed`, `NoMissingMethod`; `InitInvariant`, `ResourcesFollowTheLoadHolds`, `OwnCodePointsHolds`, `LoadedKnowsAlgorithmsHolds`, `DecodersKnowTheirTypeHolds`, `OidsLeadToAlgorithmsHolds`, `NidsStickHolds`, `LoneLoadsSucceedHolds` |

Everywhere the shape is the same: an inductive invariant made of named parts,
one lemma per action that it keeps them, and the properties as consequences of
it (action properties and refinements of it and the step).

### References

For any finite set of threads, handles and contexts and any set of keys. The
assumption is `TokensAssumption`: the kinds of tokens are disjoint, `Null` and
`Lost` are none of them, tokens are finite (a process has finitely many
pointers; the counter is compared with a cardinality).

* `RefsCountOwners` alone is not inductive: it needs to know where each thread
  is. `IInv` adds for each kind of call and program counter what the thread
  holds (`FrameInv`), what it knows at the counter operations (`CountInv`),
  when a context's pointer is stale (`CtxInv`), that only live keys have
  holders, and that no two threads free the same key.
* `HoldersGain`, `HoldersLose` and `HoldersPass` say how the holders of all
  keys and their number change with one update of `own`; `Locality` says that a
  step of one thread that leaves the tokens of the others alone keeps their
  part of the invariant.
* `CounterImplementsLifetime`: one lemma per abstract step (`CreateMaps`,
  `AcquireMaps`, `PassMaps`, `DropMaps`, a stutter in `QuietMaps`) and one per
  concrete action that is more than a stutter.
* `NothingIsStranded` is the safety half of `UnheldKeysAreFreed`: a live key
  without holders has a thread in `oqsx_key_free` that read 0 and whose next step
  frees it. It takes a second invariant on the counters (`ZeroesAreFreed`).

### Memory

For any numbers of keys, generation contexts and addresses, under
`HeapAssumption`. An action replaces one object by a result of an operator on
it, so the invariant is on single objects: `Tidy` (a field that points
somewhere points to a block in use, a block of a field is in use only when the
field points to it, nothing was given back twice), and by the stage the object
is in (`KeyInv`, `GenInv`) which fields it has, which strays it lost and where
its comp pointers lead. `OwnedOnce` is not inductive without the stages: that a
field is NULL before it is filled again depends on which call comes next. The
lemmas follow the operators: `AllocTidy`, `StrayTidy`, `FreeAndNullTidy`,
`FreeAll` for the allocator, then one for each of `KeyNew`, `KeyGen`, `KeyOp`,
`FromData`, `TakePoint` and the generation context's functions, over all the
outcomes each may have.

### Layout and material

For any keys, pairs and algorithms, both builds, and under `SizesAssumption`:
parts have at least one byte, a classical private key may be shorter than its
table says. `OqsxKeyLayout_proofs` gives closed forms of the buffers cell by
cell (`PrivLayout`, `PubLayout`, `PkiLayout`, `PointLayout`) and shows that the
functions of `oqsprov_keys.c` produce and read just those: what generation
writes (`KeyGenMakes`), what is made from imported parameters
(`FromDataMakes`), that reading a PKCS#8 blob undoes writing it
(`PkiWritten`, `PkiRead`), and the same for SubjectPublicKeyInfo and points
(`SpkiRead`, `PointRead`, `PointWritten`). All ways to a key meet in one object,
`MadeKey(ty, id, parts)`. In terms of the functions themselves that is
`PkiRoundTrip`, `SpkiRoundTrip` and `ParamsRoundTrip`: writing a generated key
and reading it back gives the key, or the half that was written, field by field.
`PkiCanonical` goes the other way, from the blob, and is not about generated keys
at all: of any bytes `oqsx_key_op` accepts as a private key, from a file this
provider did not write too, the key made of them is encoded as the same bytes.

`OqsxKeyMaterial_proofs`: every key is unused, left half generated, a `MadeKey`
of the halves it should hold, or a peer's key that took a point; and what is on
the wire is in the closed form of its kind. `NothingRefused` is the last
conjunct, and not inductive without the rest: whether a blob is taken depends
on how it was written. `PartsReadBack`, `SameEndState` and `EqTellsPairs`
follow by looking at `MadeKey`.

`OqsxKeyBuilds_proofs` is about the run's module, where a behaviour chooses its
build and keeps it. It instantiates `OqsxKeyMaterial_proofs` a second time, for
`NOPUBKEY_IN_PRIVKEY`; `OneBuild` says that every behaviour is one of either
instance, after which the theorems of the two carry over.

### Signing and KEM

On the same lemmas, under `SignAssumption` and `KemAssumption`: parts, secrets
and ciphertexts have at least one byte, types are those of the module, and
`Nobody`, the owner of bytes that are no key, is not a pair. For KEMs the
classical private keys are as long as the tables say, because
`oqs_kem.c` does not look at their length field.

* `SignInv`: keys are `MadeKey`s, a signature made is length field, classical
  part and OQS part of the signer's pair (`SigOk`), and the last verification
  says what the two public halves of the key's pair say of its bytes
  (`OutOk`). That a signature verifies is then that the verifier finds the
  border where the signer put it (`SigRead`), for all lengths of the two parts;
  that nothing else verifies is read off the bytes the two halves look at
  (`SignedCells`).
* `SchemeRefinementHolds`: the first half of `Answer` is `SignaturesVerify`
  of the state after the step, which is proved but not in the run, as
  the run checks the refinement. The second half needs what one state does not
  tell, where the bytes came from: every byte of what arrives, cut, lengthened
  or mixed as it may be, is a zero or a byte of a signature that was made before
  (`Came`, `ArrivingCame`), and a byte of the OQS part names the pair and the
  message it was made for (`CellTells`); so if the OQS half accepts, that
  signature is the one the pair has issued (`PassesWasSigned`).
* `OqsKem`'s `IInv`: keys hold the buffers of their pair, a run gave the
  ciphertext and secret that name its pair and itself, and what
  decapsulation gave is `Got` of the ciphertext. The properties compare
  concatenations cell by cell (`Joined`, `BytesTell`).

### Signature contexts

For any contexts, digests and chunks, under `SigCtxAssumption` (the values a
field may have are told apart; a message has finitely many updates). A block
is named after the context and field it was allocated for; `FieldInv` says of
each field that it points to a block of its own or none, and that no other
block of the field is allocated. `PhaseInv`, `StreamInv` and `LockInv` say what
a context has in each phase, where its message is (in the hash, in the
buffer, or dropped by a digest set), and when the digest is locked. `RewriteDoes`
is the lemma about the allocator that the actions rest on.
`StreamRefinementHolds` maps every step to one of `SigStream` or a stutter.

### Encoders and decoders

For any algorithms and ciphers and both builds. The invariant adds to the
properties `FileInv` (a file's halves follow from its structure, and a file
asked to be encrypted is encrypted or public), `EncInv` (a context asked for a
cipher has the intent) and `NameInv` (a key that is not of the algorithm it is
named after is of the one it is announced as). Lemmas state what `Level`,
`Written` and `DecodedKey` guarantee.

### Loading

For any number of overlapping loads, any tables and any environments, under
`InitAssumption`: OID and name lists have no doubles and the same algorithms, and an
object table that is there before has no OID or name twice.

* `TheOneSelected` and `CreateGrows` are the facts about libcrypto's tables:
  a search finds the only row there is, and creation moves no row.
* `IInv`: the tables start with what was there before (`TablesInv`), a NID
  that some load or decoder has seen is where the table has that name
  (`NidInv`), a load holds the resources of its place in the code
  (`ResInv`), TLS rows are the patched ones (`CodesInv`), and, as long as nothing
  went unseen, each algorithm a load has passed is known (`SeenInv`). A load that
  will fail for good may have passed the creation of an object: the proof
  needed `Doomed`, the rows that the provider's own copy of libcrypto will
  never have.
* `LoneLoadsSucceedHolds` needs a second invariant on top, `LInv`: where the
  rows come from that a load alone finds (`RowsInv`), and whom its failure is
  to be blamed on.

### What is only model-checked

* `UnheldKeysAreFreed`: liveness under fairness is beyond the prover. What is
  left to fairness after `NothingIsStranded` is the one step of that thread.
* The properties of the runs marked V are false of the code.

## Findings

* `oqs_sig.c:568`: a size query in the middle of a message sets
  `flag_allow_md`, after which the digest can be changed and what was hashed
  is lost; line 513 says "disallow MD changes after update has been called at
  least once". `MdFrozenAfterUpdate` and `CoversUpdates` state what does hold.
* `oqsprov_keys.c:1180`: `oqsx_key_gen` returns success when the classical
  half of a hybrid key could not be generated.
* `oqs_kmgmt.c:156`: `oqsx_match` does not compare the private keys of two
  keys without public halves on a selection of both; line 114 says "Private
  keys are matched binary if available in both keys".
* `oqs_decode_der2key.c:198`: a SubjectPublicKeyInfo is taken by any
  algorithm's decoder and announced under that algorithm's name.

Met while modelling, and visible in the models, without a line of the
repository that says otherwise:

* A digest set after init frees the hash and makes no new one, so the message
  is collected and signed unhashed (`HashedAsInitialised`).
* A failed `dupctx` frees `aid` and `propq` of its source (the exception in
  `OwnBuffers`).
* Setting a peer's point frees `privkey` but leaves `comp_privkey` and
  `classical_pkey`; on a hybrid KEM key with no public key it is lost in new
  memory (`SetEncodedPub`).
* `corebiometh` is not freed when the child context or the provider context
  cannot be made (the exception in `ResourcesFollowTheLoad`).
* Two first loads at once can make one of them fail: look-up and creation of
  an object are two steps (hence `alone` in `LoneLoadsSucceed`).
* With a libcrypto of its own the provider ignores a failing `OBJ_create`, and
  an OID that is another object's makes the core's `obj_create` report success:
  either way a load may set NID 0 over the one another load set
  (`NothingUnseen`).
* The environment is read at every load into lists all loads share: a provider
  that is loaded has other OIDs registered than the list then says, and a
  variable that is unset keeps its effect (`moved` in the properties of
  `OqsProvInit`).
* `oqsx_key_new`'s error path frees the object only; what the failing key had
  is lost, and where its lock cannot be made the object is freed twice
  (`oqsprov_keys.c:923`, `:767`). The whole key is lost when its generation fails
  (`oqs_kmgmt.c:501`), an `EVP_PKEY` when its parameters cannot be set (`:517`),
  an encoding when only the private half of a hybrid is imported (`:566`):
  `LeaksAreKnown`, `OwnedOnce`.
* A point set on a hybrid KEM key without a public half goes to new memory that
  nothing frees, or where `comp_pubkey[0]` was never set, wherever it leads
  (`oqs_kmgmt.c:425`); the exceptions in `HalvesLead`.
* The search for a curve runs to the size of its table in bytes
  (`oqsprov_keys.c:693`), and `oqsx_set_params` gives a buffer from the secure
  heap back with `OPENSSL_clear_free` (`oqs_kmgmt.c:434`). Neither is modelled.
* The OID of a TLS-SIGALG capability is the literal of the source, quotes
  included, not the one an `OQS_OID_` variable gave
  (`oqsprov_capabilities.c:454`). Not modelled.

## What is left out, and why

* Weak memory. The models are sequentially consistent. `oqsx_key_free`
  subtracts with `memory_order_relaxed` and has an acquire fence on the last
  thread only; whether other threads' uses are ordered before the free is not
  something these models show.
* Reads through stale or NULL pointers, and past the end of a buffer: their
  outcome is not defined. The guards that exclude them are named and
  commented: `Sound` (OqsSigCtx), `Readable` (OqsSign), the guards of `Encaps`
  and `Decaps` (OqsKem).
* Allocation failures are modelled where the state afterwards matters
  (`DupFails`, `CollectUpdateFails`, `DigestInitFails`, `GenkeyFails`,
  `OutOfMemory`); elsewhere a failed call leaves the model as it was.
* Cryptography is symbolic: bytes name the pair, message and run they come
  from. The hash the classical half takes of a message is one to one.
* liboqs initialisation (`OQS_init`; `OQS_destroy` at `oqsprov.c:884`, which one
  library context calls while another may still use the provider): liboqs has
  no state in the models.
* The external encoding library, which is not in the repository and off by
  default; the layout of printed keys.
* Hand-over of keys to another provider (`import_object`, `export_object`): both
  forward to the key management functions, which are modelled, and no other
  provider has keys of these algorithms. `save_parameters`: stored, and read by
  a function that ignores it.
* The core BIO bridge forwards each call and keeps no state; the reference to
  the core's BIO is taken and given back within one call of an encoder or
  decoder.
* More than one change of the environment, and one at the moment the provider
  reads it, which POSIX does not allow.
* The generated tables are constants of the models; one algorithm of each kind
  stands for all.

## Plan

The parts of the system that keep state are modelled, and what the prover can
show of the runs' properties is proved. What could follow:

1. the abstract specifications' own consequences (`KeyLifetime`: memory that is
   gone is held by nobody; `SigStream`: a context's message is its updates), so
   that the refinement theorems carry them over;
2. for KEMs what `SigScheme` is for signatures, over `OqsKem`, whose properties
   so far speak of single states;
3. hand-over of keys to another provider, once one takes them.

# A verification project for vgi-tlsfp

vgi-tlsfp is a DuckDB worker that computes TLS fingerprints (JA3, JA3S, JA4) from
captured handshakes. This directory holds TLA+ models of it, configurations that
check them with TLC, and theorems checked by TLAPS. Paths in this file are relative
to the root of the repository, `src/`.

## The system

| Component | Code | State | Operations |
| --- | --- | --- | --- |
| Handshake parser | `crates/tlsfp-core/src/parser.rs` | a stack of cursors over the capture, the struct decoded so far | `parse_client_hello`, `parse_server_hello`, `is_tls_handshake`, `strip_record_header`; the decoders of server_name, ALPN and four lists |
| Fingerprints | `grease.rs`, `ja3.rs`, `ja4.rs` and `lib.rs` beside it | none | JA3, JA3S and JA4, hashed and raw, from bytes and from parts |
| Scalar functions | `crates/tlsfp-worker/src/scalar/`, `arrow_io.rs` | the row loop, the Arrow builders | `register`; `argument_specs`, `on_bind` and `process` of ten scalars over a batch |
| Metadata text | `crates/tlsfp-worker/src/meta.rs` | none | JSON encoders for the tags of the catalog and the functions |
| Worker start-up | `crates/tlsfp-worker/src/lib.rs`, `main.rs`, `crates/tlsfp-wasm/src/lib.rs` | two environment variables of the process | `catalog_name`, `build_worker`, `wasm_init`; in the browser every serve thread builds a worker |
| Integration harness | `ci/run-integration.sh`, `ci/preprocess-require.awk` | a background server, its log, a socket, a staging directory, the report; a log, a socket and a server can outlive a run | start, poll for the endpoint, run the suite, refuse a skipped suite, clean up |
| Release and CI | `.github/workflows/`, `ci/check-version.sh` | commits, refs, workflow runs in concurrency groups, published artifacts | triggers, gating suite, version check, publish, cancel |
| Container, browser build | `Dockerfile`, `docker-entrypoint.sh`, `wasm/` | none | build scripts and an `exec` |
| VGI SDK, Arrow IPC, DuckDB | external | — | call `process` with record batches |

**Interactions.** DuckDB sends a batch of columns; a scalar walks its rows, reads the
operands of a row (a capture, or fields the caller extracted), calls the parser and a
fingerprint function, and appends the result to its builders. All of that is one call
on one thread with no shared state. Interleavings exist between *connections* of a
client (GREASE and extension order differ from one to the next), between sender,
network and capture (records, truncation, trailing bytes), between serve threads at
start-up, between harness and server process, and between the runs of workflows that
share a concurrency group.

**What is hard.** Three layers of lengths that the capture declares (record, message,
vectors in vectors), some of which must fit and some of which are clamped; repeated
extensions that overwrite each other; two parsers and a guard that read the same header
differently; NULLs, parse failures and type errors in one batch whose builders must stay
in step; two input modes that promise the same answer; servers that outlive the run that
started them; workflow runs that cancel each other. `hazards` of `PROJECT.json` lists
each at its line.

**What correctness means.** For the parser: it stays inside the capture, terminates,
allocates no more than it reads, and returns what the wire format says. For its input
path: what arrives whole is decoded as sent, what arrives damaged is rejected or decoded
to a part of what was sent, and nothing is invented. For the fingerprints: they ignore
GREASE, JA4 ignores order, and both tell different clients apart. For the scalars: each
row depends on its own capture only, errors come from column types, never from data, and
a call with the declared types has none. For the harness: a pass means that every test
passed, against the run's own server. For the workflows: only what the suite accepted is
published, under its own version, and newer builds are not replaced by older ones. For
the metadata: a reader gets back what was written.

## Modules

| Module | Models |
| --- | --- |
| `Wire` | `Reader` as a window `[pos, end]` of absolute positions in the capture; the two framing functions that index directly |
| `HelloParser` | the two parsers, one action per read of the source: `r` is the outer reader, `sub` the reader of the cipher list or the extension block, `item` the reader in a name list, `hello` the struct being filled. `Reject` is every `?` and early `return None` |
| `Utf8` | `String::from_utf8_lossy` (standard library) |
| `HelloReference` | the meaning of a capture as functions from bytes to a struct, without cursors or order |
| `HelloSpec` | the abstract call: one step from a capture to its answer, for any meaning `Parse` of captures |
| `ParserRefinement` | the refinement mapping from `HelloParser` to `HelloSpec`, with `HelloReference` as `Parse` |
| `Fixtures` | the encoder of the tests' fixtures, which hellos it can encode, and what the parser is to make of the value of an extension |
| `Capture` | sender and network composed with `HelloParser`: a hello is encoded, framed, and arrives whole, followed by other bytes, cut, or split over two records |
| `Fingerprint` | `grease.rs`, `ja3.rs`, `ja4.rs` |
| `Connections` | clients that handshake again and again, composed of `Fixtures`, `HelloReference` and `Fingerprint` |
| `ScalarBatch` | the registered scalars as records of what they declare (`argument_specs`, `on_bind`) and what `process` does: operand reading of `arrow_io.rs`, the row loops, the struct builders of `decode.rs`, the error path |
| `Metadata` | the encoders of `meta.rs` as operators, and a JSON reader that goes over the text character by character |
| `Startup` | `catalog_name`, `build_worker` and `wasm_init`: one environment, a step per call of `std::env` (which takes a lock per call), several serve threads |
| `Harness` | `ci/run-integration.sh`: consecutive runs of the script, one action per command that changes or reads shared state, composed with the servers the runs start (fork, open the log, bind, announce, fail) |
| `Release` | the three workflows: triggers, runs and called suites in their concurrency groups, the verdict of the suite, `ci/check-version.sh`, uploads |
| `MC*` | the values of the constants for TLC |
| `WireTheorems` | lemmas about windows, about the functions of `HelloReference`, and about what these read back of an encoding |
| `HelloParserProofs`, `RefinementProofs` | invariants and theorems about the parser |
| `CaptureProofs` | what a capture of an encoded hello is parsed to |
| `ScalarBatchProofs`, `ReleaseProofs`, `HarnessProofs`, `StartupProofs` | invariants and theorems about the other components |

Correspondence of `HelloParser` to the code: `type`/`length` are the two reads of the
handshake header, `version` to `session` the common fields, `suites`, `cipher` and
`compression` the client's part, `selected` the server's, `extensions` the optional
block, `extension` one turn of its loop, `names` and `protocols` the loops of
`parse_sni` and `parse_alpn`. The loops of the four list decoders, which have no exit
and no effect but their result, are the operators `Bytes` and `U16s`, evaluated in the
turn of the extension loop that calls them. A name is the window of the capture it was
read from; `from_utf8_lossy`, which is total, is applied to it where the struct leaves
the parser (`ParserRefinement`).

Abstractions in `Fingerprint`: a formatted string is the tuple of the values it is made
of (no separator occurs in a number, so equal strings are equal tuples); MD5 and the
truncated SHA-256 are injective. Collisions of the twelve-digit digests are therefore
outside of what the runs show.

Correspondence of `Harness` to the script: `pc` is the line the script is at: `dispatch`
the `case` on `TRANSPORT`, `record` the assignment of `SERVER_PID`, `alive`, `read` and
`sleep` the three commands of the poll loop, `stage` and `suite` what follows, `cleanup`,
`wait` and `unlink` the trap. A server's own steps are separate, because nothing but the
log, the socket and its pid connects it to the script: `Open(k)` is the redirection in
the forked child, `Bind(k)` and `Announce(k)` may come in either order for a socket.
The runner is external; of it the model has what `ci/README.md` says: a test whose error
speaks of HTTP or of a connection is skipped, and skips do not change the exit status.
A given `VGI_TLSFP_WORKER` URL may be anybody's and answer anything. The script traps
EXIT only: an interrupt runs the trap, and one that comes while the trap runs (a second
Ctrl-C in the `wait` of line 52, or one right after the verdict) ends the script there, so
that its server, its socket or both may stay, as after a SIGKILL. Not in the model: a
process id or a socket path that is used twice; a socket file that exists before the
server listens on it (`Bind` is `bind` and `listen` in one step); a `TEST_PATTERN` that
matches no file (`Tests` is at least 1), where the script's answer is the runner's.

Correspondence of `Release` to the workflows: `Push...`, `PullRequest`, `PushTag` and
`Dispatch` are the triggers of `on:`. A run is `queued` for the group of its workflow,
`waiting` for the group of the suite it calls, in the `suite`, `publishing`, or over. In
a called workflow `github.workflow` is the caller's name, as `ci.yml:13-16` says. Of
GitHub the model assumes that the runs are created in the order of the pushes; that a
newcomer to a group with `cancel-in-progress` cancels whoever holds or awaits it, and
gets it when the holder has ended; that a cancelled job may still finish its upload. Any
job may fail for reasons of its own (runner, network, download). The reusable workflows
of `vgi-actions` are external: they check the version first when the ref is a tag, then
publish or fail. The suite is its nine jobs: any set of them may fail, one whose
`needs` failed is skipped, and the suite succeeds when all of them do. A workflow may be
dispatched on any branch or tag. Commits of `main` and tags from before Actions was enabled
(as in a new fork) exist without runs (`Histories`); a tag can point to one of them and be
moved while a run for it is on its way. A run that is started again by hand from GitHub's
list of old runs is not in the model (it would build an old commit of main as `:edge`).
`:edge` is the only moving tag of images the model follows.

Correspondence of `ScalarBatch` to bind: a record of `register` holds the types that
`argument_specs` asks for, the type that `on_bind` promises, the readers in the `match`
of `process` and the type of the array that it builds. `Finish` compares them as
`StructArray::new` (by position and length, with a panic) and `RecordBatch::try_new` do.

Operators whose name ends in a suffix after `_` and whose comment starts with "Mutant"
are defective variants: substituting one for the operator that follows it must break the
property `PROJECT.json` pairs it with. No specification uses them.

## Runs

| Run | Question | Properties |
| --- | --- | --- |
| `parser` | is every read safe, and do the reads add up to the meaning of the capture? | `TypeOK`, `WindowsNested`, `AllocationBound`, `GuardAdmits`, `FieldsHaveExtensions`, `ImplementsReference`, `Progress`, `Terminates` |
| `capture` | what survives the way from the sender? | `RoundTrip`, `SidesAreDisjoint`, `CutBeforeExtensionsIsNull`, `DamageInventsNothing` |
| `truncation` | is every truncated ClientHello `None`, as documented? (no) | `TruncatedIsNull` |
| `connections` | what do fingerprints of two handshakes have in common? | `GreaseInvisible`, `OrderMatters`, `ClientsToldApart`, `RawMatchesHash` |
| `binary_alpn` | is the ALPN field computed from the bytes of the protocol, as documented? (no) | `AlpnFromBytes` |
| `scalar_batch` | are rows independent, builders aligned, errors about types, and do declarations and `process` agree? | `RowsAligned`, `RowsIndependent`, `ErrorsAreTypeErrors`, `BoundCallsSucceed` |
| `harness` | what does a pass mean, and of which server, when does the suite start, what is left behind, does every run end? | `SkipIsNotPass`, `ReadinessGate`, `NoOrphans`, `PassedByOwnServer`, `RunsEnd` |
| `shared_stage` | does the readiness gate hold when `STAGE` is given? (no) | `ReadinessGate` |
| `early_poll` | does the script give up only for the reasons it prints? (no) | `GivesUpForCause` |
| `startup` | do all serve threads agree on the catalog name? | `OneCatalog`, `SettingsStay` |
| `release` | what is published, under which version and in which order, while runs cancel each other and tags move, and does every run end? | `OnlyVerified`, `VersionsAgree`, `OneRunStands`, `EdgeNeverGoesBack`, `RunsConclude` |
| `metadata` | does a JSON reader find the items that were published? | `ReadsBack` |

**Bounds.** `parser` (about 52 000 states): four messages, two of them with every
extension the parser decodes, one in a record, one a ServerHello; every single byte is
replaced by each of eight values (small lengths, the type codes, 255), and two bytes of
the server_name extension at once. One byte is enough to make any one length too short or
too long; two in the innermost structure make nested lengths disagree with each other.
Both parsers run on every capture. `capture` (about 12 000 states): five hellos between
them hold all six decoded extensions, repeated ones, an unknown one, names that are not
ASCII, one that is not UTF-8, a session id that looks like a record header, and no
extension at all; they are cut at *every* byte and split at *every* byte. `connections` (1
992 states): the seventeen clients differ from the first in one respect each (order,
multiplicity, one list, one version, one name; a supported_versions extension that is
empty or all GREASE, so that the version falls back to the other field; extensions without
signature algorithms and the reverse, so that one of the two hashed parts is empty); two
GREASE values suffice to change every draw, and a client may also offer no GREASE version;
properties are about pairs of consecutive handshakes, so every pair of clients is
compared. `scalar_batch` (about 12 000 states): three rows give every succession of valid,
invalid and NULL rows; the columns of the parts functions hold the fields as a caller
would extract them: into SMALLINTs, so code points above 0x7fff are negative, into
SMALLINTs cast to the declared INTEGER, or into INTEGERs, and point formats into TINYINTs,
so those above 127 are negative and become 16-bit values above 255 before they are
narrowed; some calls have a column of a wrong type. `harness` (about 165 000 states): two
runs, in each of the 25 pairs of modes, are enough for one to find what the other left;
two polls put one before and one after any event of the server; two tests put a skip
beside a pass. Both signals may come at every line, those of the trap included.
`shared_stage` and `early_poll` send no signals, so that nothing but the order of a normal
run is to blame. `startup` (172 states, three threads): a thread that sets the default,
one that tested before and one that tests after it; the theorems cover any number.
`release` (about 935 000 states): main has no commit, one, or two from before; a commit
that is pushed breaks nothing or one leg of the matrix, and any job may fail on its own.
Four runs are two pushes to main (there are two commits at most), or a push behind a tag
or behind dispatches; tags are pushed and runs dispatched as long as that makes at most
three (`MaxByHand`), which are enough for a run on a tag and the two that a push of the
moved tag starts before it uploads. For the tag v1 there are manifests of version 1, in
double or in single quotes, and of version 2, each before or after the table of a
dependency that has the other version; two commits from before have one each, and the tag
is on either of them or on none. `metadata` (about 175 000 states): texts of two
characters hold every pair of neighbours that the encoder or the reader treats in its own
way; the tasks alone may hold line breaks, which the other encoders do not escape and no
text in the source needs.

**Fairness.** `HelloParser` assumes weak fairness of its single step relation: the
parser is a call on one thread that nothing blocks, so an enabled step is taken.
`Terminates` needs nothing else. `Harness` assumes that the shell goes on with its next
command when it can (weak fairness of `Script`; a test ends, because the runner has time
limits of its own) and that a server which was sent a TERM ends (weak fairness of `Obey`;
the worker installs no handler). Nothing is assumed of servers that are not told to
stop: they may never bind, never announce and never exit. Signals are not fair either.
`Release` assumes that jobs end, with success or not
(weak fairness of `Advance`); no trigger is fair. `Metadata` assumes that the reader goes
on while it can. The other modules make no liveness claim.

**Deadlock** is checked in every run but two; the calls end in a state that stutters
(`Done`, `Returned`). `release` stops when the runs of the bound are used up and over, and
`metadata` when the reader is at the end of the text or at a character it does not
accept; `RunsConclude` and `ReadsBack` say that they do not stop before.

## Findings

1. `parser.rs:148` says `parse_client_hello` returns `None` on any truncation, and
   `README.md:17-18` and `72-73` of the repository promise `NULL` for truncated bytes. The code
   clamps the lengths from the extension block on, so a hello cut there is fingerprinted
   as if its remaining extensions were absent (`truncation`). `CutBeforeExtensionsIsNull`
   says exactly where the border lies, `DamageInventsNothing` what the answer still
   guarantees.
2. `ja4.rs:59-61` describes the ALPN field by the first and last byte of the protocol.
   The parser has replaced bytes that are not UTF-8 before `ja4.rs` sees them, so for a
   binary protocol name the field is made of the replacement character (`binary_alpn`).
3. `ci/run-integration.sh:76` ends the http run, silently and with exit status 2, when the
   first poll comes before the background child has created the log: `sed` fails, and
   `pipefail` and `set -e` make the assignment fatal (`early_poll`). Lines 59-60 and the
   messages of lines 74 and 80 describe a loop that polls until the server exits or time
   is up. The unix leg does (its `grep` stands in a condition).
4. The same loop takes the announcement of an earlier run for its own when `STAGE` is
   given and holds that run's log, because only the child truncates it
   (`shared_stage`). With a directory per run the gate holds, which is proved. The skip
   guard turns most of the consequences into a failed run, not a wrong pass.

An interrupt between the fork and `SERVER_PID=$!` leaves a server that nobody stops, and
one that arrives while the trap runs may leave a server, its socket or both; `NoOrphans`
is about runs whose trap came to its end with the pid known, since nothing in the
repository promises more. `PassedByOwnServer` shows that what is left is harmless to later
runs, as long as each has a staging directory of its own.

## Proofs

Every theorem below holds for all values of the constants that satisfy the named
assumption of the module; TLC evaluates the assumptions on every run.

### The parser

`WireTheorems` has the lemmas about windows (what advancing, clamping and slicing keep of
`pos <= end`, and that a read inside the capture has the width of its type) and those
about `HelloReference`. Its three recursive functions (`Extensions`, `HostName`,
`Protocols`) are defined on all byte sequences, so they satisfy their equations only if a
function that does exists. `Recursion` shows it, once for all three: the set of
approximations on the sequences below a length is closed under one more step, by the
least-number principle, which follows from the well-foundedness of the naturals.
With the equations come the types of what the reference returns (`ClientType`,
`ServerType`), which also need a least counterexample.

`HelloParserProofs` proves, for every set of captures (`InputsAssumption`: finite
sequences of bytes, of any length),

- `TypeCorrect`: `Spec => []TypeOK`
- `Nesting`: `Spec => []WindowsNested`

`TypeOK` is not inductive: a read is of the right type only when it is inside the
capture, which is `WindowsNested`, and `WindowsNested` needs to know that a location
leaves the readers as they are. The inductive invariant `Safe` is their conjunction with
the fact that the capture does not change; the step theorem has one case per action. The
argument carries one fact through all levels: a slice is opened on bytes the outer reader
has already passed, so `item.end <= sub.pos`, `sub.end <= r.pos`.

It also proves

- `AlwaysProgress`: `Spec => Progress`. Every read lowers three times the unread bytes of
  all readers plus the number of exits left at the location; the factor pays for a slice
  that is opened, which adds less than it takes.
- `Bounded`: `Spec => []AllocationBound`, from `Paid`: what the struct holds plus what the
  current name list may still add is at most `sub.pos`. `AllocationBound` alone is not
  inductive, because the entry of a name list would have to pay for names in advance; the
  unread part of the list is what it owes.
- `FieldsListed`: `Spec => []FieldsHaveExtensions`
- `GuardSound`: `Spec => []GuardAdmits`: what the parser accepts begins as the guard
  `is_tls_handshake` demands, although the two read the header through different code.
  `Reached` ties the location to the position behind each field of the header.

`RefinementProofs` proves

- `Refines`: `Spec => ImplementsReference`, the parser implements the one-step call of
  `HelloSpec`, whose answer is the reference's. The invariant `Meaning` says, at each
  location, that the unread bytes are the part of the capture that the reference has still
  to interpret, and that the struct is what the reference says of the part before it: after
  a prefix of the extensions it is the reference's fold over that prefix, in a name list it
  is that and the names so far, and what the reference says of the rest of the list.
  `Reject` is possible only where the reference's answer is null, and `Return` only where
  nothing is left. Every other step is a stutter of `HelloSpec`.

### The captured handshakes

`CaptureProofs` proves, for every set of hellos, any bytes behind them, and every delivery
of `Deliveries`,

- `NeverTheOtherSide`: `CaptureSpec => []SidesAreDisjoint`
- `WholeHellosRoundTrip`: `CaptureSpec => []RoundTrip`
- `CutBeforeExtensions`: `CaptureSpec => []CutBeforeExtensionsIsNull`
- `NothingInvented`: `CaptureSpec => []DamageInventsNothing`

The assumptions say what can be sent: `HellosAssumption`, each hello is `WellFormed`, that
is, its code points have 16 bits, its bytes 8, every vector fits in its length field and
the whole in one record (`fixtures.rs` writes the lengths with `as u16` and `as u8`, so a
longer one would be a different message); `TrailerAssumption`, what follows is bytes; and
`DeliveryAssumption`, the captures are inputs of the parser. The number of extensions, of
ciphers and of names is not bounded otherwise, nor is what the names hold.

The invariant is `Safe`, `Meaning` and `Delivered` (the capture is still the one that was
delivered). With it `Meaning` turns all four into statements about the reference, and the
work is in the inverse of the encoder. It is proved from the inside out, at each level for
an encoding that is *cut at any byte* and followed by any bytes where something can follow:

1. One number, one vector with a length of one, two or three bytes (`Vec8Cut`, `Vec16Cut`,
   `Vec24Cut`): a clamped read returns the part of the content that is left.
2. Lists of numbers, of names and of extensions (`Numbers16Cut`, `NamesBeginning`,
   `Survivors`): what is read back is a prefix of what was encoded. A name that is cut is
   dropped; the last extension that is left may have lost the end of its body. These go by
   induction on the list, written as a set of lists that contains the empty one and is
   closed under `Append`.
3. The six bodies that are decoded (`Decoding`): `Legible` says that a prefix of the body is
   decoded to a prefix of the value, and all of it to the value.
4. The body of a hello (`ClientCut`, `ServerCut`): a cut in front of the extension block is
   rejected, one behind that point leaves the fields in front of the block whole and the
   block as in 2 (`BodyCut`, `Understood`).
5. The message and the payload (`MessageCut`, `PayloadRecord`): a capture of either framing
   and any damage has a prefix of the message, with other bytes behind it only when the
   message is whole (`Delivery`, `Outcome`).
6. `KeptIs`: repeated extensions. When all arrived, a field is the value of the last
   extension of its type; otherwise it is a prefix of the value of one of them, not always
   of the last.

The parser of the other side is refused at the type byte, whatever follows.

### The scalars

`ScalarBatchProofs` proves, for any set of calls, rows and captures,

- `OnlyTypeErrors`: `Spec => []ErrorsAreTypeErrors`
- `BoundCalls`: `Spec => []BoundCallsSucceed`
- `Alignment`: `Spec => []RowsAligned`
- `Independence`: `Spec => []RowsIndependent`

Three parts are invariant: `Reading` (the columns a loop reads are those its scalar
declares, and an error exists only when one of them has another type), `AlignedAt` (each
builder holds one cell per row passed, plus one for the builders the current row has
reached) and `Kept` (each finished row is the function of its own operands). Which
operands a row of a capture yields rests on the types of the reference's results. The
assumptions are what is outside of the worker: `CallsAssumption` (DuckDB calls a function
with as many columns as it declares), `ExtractionAssumption` (the columns of a call from
parts, of any integer types, hold the fields of captures or their readings as signed
numbers), `CapturesAssumption` (a capture is a
BLOB, a sequence of bytes).

### The workflows

`ReleaseProofs` proves, for any number of runs, any commits and faults
(`ReleaseAssumption`: Cargo rejects a table with the same key twice, a fault is a set of
jobs of the suite, and the bounds are numbers),

- `TypeCorrect`: `Spec => []TypeInv`
- `Verified`: `Spec => []OnlyVerified` and `TagsAgree`: `Spec => []VersionsAgree`, from
  `GateInv`: a run is past the suite only when its commit breaks no job, because a suite in
  which one fails or is skipped does not succeed, and has published under a tag only when
  the version check passed for the commit it was started for, wherever the tag is by then;
- `NotWipedOut`: `Spec => []OneRunStands` and `EdgeForward`: `Spec => EdgeNeverGoesBack`.
  Neither is inductive. `GroupInv` says that a group has at most one holder that was not
  told to stop, and that the holders come before those that wait; `EdgeInv` that the
  commit under `:edge` is not newer than that of any later run that may still publish it.

### The harness and the start-up

`HarnessProofs` proves, for any number of runs, polls and tests, any modes and signals
(`HarnessAssumption`),

- `PassMeansPassed`: `Spec => []SkipIsNotPass`, from the invariant that a verdict exists
  only after the suite and that `Judge` is the only step that says pass;
- `NothingLeft`: `Spec => []NoOrphans`, for runs whose trap came to its end; the invariant
  ties the pid variable to the state of the server: without a pid nothing was started,
  except between the fork and the assignment, and past `wait` the server is gone and
  cannot bind again;
- `GateHolds`: `Spec => []ReadinessGate` when `FixedStage` is false: a log holds the
  announcements of its own server only, and a port in it is bound;
- `OwnServer`: `Spec => PassedByOwnServer` under the same condition: only the step of a
  test adds a result, it adds a pass only when something serves at the location, and by
  the invariant of the gate the location of a run that spawns is that of its own server.

`StartupProofs` proves `OneCatalog` and `SettingsStay` for any set of threads: a thread
that is about to set the default knows that no name was given, so whatever it
overwrites is the same default set by another thread.

### What is only model-checked

`Terminates`, `RunsEnd`, `RunsConclude` and `ReadsBack` are liveness properties, which
the prover does not reach; the safety half of `Terminates`, a measure that every read
lowers, is `AlwaysProgress`. The properties of `Connections` are not proved: they compare
fingerprints of two handshakes, hence filters, sorts and prefixes of hashed tuples, and
`OrderMatters` needs facts about the sort of the community modules, which the library
does not have; `ClientsToldApart` is about a fixed table of clients. That their captures
decode to what the clients offered is `WholeHellosRoundTrip`.

## Not modelled

The texts of the metadata (constants; how they are encoded is modelled); the Arrow IPC
transport and the SDK (external); the text form of fingerprints and the digests (see
above); the container's entry point, one `exec` without state, and the build scripts of
the container and the browser worker. The image test of `docker-publish.yml` is two runs
of the integration script with a given `VGI_TLSFP_WORKER`, which `Harness` has.
`ja4_raw_from_parts` has no caller in the repository. Which tags move `:latest` is
decided in the reusable workflow, outside of the repository.

## Plan

1. *Done:* the parser and its reference, `Capture`, `Fingerprint`, `Connections`,
   `ScalarBatch`, `Startup`, `Harness`, `Release`, `Metadata`; the theorems above.
2. *Done:* the theorems about the rest of the parser, its refinement, `ScalarBatch` and
   `Release`.
3. *Done:* the theorems about `Capture`, from the inverse of the encoder.
4. `Connections`: `RawMatchesHash` (about tuples only), then `GreaseInvisible`.

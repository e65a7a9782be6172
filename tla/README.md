# A TLA+ development for s3s

s3s turns HTTP requests into typed S3 operations and back; s3s-fs is the S3
implementation on a file system that the repository ships and tests with. This
directory holds TLA+ models of the parts where the outcome depends on order or on
a boundary: which file operation came before the crash, where the transport cut
the body, which configuration was in force when the signature was looked at, which
of two requests got to the rename first. The models are checked with TLC on small
instances, and part of what TLC checks is proved with TLAPS for every instance.

Every definition that models code is mapped to its lines in `PROJECT.json`
(`map`). Paths below are relative to `src/crates/`.

## 1. The system

### Components

| part | state | operations | what makes it correct |
|---|---|---|---|
| request pipeline, `s3s/src/ops`, with access, auth, route and config | one request; the shared configuration | prepare, signature checks, access checks, body preparation, handler or custom route; configuration reload | nothing runs before it is authorised, the handler reads the signed payload of the declared length, the claims of a request are checked against one configuration |
| `UploadStream`, `s3s/src/stream/upload_stream.rs` | state, hasher, remaining length | poll_next | nobody gets a whole body that does not match its signed digest |
| `AwsChunkedStream`, `s3s/src/stream/aws_chunked_stream.rs` | line buffer, previous signature, remaining length, trailers | worker loop, poll | only signed bytes in the signed order; a clean end is the whole body; frames do not matter |
| form parser, `s3s-multipart/src` | `StreamBuffer`, `Multipart` state, header block, taken streams | next_part, next_header, next_data, take_data_stream, into_final | parts are the body's parts however it was cut, bounded buffer, strict end |
| form upload and POST policy, `s3s/src/http/multipart.rs`, `s3s/src/post_policy.rs` | fields, file stream with a derived length, the policy | transform_multipart, FileStream, resolve_post_object | what is stored satisfies the policy that was signed, and is the whole file |
| bodies, `s3s/src/http/body.rs`, `s3s-http3/src/body.rs` | state, received length, limits | poll_frame, store_all_limited, Drop | no quiet truncation, limits hold, uploads are not aborted without a reason |
| keep-alive body, `s3s/src/http/keep_alive_body.rs` | the completion, an interval, wakers | poll_frame | one well-formed document with the result |
| HTTP/3 server, `s3s-http3/src/server.rs` | a task per connection and per request, the cancellation | accept loop, requests, graceful shutdown | responses arrive, whole; the shutdown ends |
| file writer, `s3s-fs/src/fs.rs` | temporary files, the name counter, destination files | prepare, write, flush, done, Drop, clean-up at start | writes are atomic, temporaries are exclusive and do not pile up |
| object operations, `s3s-fs/src/s3.rs` | per key: bytes, attributes sidecar, internal info (ETag, checksums) | put, get (with ranges), head, delete, delete_objects, copy | what one request leaves, and what one request reads, belongs together; a range is the range |
| multipart uploads, `s3s-fs/src/s3.rs` | upload ID files, upload attributes, part files, part infos, the object | create, upload_part, upload_part_copy, complete, abort (list_parts reads only) | the object is the owner's parts with the digest asked for, no part is lost before the commit, residue can be removed |
| buckets and listing, `s3s-fs/src/s3.rs` | the directory tree | create_bucket, delete_bucket, list_objects, list_objects_v2 | pages join to the listing, and end; only a removal under way makes a request fail |
| policy patterns, `s3s-policy/src/pattern.rs` | the scan | is_match | the scan decides what the wildcards mean |
| encoded words, `s3s-rfc2047/src/lib.rs` | one header value | encode, decode | decode undoes encode where it can, words fit |
| dto, xml, header, codegen, sigv2/v4 arithmetic, proxy, s3s-aws | none | conversions | not modelled |

### Interactions

hyper or the HTTP/3 server calls `S3Service`, which prepares the request:
it takes a snapshot of the configuration, checks the signature (taking further
snapshots), asks `S3Access`, wraps its body (`UploadStream` for a signed
single-chunk payload, `AwsChunkedStream` for the aws-chunked modes, the form parser
and `FileStream` for POST uploads, the limited `Body` for the rest) and calls the
handler or a custom route. s3s-fs streams that body into a `FileWriter`. Handlers
are tasks of a multi-threaded executor. They share nothing in memory but the
configuration and the counter of temporary names and take no lock: they meet on the
file system. A handler can be dropped at any await when its connection closes; a
file operation it had begun on tokio's blocking pool still runs to its end.

### What is hard to test

Interleavings at awaits, requests dropped in the middle, one failing file operation
among several, crash and restart, bodies cut at every place, polls that resume after
`Pending`, bodies changed on the way, retries of what was half done, a configuration
that changes under a request, a shutdown among open connections. `PROJECT.json`
(`hazards`) lists the most important ones at their lines with the properties aimed
at them.

## 2. Modules

| module | models | composed with |
|---|---|---|
| `AtomicFile` | what a write promises: readers see whole payloads, Ok means published, Err means not | abstract specification of `FileWriter` |
| `FileWriter`, `FileWriterProofs` | `prepare_file_write`, `copy_bytes`, `FileWriter::done`, `Drop`, `FileSystem::new` | implements `AtomicFile` (`WritesAreAtomic`) |
| `FsObject`, `FsObjectProofs` | put, get, head, delete, delete_objects, copy | relies on `AtomicFile`: a sidecar save is one step |
| `FsMultipart`, `FsMultipartProofs` | the five operations on multipart uploads | relies on `AtomicFile` |
| `FsListing`, `FsListingProofs` | one bucket as a directory tree, its writers and a client that lists it | writers by their directory operations |
| `FsRange` | `get_object` with a range, `Range::check`, `bytes_stream` | against a copy that writes in place, as in `FsObject` |
| `RequestPipeline`, `RequestPipelineProofs` | `ops::call`, `ops/signature.rs`, reloads | the streams by what they promise: `UploadStream` and `AwsChunkedStream` end well only with the signed body |
| `UploadStream` | `poll_next`, arm by arm | |
| `AwsChunkedFormat`, `AwsChunkedStream` | units and signatures; the worker, `poll`, the trailers | |
| `Multipart`, `MultipartProofs` | buffer, parser, parts, taken streams and their caller | |
| `FormUpload` | `transform_multipart`, `FileStream`, `PostPolicy`, `resolve_post_object` | the parser by what `Multipart` shows: parts in order, strict end, padding accepted |
| `RequestBody` | the HTTP/3 `Body` below the s3s `Body`, read, stored or dropped | both bodies composed with their reader |
| `KeepAliveBody` | `poll_frame` with its completion, interval and wakers | |
| `Http3Server` | `serve`, `handle_connection`, `handle_request`, `send_response` | |
| `PatternSet` | `match_pattern` | checked against the meaning of a pattern as a recursive function (`Rest`) |
| `Rfc2047` | `encode`, `decode` | |
| `Components` | nothing of its own: `UploadStream`, `AwsChunkedStream`, `FormUpload`, `RequestBody`, `KeepAliveBody`, `Http3Server`, `PatternSet`, `FsRange` and `Rfc2047`, each with its constants and variables, and their properties | one instance of each |
| `ComponentsProofs`, `InputProofs` | the proofs about these nine, one section each: `InputProofs` has `FormUpload`, `Rfc2047` and `PatternSet`, `ComponentsProofs` the others and the lemmas both use | |
| `MC...` | instances for TLC, or the inputs of one (`MCAwsChunkedStream`, `MCFormUpload`); in `MCMultipart` and `MCAwsChunkedStream` also reference parsers of whole bodies | |

`MCComponents` checks the nine components of `Components` in one run. They share no state, so their
state spaces are put side by side rather than multiplied: a variable `running` picks
one component, the others stay in one fixed initial state, and each property is
about the component that runs.

### Correspondence with the code

**FileWriter.** `tmp` and `dest` are files, `counter` is `tmp_file_counter`, `pc`
is the await a handler is at. `Write` hands a chunk to the buffered writer,
`DiskWrite` is the blocking pool moving it to the file, so `Flush` has something
to wait for. `Fail` is an error at any await, with `Drop`; `Cancel` drops the
handler while the operation it awaits may still happen: a file created after its
owner is gone, a rename that wins against `Drop` or comes after a removal that failed
(`LateRename`). `DropWriter` is `Drop`, which discards the error of a removal that fails;
`orphan` remembers the names that this, or a late creation, leaves behind. `Crash` ends
the process and leaves the temporaries; `CleanOldTmpFile` and `Start` are
`FileSystem::new`.

**FsObject.** Object paths name inodes, because the code writes in two ways: put
renames a new file into place, copy truncates the file that is there and fills it.
A get holds the inode it opened. Each await of a handler is one action (`PutExists`,
`PutETag`, `PutBody`, `PutRename`, `PutAttrs`, `PutInfo`; `Open`, `LoadAttrs`,
`LoadInfo`, `StreamBody`; and so on). Digests do not collide: an ETag is the bytes
it was computed from. `Torn` is what a file or sidecar holds while `fs::copy`
fills it. `Stored` are objects in place when the process starts. `tainted` and
`truth` are history variables: keys whose last writers overlapped or were cut
short, and the attributes the others were written with.

**FsMultipart.** One object, its uploads, their parts and infos as files. `pc`
names the await. `c_...` steps are complete's, `a_...` abort's. `failed` is
`cleanup_failed`, `todo` what abort's directory scan still has to remove.
`owner`, `stored`, `committed`, `aborted`, `origin` are history. With `Orderly`
a client behaves: it waits for its uploads before it completes or aborts, lists all of
them, and uploads nothing once an abort was let in (`MayBegin`). A handler that is dropped
while it waits for the removal of a file leaves it to the blocking pool: `pool` holds the
removals nobody waits for, `PoolRemove` is one of them, at any later moment. An upload_part_copy is
an upload_part whose body is a range of another object and that expects no digest.

**FsListing.** A key is a sequence of byte ranks, a directory the prefix that ends
in its slash, so that keys compare as strings do and `d.` sorts before `d/`. A
`Scenario` is a bucket, what each writer does to it, and a listing request. Writers
go through the file system calls of their operation (`MkDirs`, the rename, the
removal of a file or of an empty directory, `remove_dir_all` step by step). `NotFound` is
the one error that `delete_objects` forgives; a file in the place of a directory is
another one. The
client's `List`, `ReadDir`, `Entry` (one directory entry), `EndOfDir` and `Page` are
the walk and the cut of `list_objects_v2`, and the next `List` carries the token; `first`, `always`,
`ever` and `removed` are history.

**FsRange.** A file is the sequence of its bytes' versions, so that a reply can be
seen to mix the bytes before and after a copy. `Open` reads the length and checks
the range, `Seek` and `Read` are the handle and `bytes_stream`; `I64Max` stands for
the limit of the signed offset, with suffixes on both sides of it.

**RequestPipeline.** A request is a record of what the code tells apart: its
signature scheme and whether the signature is right, how the payload is covered,
framed and read, where it is routed. There is one action per stretch of code between
two awaits or two reads of the configuration. `cfg` is the snapshot of `prepare`,
`snap` the one of the signature check under way. `Update` installs another
configuration at any moment if the provider is a `HotReloadConfigProvider`
(`service.hot`). A custom route has the default `check_access`, which wants credentials,
or one of its own, which may let in or refuse anything (`service.route`). A body is a record of its wrapper, its length and whose bytes it
yields. Which operation a request routes to, and whether its signature is right, are
fields of the request: the router and the arithmetic of signatures are not modelled.

**UploadStream.** One action per arm of `poll_next`; `hasher` is the sequence of
bytes hashed, `taken` says that `hasher.take()` has happened, `arrived` and `out`
are what came and what was forwarded.

**AwsChunkedStream.** The body is a sequence of units: a whole chunk header, a
data byte, CR, LF, a trailer line. A frame boundary may lie between any two, so
the two bytes of a CRLF can be separated, lines cannot (their bytes are only
collected until the line feed). Signatures are ideal: the signature of a chunk is
the chain of everything signed up to it, so no other chain equals it. A buffered
signed chunk (`ReadData`, `ConsumeCrlf`, `CheckSignature`, then fragment by
fragment) and a streamed unsigned one are distinguished as in the code.

**Multipart.** The body is a sequence of units too: CR, LF, dash, padding, the
boundary, data, whole header fields. `cursor` is `read_until_cursor`, 0 when no
read is active; `loop` says whether the current poll is inside the padding loop, a
position that does not survive a `Pending`. `Chunk`, `EmptyChunk`, `EndOfBody`,
`ReadError`, `Pending` are the transport; `Pending` may also drop the call.
`CallNextPart`, `CallPart`, `TakeDataStream`, `CallStream`, `IntoFinal` are a
caller that may read, skip, drop or take parts in any order, and that stops at
the first error of `next_part`.

**FormUpload.** Fields arrive in order, are counted and sized against the limits and
looked up the way the code does it: after the sort the last of several fields with
one name wins for the policy check, and `PostSignatureV4::extract` has its own
lookup (`ExtractField`). A form is signed in one of two versions; version 4 also wants the
policy to name the credential of the form (`PolicyNamesCredential`; the date and the
algorithm, which are compared in the same way, are left out), and its date, region, service
and clock skew are one flag, `inScope`. A file is its length. The derived `content_len` comes from Content-Length
minus a canonical closing delimiter, so that padding, an epilogue or a cut form makes
it wrong in either direction. A file with a length is streamed (`ForwardStream`,
`HandlerReads`, ...), one without is collected first (`Aggregate`, ...). A form
without a key passes a policy that allows it and is refused by `DeserializeHttp`.

**RequestBody.** A frame is its index on the wire; `H3Data`, `H3EndOfData`, `H3End`
and `H3Error` are the lower `poll_frame`, `PollsData` the upper one with the
allowance that shrinks, `Store...` is `store_all_limited` below
`extract_full_body`. `Drop` starts a task that reads on what the client still sends, frame
by frame (`Drain`); without a runtime (`runtime`) there is none, the stream is dropped
unread and the client is stopped. Readers may poll on after an error.

**KeepAliveBody.** `inner` is the future, `interval` a tick that is due, `wakers`
who holds a waker of the connection. `PollInitial`, `PollDocument`, `PollTrailers`,
`PollFailure`, `PollPending` are the branches of the loop in `poll_frame`. The completion
may succeed, fail with an error that is a document, fail with one whose status has no body
(`PollBodyless`), or fail to be serialised.

**Http3Server.** `task` is where the task of a connection is (handshake, accept
loop, join of its requests, `quic.closed()`), `req` where a request is, `quic` who
has closed the connection, or that the client has sent what is a connection error to h3
(`PeerErrs`). `EndpointClosed` is the other way out of the accept loop. `End` is the drop of a task with everything it owns.
QUIC delivers what was queued as long as the connection is open.

**PatternSet, Rfc2047.** The loops of the code, one action per branch. In
`PatternSet` indices count from zero and `Never` is `usize::MAX - 1`. In `Rfc2047` a
text is its length and its character boundaries, what `trim` leaves of it (`core`), and
whether it has the form of an encoded word (`shape`); a word is the piece of text it
encodes, and `encoded` the length of what was sent.

## 3. Runs

| run | what it checks | bounds |
|---|---|---|
| `file_writer` | `TmpExclusive`, `NoTmpLeaked`; refinement `WritesAreAtomic` | two writers of one file, payloads of two chunks, three temporary names per process, unbounded crashes |
| `multipart_races` | `ObjectFromOwnUpload`, `ObjectHasAskedDigest`, `PartsSurviveUntilCommit` in every interleaving | two handlers, one upload, two access keys, two parts, two payloads, one fault |
| `multipart_retry` | `ResidueHasUploadId`, `RetriedAbortCleans` (liveness) for an orderly client | two handlers, two parts, two faults |
| `multipart_unlisted` | *violated*: `ResidueHasUploadId` | one handler, no fault |
| `objects` | `QuietObjectConsistent`, `QuietReadConsistent`, `OnlyCopyDisturbsReaders` | two handlers, one key that everything happens to and one that is copied from, two payloads, two attribute sets, eleven requests, one fault |
| `object_create` | *violated*: `ConditionHoldsAtRename` | two conditional creates, no fault |
| `listing` | `PagesJoin`, `ErrorsAreRaces`, `ListingEnds` (liveness) | two writers and three listings of several pages; one writer and every combination of three prefixes, two delimiters, page sizes 0, 1 and 2, two starts; buckets of one to four keys in two directories; a put that finds a file in its way, in a bucket that is deleted before it is listed (`Forgotten`) |
| `form_parser` | `SplitIndependent`, `DelimitersFound`, `FinalIsStrict`, `AbortedNeverEnds`, `CallsAnswered` (liveness) | bodies of up to two parts, cut at every unit or malformed at one place, data that resembles the delimiter; every chunking |
| `form_parser_padded` | *violated*: `SplitIndependent` | one body |
| `pipeline` | `AuthorisedFirst`, `HandlerReadsSignedPayload`, `BodyAsDeclared`, `ClaimsOfOneSnapshot` | three configurations that differ in every switch and limit; about two thousand requests under one configuration, a selection of them while it is replaced at any moment; services with and without auth, access and routes with the default `check_access` or their own |
| `pipeline_mixed` | *violated*: `AcceptedByOneConfig` | two configurations |
| `components` | see the next table | |

| in `components` | properties | bounds |
|---|---|---|
| `UploadStream` | `NoWholeBodyUnverified` | signed bodies of 0, 2 and 3 bytes, declared lengths 0, 2, 3, frames of 0 to 4 bytes |
| `AwsChunkedStream` | `AuthenticPrefix`, `EndIsWhole`, `TrailersAuthentic`, `SplitIndependent`, `Terminates` (liveness) | two chunks, the final one, two trailers: intact, cut at every unit, reordered, repeated, changed; every framing |
| `FormUpload` | `AcceptedSatisfiesPolicy`, `EnforcedPolicyIsSigned`, `StoredIsWhole` | eight policies, both versions of signatures, repeated and misspelt fields, files of 0 to 4 bytes around limits of 1, 2 and 3, four ways to close the form (with up to two fields) |
| `Http3Server` | `ResponsesArrive`, `ShutdownReturns` (liveness) | two connections, two requests on one of them, one of which accepts trailers, responses that end, fail or have trailers |
| `RequestBody` | `BodyIntact`, `UploadConsumed` (liveness) | up to three frames of one or two bytes or up to two that may be empty, every declared length and limit from 0 to 6, three endings; without a runtime only bodies without a limit |
| `KeepAliveBody` | `OneDocument` | six ticks, four results |
| `PatternSet` | `ScanDecides` | every pattern of four symbols over two letters and both wildcards, every pair of one of up to one and one of up to two, inputs of up to four letters |
| `FsRange` | `ReplyIsTheRange` | files and copies of 0 to 4 bytes, every range in and around them |
| `Rfc2047` | `WordsAreTheText` | texts of up to 300 bytes (`MaxText`) of characters of one to four bytes, around the limits of 45 and 75; safe texts with spaces around them or in the form of words; `MAX_INPUT_LEN`, 1 MB in the code, is 260, so that texts, and words of texts within it, are over it |

Several properties are conjunctions whose parts are defined, and described, just
above them: `PagesJoin` is `StableListedOnce /\ ListedExisted /\ PagesAscend`, and
likewise `ErrorsAreRaces`, `AuthorisedFirst`, `BodyAsDeclared`, `DelimitersFound`,
`ResponsesArrive`, `BodyIntact`, `OneDocument`, `ReplyIsTheRange` and
`WordsAreTheText`.

Each component module also defines its type invariant `TypeOK`. It holds in every
passing run when it is added to the run's configuration; the configurations check
the properties above, and the proofs use the parts of it they need.

**Why the bounds are enough.** The races of the file system models are between
two requests: a third can only repeat what one of the two does, since handlers
share no state but the files. One fault reaches every single failure, dropped
request and crash; `multipart_retry` has two, so that the retry fails too. Two
parts tell the first part from the last (the 5 MiB limit) and order from
disorder. Two payloads tell a re-upload from the original. For the streams, a
chunk of two bytes has a first and a last byte to cut between, and the delimiter
of five units with data that repeats proper prefixes of it reaches every length of
partial match; `MaxBuffer`, `AdaptiveTail`, `MaxEmpty` and the limits of
`AwsChunkedStream` are set so that bodies lie on both sides. `MaxTmp` bounds the
names one process uses (the code's counter has 64 bits); restarts reset it.
In `listing` a page of zero, one or two entries is empty, just full or cut, and the
keys sort around a directory in the three possible ways. In `pipeline` a request
is in flight alone: requests share only the configuration, which another one
cannot change. In `FsRange`, `PatternSet` and `Rfc2047` every comparison of the code
has inputs on either side and on the boundary.

**Deadlock** is checked except in the form parser runs, where a stream that has
ended takes no further step.

**Symmetry** is used for handlers, writers and inodes in runs without liveness; none
of the models orders them.

### Fairness

* `multipart_retry`: weak fairness of every handler's own progress (the executor
  polls a woken task; file operations return) and strong fairness of the client's
  abort: it is sent again until a handler takes it. Faults are not fair, and are
  bounded.
* `listing`: weak fairness of the listing client and of every writer: the runtime
  polls both and file operations return. The client follows its tokens.
* `form_parser`: weak fairness of the parser's steps and of the transport; the
  transport may deliver empty chunks only, and `CallsAnswered` holds because the
  parser counts them. The caller is not fair.
* `AwsChunkedStream` in `components`: weak fairness of the worker together with the
  transport: the consumer polls to the end, as `copy_bytes` does, and the connection
  delivers the body or its end.
* `Http3Server` in `components`: weak fairness of `serve`, of every connection task
  and of every request task, and of the timer of the shutdown. Nothing is assumed of
  clients or the network: `ShutdownReturns` holds because of the timeout.
* `RequestBody` in `components`: the reader's task runs, the implementation answers
  in the end, and the task that drains a dropped body (`Drain`) runs while the client sends.

### Disagreements between code and comments

Four have runs of their own:

1. `multipart_unlisted`: `s3s-fs/src/s3.rs:1560` says the upload ID is kept until
   residue is removed. Parts that were uploaded and not listed in the complete request
   are not removed, the ID is, and no abort can reach them afterwards.
2. `object_create`: `s3s-fs/src/s3.rs:819` describes `If-None-Match: *` as "only
   create if the object doesn't exist" and `If-Match` as a compare-and-swap. The test
   comes before the body is received, the rename after it: of two overlapping creates
   both succeed.
3. `form_parser_padded`: `s3s-multipart/src/lib.rs:58` says the parse never
   depends on where the transport split the body. `--boundary --` is refused in
   one chunk; if the chunk ends behind the padding and the poll is `Pending`, the
   padding is already consumed, the parser starts the step again and takes `--`
   for a closing delimiter.
4. `pipeline_mixed`: `s3s/src/ops/mod.rs:862` says one snapshot is taken for the whole
   request. The signature check takes snapshots of its own
   (`ops/signature.rs:375, 389, 404, 448, 743`); with a reload in between, a presigned
   SigV2 request passes the presigned gate of one configuration and the SigV2 gate of
   the other, and is accepted although neither accepts it.

Others were met while modelling. The models behave as the code does, and the
properties above are stated so that they hold of it:

* `s3s/src/access/mod.rs:21` says access methods are only invoked when an auth provider
  is configured; the generated operations call them whenever an `S3Access` is set
  (`ops/generated/put_object.rs:725`). `access/mod.rs:27` says they run for requests
  with invalid credentials too; those are answered before (`ops/mod.rs:726`).
* `s3s/src/ops/mod.rs:324` says aws-chunked bodies have had their length replaced by
  the decoded one; the variable is set to 0 (`mod.rs:746`) and `extract_full_body`
  compares with it, so such a body of an XML operation is `IncompleteBody`.
* `s3s/src/http/multipart.rs:400` says the counter of `FileStream` reaches zero on a
  clean end; with padding behind the closing delimiter it does not.
* `s3s/src/http/body.rs:321` describes `BodySizeLimitExceeded` as the error of an
  oversized body; a streamed one fails with `LengthLimitError` (`body.rs:357`) and is
  answered `InternalError`.
* `s3s-fs/src/s3.rs:1751` cuts a common prefix behind the first byte of the delimiter.
* `s3s/src/s3_trait.rs:1202` says a bucket must be empty to be deleted; `delete_bucket`
  removes the tree (`s3s-fs/src/s3.rs:352`).
* `s3s-policy/src/pattern.rs:25` says `?` matches a character; it matches a byte
  (`pattern.rs:75`).
* `s3s/src/dto/range.rs:115` takes a suffix longer than the file for satisfiable, as RFC
  9110 does; `get_object` seeks by the unclamped suffix (`s3s-fs/src/s3.rs:470`) and
  answers `InternalError`, and on an empty file `s3.rs:458` underflows.
* `s3s-rfc2047/src/lib.rs:36` limits a word to 75 characters; texts of 46 and 47 bytes
  become one word of 76, because the estimate at `lib.rs:65` leaves out the padding.
* `s3s-rfc2047/src/lib.rs:101` says decode returns what is not encoded unchanged; it is trimmed
  (`lib.rs:125`). A safe text in the form of an encoded word is sent as it is
  (`lib.rs:49`) and decoded, to something else or to an error (`lib.rs:128`), and the
  words of a text of about 650 KB are over the 1 MB that decode takes (`lib.rs:121`).
* An error with a bodyless status goes through `serialize_error`
  (`s3s/src/ops/mod.rs:124`) into a keep-alive body that has already sent 200 and the XML
  declaration (`ops/multipart.rs:37`): it ends cleanly without a document.

Known races that nothing in the repository promises to exclude: a copy whose source is
put meanwhile keeps the source's older ETag (`s3s-fs/src/s3.rs:217`); an upload_part
that verified the upload before an abort leaves its part behind it
(`s3.rs:1185`); the slower of two deletes of one key is an internal error
(`s3.rs:377`). They are behaviours of the models; `QuietObjectConsistent`, `Orderly` and
`ErrorsAreRaces` leave them out.

## 4. Proofs

Assumptions are the named `ASSUME`s of the component modules and of `Components`. All
say what the code's types give, and TLC evaluates them on the instances it checks:

* `FileWriterAssumption`, `UploadStreamAssumption`, `MultipartAssumption`: bounds are
  naturals, bodies and the boundary are sequences, `Absent` is no payload, the boundary
  is not empty and has no line ends;
* `FsObjectAssumption`, `FsMultipartAssumption`: requests are those of the operations,
  a complete lists at least one part, `Absent` and `Torn` are no payloads or attributes;
* `RequestAssumption`, `NoneAssumption`: a request is a record of `RequestType`, `None`
  is neither a number nor one of the names used;
* `ListingAssumption`: keys are sequences of bytes that do not begin with a slash, the
  objects of a bucket do not end in one, and a put or a delete names a key;
* `ComponentsAssumption`, the conjunction of what seven modules ask of their constants.
  `ConstantsOK` (`Http3Server`): every request belongs to a connection, a response has
  frames or is absent. `BodyOK` (`RequestBody`): sizes, lengths and limits are naturals.
  `RangesOK` (`FsRange`): lengths and positions are naturals, and a range does not end
  before it begins.
  `TextsOK` (`Rfc2047`): a text begins and ends at a character boundary, characters have
  at most four bytes, four bytes fit into a word, and an empty text is a safe one. `PatternsOK` (`PatternSet`): strings
  are bytes and shorter than `usize::MAX - 1`. `InputsOK` (`AwsChunkedStream`): a body is a
  sequence of units, and a signature in it is one the client made or is worthless
  (signatures are ideal); what else happened to the body on the way is not restricted.
  `FormsOK` (`FormUpload`): fields and values are sequences, and every text a policy field
  may have is a document, perhaps a malformed one.

Two facts carry most of the induction. A set of naturals has a least element
(`LeastElement`, from the well-foundedness of the naturals): what a recursive function
gives (`Bytes`, `Rest`, the library's `FlattenSeq`) is shown by looking at the first
argument for which it would not. And a bounded set of places has a last one
(`LastPlace`), which the code's "last that ..." and "back to a boundary" rely on.

**FileWriterProofs.** `TmpExclusive` is not inductive: it says nothing of the
names that will be handed out. `IInv` adds that names in use lie below the counter
and are owned by one handler while the process is up (`NamesOwned`), that files at
or above the counter do not exist while it is up (`FreshNamesFree`, which the
clean-up at start re-establishes), what each temporary holds at each await
(`TmpContents`: the owner's payload, whole once flushed), and that destinations are
whole (`DestWhole`). From it follow `TmpExclusiveHolds`, `NoTmpLeakedHolds`
and `FileWriterIsAtomic`: every step is a step of `AtomicFile` or leaves its
variables alone, where the only interesting cases are the renames (in `Rename` and those
that outlive their handler), which publish a whole payload by `TmpContents`.

**RequestPipelineProofs.** One invariant per property, each saying what every stage of
a request has established. `AuthInv`: what the signature check has found out
(`CheckedSoFar`) and which access checks have been asked (`AuthorisedSoFar`).
`PayloadInv`: behind the check, the body of a request with a signed payload fails at its
end unless it is the signed one, or is in memory and was found to be (`BodyChecked`).
`BodyInv`: what the body is and how long (`BodyShape`, `HeaderIsLength`), and its limit
once it is prepared (`Prepared`, `PostObjectLimited`), which for a custom route is that of
a configuration in force meanwhile (`RouteLimited`). A reload may come between any two
stages: what was established does not depend on the next configuration. The invariant of
`ClaimsOfOneSnapshotHolds` says that `snap` is one of the configurations in force since the
request arrived, and which claims have been compared with it. From them follow
`AuthorisedFirstHolds`, `HandlerReadsSignedPayloadHolds`, `BodyAsDeclaredHolds` and
`ClaimsOfOneSnapshotHolds`, for all
configurations, services and requests. The attempt corrected the model: `Genuine` asked
form uploads for signed headers, which a form cannot have, and no request of the instance
was a signed form, so that TLC could not object; and alternatives written as `CASE`
overlapped.

**FsMultipartProofs.** `Types` adds to the type invariant what each handler is doing
(`Doing`) and how far a completion has come (`Position`). `DataInv` is the invariant of
the first three properties: behind `verify_upload_id` a handler works for the access key
that created the upload (`Owned`), every part in place, and every part complete has read
so far, is a payload that its owner uploaded under that number (`PartsStored`,
`ReadStored`), and files are removed only behind the commit or by an abort
(`RemovalsAllowed`). From it follow `ObjectFromOwnUploadHolds`,
`ObjectHasAskedDigestHolds` and `PartsSurviveUntilCommitHolds`, for any number of
handlers, uploads, parts and faults, with no assumption on the client.
`ResidueHasUploadIdHolds` needs `Orderly`, and `multipart_unlisted` shows why. Its
invariant says that requests are about uploads that were created (`Known`), that a
completion or an abort is alone with its upload (`Exclusive`), that who is about to add a
file has seen the upload ID, which is still there (`Started`), and what the clean-up has
removed so far (`Swept`).

**FsObjectProofs.** A statement about a quiet key has to know which handlers may still
disturb it. `Overlap` says that requests that overlap know of each other, `Marked` that
the keys a disturbed writer writes are tainted, `SettledSound` that a key which is not
tainted, and has no writer among its files, holds bytes, ETag and attributes that belong
together, and `KnownAt(h)` what an undisturbed handler has seen and written at its await
(`PutAt`, `CopyPlaceAt`, `CopyDataAt`, `ReadAt`, `StreamAt`). Open files need an invariant
of their own (`OpenFiles`): an inode that a reader or a copy holds is at no path but the
one it was opened from. This gives `QuietObjectConsistentHolds`,
`QuietReadConsistentHolds` and `OnlyCopyDisturbsReadersHolds`, for any number of
handlers, keys, payloads and faults. TLC had accepted an earlier `CopyPlaceAt` on the
instance that was not inductive: it did not say that the source of a copy is still there
behind the fill.

**FsListingProofs.** `ErrorsAreRacesHolds`: for any number of writers, any keys and any
listing. A writer looks and then acts. `Seen` says what one that has not raced has seen
(the parents it made, the file or directory that was there, the empty directory) and that
this is still so at its next await; `Overlap`, that two writers under way at the same time
are both marked as racing; `Scan`, that what a listing still has to read is there as long
as nothing was removed. What remains is a file where a directory is wanted: then one known
key lies below another (`Tree`: files are known keys, directories beginnings of known
keys). The attempt corrected the property. It took the known keys from `ever`, which a new
listing resets, so that a bucket emptied before it was listed forgot the file that an
earlier put had failed on; TLC found that too, once it had a scenario with it. `first` now
remembers what the bucket began with.

**MultipartProofs.** `StreamInv`: a call is under way only in an open parse, nobody but
the taken stream uses the parser once it is taken, and an aborted stream stands before
its delimiter. Every step keeps it, and keeps `aborted`; the two together give
`AbortedNeverEndsHolds`. For `BufferBoundedHolds`, `BufferInv` adds that of the preamble
only a partial first boundary is kept (`PreambleDropped`). What is held back of data
(`Retain`), the place of a delimiter (`Find`) and the padding are chosen by the code as a
greatest or a least offset; that there is one is `LeastElement`.

**ComponentsProofs.**

* *UploadStream.* `UploadInv` relates the four sequences: what was forwarded is what was
  hashed while reading (`Forwarding`), hashed and remaining bytes add up to the declared
  length (`Accounting`), behind the hash check everything equals the signed body
  (`Verified`), and a failed stream has forwarded less than the declared length unless it
  had been verified (`FailedShort`). From it follow `NoWholeBodyUnverifiedHolds` and
  `FinishedIsExactHolds`; `TerminalIsFinalHolds` is a property of steps.
* *Http3Server.* `ResponsesArriveHolds`: for any number of connections and requests.
  `ResponsesReachClient` speaks of connections the server has closed and is not
  inductive: the server closes connections in many places. `ServingInv` adds that a
  connection whose task does not accept yet has no requests (`NoEarlyRequests`), and that
  a connection without a task is closed while one the server closed has no task
  (`ClosedWithTask`). So ending a task matters only if its connection is open and it
  accepts or waits, and the only step that does this is the timeout.
* *KeepAliveBody.* `OneDocumentHolds`: for any number of ticks. `DocumentInv` gives the
  exact form of what has been yielded: the declaration, some spaces, and what `done` and
  `response` say of the rest (`Shape`). That a completed future is not polled again
  follows only together with it.
* *FsRange.* `ReplyIsTheRangeHolds`: for every length, range and read size. What is sent
  and what remains is what was promised (`Promised`), what is sent is in one piece and the
  handle is behind it (`OnePiece`), both whatever a copy does to the file; without a copy
  the piece is the range (`Undisturbed`). `AnsweredIsWanted` is `Range::check` against the
  positions RFC 9110 asks for.
* *RequestBody.* `BodyIntactHolds`: for every body, declared length and limit, with
  readers that poll on after errors. The count of received bytes is right only until the
  client is stopped, so `Counted` says up to when; without an error nothing is missing
  (`NothingMissing`), past the data the length was the declared one (`DataWasWhole`), and
  what was given and what is left of a limit add up to it (`LimitKept`). A client is
  stopped for a mismatch or for want of a runtime (`Aborted`).
* *AwsChunkedStream.* `AuthenticPrefixHolds`, `EndIsWholeHolds`,
  `TrailersAuthenticHolds`: for every body, changed in whatever way, every chain and every
  framing. The signature that was verified last is the client's chain up to some chunk, and
  what has been yielded, with the verified chunk that is about to be, is the data of these
  chunks (`ChainKept`). A chunk that is not the client's next one has a signature that is
  no continuation of the chain. `InChunk` and `HasSignature` say what the worker holds at
  each place, so that no unsigned chunk slips in between two signed ones.

**InputProofs.**

* *FormUpload.* The checks of a form upload come at different stages, some before the
  file has been read. `FileInv` keeps the account of the file (what was delivered, what
  `remaining` claims, what is in memory), `SizeInv` says that the size that is checked
  will be the size that is stored, `SignatureInv` that both lookups of the policy field
  agree once there is only one (`OnlyPolicy`), `ConditionInv` that the conditions hold
  of the fields as they stay, with the file name put in (`SubstituteType`). From them
  follow `StoredIsWholeHolds`, `EnforcedPolicyIsSignedHolds` and
  `AcceptedSatisfiesPolicyHolds`. The attempt found two gaps: a form without a key
  reached the handler in the model, which `PostObject::deserialize_http` prevents, and
  the property took every condition on the bucket for an equality. Both are corrected
  and have inputs in `components`.
* *Rfc2047.* `WordsAreTheTextHolds`: for every text. Words, and what has been decoded,
  are pieces that follow one another from the start of the text (`Follow`), are cut between
  characters, so that each is UTF-8 of its own, and are short when there are several
  (`CutWell`). `WordEndAdvances`: going back to a boundary still leaves a character, since
  four bytes fit; `WordsFit`: what fits in bytes fits as Base64.
* *PatternSet.* `ScanDecidesHolds`: for every list of patterns and every input. The scan
  forgets all stars but the last, so the invariant has to say that nothing is lost by it.
  Before the first star there is one way to match. Afterwards (`Scanned`) the whole pattern
  matches exactly if its rest behind the last star matches from `s_back` or a later place,
  and whatever matches there has to go through what has been read since, at the same
  distance. A scan that is stuck has refuted `s_back`, so the star may take one byte more;
  a new star may start as early as the scan has come, since a later place for the old one
  leaves the new one no further choice.

**Only model-checked.** Liveness (`RetriedAbortCleans`, `Terminates`,
`CallsAnswered`, `ListingEnds`, `ShutdownReturns`,
`UploadConsumed`), which is beyond the prover. `SplitIndependent` (of both parsers),
`DelimitersFound` but for `BufferBounded`, and `FinalIsStrict`: their reference is a second
parser of whole bodies, written with RECURSIVE operators, with which the prover loses its
arithmetic. `PagesJoin`: a page is sorted and filtered by `SortSeq` and `SelectSeq`, and
that sorting by a given order is possible at all is an induction over sequences that the
library does not have.

## 5. What is not modelled

* About two thirds of the repository's lines are generated from the Smithy model of
  S3 (`dto/generated.rs`, `xml/generated.rs`, `s3_trait.rs`, `ops/generated`,
  `s3s-aws/src/conv`, `s3s-aws/src/proxy`, `error/generated.rs`, and the MinIO
  variants of all of them): data types and conversions field by field, without state
  or control. Most of the rest are tests, the code generator, and conversions. The
  map covers the code with control: the s3s-fs handlers, the streams, parsers,
  bodies, the pipeline and the HTTP/3 server.
* Power loss: the code never syncs. A crash here is the end of the process.
* Two processes on one root, which `FileSystem::new` does not allow for either.
* In the object operations: conditions on timestamps, checksum algorithms one by
  one, `list_parts`.
* In the pipeline: parsing of host, path and headers, the router's table, the
  arithmetic of signatures. Their results are fields of a request.
* In the form parser: header lines that end in a bare line feed (httparse accepts
  some), the poll after an error, more than one error kind for a malformed block. That
  httparse has refused a bad field within the first `MAX_HEADERS` before the fallback reads
  them is taken from the comment at `header.rs:84`.
* In the aws-chunked stream: the poll after `LengthMismatch`, which the code does
  not latch; the limit on the canonical form of the trailers (`aws_chunked_stream.rs:488`),
  which is no longer than the lines it is made of, and these are limited by the same number.
* In `PatternSet`: nothing, but the meaning of a pattern is over bytes, as the code is; with
  characters of several bytes it differs from the comment (see above).
* In `FsMultipart`: a save whose rename outlives its handler while the removal of the
  temporary fails too (two faults at one await); `FileWriter` has it.
* In form uploads: region, service and clock skew of a version 4 credential one by one.
* In `Rfc2047`: quoted-printable words, which `encode` never produces; to what a safe text
  in the form of a word is decoded.
* Everything marked `not_modelled` in `PROJECT.json`, with its reason there.

## 6. Plan

Done: the file writer and its atomicity, multipart uploads, object operations, listings
and ranges, the two body streams, the form parser and form uploads, the request pipeline
with reloads, bodies, the keep-alive body, the HTTP/3 server, patterns and encoded words.
Proved: all safety properties that the passing runs check, but for `PagesJoin` and those
that compare a parser with another one.

Next theorems: `PagesJoin`, from a lemma that every finite sequence of keys can be sorted
and that the order of strings is a total one; and `PartsAreTheBodys` of the form parser, from a reference that says where
the delimiters of a body are instead of parsing it.

Worth a module of their own, if more is modelled: `list_parts` against concurrent
uploads, and two requests of one keep-alive connection.

# A verification project for duhat-multimodal-chat-memory

TLA+ models of the program, TLC runs on small instances, and TLAPS proofs of the
properties that hold for every instance. Paths below are relative to the
repository; Go code is under `internal/` and `cmd/`, Python under `src/`, the
browser application under `frontend/src/`.

## 1. Inventory

| Component | State | Operations | Interacts with |
|---|---|---|---|
| Store (`internal/repository/persistence.go`) | Postgres tables `channels`, `feed_state`, `messages`, `media`, `outbox`; objects in MinIO | `Send`, `bindDrafts`, `CreateDraft`, `EventsAfter`, `FeedFor`, `FeedBefore` | concurrent HTTP handlers; row locks; the outbox feeds the index worker and the event stream |
| Text index (`internal/repository/indexing.go`, `internal/service/index_worker.go`) | `outbox.status`, `attempt_count`, `next_attempt_at`; `chunks`; `chunk_embeddings` | `NextIndexMessage`, `processMessage`, `CompleteOpenAppend`, `CloseAndOpen`, `Reschedule`, `BuildSeed` | one worker goroutine; the model service over HTTP; the same tables as the store |
| Image queue (same files) | `media_embeddings` | `ProcessOneImage`, `NextPendingMedia`, `SaveMediaEmbedding` | runs in the worker's loop after the text step |
| Model service (`src/model_service/app.py`) | lazily loaded models | append, embed text, embed image | called by the worker, three attempts each |
| Event hub (`internal/handler/server.go`) | the map of subscribers, one bounded channel each | `send`/`publish`, `eventsFor` | POST handlers push to the channels of GET handlers; browsers reconnect with `Last-Event-ID` |
| Feed state (`frontend/src/state`) | messages, next expected ordinal, buffer, repair flag | four reducer actions, initial load, gap repair, history | the event stream and two fetches race |
| Composer (`frontend/src/components/Composer.tsx`) | drafts, text, sending flag | upload, remove, send | uploads and sends in flight |
| Normalization (`src/ingest/normalization`) | `data/processed`: objects, messages, media, identity files | `build_corpus`, `load_postgres` | every later tool reads its files; a build may stop in the middle of one |
| Seeding (`internal/repository/seed.go`) | rows and objects of the corpus | `SeedIdentity`, `SeedMessages`, `SeedObjects` | runs before the server listens, at every start with `SEED_PROCESSED`, over live rows too; a start without it serves what is there |
| Golden releases (`src/evaluation/golden`) | release directories, lock file, current pointer, control rows | publish, resolve, promote | competing processes and crashes between renames |
| Visual artifacts (`src/artifacts/visual`, `src/ingest/phase3.py`) | chunk files, matrix, index, clusters, manifest; `media_embeddings` | resumable build, clustering, validation, import | two operators over one output directory; a stopped build; media that change |
| Golden dataset construction (`src/evaluation/golden/tier_*.py`, `builder.py`, `gates.py`) | rows in memory | tiers A, B, C, split, anti-leak gate, judgment | reads the corpus and cluster files again in every stage |
| Trace log (`src/trace`) | an append-only JSONL file | append under `flock`, read | competing writers and readers |
| Configuration, manifests, scope, presentation, experiment | none or one file | pure functions | |

What is hard in it: several actors over one database (sends, the worker, a
rebuild), a worker that reads, calls a remote service up to three times and then
writes; crashes and restarts between any two steps; retries with a counter and a
backoff; a publisher that waits on channels other goroutines empty; a browser
whose stream, first page and gap repair overlap; offline tools that share files
which another tool, or an earlier run that was stopped, wrote. What makes each part correct:

* **Store**: dense ordinals, one order of ordinals and event ids, no event that
  becomes visible behind a reader's cursor, attachments bound whole and once.
* **Index**: one claim at a time, bounded retries, chunks that form a chain
  within the limits, closed chunks frozen and embedded from their own text,
  every message indexed once and in order, every event settled.
* **Hub**: nothing lost on an open connection, bounded duplicates, publishers
  that end.
* **Feed state**: what is rendered is contiguous and never taken back.
* **Golden releases**: the current pointer always names a complete release.
* **Normalization**: ranks without a hole that respect the authored order.
* **Seeding**: ordinals that were given stay; media that are served are whole.
* **Visual artifacts**: every stored vector is that of its own image.
* **Golden dataset**: exact quotas, no linked dialogue in both splits, a split
  whenever there is one, an account of leaks that is true of the rows released.

## 2. Plan

| Step | Modules | Runs | Theorems | State |
|---|---|---|---|---|
| 1 | `IndexWorker`, `IndexLog`, `IndexRefinement` | `index_faults`, `index_restart`, `index_lost`, `index_rebuild` | every safety property; each step is a step of `IndexLog` | done |
| 2 | `SendTx` | `send_tx` | every safety property | done |
| 3 | `SseHub` | `sse_hub`, `sse_stuck`, `sse_resume` | every safety property | done |
| 4 | `FeedClient`: reducer and hook over the deliveries `SseHub` allows, with the stale first page | `feed_client`, `feed_stale` | every safety property | done |
| 5 | `GoldenPublish`: lock file, release directory, pointer, promotion, crashes | `golden_publish` | every safety property | done |
| 6 | `Corpus`, `Seeding`, `UnionFind`, `VisualBuild`, `GoldenData`, composed by `MCOffline` | `offline` | every safety property | done |
| 7 | `SplitSound`: the tiers, the components and the search, as lemmas about the operators | `offline` | the operators, and the property | done |
| 8 | the image queue in `IndexWorker`, `Composer`, `TraceLog` | joined to the runs above where they fit | | open, see section 6 |

`IndexLog` is the abstract specification that `IndexWorker` implements. An
abstract event delivery, implemented by `SseHub` and used by `FeedClient`, is
the composition to state next. `SendTx` already justifies what the other two
modules assume of the store: ids and ordinals agree, and commits are in order.
The offline modules are composed over the files they share: `Corpus` owns them,
and `Seeding`, `VisualBuild` and `GoldenData` extend it and read them. Each of
them is also a specification of its own beside the corpus build (`SeedingSpec`,
`VisualSpec`, `GoldenSpec`), about which the theorems are; `MCOffline` takes the
same actions together.

## 3. The modules

### IndexWorker, IndexLog and IndexRefinement

A message is its feed ordinal; messages `1..Seeded` are canonical, the rest are
live and have an outbox row. The variables are the three tables (`outbox`,
`chunks`, `embedding`), the process (`mode`, `queue`) and the registers of the
message in work: `snap` is the chunk `OpenChunk` returned, `asm` the last answer
of the model service. Every call of `processMessage` is a step of its own, so a
crash, a failed call or a failed transaction can come between any two:

| Action | Code |
|---|---|
| `Start`, `TakeSeed`, `Serve`, `Crash` | `main`, `BuildSeed` |
| `NextIndexMessage` | the query, and the claim of a pending row |
| `OpenChunk`, `AppendToOpen`, `EmbedText`, `AppendToNil` | the reads and remote calls of `processMessage` |
| `CompleteOpenAppend`, `CloseAndOpen`, `InsertConflict` | the two transactions and their refusal by the primary key |
| `ModelFails`, `DatabaseFails` | `retryOrFail` and the plain error returns |
| `Send`, `BackoffElapses` | another transaction; the clock |

The text of a chunk is the list of the message ids it was assembled from, and
the embedding is the list whose text was embedded, which is what the properties
tell apart. Token counts add up message by message; the tokenizer counts the
whole text again, and only its comparison with the limit matters here. A call
fails after the client's three attempts, as one step. `MaxSent` and `MaxFaults`
bound the instance; `AnyRebuild = FALSE` restricts `PHASE3_SEED_BUILD=1` to the
first start, before live traffic.

`IndexLog` promises: messages are indexed once each and in order, a live one's
event is completed in the same step, and of the parts the log is cut into only
the last one grows. `IndexRefinement` maps the chunks, in the order of their
indices, to those parts and the rows that are done to the completed messages.

### SendTx

One step per SQL statement of `Send`, with the row locks that READ COMMITTED
takes, uncommitted values in registers, an outbox sequence that does not roll
back, and `Abort` at every statement. Ordinals count from the end of the seed.
`CreateDraft` is two steps over two stores, each with its failure; an INSERT
that returns an error may have been executed. `EventsAfter` is a reader with a
cursor. All requests are made by the demo viewer, a member of every channel; the
refusal of a non-member is an `Abort` before the first write. `Respond` covers a
failed read of the attachments and a lost answer to the commit: the client is
told of an error although the message is stored.

### SseHub

POST handlers (`Send`, `Publish`, `Visit`, `Unblock`) and GET handlers
(`Connect`, `Replay`, `Write`, `End`) over `subs` and the channels. The query
EventVisible and the channel send that follows it are one step when there is
room, as nothing of the publisher's can change in between; when there is none
the publisher is committed to that subscriber until `Unblock`. When the query
fails, that subscriber is passed over (`skipped`), which `NoLossWhileOpen` sets apart
and `OpenMissesNothing` does not (section 6). A write to a
connection nobody reads any more may succeed and is lost. `Disconnect` is not
seen by the server until `End`. A restart of the server empties the hub and is
not modelled; for a browser it is a disconnect.

### FeedClient

A message is its feed ordinal. The state is the reducer's (`messages`,
`nextExpected`, `buffer`), the three requests that can be under way (`first`,
`repair`, `older`), each idle, asked or answered, and history variables for the
properties. `Receive` delivers any stored live message, in any order, again or
never: that is what `SseHub` allows of a stream with reconnects. A request reads
the database in one step (`FirstRead`, `RepairRead`, `OlderRead`) and its answer
is dispatched in any later one (`FirstPage`, `Repaired`, `OlderPage`), so that
everything else can come between; each can fail. The flag `isRepairing` and its
ref are one variable: the ref is cleared in the promise's `finally`, before the
next render can run the effect. The double mount of StrictMode and a second
history request before a render repeat requests the model already allows at any
moment, and are left out. `HistoryReachable` states what the button for older
messages seems to promise; TLC violates it (see the hazards), but no text of the
repository promises it, and no run reports it.

### GoldenPublish

Processes that share a directory, each running one command: generate a candidate
and publish it, promote a release with an audit, or load the current rows. The
shared files are `dirs` (the release directories by id), `current`, `audit` and
the lock file; a step is one effect on them.

| Action | Code |
|---|---|
| `Generate`, `ReadPointer`, `Resolve`, `Name`, `Validate`, `CopyCandidate`, `Load`, `CommandFails` | the commands, and `resolve_current_release` |
| `OpenLock`, `Flock`, `Unlock`, `Unlink` | the lock: an inode, which need not be the one at the path any more |
| `Move`, `NameTaken`, `Swap` | the rename of the staged directory, its refusal, the rename of the pointer |
| `FileError`, `Interrupt`, `InterruptUnrecorded`, `CheckActive`, `CheckUnreadable`, `Remove`, `Rmdir` | the `except BaseException` block, which may also fail to read CURRENT |
| `WriteAudit`, `Crash` | the external auditor; the end of a process |

Two publishers can be inside the block at once: one that waited for the lock the
first has unlinked, and one that created a new lock file. `overlap` records it.
`CheckUnreadable` is the clean-up whose read of CURRENT fails: `is_active` stays
FALSE and the directory is removed, whatever CURRENT names; `blind` records that it
named this one. The constant `Unreadable` says whether this happens. Without the
two, no release is lost and the pointer is always whole: `PublishedKept` and
`PointerWhole` say so, and `PriorReleasesReadable` and `ReadersFindRelease` state
what the docstring promises without any exception (section 6).

`Name` takes any release directory that exists, as `is_dir` does: also one that a
crash left behind before it was ever CURRENT, and one its publisher is just
removing, so that the candidate of an approved release may never have been
published and may be gone later. Approval copies what it validated, and
`ApprovedFaithful` is about that copy.

A dataset stands for its rows and all artifacts derived from them. An id is the
second and the digest; only whether two ids are equal matters, so "another
second" is represented by the process. The processes are numbered in the order
they start, and the first one's dataset is fixed, as all are alike.

### Corpus

`raw` is the raw directory, `disk` what is in `data/processed`, `norm` the build.
A message id is channel, session and turn; ids are compared as numbers where the
code compares zero-padded strings. A content stands for the bytes of an image and
for their SHA-256, so a file is absent, partial or whole under its name.

| Action | Code |
|---|---|
| `EditRaw` | somebody changes the raw sessions or a configuration table |
| `StartBuild` | `build_corpus` up to its first write: dates, number of sessions |
| `RefuseMissing` | a turn names an image that is not there: the build ends, after it has copied others |
| `BeginCopy`, `CopyObject` | `_copy_object`, which skips a name that exists; a new file has its name before all its bytes |
| `WritePart`, `WriteFile` | `_write_jsonl` of one file: truncated, then a longer and longer prefix, then the whole; `NextFile` is the order of the five files |
| `StopBuild` | the process ends; the file it was writing keeps what is in it |

A write is therefore not one step: a reader may come in the middle of any of the
files, with the build still running or stopped there. Each call of a reader (the
seed's, the loader's, a stage's) takes the files as they are at one moment. A prefix
ends at a line; one that ends inside a line makes its reader fail, which is the
reader's failure without effect. One build runs at a time and the raw data change
only between builds; `orphan_media.jsonl` and the reports, which nobody reads back,
are left out.

What the files say is computed as the code does: `ChronologicalRank` from the
sort key (session, calendar day, channel, turn), `TemporalConflictSessions` from
neighbouring sessions, `Sender` through the alias table, `MentionRelations` by
the longest matching name; `FileOf` has the five files, the memberships from the
access table among them. A time stamp is
the calendar day it falls on: 600 turns of 90 seconds from 09:00 reach midnight.

### Seeding

`db` holds the tables, `store` the bucket, `srv` the process. A start with
`SEED_PROCESSED` runs `SeedIdentity`, `SeedMessages` and `SeedObject` (per file) in
that order, and `Listen`; `StopServer` may come between any two, and the next such
start seeds again over what is there. A start without it (`StartUnseeded`,
`main.go:48`) migrates and listens at once. Either listens only if the demo channel
and the viewer's memberships are there (`DemoConfigured`, for `ValidateDemoConfig`).
`SeedMessages` upserts row by row in rank order, and each row meets the two unique
indexes on ordinals as they are at that row (`Collides` compares it with the table
in which the rows before it are written); a refusal rolls the transaction back and
ends the start. `LoadPostgres` is the offline loader, refused once the server's
tables refer to messages. `SendLive` is a live message as one step: `SendTx` has
the statements.

`OrdinalsStay` has one exception, which the history variable `short` records: a seed
that read a `messages.jsonl` which was not whole, because a build was writing it at
that moment or was stopped in it. To the seed that is a smaller corpus, with holes
among its ranks. Between whole files the unique indexes refuse every move, because
the place a row would move to is taken; a hole is free, so a later corpus moves
rows into it. Nothing in the file says how long it should be. Live messages do not
move even then. `AppendOrderIsStable` is the claim without the exception (section 6).

`ServedMediaReadable` has one exception too: `owed` is TRUE from the moment media
rows were written until a start has listened after copying the objects. If that
start dies in between and the next one has no `SEED_PROCESSED`, rows are served
whose objects are not there yet. Objects with wrong bytes never are.

### UnionFind and VisualBuild

`UnionFind` is the disjoint-set code that both Python modules contain, as a fold
over the edges. `VisualBuild` has one record per operator for the registers of a
build (`rows` and `enc` as they were at its start, `next`, `matrix`) and the
shared output directory: `chunks`, `dir`, `art`.

| Action | Code |
|---|---|
| `BeginBuild`, `TakeBatch`, `OpenChunk`, `SaveChunk` | `_media_rows`, and the loop over batches that takes over chunk files |
| `StackChunks`, `WriteIndex`, `WriteClusters`, `WriteManifest`, `RemoveChunks` | the files of the artifact in the order they are written, and the `rmtree` |
| `InterruptBuild`, `UpgradeEncoder` | the process ends; another model revision |
| `ValidateArtifact`, `ImportEmbeddings` | `validate_visual_artifact`, `import_visual_embeddings`: the files are read a second time after they were validated |

A vector is the content and the encoder it was computed from; cosine and
perceptual hash are two relations on contents. `spoiled` records the mix-ups the
manifest cannot show: a chunk of other images taken over by its number, builds
over different inputs overlapping, an index left by an interrupted build, an
import that raced a build: the files changed after they were validated, or a
build had written its index and not yet the manifest of it, which shows in no
file. `VectorsAreTheirMedia` says that nothing else mixes
them up. The four are reachable in the model; the first three follow from the
output directory and the chunk names carrying no identity of their input
(`pipeline.py:218`). The validator's docstring promises to reject stale state:
`EmbeddingsNeverStale` states it, and does not hold (section 6).

### GoldenData

The stages of one build are one action each, because within a stage the code
reads its files once: `BuildTierA`, `BuildTierB`, `BuildTierC`, `AssignSplits`,
`AntiLeakGate`, `JudgeMultiHop`. Between two stages a corpus build or
`ReplaceClusters` may change what the next one reads. `Search` is the recursion
of `search` in `_assign_splits` as a function of the position and the components
chosen; the salted hash order of the components is any order. `Ranking` is BM25's
order of all messages for a query, restricted to those that exist. A row's
`hash` stands for the values `output_hash` is computed from, so that a field that
is changed afterwards shows. `Quotable` stands for the sessions and sentence
lengths tier B accepts; questions, curated rows and reviews are constants.
`SplitSound` compares `Search` with its reference definition: all subsets of the
components. The sizes are constants (1039 rows and 416 dev rows in the code).

## 4. Runs

| Run | Shows |
|---|---|
| `index_faults` | nine properties under crashes, model and database failures and rebuilds at any start. Five messages (one canonical), chunks of two messages or four tokens with one message that fills a chunk alone, three attempts and four faults: enough for a dead letter, a retry overtaken by two messages, a rebuild over a claimed row, three chunks. |
| `index_restart` | `IndexWorker` implements `IndexLog` and settles everything, with crashes and rolled-back transactions, seven messages. Model failures are excluded because with them the promise does not hold (`index_lost`). |
| `index_lost` | **violated as the code stands**: a done event whose message is in no chunk. |
| `index_rebuild` | **violated as the code stands**: a rebuild after a crash leaves an event that fails for ever and blocks the rest. |
| `send_tx` | three sends in two channels, two of them naming one upload. |
| `sse_hub` | two browsers, two connections, two events, channels of one place: a publisher waiting on a full channel, a subscriber that dies, a publication during a replay, a reconnect. |
| `sse_stuck` | **violated as the code stands**: a publisher waits for ever on a dead subscriber. |
| `feed_client` | one canonical message and five live ones, pages and repairs of two rows, one failure: gaps longer than a repair, a repair that fails and is asked again, a first page later than repairs, history in three pages. |
| `feed_stale` | **violated as the code stands**: a late first page takes back a rendered message and nothing asks for it again. |
| `golden_publish` | three processes, two datasets, one fault: two publishers inside the block, an id taken while waiting for the lock, a promotion during a generation and an audit rewritten under it, a promotion of a directory that was never CURRENT, a clean-up that cannot read CURRENT, a crash with the lock held. |
| `offline` | ranks, seeds, artifacts and golden rows over corpora that are built, changed and built again, read in the middle of a write and stopped in any. Seed: three corpora in two channels (the first one, one message inserted, one moved to a later session), every part of every file, starts with and without seeding, one live message. Artifacts: two operators, two encoders, batches of two images, two builds, one image replaced. Golden rows: a session that grows and one renumbered. Split: 514 sets of questions over one whole corpus, four cluster files and every order of the components; two corpora that a build refuses (a missing image, an unmapped date). One change and one stop of a build throughout. |
| `sse_resume` | **violated as the code stands**: inverse delivery and a reconnect skip an event. |

The capacity of a channel is 64 in the code and 1 in the runs; what matters is
that it can be full. Three attempts instead of five reach the dead letter with
fewer states; the proofs hold for every number. A page of 100 rows and a repair of 500 are 2 in
the runs: five live messages exceed both twice.

In `offline` the readers of the corpus files are checked one at a time beside the
corpus build (`reader` says which): none of them writes a file or table another
one or the build reads, so their interleavings with each other add nothing, and
each meets every interleaving with the build. Golden sets are split over one
whole corpus (`reader = "split"`); `reader = "golden"` meets the changing files with
one set. Parts of a file that the reader does not read are left out (`Seen`), and the
artifact and golden builders wait while the three identity files are written, which
they do not read (`Unread`). The theorems have none of these restrictions: they hold
for any corpora, stops, changes and numbers of builds. `Unmixed` follows a history no further once an artifact was mixed
up: `spoiled` never shrinks and the property about artifacts says nothing after
it. One change and one stop are enough for each exception above: a stop leaves
what the next run finds, and a change makes the two differ. The operators are
interchangeable (SYMMETRY); all other sets carry an order or a role. Deadlock is
not checked there because finished tools stop, and no fairness is assumed:
`offline` has no liveness property.

The lost event of `index_lost` needs one failed call: event 1 is rescheduled
with a backoff, event 2 is claimed meanwhile and opens the chunk, event 1's
retry finds an open chunk that has passed it and is marked done. What still
holds is `LossOnlyAfterRetry`: nothing is lost without a retry and a chunk that
moved past it.

### Fairness

* `IndexWorker`: the worker is one goroutine whose every call returns (the HTTP
  client has a timeout, statements have a context), the process is restarted
  when it is down, and time passes. Nothing is assumed of senders or of faults.
* `SendTx`: each transaction's next statement is executed once the lock it waits
  for is free. Requests need not begin.
* `SseHub`: goroutines that can go on do. Senders, browsers and the network may
  stop at any time; a publisher blocked on a channel is not enabled.
* `FeedClient`: effects run and a repair request that does not fail is answered
  and dispatched; failures are bounded. Nothing is assumed of the stream, of the
  first page or of history.
* `GoldenPublish`: a publisher that can go on does; flock wakes a waiter. Commands
  need not be given, and a process may crash.

## 5. Proofs

Every safety property of the passing runs is a theorem, for all values of the constants that satisfy the named assumptions of the modules
(`ConstantsAssumption`, `RequestsAssumption`, `FeedAssumption` and so on, which
TLC evaluates in the runs). Each proof is an inductive invariant, one lemma per
action that disturbs it, and the property as a consequence; TLC checked the
invariants on the runs before they were proved.

### The index

`IndexWorkerProofs` proves `Spec => []IInv` for any number of messages, any token
counts, limits, attempts and faults. `IInv` adds to the type invariant what the
first properties lack to be inductive: an unsent row is beyond `sent`; the message
in work is the only one processing while serving; the registers agree with the
rows (the snapshot is the open chunk, or there is none, up to the final
transaction); and a vector stands next to exactly the closed chunks. The
snapshot's part is the heart of it: the text was read before three remote calls,
and no other action changes the open chunk in between, because there is one
worker and a seed build never runs beside it. Three further layers rest on it:

* `ChunkInv` adds that the candidate in hand is the one that was asked for and
  fits when it will extend the chunk (`CandidateInHand`). A write of the chunks
  then is one of three forms, and each keeps `ChunkChain` and `ChunksWithinLimits`.
* `LossInv` says what a message that was never rescheduled has going for it: rows
  are claimed in order (`ClaimOrder`), so the chunks do not pass it by before it
  is in one (`NotPassed`). Only a retry can come after a later message, which is
  `LossOnlyAfterRetry`.
* `QuietInv` is the refinement's: when no rebuild follows live traffic and the
  model service answers, there is an `n` such that the chunks hold exactly `1..n`
  in order, the live ones of them are done, and what the process has in hand is
  `n + 1`. Under the assumption `Quiet` on the constants, `StepsOfTheLog` concludes
  that every step of `Spec` is a step of `IndexLog` or stutters: crashes, failed
  transactions, claims and model calls stutter, and `CompleteOpenAppend` and
  `CloseAndOpen` are `Join` and `Begin`. `index_restart` satisfies `Quiet`, and
  checks the fairness half of `ImplementsIndexLog` as well.

### The store

`SendTxProofs` holds for any number of requests and channels and any lists of
media. The ordinal properties are not inductive: a committed row is compared with
the rows still in registers. `IInv` therefore says which transaction holds which
row lock (`Locks`), that a transaction with a lock holds one more than the
committed counter and an event id above every committed one (`Registers`), that
the rows lie within the counters (`RowsInRange`) and fill them (`Dense`), and that
a cursor is 0 or the id of a committed event (`CursorIsEvent`). Only `Commit` adds
a row; there the locks exclude every other holder of the two counters, so the new
row is one above the rest in both ordinals and, because the feed lock was held
before the event id was taken, the last in event order too. That is why a
sequence, which guarantees no commit order by itself, is safe here.

`DraftInv` carries the two properties of uploads: a transaction has bound exactly
the prefix of its list that it has executed (`BindingOf`), what it has bound is
unbound in the table and in every other transaction (`Disjoint`), and a request
names only uploads its client was told of (`Named`).

### The hub and the browser

`SseHubProofs`: `DeliveryInv` needs that an open connection's handler stays
subscribed (`OpenSubscribed`) and that nothing is published before it is stored;
then the replay, which reads the stored events after the subscription, and the
channel cover between them whatever `publish` is done with. `RunsInv` is the
argument for `WrittenAtMostTwice`: what a connection is sent is two runs without
repetition, the replay and what the publishers put into its channel, where no
publisher visits a subscriber twice.

`FeedClientProofs`: `FeedInv` says how the three requests can be late. The list
is ascending and below `nextExpected`, the buffer above it (`ListInv`); the rows of
an answer are stored ones in the range that was asked for (`AnswersInv`); before the first
page there is nothing to take back, and history asked for then has no rows
(`PageInv`); and `Accounted` says where each delivered message is. From it follow
`InOrder`, `NoHole` and `LossOnlyByFirstPage`. The reducer's sorting and draining
are proved correct as operators (`Ascending`, `Sorted`, `FirstGap`).

### Golden releases

`GoldenPublishProofs` holds for any number of processes, datasets and faults. The
invariant says that what a command has read names a release id (`Jobs`), that the
directory a publisher has created carries its mark and stays whole until the
publisher itself removes it, and that a publisher in the clean-up, once it has
found that CURRENT does not name its directory, will not see it named later
(`Owners`): only the process whose mark is on a directory can swap the pointer to
it. That is why `PointerWhole` needs no lock, only a clean-up that can read CURRENT
(`blind`). `PublishedKept` needs the lock too: with two
publishers inside, an interrupt after the first one's swap finds CURRENT moved on
by the second and removes a published release, against the docstring of
`atomic_publish_versioned_release` ("Prior releases remain untouched and readable
at all times", `builder.py:703`). The property is therefore stated, and proved,
for histories in which the lock has excluded (`Exclusion`) and no clean-up was
blind. `AuditedOnly` follows
from the stage a release was published in and from what its reader has resolved.
`ApprovedFaithful` holds because a promotion copies what it validated: the candidate
is the directory it named, whether that was ever CURRENT or not.

### The offline tools

`OrderFacts` has what the ranks need: among numbers there is a least one, and the
ranks of a finite strict order are `0..n-1`, each taken once. It also has what the
folds need, for any way to pick the next element of a finite set: the function a
fold is defined by exists (`FoldExists`), and it keeps to sets that grow with the
elements taken (`FoldWithin`). A fold over a set, a sequence or a function is an
instance once its picking and its step are written as functions. Where such a
proof needs an induction it takes the smallest counterexample.

`CorpusProofs` is about `SeedingSpec` and `CorpusSpec`:

* `WrittenInv`: once the messages are written, they are those of the raw corpus
  that is there. `RanksAreCausal` is then a fact about `MessagesFile` of any raw
  corpus: the keys of two messages differ, so the ranks number them; the session
  comes before the date in the key; and dates that run backwards between two
  sessions do so between two neighbours among them.
* `ServingInv`: every file a media row refers to is there, whole or not; the bucket
  has only whole objects; and what is missing in it is in the list a seeding start
  still works off, where a partial file ends the start, or is owed by one that
  has ended (`owed`).
* `OrdinalsInv`: the files' ranks have no hole unless the file is a part, being
  written or left so. The two ordinals of a row are equal and not above the
  counters (`Placed`), and every ordinal up to the counters is that of one row,
  unless a seed has read such a part (`Dense`). A seed that moved a row would, at
  the first such row, meet the row that has the place: it collides. A live row is
  named by its ordinal, which `Placed` keeps even with holes.

`OfflineProofs` is about `VisualSpec` and `GoldenSpec`:

* `ArtifactInv`: while nothing is spoiled, the builds that run have one input, the
  matrix and the index are those of that input or of the manifest's, and an
  import that is under way has validated a matrix of its own rows. The attempt to
  prove this showed that an import between a build's index and its manifest pairs
  a new index with vectors of the old input: `ImportEmbeddings` now records it.
* `GateInv`: the rows the gate meets are as they were made but for the split, so
  their hashes are their own, and the gate changes a row only as `Gated` says.
  `DialoguesStayTogether` is the part of `SplitSound` about dialogues.
* `SplitInv`: from tier A on the first `TierACount` rows meet the quotas; after
  `AssignSplits` the dev rows are as planned and no small cluster is cut, for the
  clusters that were read then, and the gate and the judgment keep rows in their
  stratum, dialogue and split; or there is no split at all. It needs `GateInv` (the
  rows at the gate are as made) and that the corpus has finitely many messages,
  which follows from `WrittenStep` of `CorpusProofs`. What the steps establish
  are theorems about the operators:
  * `TierAMeetsQuotas`: no stratum is ever above its quota, so while fewer rows
    are labelled than the quotas add up to, some stratum has room. It is among
    the wishes of every question or it is `vlm_dependent`, which takes what fits
    nowhere. At the end the counts are below the quotas one by one and equal in
    sum, so they are the quotas. This needs the two things
    `GoldenAssumption` says: the quotas are of those seven strata, and they add up
    to `TierACount` (`tier_a.py:144`, `:161`).
  * `ComponentsJoin`: while the union-find joins roots its parents stay a forest (a
    height falls towards the root), so `find` ends at one root for each element,
    and an edge whose ends were joined keeps one root through later joins. Nor does
    a join mix a set that no edge leaves with the rest, so the components are
    just the linked dialogues.
  * `SearchRight`: by induction from the last place. The three cuts lose nothing,
    because more components never have fewer rows: a choice that is too large
    only grows, one that stays too small with all the rest cannot reach the
    number, and one that has the number already has all its rows.

### Only model-checked

* Liveness, and with it the fairness half of `ImplementsIndexLog`
  (`EventuallySettled`, `EventuallyAnswered`, `EventuallyDelivered`,
  `AlwaysRepaired`, `PublisherEnds`): fairness and ENABLED are out of the prover's
  reach.
* What the recursive definitions compute is proved as far as the properties need
  it. The library's induction theorems take an operator as a parameter and
  cannot be instantiated, so each proof argues from a least counterexample
  (`LeastNat`, `PickInduction` of `OrderFacts`).

## 6. Not modelled

* Rendering, request parsing, content types, media downloads, tensors, hashing
  and formats; the migration, which runs alone under an advisory lock; the
  membership predicate, which is a pure filter of every read.
* Several server processes on one database, which the worker excludes
  ("single-worker restart contract", `indexing.go:71`).
* The image queue: one worker, the oldest pending row, one upsert; the only
  question it raises is fairness among rows, and the repository promises none.
* The composer and the trace log: see the list below. A record of the trace is
  one append under a lock; metrics, capability and viewer are functions of a file.
* The segment-gap experiment, which no part of the system calls; configuration
  and manifests: validation, a hash and one file write.
* Of the modelled tools: copied raw fields, reports and orphan rows of the
  corpus; perceptual hashes and the distractor report of the visual build; the
  index manifest of phase 3; query wording, provenance and the stand-alone
  freezing of one tier of the golden set, which repeats a stage and writes it.

Known hazards that no property covers, because no text of the repository says
what should hold or because the part is not modelled:

| Where | What |
|---|---|
| `persistence.go:432` | after the commit, `Send` still reads the attachments: if that fails the client is told of an error although the message is stored |
| `persistence.go:513` | objects whose row was never inserted, and expired drafts, are never removed |
| `index_worker.go:88` | a pending image that always fails holds back every later one |
| `Composer.tsx:52` | upload results are matched to drafts by file name |
| `Composer.tsx:108` | a send clears the text and drafts that exist when its answer arrives |
| `trace/writer.py:23` | a reader takes no lock and may see half a record |
| `server.go:197` | a failed replay answers 500, on which a browser gives the stream up |
| `builder.py:792`, `:1103` | only the pointer is synced to disk, which a power failure would show; a promotion without an id takes whatever CURRENT names, an approved release too |
| `useFeed.ts:52` | an early history request hides the button for older messages |

Five statements of the repository are stated as properties that do **not** hold of
the code as it stands. A passing run has the property that holds apart from the
named exception; the configuration in the first column is the statement without
it, which TLC violates. Run it with the module in brackets.

| Configuration | Property | The text | How it fails |
|---|---|---|---|
| `MCSeedShort` (`MCOffline`) | `AppendOrderIsStable`, against `OrdinalsStay` | "chronological_rank is the stable append order" (`seed.go:59`) | A start seeds a `messages.jsonl` that a build is writing, or left short: message (1,2,0) is in it and the one of channel 2 ranked before is not, so ordinal 1 is free and (1,2,0) has 2. The raw data change so that channel 2's message comes later; the next seed moves (1,2,0) to 1. |
| `MCVisualStale` (`MCOffline`) | `EmbeddingsNeverStale`, against `VectorsAreTheirMedia` | "Reject an artifact before a downstream phase can consume stale visual state." (`pipeline.py:275`) | A build saves a chunk and stops, the encoder is upgraded, the next build takes the chunk over and its manifest names the new encoder; the old vector is imported under it. |
| `MCSseUnseen` (`MCSseHub`) | `OpenMissesNothing`, against `NoLossWhileOpen` | "a connected client must never silently miss an event while its EventSource remains open" (`server.go:238`) | The visibility query of event 1 fails for a connection, event 2 is delivered on it, and its resume point is past event 1. |
| `MCGoldenOverlap` (`MCGoldenPublish`) | `PriorReleasesReadable`, against `PublishedKept` | "Prior releases remain untouched and readable at all times." (`builder.py:703`) | Publisher 1 unlocks, 2 opens the lock file, 1 unlinks it, 2 locks what is unlinked, swaps CURRENT and is interrupted; 3 creates a new lock file and swaps CURRENT; 2's clean-up finds CURRENT naming another release and removes its own, which was published. |
| `MCGoldenBlind` (`MCGoldenPublish`) | `ReadersFindRelease`, against `PointerWhole` | "Readers observe either the complete old release or the complete new release" (`builder.py:719`) | An interrupt right after the swap, and a clean-up that cannot read CURRENT: it removes the release CURRENT names. |

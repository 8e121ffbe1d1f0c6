# burn-lm: TLA+ models of the serving engine

burn-lm serves language models from a Rust process. Requests arrive over HTTP or from the
command line; a *batching channel* hands them to one worker thread that owns the model and
advances up to `max_slots` sequences together, one token per round; a *paged KV cache* stores
what the sequences have processed in fixed-size blocks taken from a shared pool; an *emission
thread* turns tokens into text for the callers. Models without batching are called under a
mutex. Beside that, a process loads weights from several kinds of files, keeps a cache directory
other processes share, chooses an attention kernel, and is itself rebuilt and restarted by a
supervisor when the user changes its backend.

This directory models the parts whose correctness rests on the order of steps and on
bookkeeping. TLC checks the models on small instances; TLAPS proves, for all values of the
constants, every safety property the passing runs check: of the worker with both its refinements,
the front of the channel, the delivery of text and replies, the paged cache from the block ledger
to what a token attends to, the attention kernel against its reference, the locks, panics and
streams of the HTTP server, the sizing of the served cache, the cache directory and the weights
loaded from it, the supervisor, direct generation and the UTF-8 buffer. Liveness stays with TLC.

## 1. Inventory

| component | source | state it keeps | operations | hard behaviour |
|---|---|---|---|---|
| Batching worker | `burn-lm-inference/src/channels/batching/worker.rs` | queue, active batch, evicted sequences (`resume`), the model server | receive a command, admit, resume, sweep cancellations, grant KV growth, run a round, ship its tokens, retire | three places a request may wait; pausing and eviction; clients submit and cancel at any point of a turn; panics |
| Step round, KV budget | `burn-lm-inference/src/batching.rs` | `ActiveSeq` (slot, processed, generated, reservation, flags), the round's prefill budget | classify, chunked prefill, fused decode, advance or fail | one fused call fails all its rows; budgets; limits at zero |
| Batching channel | `.../batching/mod.rs` | worker handle, permits in flight | submit, lifecycle commands, respawn a dead worker, drop | callers racing to respawn; permits on every path |
| Emission thread | `.../batching/emission.rs` | per request: decoder of partial UTF-8, reply channel | Admitted, Tokens, Retire, disconnect | replies may not overtake text; slow listeners |
| Jobs and handles | `burn-lm-inference/src/job.rs` | cancel signal, item channel, listener thread | submit, cancel, wait, join | a listener that blocks, a caller that leaves |
| Mutex and passthrough channels | `.../channels/{mutex,passthrough}.rs` | the mutex, its poison | every server call | a panic poisons it for good |
| Chat store, handlers, application | `burn-lm-http/src/` | current model; per stream the frames under way | switch model, list models, plain and streaming chat, heartbeat, disconnect watcher | switching under load, synchronous calls on runtime threads, clients that leave or stop reading |
| Block pool | `burn-lm-paged-kv/src/block_pool.rs` | free stack, a block table and a length per lane | `begin_round`, `free_lane` | refusal half way through a round of several lanes |
| Paged KV cache, block store | `burn-lm-paged-kv/src/{cache,block_store,kv_cache}.rs` | the pool, K and V cells of every layer | `prepare_lanes`, write, gather, reset | reused blocks with stale or never-written contents |
| Llama decoder, transformer | `burn-lm-llama/src/nn/` | the cache | prefill, decode, release, reset; `forward_lanes` | worker and decoder count separately |
| Paged attention | `burn-lm-paged-kv/src/attention.rs`, `burn-lm-paged-attn/src/` | route forced per thread, launch counter, process-wide output scale | route a round, launch the kernel, merge its planes, self-check | no mask in the kernel; geometry per device; the self-check perturbs shared state |
| Model servers, registry, macros | `burn-lm-llama/src/server/`, `burn-lm-registry`, `burn-lm-macros` | configuration last parsed, the loaded model | parse, load, unload, admission's questions | configuration and loaded cache disagree |
| Direct generation | `burn-lm-llama/src/generation/` | token buffers, decode threads, lanes | `generate_batch`, streaming decode | failures in one round, decode threads that panic, text held back |
| UTF-8 buffer | `burn-lm-inference/src/utf8.rs` | pending bytes | push, finish | characters split over tokens |
| Weights, presets, import | `burn-lm-llama/src/nn/llama/` | cache directories on disk, shared by processes | download, resume, load, convert, delete | crashes between steps, two processes at once, silent wrong layouts |
| Command line | `burn-lm/src/main.rs`, `burn-lm-cli` | `burnlm.config`, the source tree | supervise, change backend or dtype, `new`, download, delete | restarts, several shells, partial writes |
| Tokenizers | `burn-lm-llama/src/tokenizer/` | none | encode, decode | characters split over tokens |
| Benchmarks, examples, build tasks | the rest | none of interest here | | |

How they interact. A caller *sends* a `Submit` command over a queue to the worker thread and
waits on a reply channel. The worker *calls* the server (borrow the decoder, tokenize), the
decoder (prefill, decode, release) and, through it, the block pool; all of these run on the
worker's thread. It *sends* Admitted, Tokens and Retire events to the emission thread, which
feeds the caller's listener and finally its reply channel. A cancel signal is shared memory
that any thread may set and that the worker reads once per round and at admission. The HTTP
handlers are tasks on a runtime's threads; some of their calls into a channel are synchronous
and keep the thread. Processes meet only in files: the caches of weights, the configuration and
the source tree.

What makes each component correct:

* worker: every request is answered exactly once, whatever happens; what is promised exists
  (reservations fit the pool) and what is used was promised; the oldest sequence always makes
  progress; streams survive an eviction without a gap;
* block pool: every block has exactly one owner; a refused round leaves no trace;
* cache and kernel: a token attends to its own sequence's history, all of it and nothing else,
  whatever the route and the geometry;
* decoder seam: the worker's count of processed tokens is the lane's length;
* channel: permits are exact, one worker runs at a time, every call returns;
* emission and handles: the text is whole and precedes the reply, which fires once;
* HTTP: streams are well formed, no job is decoded without its model's weights, every request
  whose generation ends is served, a client that leaves does not leave its job behind;
* servers: nothing is admitted that the loaded cache cannot hold;
* files: nothing torn is taken for whole, and what is loaded is what was stored;
* supervisor: what the user asked for is what runs next, as far as there is a build of it.

## 2. Modules

```
KvBudget ──┬── BatchWorker ── WorkerProperties ──┬── MCBatchWorker
           │                                     └── WorkerProofs ── RoundProofs
           ├── KvLedger  (abstract specification; instantiated by both Properties modules)
           └── BlockPool ── LlamaDecoder ── CacheProperties ──┬── MCLlamaDecoder
                                                              └── CacheProofs

WorkerPort  (instantiated by WorkerProperties) ── Delivery ── DeliveryProperties ──┬── MCDelivery
                                                                                  └── DeliveryProofs

SubmitGate ──┬── MCSubmitGate
             └── SubmitGateProofs

ModelChannels ── ChatServer ── ChatProperties ──┬── MCChatServer
                                                └── ChatProofs

Utf8Buffer ── DirectGeneration ──┬── DecodingProofs
PagedDecode ─────────────────────┤
                                 ├── MCLocal
PublishedCache, RepoFetch ───────┤
ModelWeights, Supervisor ────────┤
ServerSizing ────────────────────┴── LocalProofs
```

### The worker and its cache

**KvBudget** has the block arithmetic both sides of the seam compute for themselves
(`KvBudget::blocks_for`, `BlockPool::blocks_for`).

**BatchWorker** is the worker thread and the clients around it. A turn of `worker_iteration`
is a sequence of phases: Poll (drain the channel), Resume and Admit (`admit`), Sweep, Senior
and Grow (`step` up to and including `grant_kv_growth`), Round, Prefill, Decode
(`step_round`), Ship and Retire (the rest of `step`). Every iteration of a loop is a step of
its own, so a client's submit, cancel or lifecycle command can fall between any two of them.

| model | code |
|---|---|
| `channel` | the mpsc queue of `Command` |
| `queue`, `active`, `resume` | `queue`, `active` (with `metas`), `resume` of `spawn` |
| `seq[j]` | the `ActiveSeq` and `JobMeta` of job `j`, or its `ResumedJob` |
| `lane[s]` | `lane_len` of decoder slot `s` |
| `loaded` | whether the server holds an instance |
| `sent[j]` | what the emission thread has been told about `j` |
| `signalled` | fired `CancelSignal`s |
| `phase`, `cursor`, `budget` | the program counter, the loop index, `PrefillBudget.remaining` |

A sequence's tokens are abstracted to their number. Which sequence hits a stop token, fails to
tokenize, or suffers a failing forward is a free choice; the constant `Env` says which of the
choices a run makes. A borrow of the decoder (`Borrow`) loads the model lazily; a failing
borrow (`BorrowFails`) is the server having no instance to lend, in which case its lanes are
gone too. A panic anywhere in the turn (`Panic`) unwinds to the boundary in `spawn`; everyone
still waiting is answered `WorkerDied`, and the next request starts a fresh worker (`Respawn`).

**KvLedger** is the abstract specification of the cache: a length per lane, and three kinds of
step: one lane grows by a prompt, several lanes grow by one token, some lanes become empty.
Its bound `Fits` says that the lanes never need more blocks than there are and never pass the
context window. It is shown twice: the block pool *implements* it, and the worker *uses* its
decoder within it.

**BlockPool** is `begin_round` and `free_lane` with the free stack in its real LIFO order;
each iteration of the growing loop and of the rollback loop is a step. **LlamaDecoder** adds
the callers, the transformer's `forward_lanes` as a write and an attention, the rotation
position of each lane's tokens, the plan (`prepare_lanes`: mask, gather index, write index,
lengths) and the cells. A cell holds the *identity* of the token written into it, so "which
token's K and V would attention read here" is a question the model answers. One store stands
for the K and V store of every layer (all are addressed by the same plan, in the same order);
the plan is read off the ledger, which does not move between `begin_round` and the end of the
forward (one thread, `&mut self`); and when a lane is emptied its cells, whose bytes the code
keeps, are relabelled `Departed`, because the identity `[lane, pos]` is about to be used again.
A cell nobody ever wrote is `Unwritten` (`Tensor::empty`), the sentinel's cells are `Zero`.

### Delivery and the channel's front

**WorkerPort** is the contract between the worker and the emission thread: what may be said of
a request, and in which order. The worker is shown to keep it (`KeepsPort`, with `sent` as the
refinement), and **Delivery** takes its worker from it, so that what is shown of the delivery
holds for the tokens and replies the real worker sends. `Delivery` is everything between the
worker and a caller: the channel of `EmissionEvent`s, the emission thread, each request's UTF-8
cursor (`held`), the unbounded channel to each listener thread, the listener, the one-shot reply
and the caller in `run_job` and `join`. `finish` takes two steps, the flush and the reply. A
listener may block for ever or panic.

**SubmitGate** is the front of the channel: `submit` and `request` one shared access at a time
(`fetch_add`, the shed, `sender()` under its mutex, `send`, the wait), with any number of
callers, and the life of a worker thread as they see it: up, panicked with its queue answered,
its receiver dropped, finished.

### The HTTP server

**ModelChannels** has the registered models behind their channels: a batched model's worker,
which takes commands and jobs between rounds, and a mutex held for the whole of a call; loads,
jobs, panics, poison, cancellation. The batched model's worker is that of `BatchWorker` reduced
to its jobs: queued, in the batch (`Active`), or evicted from it (`Parked`) by an older one that
is short of memory. `Evict` takes the youngest that is not on its way out, with `ahead` for the
order of the batch; how much memory there is, is left open. An unload (`Busy`) asks about the
queue and the batch alone, as `worker.rs:263` does: with only evicted jobs in flight it goes
through, and the weights are gone until `ResumeLoads` borrows the decoder anew, which loads
them. A job that is cancelled while it is evicted is swept once it is back. **ChatServer** adds the chat store with its lock, the
plain, streaming and list handlers as tasks that share the runtime's threads (`Blocking`: a
synchronous call keeps its thread), the bounded channel of a stream's frames, the heartbeat,
the disconnect watcher, clients that leave (`Leavers`) or stop reading (`Dozers`), and
generations that need not end (`Endless`). **ChatProperties** states what clients are promised.

### Beside the server

**Utf8Buffer**: bytes by class (ASCII, leads of two, three and four bytes, E0 apart,
continuations below and from A0, bytes of no character), `push` and `finish`, against decoding
everything at once. **DirectGeneration**: `generate_batch` and its rounds, the decode thread of
each sequence with its channel, the streaming decoder with its overlap, for both kinds of
tokenizer (`context` 0: every token decodes alone, and half a character panics; more: an
overlap is re-decoded).

**PublishedCache**: download, load (which leaves a burnpack copy) and delete, as processes over
files that are inodes with blocks, so that a write to a file removed meanwhile is lost and two
writers share a file. **RepoFetch**: one file fetched with ranges, retries and a partial file,
against a server that may honour, ignore or refuse a range and cut a body short.

**ModelWeights**: what a checkpoint's tensors become on each loading path. A tensor is what the
file has it for, its layout, its width, its element type and, for queries and keys, the order
of its channels; `PermuteHeads` is the reshape and transpose of the rotary conversion on that
order. `load_hf` runs step by step (config, shard index, tokenizer, copy or weights, save,
rename) in several processes that may die anywhere; a state_dict, a legacy record and a burnpack
record are loaded in one step, their contents judged by the same property. Element types: a
record of another type than the device's may be refused or taken as it is, which is the
library's decision. The repository stays at one revision.

**ServerSizing**: each registered server with its presets' windows, the configuration it parsed
last and the environment, the cache its load builds, and the worker's admission and growth
against what `batch_capacity` says: from the configuration before the load, from the loaded
cache after it. The growth is that of `BatchWorker`, abstracted to one step per sequence.

**PagedDecode**: mode and gates (`Mode`, `Supported`, `Takes`), the launch geometry (`PlaneDim`,
`VectorWidth`, `SlotsOf`, `PlanesPerCube`, `Cubes`), the kernel's cubes with each plane's walk,
the barrier and the merge, fusion's deferred execution, the reference path, and the self-check.
A softmax weight is exact: a state is the maximum, the sum and the accumulator over *which rows
were weighed how*, so rescaling and merging are checked without floating-point. The self-check's
inputs are scaled to one KV head of width 4.

**Supervisor**: argument scan, configuration file, build, run, restart, the shell's backend and
dtype commands, and `new` with its separate writes, in several supervisors over one directory.
`Compiled` is what a build says of itself, which is not the pair of features it was made with: the
command line's `bf16` is the library's `f16` (`burn-lm-cli/Cargo.toml:16`), and `f16` comes first
(`backends.rs:5-12`); a backend without half precision is built with f32; and every variant of a
backend bears the plain name (`NameOf`: `ndarray-blas-openblas` is `ndarray`, `backends.rs:60-70`).

**MCLocal** runs these machines beside each other, a behaviour being of one of them; **MCBatchWorker**,
**MCLlamaDecoder**, **MCDelivery**, **MCSubmitGate** and **MCChatServer** are
the other instances.

Operators marked *Mutant* are deliberate small mistakes in the definition after them (a dropped
guard, an off-by-one, a missing reset). They are used by no specification; substituting one
for its neighbour makes the property it is paired with in `PROJECT.json` fail.

## 3. Runs

Run `tlc -config X.cfg M` in this directory. Runs of the worker, the delivery, the gate and the
HTTP server allow the system to stop (`CHECK_DEADLOCK FALSE`): each of the few requests is made
once, and threads with nothing to do block. The cache and the local machines check for deadlock.

| run | configuration | what it shows |
|---|---|---|
| WorkerElastic (MCBatchWorker) | 2 slots, 3 jobs, 7 blocks of one token; stop tokens and cancellations at any point; fair worker | `TypeOK`; promises fit the pool (`ReservationsFit`) and whoever runs is covered by its own (`RunnersCovered`); through eviction and re-prefill every token is streamed once (`StreamSeamless`); the oldest live sequence is never evicted (`SeniorNeverEvicted`) and advances in every round, but in the shadow of a cancellation (`OldestAdvances`); the decoder is used within the ledger (`ImplementsLedger`); every submitted request is answered (`EveryoneAnswered`) |
| WorkerFaults (MCBatchWorker) | 3 slots, chunks of 3 under a round budget of 2 tokens; cancellations, failing forwards, the model lost mid-turn, a panicking worker | a request is in one place until it is answered, once (`NobodyLost`); what it hears keeps the order the emission thread is built on (`KeepsPort`); a lane holds exactly what its one owner processed, an unowned lane nothing (`LaneLockstep`); prompts are served oldest first (`PromptsInOrder`) |
| WorkerReserve (MCBatchWorker) | Reserve admission; an empty prompt, a request for zero tokens, one without limit, one that can never fit; Load, Unload, ClearState, Shutdown at any time | finish reasons are true (`ReasonHonest`); an unload takes the model only when nothing is in flight, which under Reserve no eviction can hide (`UnloadOnlyWhenDrained`) |
| PagedCache (MCLlamaDecoder) | 3 lanes, 4 blocks of 2 tokens, window 3, chunks up to 2 | every block in exactly one place at every step of a round and its rollback, tables that cover lengths exactly, refusal only when blocks are missing (`OwnedOnce`); a live lane's blocks never move (`HeldBlocksStay`); the pool implements the ledger (`ImplementsLedger`); each new token sees exactly its own history on both routes, nothing unwritten and no neighbour's token (`AttendsOwnHistory`) |
| Delivered (MCDelivery) | 2 requests of up to 2 tokens, one with a listener that may panic; the worker may vanish at any point; fair emission thread and callers | `join` returns the whole text in order (`JoinReturnsEverything`); the reply is sent once, to a caller that waits, and is the worker's first word (`ReplyOnceAndAwaited`); every answered caller wakes whatever the listeners do (`RepliesReachCallers`) |
| Submitted (MCSubmitGate) | 3 submitters and one other request, a queue of 2, 2 workers that may both die; fair threads | the permit counter is exact and the queue bounded (`PermitsExact`), one worker runs at a time (`OneWorkerRuns`), nobody is handed a finished one (`NeverBricked`), every call returns (`EveryCallReturns`) |
| Served (MCChatServer) | two streams and a plain or list request, over pairs of a batched and a mutex-served model, both of which may panic; or two jobs in one batch and a switch away from their model; one runtime thread, one frame per stream channel; one client may leave or stop reading; the younger of two batched jobs may be evicted at any time | locks are where the handlers think (`LocksHeld`), streams are well formed (`SseWellFormed`), panics stay with their model (`PanicsContained`), no job is decoded without weights (`WeightsStay`; a switch while only evicted jobs are in flight does take the weights, and they are loaded again before one goes on), every request whose generation ends and whose client reads is served (`EveryoneServed`; but for a job evicted again and again by a generation without end), a client that leaves does not leave a batched generation running (`DisconnectStops`) |
| Local (MCLocal) | the machines of the last subsection | incremental decoding equals decoding at once (`TextExact`); a batch returns every lane and complete text, and panics for a cause only (`ReturnsComplete`); no torn burnpack copy is ever read (`CopyWhole`); a file in place has arrived whole (`TargetWhole`, one process); the loaded cache holds all that is admitted (`ServedFits`); what a shell asked for is what the next build runs (`RestartShows`; bf16 as f16, either as f32 without half precision, variants under the plain name); kernel and reference read the same attention on every geometry that is accepted (`DecodeExact`); the self-check tells a right kernel from a wrong one and leaves no trace in what is served (`CheckHonest`); every load that returns has the right weights (`WeightsRight`) |
| FindUnload (MCBatchWorker), FindSplit, FindLeft, FindPart (MCLocal) | see section 6 | violations of what a comment in the code says |

**Bounds and why they are enough.** The worker's interesting behaviour needs one sequence
that is oldest, one that is paused because it cannot grow, and one that is evicted, which then
waits while another runs: three jobs over two slots reach all of it; three slots are used where
the order among several prefills matters. Pool sizes are chosen so that any two sequences fit at
admission and no two fit at their worst case. `MaxChannel` bounds the commands waiting; commands
are taken one at a time, so a longer queue adds only more of the same order. For the pool, a
refused round must fail on its second or third lane with at least one lane to roll back, and
blocks must be reused by a lane other than their first owner: three lanes over four blocks do
both, and sequences end inside a block and at the window's edge. For the delivery, two requests
are enough for one to stall, outlive or be answered before the other, and two tokens
(`MaxTokens`) for one to be held back behind or before a delivered one. For the gate, three
submitters overfill a queue of two while one sheds, and two workers (`MaxWorkers`) allow a death
and a replacement, and a caller that finds no replacement can be spawned. For the HTTP server,
one runtime thread is the hardest case for synchronous calls, one frame (`PipeSize`) for
backpressure, one comment (`MaxBeats`) and one piece of text (`MaxText`) for their order; two
models are enough for every switch, and `QueueDepth` 1 for the overload check to be passed by
two requests. An eviction needs two jobs in one batch, and an unload that meets only evicted ones
a third request, which asks for the other model while one job is evicted and the other has ended
(`Trio`). `MaxBytes` 5 holds a four-byte character with a byte before or after it. `SampleLen`
4 exceeds the streaming context, which Local has as 3 where SentencePiece's is 4 (`Contexts`). `MaxCommands`,
`MaxFetches` and `MaxLoads` 3 let two processes meet over what a third run left; `Attempts` 3 of
8 has a first, a resumed and a last one; `FileSize` 3 has a beginning, a middle and an end.
`MaxLaunches` 4 has the self-check's launches and a serving one in between. Heads of four and six
channels tell the three channel orders (of Hugging Face, of Meta, permuted twice) apart, which
a head of two would not. Two shells and two crates (`Crates`) are enough for one to undo the
registration of another; a new crate is followed beside shells that no argument forces to
anything, and a second one while there is no configuration file either (`FewCrates`): settings and
the source tree are changed by separate commands, and arguments only replace settings. A variant
of a backend is saved while at most one shell is up (`LoneVariants`): what two shells do to the
file does not depend on which backends it names.

**Fairness.** `FairSpec` of the worker assumes weak fairness of the worker thread's steps: it
can always run, and blocks only in Poll on an empty channel. Clients owe nothing. No fairness
is assumed of the choices inside a step (which sequence stops, which fails). In `Delivery` the
emission thread and the callers are fair, the worker and the listeners owe nothing. In
`SubmitGate` the callers, a running worker and a dying one are fair; panics and failing spawns
are never required. In `ChatServer` each request's own progress is weakly fair as one action
(`Progress(r)`): its task, its job and its listener thread run when they can; a client reads
unless it is a dozer, and a generation ends unless it is endless. A request's progress cannot
go in circles, because the counters of comments and text are bounded. An eviction is never
required. An evicted job is taken up when nothing is left in the batch (`Return`), where its full
reservation always fits; before that it may be or not.

## 4. What is proved

`WorkerProofs`, for every set of jobs, prompt and request lengths, number of slots, pool,
chunk and token budgets, both admission policies, and every choice of what may fail (`Env`):

* `TypeCorrect`: `Spec => []TypeOK`;
* `NeverOverdrawn`: `Spec => []ReservationsFit`, the bound on which the unsigned subtraction
  in `grant_kv_growth` (`total - reserved`) depends;
* `NobodyEverLost`: `Spec => []NobodyLost`: a request is in exactly one place until it is
  answered, and nowhere after, through panics and respawns;
* `PortAlwaysKept`: `Spec => KeepsPort`: what the worker says refines `WorkerPort`, from which
  `Delivery` takes its worker, so that the theorems about the delivery hold of this worker;
* `StreamsAlwaysSeamless`: `Spec => []StreamSeamless`;
* `ReasonsAlwaysHonest`: `Spec => []ReasonHonest`;
* `SeniorAlwaysStays`: `Spec => SeniorNeverEvicted`.

`RoundProofs`, likewise:

* `LanesAlwaysInStep`: `Spec => []LaneLockstep`: the assertion in `LlamaDecoder::prefill` holds,
  and no prompt ever finds another's tokens in its lane;
* `RunnersAlwaysCovered`: `Spec => []RunnersCovered`: "pool exhaustion is unreachable for live
  sequences" (`batching.rs`);
* `WorkerImplementsLedger`: `Spec => ImplementsLedger`, the refinement of `KvLedger` by the
  worker's use of its decoder; with `PoolImplementsLedger` both sides of the seam are proved to
  keep the same ledger;
* `PromptsAlwaysInOrder`: `Spec => []PromptsInOrder`;
* `OldestAlwaysAdvances`: `Spec => []OldestAdvances`;
* `UnloadsOnlyWhenDrained`: `Spec => UnloadOnlyWhenDrained`, if admission is Reserve and no
  borrow of the decoder fails. Both hypotheses are needed: FindUnload (section 6) breaks the
  property under Elastic admission, and a failing borrow is a server that lost its model.

`SubmitGateProofs`, for every set of callers, queue bound and number of workers:

* `AtMostOneWorker`: `Spec => []OneWorkerRuns`;
* `ChannelNeverBricked`: `Spec => NeverBricked`;
* `PermitsAlwaysExact`: `Spec => []PermitsExact`, the counter that no path may leak upward or
  take below zero, and the bound on the waiting jobs.

`DeliveryProofs`, for every finite set of requests, every set of them whose listener may panic
and every length of text:

* `RepliesOnceAlways`: `Spec => []ReplyOnceAndAwaited`: the one-slot reply channel is empty and
  awaited when something is sent into it, and what a caller is answered is the worker's first
  word on its request;
* `JoinAlwaysReturnsEverything`: `Spec => []JoinReturnsEverything`: a `join` that returns gives
  the whole text the worker streamed, in order.

`CacheProofs`, for every number of lanes and blocks, every block size, window, chunk and number
of kernel planes:

* `OwnedOnceAlways`: `Spec => []OwnedOnce`: a block has one place at every step of a round and
  of its rollback, tables cover lengths, and a refusal is justified;
* `HeldBlocksAlwaysStay`: `Spec => HeldBlocksStay`;
* `PoolImplementsLedger`: `Spec => ImplementsLedger`, the refinement of `KvLedger`;
* `AttendsOwnHistoryAlways`: `Spec => []AttendsOwnHistory`: each new token reads exactly the
  history of its own sequence, through the mask and through the kernel.

`ChatProofs`, for every set of requests, models and clients, every queue depth and pipe, and
every number of runtime threads:

* `LocksAlwaysHeld`: `Spec => []LocksHeld`: no panic leaves a lock behind, and a model's server
  is busy exactly for a load or, under a mutex, a job;
* `PanicsAlwaysContained`: `Spec => []PanicsContained`;
* `WeightsAlwaysStay`: `Spec => []WeightsStay`: no job is decoded without weights. An unload
  leaves those of the jobs in the batch; an evicted job may lose them, and has them loaded before
  it goes on. Nothing is promised of its cache, which an eviction empties anyway;
* `StreamsAlwaysWellFormed`: `Spec => []SseWellFormed`: the two senders of a stream never put
  its frames out of order or leave text behind the statistics.

`LocalProofs`, machine by machine:

* `ServedFitsAlways`: `SizingSpec => []ServedFits`, for every window, block size, set of
  configurations, environment and request, every server, and every sequence of parses, loads,
  unloads, admissions, rounds and panics: slots handed out are lanes of the loaded cache, the
  tokens written fit its pool, nobody runs without a model, and what admission assumed before the
  load is what the load then builds;
* `CopyAlwaysWhole`: `CacheSpec => []CopyWhole`, for every set of processes and number of
  commands: the burnpack copy a load prefers is whole, whoever downloads, loads, deletes or dies;
* `TargetAlwaysWhole`: `FetchSpec => []TargetWhole`, for every file size, number of attempts and
  server, if one process fetches at a time. The hypothesis is needed: with two the property is
  false, which is the run FindPart (section 6);
* `RestartAlwaysShows`: `SupervisorSpec => []RestartShows`, for every set of shells, backends and
  their names, half-precision backends, crates and arguments. It says which dtype a saved one
  becomes, not that it is the one saved; and it speaks of the crates whose registration no other
  shell's edit undid;
* `WeightsAlwaysRight`: `WeightsSpec => []WeightsRight`, for every set of processes, repositories
  and weight files, every number and width of heads: what a load returns has each weight of the
  file, of the right layout, its queries and keys in the order the rotary encoding expects.

`DecodingProofs`:

* `BatchAlwaysComplete`: `DirectSpec => []ReturnsComplete`, for every batch, sample length,
  vocabulary and context size;
* `TextAlwaysExact`: `BufferSpec => []TextExact`, for streams of every length: what the buffer has
  returned is the decoding of the bytes, however they were cut into tokens;
* `DecodeAlwaysExact`: `DecodeSpec => []DecodeExact`, for every set of devices, geometry, block
  table, score and number of threads that decode: kernel and reference attend the same
  positions, each of them once, however the blocks are shared between the planes of a cube;
* `CheckAlwaysHonest`: `DecodeSpec => []CheckHonest`, likewise: the self-check's verdict says
  what happened, and its injected error is gone when it ends.

Assumptions, each a named ASSUME that TLC evaluates on the runs' instances. They are what the Rust
types and the constructors' assertions give.

* `KvBudgetAssumption`: a block has at least one token. `WorkerAssumption`: the constants have
  their types. `UnlimitedAssumption`: the budget of a decoder that accounts for no KV
  (`usize::MAX` blocks in `KvBudget::unlimited`) is more than its lanes can fill; only
  `RunnersAlwaysCovered` and `WorkerImplementsLedger` use it, and only for such a decoder.
* `GateAssumption`: likewise types, and a submitter is not a requester.
* `BlockPoolAssumption`, `LlamaDecoderAssumption`: sizes are natural numbers, a kernel has at
  least one plane.
* `DeliveryAssumption`, `ChannelAssumption`, `ServerAssumption`: requests are finitely many at a
  time, as the live channel ends are; a request asks for a model, for one that is not registered,
  for the list, or is not made; a pipe and a runtime are not empty.
* `SizingAssumption`: the default block is not empty, configurations and variables hold natural
  numbers. `CacheAssumption`: a process's temporary name is none of the files'.
  `FetchAssumption`: the file is not empty, there is an attempt. `SupervisorAssumption`: the
  backends with half precision are backends, the default feature is one.
* `WeightAssumption`: what is in a file belongs to a model with heads of an even width, the
  configuration published or preset for it names its number of heads and its rope scaling, and
  each file has a format a loader takes.
* `DirectAssumption`, `ByteAssumption`: types.
* `DecodeAssumption`: a device reports natural numbers, of no more than 2^16 wanted planes
  (`MaxBits`, by which the powers of two are bounded), a round has at least one lane with at
  least one token and a table with blocks for all of it, and no score is as low as the sentinel
  an empty maximum starts from.

*The worker.* The inductive invariant is `Inv == TypeOK /\ ReservationsFit`. Neither half is
inductive alone: the bound is preserved only where the reservations are natural numbers (a
top-up by `Smaller(Worst - resv, Slack)` could otherwise take credits away), and the type of a
reservation is preserved by that top-up only because the slack is not negative, which is the
bound. The sum of the reservations of the active set is written as the cardinality of a set of
credits, one per reserved block. Facts about credits replace
induction over the batch: a sequence joining adds at most its own credits, one leaving adds
none, one that grows adds at most the difference. The proof then goes action by action.

*The requests.* Every later invariant of the worker stands on `Placement`: channel, queue, batch
and stack of evicted sequences repeat nobody and share nobody. It makes `Place(j)` a function of
the state, and each action then moves one request, or all of them at a crash, or nobody
(`Moves`, `Stays`). `NobodyLost` follows, `Held(j)` being the size of sets with one element at
most. `RequestsGood` says of each request what goes with its place: a waiting one has a blank
record and has been told nothing; an active one has a record that fits the phase (`Sound`) and a
stream that fits the record (`Told`); an evicted one the same, as between two rounds; one that is
gone was answered, and honestly (`Honest`). What `Sound` ties to the phase is what the properties
leave open: that nobody is finished between two turns, that in the growth pass only the cancelled
are, that outcomes exist only while a round runs and stop flags only while it retires. So a
record may be forgotten (an eviction, which keeps only the token count) exactly where nothing in
it still counts. Since `StreamSeamless` counts events in a stream, its steps are lemmas on
appending one event (`Telling`, `StreamGoesOn`, `ErrorEnds`).

*The round.* `LanesGood` adds to `LaneLockstep` that without a model the lanes are empty, and that
from the growth pass to the retire sweep a batch always has its model, so that whoever is about
to run has its tokens in its lane (a turn that lost them retires everybody with an error). `CoveredGood`
has the induction behind "covered by its own reservation": a lane never has more blocks than its
sequence reserved (`LanesCovered`), whoever is about to run has reserved the blocks of all its
tokens (`RunsCovered`), because the growth pass has granted them, or paused or finished the
sequence, behind its cursor (`GrantsCover`). The blocks the lanes occupy then map one to one into
the credits, of which there are no more than blocks. A step of the worker leaves the lanes,
empties some, pushes one prompt or advances the rows (`LaneMoves`), and these are the steps of
`KvLedger`. `PromptsGood` is the loop invariant of the prefill loop: behind the cursor a deferred
prompt means that the budget is spent, and from a spent budget nothing is pushed. `OldestGood`
carries from admission to the growth pass that everybody's worst case fits the pool alone
(`AllFit`; a worst case never changes, `WorstIsWhole`): a senior with nobody behind it, and nobody
cancelled, holds all that is reserved, and so can grow (`AloneGrows`). `ReserveGood` says that
under Reserve everybody holds its worst case, so that nobody is ever short and nobody evicted.
TLC checked each of these invariants on the runs' instances before it was proved.

*The gate.* `GateInv` says that a worker whose thread has not finished is the one in the mutex.
`OneWorkerRuns` alone is not inductive: a second running worker outside the mutex's slot would
go unnoticed by `sender()`, which looks at that slot only.

`PermitsExact` needs three more facts. A command is in one place, once: whoever is in a channel,
a queue or the active set of a worker waits on that worker, and the three do not overlap
(`LineInv`). The counter is then the size of one set, `Holders`, and each step takes from that
set exactly the calls whose permits it gives back (`WorkerMoves`, `GivesBack`). And the bound
holds of `LetIn`, the holders the gate did not turn away, rather than of the queue alone: a
caller past the gate will reach the queue whatever the others do.

*Delivery.* `RepliesInv` follows one request through three places at a time: what the worker
has told of it (`told`), the part of that still in the channel (the events about it, a suffix of
what was told: `EventsInv`), and what the emission thread has made of the rest (`ReplyInv`). The
property alone does not exclude a second `Retire` that is still on its way; the invariant says
that whoever is alive for the emission thread has had no verdict so far, so that the first one to
arrive is the first one told. `TextsInv`, inductive relative to it, places every byte: what the
listener has handed over, the items in its channel and what the buffer holds back are consecutive
pieces of the text sent (`InPlace`), the text sent is a prefix of the text streamed (`SentInv`).
`JoinReturnsEverything` is what remains when channel and buffer are empty.

*The cache.* `LedgerInv` treats the free stack and the tables alike, as the holders of blocks:
each is injective, no two overlap, together they have every block. That a round takes blocks one
lane after another and may have to give them back needs the rest: `Covered` says how long a table
is at each moment (its lane's length, or the length it is about to have once the lane has grown),
`GrownInv` that the record of the lanes grown so far is the plan's prefix with the lengths they
had, `CallInv` that the lanes of a round are distinct and stay in the window. Growing, cutting and
emptying are three instances of one lemma on moving the tail of a sequence (`BlocksMoved`).
A refusal is justified because what was taken and what the refused lane lacks are disjoint parts
of what the round wants (`TakenFromWants`), and the rollback keeps the sum of the free and the
taken. `CellsInv`, relative to it, says that a cell holds a token of a live sequence if and only
if its lane's table puts the token's position there: the *only if* is what keeps a neighbour's
tokens out of every gathered cell, and alone it would not survive the reuse of a block.
`AttendsOwnHistory` follows by block arithmetic. The refinement maps the blocks the lanes need
one to one into the pool.

*The HTTP server.* `ChatTypes` carries, beside the types, where a handler may be while its job is
where it is (`StageOK`): no job before the reply marker, a joined one in the epilogue. With it the
locks are inductive. A panic of a model's server ends exactly the jobs in its hands (`CrashEnds`);
that needs `HolderInv`, or a lock left with a finished request would end a finished job twice. What
a client was sent is one sequence, what it has read followed by what is in its pipe, so that
reading changes nothing. `InStep` relates that sequence to the place of the task: sorted, nothing
in it beyond the place (`Highest`), and its text together with the text on its way is what was
said. Each move of the task, the listener, the job and the client is then one lemma about
sequences without primes (`SendsFrame`, `SendsText`, `JobGoesOn`, `ClientLeaves`, ...). A client
that leaves loses what it has not read; that the statistics it did read were preceded by all the
text follows from the order (`FrontOfSorted`). All four are proved of `Spec`, without the fairness
the run assumes.

*Sizing.* `SizingInv` adds to the property that a loaded model is one a loader can return
(`ModelOK`: behind a mutex it has one lane and a pool for its whole window), that every
sequence's length is within its limit and the limit within the window (`LengthsFit`), that a
batched sequence's tokens are within its promise (`PromisesCover`) and the promises within the
pool (`PromisesFit`). The property alone says nothing about the next token written. Lemmas about
the ceiling division and about what each loader returns come first; promises are counted as a
set of blocks, as for the worker.

*The files.* `CopyInv` says of each name who may be writing it. The copy is written under a
process's own name (`OwnTarget`), so no two writers share it, and a name is an inode of its own
(`OneName`), so a file that was removed does not shine through. `CopyWhole` alone says nothing of
the file that is about to be renamed; `CopyGrows` does: what is still to write and what is in the
file are everything. A torn download is one that somebody still has the missing blocks of, or
whose writer died (`Finishes`). `FetchInv` follows the partial file: always a beginning of the
published one (`Grown`), its length is what was resumed and what was received (`Copies`), and an
attempt that comes to the rename has the whole length (`Fits`). With a second process `Fits` is
not preserved, and that is the defect.

*The supervisor.* `SupervisorInv` keeps, as a history, what each shell is entitled to (`claim`:
what it saved, as long as nobody saved since, and the crates it registered). A claim is in the
file or the tree; from the build on, the build has read a file with the claim in it; and the shell
that comes up was compiled with it.

*The weights.* `WeightsInv` says that every module, in a loader's hands, in a temporary file or in
the copy, is good for the repository's weights (`GoodModule`), and that a loader past the tensor
check has a configuration that was judged (`Judged`). What the invariant rests on is arithmetic:
that permuting each head's channels once gives the order the rotary encoding expects, for every
number and width of heads. A head is a block of channels, and the lemmas on blocks say where the
permutation takes a channel of each half of its head.

*Direct generation.* `BatchInv` says, per sequence, that what was generated is what the decode
thread's buffer and channel have (`Flows`), and that what was shown is the text up to where it is
safe to show (`Spoken`); and of the driver where it may be when a thread has ended or died. The
streaming decoder re-decodes an overlap and cuts off what it has shown; that the rest is exactly
the new text is, for text of one-byte characters, a lemma about decoding (`NewTextLetters`); for
others it need not be, which is FindSplit (section 6).

*The UTF-8 buffer.* `BufferInv`: the bytes returned and the bytes held back are the bytes fed, what
is held back is the beginning of a character, and each returned piece *stands*: it is a character,
or a broken sequence as long as the standard's rule makes it, where it is in the whole stream
(`StandsAll`). A piece stands for good (`StandsGrows`): more bytes do not change what a piece was,
which is why decoding early is decoding at once.

*The kernel.* `DecodeInv` says of each operation under way that its launch has the geometry of its
round, and that every plane's partial softmax holds exactly the positions of the blocks it has
drawn, those of its residue modulo the number of planes below its counter, under their greatest
score. The merge joins the planes' shares; since a plane has published only when its counter is
past the last block, the joined share is the whole history, and rows written are right. The self-check
carries by stage what it has seen and at which scale (`CheckSound`); a device's other threads
register nothing before it is over, which is what makes the process-wide scale harmless.

*Induction.* The library's induction theorems take the property as an operator, which the
installed provers cannot instantiate. A property that is a set needs no operator: `Induction` is
proved from the well-founded order of the naturals and used for sequences, texts and blocks. That a
recursive function of a module or of the library exists (`Assembled`, `FlattenSeq`, `FoldLeft`)
is proved by the same means: a function on the places below *n* can be extended by a place.

Only model-checked: liveness (`EveryoneAnswered`, `RepliesReachCallers`, `EveryCallReturns`,
`EveryoneServed`, `DisconnectStops`), which under fairness is out of the prover's reach. Every
other property of the passing runs is proved.

## 5. Plan

1. *done* worker, KV budget, step round, with the decoder's lanes; type and reservation proofs.
2. *done* abstract ledger, block pool, decoder, cells.
3. *done* the worker's port, the emission thread, listeners and callers.
4. *done* the front of the channel; the one-worker rule proved.
5. *done* UTF-8 buffer, direct generation, the streaming decoder.
6. *done* the channels behind the HTTP server, the chat store, the handlers and their streams.
7. *done* cache directory, resumable fetch, loading of weights.
8. *done* model servers and the cache they are given; sizing proved.
9. *done* paged decode with its kernel, routes and self-check; the supervised command line.
10. *done* the exact permit counter and the bounded queue of the gate, proved.
11. *done* the delivery and the paged cache proved, the cache with its refinement; the locks,
    panics and streams of the HTTP server proved.
12. *done* the worker: requests, lanes, coverage, order, the oldest sequence, both refinements.
13. *done* the local machines: published cache, fetch, weights, supervisor, direct generation,
    UTF-8 buffer, kernel and self-check, all proved.
14. The sessions of the command line (chat, run, web) and sampling.

## 6. Findings

Each is a run in which TLC finds the stated property violated.

* **FindUnload**: `Unload` and `ClearState` are refused while work is in flight
  (`worker.rs:260-262`), but the test looks at the batch and the queue only. Evicted sequences
  are neither; the unload succeeds and the model is reloaded when they resume. A switch of the
  HTTP server's current model is such an unload (run Served).
* **FindSplit**: the streaming decoder cuts the new text out of a re-decoded overlap by the
  number of bytes the overlap had (`streaming.rs:50`). A four-byte character given one byte per
  token after a plain one is emitted as replacement characters, although the context of four
  "should be good enough for spacing + utf-8 decoding" (`sentence_piece.rs:55-59`).
* **FindLeft**: `delete` (`pretrained.rs:118`) leaves the burnpack copy of the weights; a later
  download and load reads the stale copy.
* **FindPart**: the partial file is shared by processes; one may truncate it between another's
  length check and its rename (`repo.rs:185`), and the emptied file is put in place.

Smaller things met while modelling, without a run of their own.

* Worker: the branch of the growth pass called unreachable (`worker.rs:603`) is reached when a
  cancelled older sequence still holds its reservation; harmless, the next round recovers.
  Evicted sequences are said to be drained ahead of the queue (`worker.rs:98`), but one that does
  not fit is overtaken by the queue's front job (`worker.rs:325`). `PoolExhausted::short_by` is
  documented as the shortage of the round (`block_pool.rs:32`) and is that of one lane
  (`block_pool.rs:175`).
* HTTP: a switch whose unload was refused still reports the old model as unloaded, and two
  models may be resident. A job that panics under its mutex may have text sent after `[DONE]`.
  A poisoned current model makes every switch and the model list panic.
* Text: with SentencePiece the last tokens of a generation, at most three, are never emitted
  (`context.rs:51-52`); an error return leaves decode threads detached; Tiktoken panics on half
  a character.
* Files: a download cut short under its final name is taken for the model by every later load
  and by `is_downloaded`; a temporary copy of a dead process stays; two deletes at once panic;
  the command line prints "Download complete!" after an error. A range refused (416) is also the
  answer when the partial file is already whole. Loading a fully cached repository still asks
  the network for a shard index (`hf/mod.rs:169`).
* Weights: a `rope_scaling` object without a type loads unscaled (`config.rs:172`), while the
  module's comment says everything but llama3 is refused by name. A `tokenizer.json` of the
  SentencePiece style passes the `<s>` fallback although its bytes are not byte-level.
* Servers: `max_slots` 0 admits nothing; `max_seq_len` 0 divides by zero before the load;
  prefill chunk and budget are said to be resolved at load and are read every round; a worker
  respawned after a panic starts from the default configuration.
* Command line: the supervisor's scan takes any argument that contains `-b` or `-d` for the flag
  (`main.rs:115`). The assertions on the build (`cli.rs:37-43`) compare what was asked for with
  what the build says it is: `-d bf16`, `-b ndarray -d f16` and `-b ndarray-blas-openblas` (or any
  other variant under another's name) always fail them. The shell's `dtype bf16` is accepted,
  saved and built, and comes up as f16; its `backend` with a variant comes up under the plain
  name. Two `new` at once, or one that dies half way, can lose a registration or leave a tree that
  no longer builds.
* Self-check: it leaves its own thread forced to Auto, whatever was forced before.

## 7. Not modelled

Floating-point arithmetic, sampling, autotuning, prompt templates, statistics, serialisation,
routing and wording do not influence the control modelled here and appear as free choices or not
at all. The positional encoding's `prepare` and `shift` are not used by serving. The chat, run
and web sessions of the command line are loops around calls that are modelled. Training, the
echo server, code generation, benchmarks, examples and build tasks have no state that serving
depends on. Third-party code (the tensor library, its record and checkpoint readers, the
tokenizers, the HTTP framework) is modelled from how the code uses it and marked external in
`PROJECT.json`: in particular that a checkpoint stores a linear weight `[out, in]`, that the
applier refuses another shape or element type, and that a response without an announced length
is chunked. A repository's branch moving between two attempts of one fetch is left out.

Liveness is not asserted of a worker whose decoder borrow fails for ever (`worker.rs:311`), nor
of one whose clients submit faster than it drains its channel (`worker.rs:191`): the requests of
an instance are finite.

# diar-native in TLA+

Specifications of the stateful parts of diar-native, the TLC configurations that check
them on small instances, and TLAPS proofs of their safety properties for every instance.
Paths are relative to the repository (`src/` here); `provision/` stands for
`crates/diar-core/src/provision/`, `server/` for `crates/diar-server/src/`.

    tlc -workers 2 -config Provisioning_tools.cfg MCProvisioning
    tlc -workers 2 -config Main.cfg MCMain
    tlapm Provisioning_proofs.tla
    tlapm Main_proofs.tla

## 1. The system

diar-native is speaker diarization as one Rust binary, `diar-server`. Its subcommands
`provision-models` and `verify-models` produce and judge a directory of ONNX models; without
a subcommand it serves `/diarize` and `/embed_window` over HTTP from such a directory. The
models are never shipped: every deployment exports its own, so the directory and the
provenance marker in it (`diar-provision.json`) are the state all parts share.

| component | state | operations | hard behaviour | correct when |
|---|---|---|---|---|
| models directory, marker (`provision/files.rs`, `marker.rs`) | the files; the marker: schema, recipe, set, hashes, smoke record | `evaluate`, `missing_required`, `required_files`, `Marker::read`, `Marker::write` | written in place by another process; killed writers; stat sees lengths only | what is called verified is sound; the marker is never torn |
| provisioning (`provision/mod.rs`) | one run: options, hashes | `provision`, `attest`, `startup_gate`, `serving_set` | one step of many failing; a kill between export and marker; failures of the machine and not of the models | exit 0 means verified; a recorded failure names its cause, and the cause is never the device |
| exporter (`provision/exporter.rs`, `scripts/provision/provision.py`) | a child process, its two pipes, the files | `run_export`, `read_report`, `check_writable` | torn files, a child that fills a pipe | the report exists only after every file; a forced export repairs anything |
| verification (`provision/verify.rs`) | the smoke and deep reports | `run` (stages 1, 2, 5, 3, 4), `verify_deep` | a device that is unusable, same-length rewrites, a marker without hashes | exit 0 means: the recorded bytes, and sound |
| command line (`server/cli.rs`) | - | `run_provision`, `run_verify`, `run_check_token`, `startup_gate_or_exit` | which exit code for what | the exit code tells the truth |
| request path (`server/main.rs`) | two semaphores, one mutex per engine, handler futures, blocking jobs | `diarize`, `embed_window`, `admit`, `with_engine_on` | disconnects at every await, jobs that outlive handlers, panics under a mutex | permits neither lost nor exceeded, coreml serial, no request starved |
| engines (`server/engines.rs`) | one prototype engine per device | `plan_devices`, `load`, `resolve` | one of several failing to load | a request runs on the device it named |
| health (`server/main.rs`) | the models' status, decided once | `/healthz`, `/readyz` | stale by design | "verified" was true of what was loaded |
| engine (`crates/diar-core/src/lib.rs`, `gender.rs`) | shared ORT sessions | `load`, `clone_shared`, `diarize_with` | sessions shared by concurrent jobs | numeric |
| speakrs patch set (`patches/0001-...patch`) | channels, pools, a block queue | `run_multi_mask`, `compute_fbanks_with_pool`, `condensed_euclidean` | a stage that fails while others block | results in input order, errors end everything |
| preflight (`provision/preflight.rs`) | - | `token_from_env`, `check` | one status for two causes; a network that answers for HuggingFace | a denied user is told the right remedy |
| request log (`server/reqlog.rs`) | one span per request | `new`, `finish` | dropped handlers, panicking jobs | the record says what the client was told |
| startup and shutdown (`server/main.rs`, `shutdown.rs`) | the environment, what is loaded so far | `main`, `run`, `exit` | a limit of 0, a device that does not load | it serves what was asked for, or exits |
| logging, ORT compatibility, audio, diar-cli, packaging, export scripts, research data | little or none | | | |

How they interact: the tools run the exporter as a child and then judge its files; the
marker is the only message from them to the server, which reads it once (`startup_gate`),
loads the engines and never looks again. Requests meet in the two admission gates and in
the engine mutex. Inside a job speakrs runs its own threads: windows flow through
segmentation, decoding, filterbanks and embedding over bounded channels, and the pairwise
distances are cut among workers. Nothing in the repository locks the models directory.

## 2. The modules

| module | models | state and actions |
|---|---|---|
| `ModelsDirectory` | the pure decisions over files and marker | operators only: `Evaluate`, `MissingRequired`, `ServingSet`, `GateProceeds`, `StructuralVerdict`, `EndToEndVerdicts`, `MatchesMarker` |
| `Provisioning` | `provision-models`, `verify-models`, the server's start, over one directory | `dir`, `marker`, per tool `pc` and what its run holds in memory, `srv`; one action per step between two file accesses |
| `MCProvisioning` | | values for TLC |
| `MarkerFile` | `Marker::write` and `Marker::read`, system call by system call | inodes, the two names, open files |
| `AtomicMarker` | what those two promise: an atomic register | `Publish`, `StartReading`, `Answer` |
| `Admission` | the request path | `handler`, `holders` and `queue` of each gate, `job`, `owner` of each engine |
| `ExportProcess` | `provision-models` up to the end of the export, and `check-token` | `parent` (the checks, then `run_export`), `child`, the two pipes and who reads them, the tail, the report |
| `Startup` | `run()` from the environment to serving, the choice of devices, one request with its job and its record | `env`, `server`, `request`, `job`, `record` |
| `Main` | `main()`: the command line over the two modules above | `command` |
| `MCMain` | | values for TLC: builds, `DIAR_DEVICES` lists |
| `EmbedPipeline` | `run_multi_mask` of the patch set with the fbank pool | the three stages, their channels and buffers, the pool's workers, the rows of the result |
| `EmbedInOrder` | what it promises its caller: one batch after the other, or one error | `Store`, `Answer` |
| `PairwiseDistances` | `condensed_euclidean_with_workers` | the stack of blocks, who holds which, the condensed vector |
| `Diarization` | `diarize_with`: the pipeline, then the clustering's distances | `phase` |
| `Provisioning_proofs`, `ProvisioningRuns_proofs`, `Admission_proofs`, `MarkerFile_proofs`, `EmbedPipeline_proofs`, `PairwiseDistances_proofs`, `Diarization_proofs`, `Main_proofs` | | the theorems, section 4 |

`MarkerFile` is why `Provisioning` may write a marker in one step; `AtomicMarker` is the
abstraction between the two. `Provisioning` is about the directory, and takes the checks before
the export, and everything that can end it, as one step each; `ExportProcess` is the inside of
those steps. `Admission` is about many requests at two gates, `Startup` about what becomes of
one: their common ground (`resolve`, admission, a job that outlives its handler) is in both, at
the grain each needs.

**Provisioning.** The bytes of a file are a member of `Contents`, of which three things are
known: the length (what `stat` sees), the identity (what sha256 sees), and whether the smoke
stages accept it (`Sound`). One run of a tool is the sequence of its accesses to the
directory: *check* (idempotency), *export* (four phases in the order of `provision.py`:
shared files, batch graphs, gender, trim), *structural* (required files, clip, stages 1, 2, 5,
3), *endtoend* (stage 4), and then *condemn*, or *hash* and *vouch*; for a verifier *compare*
first, *attest* and *stamp* last. A kill may come between any two; during the export it may
leave the file being written torn. The result of writing a failure record is ignored, as in
the code; the result of writing a pass record is not. The server goes from *stat* over
*evaluate* to *load*, as `startup_gate_with` and `EngineRegistry::load` do, and keeps its
status from then on. `Rewrite` is whoever replaces a file by other means.

`outcome` holds how a run ended for the one step in which it does; properties about exit
codes are action properties over `outcome'`.

**Admission.** A handler is *idle*, waits at the *global* gate, at the *cpu* gate or to *join*
its job, and is *done* or *gone*. Permits belong to handlers, and a job belongs to no one.
The semaphore is tokio's: a queue, and a released permit goes to its head before anybody else
sees it, so a waiter may hold a permit before it runs, and may be dropped in that state.
`/diarize` and `/embed_window` take the same steps and share the model. Under coreml the
mutex is held for the whole job; elsewhere only while the prototype is cloned. A poisoned
mutex is taken like any other (`PoisonError::into_inner`), so a panic is an ordinary end.
Errors of the semaphores (closed) cannot occur: nothing closes them.

**ExportProcess.** `parent.at` walks through the checks in the order of `provision`; each
either goes on or exits with its code. Preflight is its two calls, with the statuses its own
table of measurements allows: a bad token is 401 for both, terms not accepted 401 or 403 for the
second. A *shaky* network may answer 500 or not at all; a *portal* redirects everything, which
the transport normalises to 200. After the spawn four parties run: the exporter, which says a
line at a time and waits while its pipe is full; the thread on stderr; the tool, which reads
stdout to its end, joins the thread, and only then waits for the child; and whatever kills one
of them. A line that is not UTF-8 (`Garbled`) ends the reader like the end of the pipe, and
closes the pipe. The child's ends of the pipes close before its exit status is there (`Leaving`, then
`Exit`), so the tool may have read everything and still have to wait. A write to a closed pipe may or may not end the exporter, since libraries under
it ignore it. `wrong` is a history variable: something other than the tool went wrong.

**Startup.** `env` is the build and the two variables that choose devices. `server` follows
`run()`: limits, gate, plan, engines one by one, bind, serving; the gate's verdict is any that
`Provisioning` can give. A request has what its handler branches on: the endpoint, the device it
names, and whether samples and path are absent, good or bad. `record` is the terminal record,
written by `finish` before the response. One request at a time; `NextRequest` clears it away.

**EmbedPipeline.** A window is its number, and travels as the code has it: its audio, its mask
and its row index in three vectors of a batch, its filterbank in a fourth. A stage that ends
drops its ends of the channels: the receiver upstream of it fails the next send, the sender
downstream ends the next receive. Errors (`?`) and panics may happen wherever a session or a
decode is called; a panic of the calling thread unwinds through `thread::scope`, which still
waits for the two threads. `TakeJob` routes a batch as `fbank_pool_route` does. `call` is
chosen once: the number of windows, the batch size, the pool, and whether there is a batched
session.

**PairwiseDistances.** A distance is the pair it belongs to, so a cell that gets the wrong
value is a cell that holds the wrong pair. `Rank` is the reference: the position of a pair in
the double loop the patch replaced.

## 3. The runs

Sizes are distinct states. `Provisioning` runs on a directory with one file of each kind
(shared, batch, gender, gender meta): no decision of the code tells two shared files apart
except through a quantifier, and with one file of each kind every quantifier is decided both
ways. `MaxFaults` bounds what goes wrong in one behaviour: a kill, a failed or unsound export,
a bad clip, an unusable device, a failure of the machine, a failed write, a rewrite, an engine that
does not load. Two faults are enough for one to prepare a state and another to hit it; one alone would miss, for instance, a torn export
followed by a failed marker write. Sequences of runs of the tools are not bounded.
What a run on the CPU may find is a part of what one on a usable accelerator may find
(`EndToEndVerdicts`), so `tools` needs no `cpu`; `serving` has nothing else.

| run | instance | shows |
|---|---|---|
| `tools` | one provisioner, one verifier, one at a time; two faults; a usable and an unusable accelerator, good and bad clips, a machine that may fail at the end-to-end stage; every content with a length of its own (0.34 million) | the marker vouches only for sound bytes; what evaluates as verified is sound; only an export writes provenance; exit 0 of provisioning is earned; a recorded failure names its cause; a forced export recovers from every state (liveness) |
| `serving` | the same tools and a server that may start between their runs, with any `DIAR_MODEL_SET` and override; two sound contents of one length, so that `stat` misses a rewrite; one fault (4.1 million) | the gate agrees with the marker; `/readyz` does not lie; `verify-models` sees the rewrite that the gate cannot |
| `attest`, `device`, `two_tools` | as small as shows it | findings, section 6 |
| `seq` | two writers one after the other, killed anywhere, a reader, two blocks per write (95 thousand) | the name never stands for a torn marker; the detail implements `AtomicMarker` |
| `overlap` | the two writers at the same time | finding |
| `requests` | four requests, an accelerator and the CPU, 2 global permits and 1 CPU permit, both builds (0.4 million) | permits, serial coreml, nobody waits for ever |
| `disconnect` | the same | finding |
| `zero_limit` | that of `main` | finding: the documentation is stale |
| `diarize` | up to 6 windows, batches of 1 or 4, pools of 0, 1 or 3 sessions, failures in every stage; up to 6 embeddings in blocks of 2, two workers (69 thousand) | each row is its window's; ok means all of them; blame is deserved and does not depend on a race; the distances are in order; it ends; it implements `EmbedInOrder` |
| `main` | three builds, seven values of `DIAR_DEVICES`, all environments of the tools; two lines to each pipe, pipes of one line, a tail of one (0.5 million) | two pipes do not hang; nobody writes after the export; the message has the last lines; devices are those asked for; the record is the answer's; every command ends or serves |

Four requests with two permits let two be inside, one at the head of a queue and one behind
it, and let the two gates block each other; two blocks make a write that is neither empty nor
whole. Six windows in batches of 4 make a full and a partial batch, and four chunks in a pool
of 3 are the case in which a session gets none; batches of 1 fill both channels and block the
calling thread. Six embeddings in blocks of 2 are three blocks, the last one short. A second
line makes a pipe of one line block and a tail of one line drop. `requests` lets every request come once; it then rests, which `Quiescent` says, so
deadlock is checked in every run.

`TypeOK` is the type invariant of each state machine. The other properties are described
where they are defined.

**Fairness.** `Provisioning!FairSpec` assumes weak fairness of each tool's own steps: a
tool is one sequential process, and none of its steps waits for another process (there is no
lock). Killing, refusing and failing are excluded: they are never owed. It is used for
`ExportRecovers` only, whose condition says that no faults are left. `Admission!FairSpec`
assumes weak fairness of each handler together with its job: the runtime polls a woken
future, a blocking thread eventually runs, inference ends. A handler and its job are never
both able to go on, so one conjunct covers both. The semaphore is FIFO; the mutex is not, and
nothing is assumed about who gets it, but each request comes once, so only finitely many can
overtake. `Diarization!FairSpec` assumes weak fairness of each stage and of each thread of the
pool: they are OS threads, and a call of a session returns. `Main!FairSpec` assumes it of the
server's start, of the handler, of the job, of the tool, of its reading thread, and of the
exporter. The last is an assumption about a Python program that downloads from the network: it
goes on or fails. The code has no timeout to fall back on. That requests come, clients
leave, something fails or somebody kills a process is never assumed.

## 4. What is proved

Every invariant and every action property of the passing runs is a theorem, for every value of
the constants that meets the named assumptions; so are the two refinements. Each inductive
invariant was model-checked on the runs' instances before it was proved.

| module | theorems | under | inductive invariant |
|---|---|---|---|
| `Provisioning_proofs` | `TypeCorrect`; `MarkerIsSound`, `VerifiedIsSound`, `GateAgrees`, `ServesVerified` | types: any number of tools; the others: `MaxTools = 1`, the second and the last also `LengthTells` | `TypeInv`, `MarkerInv`, `ServerInv` |
| `ProvisioningRuns_proofs` | `ProvenanceIsExports`, `ProvisionedTellsTheTruth`, `DeepVerifyTellsTheTruth`, `FailureIsDeserved` | `MaxTools = 1` | `RunInv` |
| `Admission_proofs` | `AdmissionTypes`, `PermitsAreBounded`, `AwaitedAreBounded`, `CoremlSerialised`, `PermitsAreKept` | - | `AdmissionInv`, `NoLossInv` |
| `MarkerFile_proofs` | `MarkerTypes`; `MarkerNeverTorn`, `MarkerIsAtomic` (refines `AtomicMarker`) | types: any number of writers; the others: `MaxWriters <= 1` | `FileInv`, `MarkerInv` |
| `Diarization_proofs`, over `EmbedPipeline_proofs` and `PairwiseDistances_proofs` | `DiarizationTypes`, `RowsHoldTheirWindows`, `OkMeansComplete`, `BlameIsTheCulprits`, `FirstFailureIsTold`, `SlicesAreExact`, `DistancesAreInOrder`, `EmbeddingIsInOrder` (refines `EmbedInOrder`) | - | `EmbedInv`, `PdistInv` |
| `Main_proofs` | `MainTypes`, `PreflightIsRight`, `NoExporterIsLeft`, `FailuresAreEarned`, `TailIsTheLast`, `ServesTheWhole`, `HealthTellsTheTruth`, `ProvisioningAgrees`, `RecordsTellTheAnswer`, `ClassesNameTheOwner` | - | `ExportInv`, `StartupInv` |

**What the hypotheses mean.** `MaxTools = 1`: one tool uses the directory at a time (starting
servers count, running ones do not); `MaxWriters <= 1` is the same for the marker's file. The
code has no lock that would make it so; it is how the tools are meant to be used, and runs
`two_tools` and `overlap` show what happens otherwise. `LengthTells`: a content that is not
sound never has the length of a sound one, which is what a stat-only check can rely on at all.
The assumptions on constants ask for no more than finite sets of processes, positive limits, a largest pool, and that the
placeholders (`Blank`, `Unset`, `Null`, `Garbled`, ...) are not values.

**Provisioning.** `PassVouchesForSound` is not inductive: a `Vouch` step writes what the run
hashed some steps ago, and a `Stamp` step what it read from the marker. `MarkerInv` adds what
each tool has *established* by the label it stands at: after the end-to-end stage the required
files are sound; after hashing, the hashes are those of sound files; after a comparison that
found no drift, the marker is there and records something; a marker about to be stamped
vouches; and every marker vouches or is a failure record without hashes (`MarkerSane`). These
survive because nobody else acts meanwhile (`Alone`). With two tools they fail: what a verifier
read in `attest` may be out of date when it stamps it. For a server, `ServerInv` carries the
verdict of the gate to the load. `RunInv` goes on to what a run *knows* when it answers: that
the files it vouches for are the ones it hashed, that a comparison still holds, that the marker
it stamps is the one in the directory, and that who comes to `condemn` carries a verdict that is
still true of the directory and of its own run (`Deserved`): an unsound file, its clip, or a
failure of the machine, whatever device it was told to use. The action properties follow from it step by step.

**Admission.** `AdmissionInv` couples, per request, the handler's place with the permits it
holds and the queue it stands in, and the job's place with the ownership of the mutex;
`PermitsBounded` rests on a lemma about the cardinality of a set from which one holder goes and
to which one waiter comes. `NoLossInv` adds the queues: who waits at a gate waits there once
and holds no permit of it, and a gate somebody waits at has all its permits out. So a permit
handed on goes to somebody new, and none is lost when its holder is dropped, even in the state
in which it was handed a permit but has not run since.

**MarkerFile.** The temp file is the one writer's alone and carries its claim as far as it has
been written; the marker, and the file any reader has open, are whole and are not the temp file.
The rename is then `Publish`, and whatever blocks a reader gets come from one claim.

**EmbedPipeline.** The heart of `EmbedInv` is a *line*. The rows that are written, then the
batch at the embedding thread, in its channel, at the fbank thread, in its channel, and in the
calling thread's buffer, hold the windows one after the other without a gap, up to the first
stage that failed (`Line`). Together with `Matched` (the vectors of a batch agree wherever it is)
this gives `RowsMatch`, and `OkIsComplete` when all stages have ended and none has failed.
For the pool, `Joining` says that the handles left are those of the last chunks and that what has
been joined without a failure is the beginning of the audio, whichever worker ended first.
`BlameIsDeserved` needs the ends (`Blames`, `Closing`): a stage is among those that failed exactly
when it has ended with an error or a panic, or one of its pool has, and one that has ended without
one has ended after the stage before it. For the refinement, the embedding thread's `Store` is the step of the
sequential loop, and the line says that it is the next batch's turn.

**PairwiseDistances.** `SegStart` is a closed form, and `Rank` counts the pairs that come first in
the double loop. `RankIs` says that they agree for every number of embeddings; `RankInjective`,
`RankInRow` and `OwnSlice` that a block's slice is exactly as long as what is written to it and
that no other block's pair falls into it; `BlocksCover` that no pair is left out. `PdistInv` then is:
a pair is in its cell, or its block waits on the stack or is at a worker. The sums need induction,
and the library's induction theorems cannot be instantiated here; `SetInduction` states it for
sets of numbers instead, and is derived from the pigeonhole principle for finite sets.

**ExportProcess.** As long as stderr is read, the lines written are the lines read and then the
lines in the pipe, and the tail is the last of the lines read (`StderrInOrder`). `Earned` traces
whatever the tool may take for a failure back to something that went wrong other than by the
tool: so neither the amount of output nor the order of reading, joining and waiting can make a
healthy export fail. `Spawned` relates the readers to the life of the child.

**Startup.** The loop over `DIAR_DEVICES` is a recursive function (`Loop`); its invariant, proved
by `SetInduction` over the length of the list, is that the plan has no device twice, has every
entry that was passed, and has the first one first (`PlannedIsWhole`). `StartupInv` carries it
through the loading (engines loaded, then engines planned, are what was asked for), and follows a
request: what its class says of the input is true of what was sent, and the record is what the
answer says.

**Only model-checked.** The five liveness properties (`ExportRecovers`, `EveryRequestEnds`,
`DiarizationEnds`, `CommandsEnd`, `RequestEnds`): liveness under fairness, and ENABLED, are beyond
the prover. That no state of a passing run is a deadlock is TLC's, too. The findings of section 6
are counterexamples of TLC.

## 5. What is not modelled

- What the smoke stages and the engine compute on tensors: one predicate, `Sound`. Whether
  the stages find every bad model is a matter of numerics and tests.
- The report's fields, token scrubbing, the redaction and the ids of the request log, messages:
  text.
- fsync and power loss: a lost marker reads as `Unreadable`, which is among the initial
  states, but the file system's own ordering is not modelled.
- Of the speakrs patches: the sequential `run_multi_mask` of coreml builds (one thread), the
  sessions shared by the clones of an engine (a mutex each, held for one call or one chunk: it
  delays, and nothing waits for two of them), the size of the fbank pool, and everything numeric.
  Of the engine: the vote of `classify_speakers`.
- The class `admission` of a failed request: it needs a closed semaphore, and none is ever closed.
- Tools at work while a server starts, and two tools at a time, in the passing runs: `MaxTools = 1`
  counts a starting server. What `startup_gate` saw may be stale when the engines load
  (`ServesWhatWasVerified` does not say otherwise); `two_tools` is the only run with an overlap.
- `run_verify`'s refusals of a clip that cannot be resolved and of an unknown mode
  (`cli.rs:276-293`): they exit before anything is read.
- An exporter that closes a pipe before it ends, or leaves it to a child of its own: `provision.py`
  does neither.
- The error of `clone_shared` before the threads of `run_multi_mask` start: it is returned, and
  nothing has begun.
- What is wrong with a request's audio: a path that cannot be read and one that cannot be decoded
  are one `bad` input. The window of `/embed_window` is never refused (`main.rs:425-434`): one
  that selects nothing leaves an empty clip, which the engine may fail on (`Infer`).
- Logging setup, JSON layout, ORT options, the exit workaround, audio decoding, packaging, research
  data: no state that a property could be about.

Observed while reading, without a run:

- A smoke clip that is unreadable or not 16 kHz mono is recorded as a failure
  (`verify.rs:155`, `mod.rs:425`), and the gate then refuses a directory whose models are sound.
  `FailIsDeserved` says that such a record names the clip, and not that the models are bad.
- The same goes for the machine. A GPU that loads the models and then runs out of memory in
  `diarize_with` is no `DeviceUnavailable`: the end-to-end stage has failed, and the failure is
  recorded (`verify.rs:893-895`, `mod.rs:425`). `docs/PROVISIONING.md:84` says a device problem
  must never mark the models known-bad; `mod.rs:553` admits the transient case. What the code keeps,
  and `FailIsDeserved` says, is that a device that cannot be *loaded* on is never recorded.
- `--skip-gender` over a directory with a broken gender model cannot repair it: the engine
  opens the file whenever it is there. Conversely a run without `--skip-gender` over a
  directory verified without gender exits up-to-date and adds nothing (`files.rs:35`).
- CPU requests waiting at the CPU gate hold global permits meanwhile.
- `preflight.rs:44-46` says the first token variable that is set wins even if it is empty; the
  code skips blank ones (`preflight.rs:51-61`). `TokenFromEnv` is the code.
- A network that redirects everything (a captive portal) passes preflight with any token, as
  the transport turns 3xx into 200 for both calls; an unreachable HuggingFace exits with
  `TOKEN_DENIED`. `PreflightTellsApart` leaves portals out.
- `docs/API.md:221` and `docs/TROUBLESHOOTING.md:174` promise `x-request-id` on every response;
  a body the `Json` extractor refuses is answered before the handler, with neither id nor record.
- `docs/ARCHITECTURE.md:335-337`: every request ends with one record. A handler dropped by a
  disconnect writes none.
- `reqlog.rs:178-179`: only a 5xx means that the sidecar itself misbehaved. An engine that fails
  (`JobError::Inference`) is a 422 logged as a warning.
- With `DIAR_MODE` and `DIAR_DEVICES` both set, provisioning obeys the first and the server the
  second; each function's comment says so of itself.
- `/embed_window` with `start_s` and no `end_s`, or an `end_s` that does not lie behind it, embeds
  the whole file (`main.rs:427-434`).
- `models_gender` is read from the directory at every poll (`main.rs:540-543`), the rest of
  `/healthz` once at startup.
- A line of the exporter that is not UTF-8 closes its pipe; an exporter that minds fails then,
  and one that does not goes on unheard (`exporter.rs:413,425`). A tool that is killed leaves its
  exporter writing.

## 6. Findings

- `attest`: the documented recovery, `verify-models` over a recorded failure, cannot work: a
  failure record carries no hashes, which the deep comparison counts as drift.
- `device`: `--force` on a host without the device leaves the old marker beside new files,
  and the gate then calls the directory known-bad, although exit 9 says it was not marked.
- `overlap`: two writers share one temp file name, and can publish a torn marker.
- `two_tools`: `attest` writes back a marker it read, over one written in between.
- `disconnect`: dropped handlers return their permits while their jobs run on, so
  `DIAR_MAX_INFLIGHT` does not bound the work in progress.
- `zero_limit`: `docs/CONFIGURATION.md:28,115-116` and `docs/TROUBLESHOOTING.md:134` say that
  `DIAR_MAX_INFLIGHT=0` deadlocks every request. The code has a guard (`main.rs:629-638`) and falls
  back to 2: a request is admitted, and its job runs.

## 7. Plan

Modelled: `ModelsDirectory`, `Provisioning`, `MarkerFile` over `AtomicMarker`, `Admission`;
`EmbedPipeline` over `EmbedInOrder`, `PairwiseDistances`, `Diarization`; `ExportProcess`,
`Startup`, `Main`. Proved: all their safety properties and the refinements. What could follow:

1. That nobody is stuck, as an invariant and without ENABLED: for `EmbedPipeline`, as long as the
   call has not answered, some stage finds what it waits for (a message, room, or the other end
   gone); for `ExportProcess`, the same of the tool, its reading thread and the exporter. `EmbedInv`
   and `ExportInv` have the facts about the ends of the channels that this needs.
2. `DeepVerifyIsExact` with any number of verifiers beside one provisioner that rests: `Known` uses
   `Alone` only against writers.
3. The hazards that no property covers (power loss, the CPU gate's global permits, the missing
   record of a dropped handler), where a model of them can say more than section 5 does.

# NekoTrans in TLA+

A model of NekoTrans (transfers between a PC and an Android device, over ADB,
Wi-Fi or both at once) with the TLC runs that check it and the theorems TLAPS
proves about it. Line numbers are those of the source files named in
`PROJECT.json`, which maps every definition to the code it stands for.

- [The system](#the-system): components, their state, what makes them correct
- [Modules](#modules): which module models which part, and how
- [Runs](#runs): what each run asks, its bounds, its fairness
- [Proofs](#proofs): what is proved, from which assumptions, along which argument
- [Where code and documentation part](#where-code-and-documentation-part)
- [Not modelled, and the plan](#not-modelled-and-the-plan)

## The system

```
 UI (main.js) --commands--> desktop (lib.rs) --mutex--> engine --> scheduler
                              |   registry              |  \--> chunking
                              |   .task records         v
                              v                     .ckpt files
                           workers (threads)
                            |            |
                     adb.rs (ADB)   agent.rs (TCP) <---> AgentServer.kt (device)
```

| component | state it keeps | operations | interacts through |
|---|---|---|---|
| chunking (`models.rs`) | none | `split_into_chunks`, `is_large_file` | called by engine, scheduler, and repeated in the desktop (`chunk_count_for_size`, `chunk_length_for`, `owns_chunk`) |
| scheduler (`scheduler.rs`) | two queues of chunks, two in-flight counters | `new_with_completed`, `lease_next`, `complete`, `is_drained` | owned by an engine task, rebuilt at every recovery and resize |
| checkpoint store (`checkpoint.rs`) | one text file per task | `persist`, `load`, `delete`, `list` | the engine, under its mutex |
| engine (`engine.rs`) | per task: state, checkpoint, metrics, scheduler, log | create, recover, tick, pause, resume, cancel, retry, reports of chunks and files, leases, failure, resize, delete | behind one mutex: UI commands and every worker thread |
| desktop registry and commands (`lib.rs` 130-386, 473-1133, 5125-5201) | a card and a pause flag for each task with a worker, behind a second mutex | start, pause, resume, cancel, retry, recover, delete; `settle_worker_result` | sets flags the workers poll; calls the engine |
| task records (`lib.rs` 4985-5071) | one JSON file per task | written at creation and resize, read at start | read when a task is started or recovered |
| chunk-size policy (`lib.rs` 4154-4199, 4795) | none | adaptive sizes for Wi-Fi, Dual and shared files | asked at creation, at each start and per file; result copied into record and engine |
| Wi-Fi workers (`lib.rs` 1135-1299, 1423-1811, 2758-2924, 4267-4452; `agent.rs`) | what has been acknowledged; the bundle being filled | push chunks, batches, bundles; pull; CHUNK_STATUS recovery; verification | TCP to the agent; reports to the engine |
| ADB workers (`adb.rs`; `lib.rs` 784-978, 1301-1421, 2630-2731) | a directory of parts per file on the device | push parts, assemble, skip, pull, verify, pause points | `adb` processes; reports to the engine |
| Dual tasks of small files (`lib.rs` 1301-1811, 2459-2628) | the totals of the task, behind a third mutex | split the files between two threads, note their progress, join them | engine, registry and totals, locked one inside the other in places |
| same-file Dual (`lib.rs` 1813-2378, 3902-4137) | an aggregate of two lanes, a lane plan | calibration, two lanes over one temp file, resume guard, verification | two threads over one file on the device |
| Android agent (`AgentServer.kt`) | active tasks, chunk acknowledgements, temp files, logs | HELLO, START_TASK, START_FILE, PUSH_CHUNK(S), CHUNK_STATUS, COMPLETE_FILE, PULL, STAT, VERIFY | one TCP request per connection, threads per client |
| Android service (`TransferService.kt`, `MainActivity.kt`) | running flag, locks | start, stop | owns the server |
| inventory (`inventory.rs`) | none | lists the source | engine at creation, desktop at every start |
| logging, protocol types, UI, scripts | - | - | no state a transfer depends on |

What makes each of them correct, and what is hard about it:

- *chunking*: every byte in exactly one chunk; three copies of the arithmetic
  that must agree; zero sizes and multiples.
- *scheduler*: no chunk twice, none left behind, counters that match the leases,
  with a fallback that steals from the other lane without looking at its limit.
- *engine and checkpoint*: a crash between any two steps loses nothing that was
  recorded; `Completed` means complete, although three different tests decide
  it; metrics kept incrementally equal those recomputed; late, duplicated and
  pending reports of several threads; a state machine whose operations each look
  at different states.
- *workers and policy*: an index in the checkpoint stands for the same bytes for
  everybody: engine, record, both lanes, before and after a restart; what is
  skipped is there; a run that has verified leaves whole files; a run ends,
  whatever the three locks, the retries and the network do.
- *registry*: at most one worker per task, a cancellation that stays, no card
  that is Running for ever.
- *agent*: an acknowledgement means the bytes are in the temp file; completion
  means all of them are.

`PROJECT.json` lists the hazards one by one, each at its line, with the
properties that would catch it.

## Modules

| module | models | 
|---|---|
| `Chunking` | `models.rs` 123-157 and the desktop's arithmetic |
| `Scheduler` | `scheduler.rs`, and callers that hold leases |
| `Checkpoint` | the contents of a `.ckpt` file, and what a load makes of every prefix of it |
| `Engine` | `engine.rs` for one task, with its file, failures of the store and crashes |
| `EngineProps` | what the engine promises; its refinement mapping |
| `TaskLifecycle` | the abstract life of a task: states, recorded and saved chunks |
| `Delivery` | the engine used by workers, with the bytes they have sent, or found on the device for their length |
| `ChunkSizing` | who computes and who remembers a task's chunk size |
| `Desktop` | commands, registry, worker threads, record and exits of the desktop, around the engine |
| `DesktopProps` | what cards, threads and deletions promise; fairness |
| `Agent` | `AgentServer.kt` as a push sees it: task, current file, temp and final files |
| `ChunkPush` | `push_wifi_chunk_with_recovery` (`lib.rs` 4267): one chunk over requests and answers that may be lost |
| `FileTransfer` | the abstract push: deliver, record, publish |
| `Worker` | what the workers of a task share: the task, their threads, what they have recorded |
| `WifiPush` | a Wi-Fi push (`run_wifi_pc_to_android`): file after file, chunk after chunk |
| `AdbPush` | a push over ADB (`push_path_to_device_with_control`): parts, their assembly, the locks it takes on the way |
| `DualPush` | the Wi-Fi lane of a Dual task of small files: bundles |
| `Pulls` | a file pulled to the PC, over Wi-Fi or ADB |
| `Transfers` | these workers with the agent, the network, the user's pause and the end of the desktop, run after run; implements `FileTransfer` |
| `SameFile` | a same-file Dual push: an ADB lane and a Wi-Fi lane in one temp file |
| `ChunkingProofs`, `CuttingProofs` | theorems of the arithmetic of chunks, the lanes' shares of a file and the sizing policies |
| `SchedulerProofs`, `EngineProofs` | theorems of the scheduler and the engine |
| `CompletionProofs` | theorems of completion, recovery and delivery |
| `DesktopProofs` | theorems of the desktop |
| `TransferProofs` | theorems of the workers with the agent and adb |
| `SameFileProofs` | theorems of the same-file Dual push |
| `MCScheduler`, `MCEngine`, `MCDelivery`, `MCChunkSizing`, `MCDesktop`, `MCTransfers`, `MCSameFile` | model values for TLC; `MCScheduler` also holds the checks of the chunk arithmetic |

`Scheduler` extends `Chunking`, `Checkpoint` extends `Scheduler`, `Engine`
extends `Checkpoint`, `Delivery` extends `EngineProps`, `Desktop` extends
`Engine` and uses its operations as they are; `ChunkSizing` stands
alone, since sizes of gigabytes and files of three bytes do not mix. `ChunkPush`
extends `Agent`, which extends `Chunking`; `Worker` and `SameFile` extend
`ChunkPush`, and of the engine they keep what a worker records in it. `WifiPush`,
`AdbPush` and `Pulls` extend `Worker`, `DualPush` extends `AdbPush`, whose thread
is its other lane, and `Transfers` puts them all together: one task, one worker
of the kind the task has.

Conventions. A chunk is `<<file, index>>`; its bytes follow from the file's size
and the chunk size in force (`BytesOf`), so a resize changes what an index
stands for without changing the index. The two `VecDeque`s are sets: they are
filled in increasing order and only popped, so the front is the least element.
An action is a whole engine operation up to its last write; the write of the
checkpoint is a step of its own (`Save`, `Insert`), because the process can die
or the write fail after memory has changed. `call` is the mutex: while it is not
`"none"` nobody else enters. `tick_task` takes one step per chunk, which no
other actor sees. `out` holds the leases callers have not returned; when a
scheduler is replaced the leases of the old one are forgotten with it, since
the calls that take leases and those that replace the scheduler belong to one
caller in this code. A definition marked `Mutant` is a wrong
version of the definition that follows it, used to see that a property notices.

Engine variables and code: `loaded` is membership in `TransferEngine.tasks`;
`state`, `lastError`, `metrics` are the fields of that name; `files` is the
number of entries of `checkpoint.files`, `done` and `via` their
`completed_chunks` and `completed_chunk_lanes`; `chunkSize` is
`config.chunk_size_bytes`; `queue` and `inflight` are the task's scheduler;
`file` and `disk` the `.ckpt` file. Metrics count bytes, as in the code:
`length` is what the caller reported, and it differs from the split's length
for bundles (`ReportBundledFile`).

Faults. `IoErrors`: any read or write of the store may fail. `TornWrites`: an
interrupted write may leave any prefix of the file; `TornReads` lists what a
load makes of each (lines cut at every field, the older format included).
`Crash` may happen in every state.

Desktop variables and code: `card` is the state of the task's entry in
`AdbTransferRegistry`; `owner` the thread whose pause flag the entry holds;
`taskRecord` the `.task` file; `displayed` the state of the task in the page, by
which `main.js` offers its buttons; `cmd` the section the main thread comes to
next, since Tauri's synchronous commands run there one after the other. A
section holds one of the two mutexes and is one action: `PauseTransfer` marks
the entry and sets the flag, `PauseInEngine` tells the engine;
`settle_worker_result` is `SettleReads`, `SettleMarks`, `SettleTells`. A thread
goes round `next` (the boundary where it looks at the flag), `send`, and its two
reports, to the registry and the engine over ADB, the other way round over
Wi-Fi. What ADB skips depends on the device and is a choice; what Wi-Fi skips is
the checkpoint as it was loaded (`skip`). `late` counts the chunks sent since
the flag was set. `ManifestErrors` lets the listing of the source fail in
`start_wifi_transfer_from_record`.

Delivery. `covered` are the bytes the workers have reported with some reason:
sent, or found, which all of adb, the agent and the engine judge by length. A
chunk is found as an adb part (`chunk-skipped`) or by CHUNK_STATUS and STAT_FILE
after a push that failed (`DealWithChunk`), a file by its size (`FindFile`, the
`file-skipped` of adb, which asks for no chunk). `dealt` are the chunks this
run's worker has been through, whether the engine took the report or not. Whether
what was found is the source is asked in `Transfers` and `SameFile`, where files
have contents; here the question is whether the engine's books say more than the
workers have told it.

Agent and push. Sizes and offsets are counted in chunks (`ChunkSizes = {1}`,
assumed by `Agent`). A file on the device is its `length` and the set `good` of
its chunks that hold the bytes of the source; the rest is a hole or something
else. `Place` tells the task's target from the default root, where the agent
writes while no root has been set. An absolute root outside of the app's own
directory is refused without access to all files (`AgentServer.kt` 1201-1219),
and the user may give and withdraw that access: a task's `access` is `"granted"`,
`"missing"` or `"changing"`, and `SetTargetRoot` is accepted or not accordingly.
A refusal leaves the task active under its default root, and no worker looks at
that answer, so everything that follows is written, looked at and verified there.
(A withdrawal in the middle of a run ends the agent's process, as a lossy network
allows at any time.) A request is a connection of its own and the
agent handles requests one at a time under `taskLock`, so a handler is one
action together with its answer, which may come too late: then the worker takes
the next branch of its recovery, or gives up. On a `"lossy"` network the
connection may also fail before the request is handled, a batch may break in the
middle, and the agent may be restarted without its memory (`AgentRestarts`); on
a `"steady"` one it may not. `pc` is the request the worker comes to next, `pos`
its file and chunk, `attempt` the attempt of `push_wifi_chunk_with_recovery`.
`LineChunks` are the chunks whose base64 form fits in a command line of 16 KiB:
the fallback can carry no others.

Workers. `task` says which worker `start_transfer_task` chooses (`kind`), on
which network and with which access to the target it runs, whether files are
verified, how many bytes a bundle takes, and what an earlier transfer has left at
the target (`old`: a temp or a final file, a part, or a file on the PC; `clean`
if nothing). The thread that talks to the agent is at `pc` and `pos`, the one
that runs adb at `adb` and `adbPos`; a kind without such a thread leaves it at
`"ok"`. A run begins (`Begin`) whenever the one before has ended, by success,
error, pause or the end of the desktop, and finds the checkpoint (`recorded`) and
the device as they were left. `halt` is the pause flag, which workers poll at the
places the code does.

In `AdbPush` an adb command may fail before it has done anything, in the middle,
or after all of it. `parts` is the directory of parts of each file; the script
that assembles them is `Assemble`, or `AssembleStops` in `cat` or before `mv`,
or one that stops in `rm`, which removes by name order. A part, like a file that
is skipped, is judged by its size alone. Three locks matter: the registry, the
engine and the totals of a Dual task. A step that takes and releases a lock is
an action that waits for it (`FreeFor`); the ADB lane of a Dual task goes from
one lock to the next with the first in hand (`lib.rs` 1370), at the labels
`"note"` and `"show"`. The user's pause takes the registry and then the engine
(`Pause`, `PauseEngine`).

In `DualPush` `bundle` is what the lane has collected; a bundle is one request,
which an agent or a connection that ends cuts off between two files or inside
one (`BundleBreaks`). In `Pulls` `local` is the file on the PC, of the same form
as one on the device.

`SameFile`: `pc` is the place of the main thread and, while the lanes run, of
the Wi-Fi lane; `adb` is the place of the ADB lane, `looked` how far each lane
has gone through the file, `pending` the batch, `halt` the flag a lane sets when
it fails. A lane that skips reads `trusted`, what the resume guard has left of
the checkpoint. The guard's pulls and the verification are one action each,
since nobody else writes then. The calibration is the choice of a stride. A
user's pause stops both lanes at a chunk and leaves what the end of the desktop
leaves (`DesktopEnds`, as in `Transfers`). `OldLengths` are the lengths of files an
earlier transfer may have left under the same names, `Sampled` says whether the
verification reads samples (from 128 MiB on) or all of a file. `device` is the
agent's access to the target and the storage behind it. The two lanes write one
file, one with `dd`, the other with `RandomAccessFile`, and the hardware tests
report short final files, "a possible file-length race" (HARDWARE_VALIDATION.md
64; ARCHITECTURE.md 36 has same-file writes still to be validated): on `"racy"`
storage the file both lanes write may at any moment become shorter
(`StorageCuts`), and what it loses is lost. `Calm` says that the storage is
consistent, the network steady and the access granted.

External, modelled by what the code in `src/` sees or says of them: the phone's
storage, including that race, and Android's answer about all-files access. The
operating system's file writes on the PC are part of `WriteStopped`.

## Runs

Passing runs (states as TLC counts distinct ones):

| run | question | instance | states |
|---|---|---|---|
| `scheduler` | do two lanes drain the scheduler without losing or repeating a chunk? Do the three copies of the arithmetic match a byte-by-byte definition? | files of 6, 3, 0 and 1 bytes, chunk sizes 0 to 7, limit 1, every set of completed chunks, strides 0 to 5 | 37,085 |
| `engine` | metrics, durability, completion, refinement of `TaskLifecycle`, termination | Dual, one large file of 3 chunks, one small of 1 | 93,839 |
| `engine_faults` | what survives damaged checkpoints and a failing store? | AdbOnly, files of 2 and 1 chunks, driven by ticks and leases too, re-created over itself, writes torn by crashes, I/O errors | 265,638 |
| `delivery` | does Completed mean that every byte was sent, or found for its length? | Dual, as `engine`, I/O errors | 307,564 |
| `chunk_sizing` | do all copies of the chunk size agree, and does a restart keep it? | sizes on both sides of every threshold, seven requested sizes, two files | 146,036 |
| `desktop` | one transfer at a time, stopped at the next chunk, and over in the end? | Wi-Fi, files of 2 and 1 chunks, two threads, a prompt page, listings that fail | 123,455 |
| `desktop_stale` | do cards stay true and deleted tasks gone, however old the page is? | ADB, one chunk, two threads | 559,025 |
| `transfers` | for each worker: is what was recorded on the other side, is what was published whole, does a verified run leave whole files, and does every run end? | files of 2, 1 and 0 chunks; the tasks listed below | 351,895 |
| `same_file` | is a file whole that two lanes have written, and the checkpoint true, whatever network, storage and access do? | one file of 4 chunks, stride 2, batches of 2, leftovers of full length, full digest; both networks, and on a steady one racy storage or changing access | 288,133 |

Why the bounds are enough. The engine treats files and chunks alike except for
their order, their number against the split, and small against large; one large
file with more chunks than the limit of leases and one small file give every
kind of interleaving two lanes can have, and a late, duplicate or bundled report
needs no third file. Chunk sizes of 0 to 7 over files of 6, 3, 1 and no bytes
meet every case of a division: a multiple, one off it on either side, a chunk
longer than the file. In `engine` the store never fails, because
`ProgressIsDurable` is about a store that works; the failing store is the
subject of `engine_faults`, with crashes in the middle of a write, and of
`delivery`. `delivery` has one chunk size: with two its property fails (below).
The desktop runs have two threads, which is what a card can mix up: the one it
was made for and an older one still on its way out; a third would have to be an
older one still, and does nothing the second does not. A file of two chunks and
another of one give every boundary at which a worker looks at its flag; the
stale page needs one chunk only, since what it shows is the state of the task. A
push treats its files one after the other, so one file of two chunks, to be
interrupted between them, one of a single chunk and an empty one, of which two
fit in a command line, are all the kinds it meets; the run is exhaustive over
any number of restarts, pauses and attempts.

The tasks of `transfers` are a choice, since their product is out of reach:

- a clean target: Wi-Fi pushes and pulls on both networks, ADB pushes and pulls,
  each with and without verification; Dual on a lossy network with verification
  and bundles of one file, and on a steady one without and with bundles of two;
- leftovers, with verification on and a steady network (a lossy one only adds
  the errors the clean tasks have already shown): a temp or final file of length
  1 to 3 under any name for a Wi-Fi push, a final file, or a part of any index, for
  an ADB push, a file on the PC for a pull, and one final file for a Dual task;
- no access to the target for a verified Wi-Fi push, which takes it through every
  request after a refusal, and access that comes and goes for a Wi-Fi pull, which
  is to be right all the same (`PulledChunksAreLocal`). What a refusal leads to in
  a verified push is said [below](#where-code-and-documentation-part).

In a Dual task files 0 and 2 go to Wi-Fi and file 1 to ADB, so that each lane has
a file and one of them a bundle. Large files of a Dual task go to `SameFile`.
`run_dual_wifi_single_file` is never reached: the lane only gets files of at most
32 MiB, and an empty bundle takes any of them. In `same_file` four
chunks and stride 2 give each lane two, with one of the other lane's behind it, and
the Wi-Fi lane a whole batch; a leftover as long as the file is the one that
confirms any chunk by its length. Files with chunks the resume guard does not look
at, of five chunks and more, are left to the theorems, which are about any number
(and `same_file_hole` has five, one of them neither guarded nor sampled); so is
racy storage behind a lossy network.

`desktop` assumes `Prompt`: a click comes after the page has been redrawn, and a
thread that has settled its card tells the engine before another transfer
starts. Without it `OneTransferAtATime` fails within a dozen steps: cancel a
transfer, press Start on the page that still says Pending, and a second thread
registers beside the first, because `start_*` asks the registry alone, which
says Cancelled. No document promises the contrary, so there is no violation run.
So the run does not look into those two windows, a start from a stale page and a
start between `SettleMarks` and `SettleTells`; it is about all the others. And
`Prompt` is an assumption about people and timing, not about the code: there is no
theorem under it.

Deadlock is checked in every run but `scheduler`, which stops when all is
drained. In `transfers` and `same_file` it can hardly be found, since the desktop
may always end; a lock order that blocks is found by `RunsEnd`.

Fairness. `scheduler`: lane workers keep asking and return what they got (`WF`),
the loops of the workers. `engine`: only the holder of the mutex is fair
(`HolderStep`); its steps wait for nothing. No command of a user, no worker
report and no crash is ever assumed to happen. `desktop`: a write that has begun
ends (`WF`); the main thread goes on with a command it has begun, and each thread
with its transfer (`SF`, since the mutex of the engine is taken and given back in
between by others, and a mutex is granted in the end). Requests to the agent have
socket timeouts; `adb` is assumed to exit. No click, poll or exit is assumed.
`transfers`: the steps of the Wi-Fi thread, of the ADB thread and the second half
of a pause command that has begun (`WF` each): threads are scheduled, requests
time out and adb commands end. A thread that waits for a lock is not enabled, so
`RunsEnd` also says that no two threads wait for each other. `same_file`: the steps of the main thread and the lanes taken together
(`WF(ThreadStep)`), since each has finitely many in a run. Neither assumes that a
request is ever answered, that a run begins, or that the user does anything.

What the properties say is written above each of them. The ones that took most
care: `UnfinishedStaysRecoverable` (`recoverable_tasks` never hides a task with
work left, over every crash between two operations), `MetricsMatchCheckpoint`
(the incremental metrics are those a recovery would compute),
`OverLimitOnlyByFallback` (how far the limit can be exceeded, and when),
`RecordedChunksWereDealt` and `CompletedMeansAllBytesDealt` (what an index in the
checkpoint stands for), `RecordedChunksOnDevice` (what the next run will skip is
there, over every answer, command and process that was lost) and
`AdbAndDualVerifyAll` (a task that ended well and was to be verified is whole,
over every retry and leftover).

## Proofs

Everything in the `*Proofs` modules is checked by `tlapm`, for any number of
files, sizes, chunk sizes, modes, limits, threads and tasks, and under the
assumptions named with each theorem.

### The engine

- `TypeCorrect`, `LaneTotalsHold` (`EngineProofs`): `Spec => []TypeOK` and
  `Spec => []LaneTotalsAddUp`, for any mixture of faults. Inductive invariant:
  their conjunction `TypesAndTotals`. The totals are not inductive alone: after a
  load the metrics are cardinalities, which are numbers only for finite sets, so
  the types of the checkpoint entry (`Image`) must be known for memory, draft and
  disk, whatever a torn write has left there (`TornReadsType`). The argument for
  the totals is `BytesOfParts`: the recorded chunks split into those of each lane,
  and disjoint sets of chunks cover disjoint sets of bytes.
- `ProgressDurable` (`EngineProofs`): with `IoErrors = FALSE`,
  `Spec => []ProgressIsDurable`. The invariant is inductive as it stands: every
  operation that changes recorded progress takes the mutex and gives it back in
  `Save` or `Insert`. No assumption on torn writes is needed.
- `LeasesAreCounted`, `NoChunkLeasedTwice`, `LimitHoldsWhileBothLanesHaveWork`
  (`SchedulerProofs`): the three invariants of the scheduler, built for any chunk
  size with any chunks completed before. Inductive invariant: `LeasesInOrder`,
  the three with the types and the finiteness of the leases. That a lease is new
  (`NoChunkTwice`) is what makes the counter grow with the number of leases, so
  none of them stands alone. `lease_next` tests the limit of the lane it turns
  to, and `OfferIsQueued` says what is left of that test after the fallback.
  `EngineKeepsLeasesInOrder` carries the invariant over to the engine, where
  schedulers are replaced and used by ticks, under every fault.
- `ProgressGrows` (`EngineProofs`): `Spec => ProgressOnlyGrows`, over every fault.
  Only `tick_task` needs an invariant: it goes on chunk by chunk, and the task it
  works for runs all the while (`TickRuns`), since nobody else has the mutex.
- `SingleTrackHolds` (`EngineProofs`): `Spec => []SingleTrackKeepsItsLane`.
  Inductive invariant: for the lane that is not the task's, `OffTrack`, which also
  says it of the two images (the file and the entry about to be inserted), because
  a recovery attributes bytes by the lanes it reads; a damaged checkpoint may lose
  lanes and then counts for the task's own (`TornReadsStayOnTrack`).
- `MetricsMatch` (`EngineProofs`): `Spec => []MetricsMatchCheckpoint` over every
  fault, several chunk sizes included, if a small file of a Dual task fits in one
  chunk (`BundlesAreOneChunk`); without this the property fails, as said below.
  Inductive invariant: `MetricsInOrder`, the equation with what makes a report
  new: recorded chunks belong to the split, and no chunk is attributed to two
  lanes. A report then adds the bytes of one chunk to disjoint ones
  (`BytesOfParts`), and a chunk of the split has the length it is reported with
  (`ChunkHoldsItsLength`).
- `CompletedIsComplete` (`CompletionProofs`): with `TornWrites = FALSE` and one
  chunk size, `Spec => []CompletedMeansAllRecorded`; failing writes and crashes
  are allowed. Three tests complete a task. The ones that compare counts are
  right if recorded chunks are chunks of the split (`CountsSuffice`); that of
  `tick_task`, which asks the scheduler, is right if what is neither queued nor
  leased is recorded, and if the counters say truly that nothing is out
  (`DrainedMeansNothingLeased`, from `LeasesInOrder`). `TaskInOrder` says both, of
  memory, and `ImageInOrder` what it comes to in the file and in the entry about
  to be inserted. Both assumptions are needed: `misread_checkpoint` and a resize
  violate the property.
- `UnfinishedIsRecoverable` (`CompletionProofs`): with a store that works as well,
  `Spec => []UnfinishedStaysRecoverable`. It follows from `ProgressDurable`,
  `CompletedIsComplete` and one more invariant, that a task that runs is not
  Cancelled on file: `ProgressDurable` leaves the state of a running task open.
- `EngineImplementsLifecycle` (`EngineProofs`): for a task that is created or
  recovered, not a demonstration, and a store that works,
  `Spec => ImplementsLifecycle`, the refinement of `TaskLifecycle`, resizes
  included. Beside the types it needs to know where the entry about to be
  inserted comes from (`DraftFromFile`). Every step is then one abstract step, or
  none.

### Delivery

- `RecordedMeansDealt`, `CompletedMeansDealt` (`CompletionProofs`): with
  `TornWrites = FALSE` and one chunk size, `DeliverySpec =>
  []RecordedChunksWereDealt` and `DeliverySpec => []CompletedMeansAllBytesDealt`;
  failing writes and crashes are allowed. A step of `Delivery` is a step of the
  engine (`DeliveryStepIsEngineStep`), so the invariants of `CompletedIsComplete`
  are at hand; `DeliveryInOrder` adds that the bytes of what memory, file and
  draft have recorded were sent or found for their length. The second theorem
  needs both: all chunks are recorded, what is recorded was dealt with, and the
  chunks of the split cover every byte (`SplitsCoverAllBytes`). A resize or a
  misread checkpoint violates them.

### Cutting and chunk sizes

- `EachByteIsCoveredOnce`, `BothCountAlike`, `LanesShare` (`CuttingProofs`): the
  arithmetic of `split_into_chunks` against its bytes, the desktop's copy of it,
  and the shares of the lanes of a same-file push, for every size, chunk size and
  stride, zero included. The chunk of a byte is its quotient by the chunk size
  (`QuotientIs`, `ByteInOneRange`); rounding up gives the number of chunks
  (`RoundingUp`).
- `WorkersCutAlike`, `RestartsKeepTheSplit` (`CuttingProofs`): with
  `RecordIoErrors = FALSE`, for every source and requested size, `SizingSpec =>
  []WorkersUseTheEngineSplit` and `SizingSpec => RestartKeepsTheSplit`. Both rest
  on the policies being idempotent, which is not obvious, since the size of a
  task is the greatest of those of its files: a policy leaves alone whatever lies
  between its own result and its upper bound (`WifiPolicy`, `DualPolicy`), and so
  the greatest result for any file is left alone for each (`WifiTaskSettles`,
  `DualTaskSettles`). Inductive invariant: `SizesInOrder`.

### The desktop

- `DesktopRunsTheEngine` (`DesktopProofs`): `DesktopSpec => Spec`. What is proved
  of `Engine` holds under `Desktop`.
- `WorkersStopInTime`: `DesktopSpec => []StopsWithinOneChunk`, with no assumption.
  Inductive invariant: `WorkersInOrder`, which says of each place of a thread how
  many chunks it may have sent since its flag was set, and `SizeStays`, since the
  boundary a thread looks at is counted with the chunk size.
- `RunningCardsAreServed`: `DesktopSpec => []RunningCardHasWorker`, unless listings
  fail in a Wi-Fi task, where the code leaves such a card.
- `DeletedTasksStayGone`: with a store that works, `DesktopSpec =>
  []DeletedStaysGone`. `Gone` follows the deletion through its sections.

### Transfers

- `TransferInvHolds` (`TransferProofs`): `Spec => [](RootGiven => TransferInv)`,
  the inductive invariant of `Transfers` for any number of files and chunks, any
  tasks and any leftovers, if the agent may write where a push sends its files
  (`RootGiven`). Without that a file may be in two places, and the invariant,
  which looks at the target, is false: see [below](#where-code-and-documentation-part). It has a part for each
  kind of worker. A Wi-Fi push writes each file without a hole (`PushTidy`: what
  is under the temp name is a beginning of the file), which is what makes an
  answer by length true; the ADB thread has all parts good up to the one it is at
  (`AdbTidy`); where a thread that verifies has been, files are whole
  (`AdbVerified`, `LaneWhole`); a pull writes into the file it found
  (`PullTidy`).
- `RecordedChunksOnDeviceHolds`, `FinalFilesAreWholeHolds`,
  `PulledChunksAreLocalHolds`, `AdbAndDualVerifyAllHolds`: the four invariants of
  `Transfers`, each from `TransferInv`. All but the one about pulls, which ask for
  no access, have `RootGiven` in their premises.
- `TransfersRefine`: `Spec => ImplementsFileTransfer`, for the files that go by
  chunks to a clean target the agent may write to (`ByChunks`: neither those of a
  bundle nor an adb pull). Every step delivers at most one more chunk, records
  only what has arrived, or publishes a file whose chunks are all recorded. What
  the steps that do more than that to the device come to had to be shown: an
  assembly or a rename moves a file from its parts or its temp name and neither
  delivers nor loses a chunk (`Complete`), a START_FILE creates an empty file,
  which delivers its only chunk.

### Same-file push

- `SameFileInvHolds` (`SameFileProofs`): `SameFileSpec => [](device.access =
  "granted" => SameFileInv)`, for any number and size of files, strides, batch
  size, leftovers, both kinds of network and of storage. What the properties say
  is far from inductive: a chunk is recorded one step after it was written at the
  earliest, by another thread than the one that may end the run meanwhile, and a
  later run decides by the checkpoint what to remove, to skip and to write. The
  invariant says where the agent is (`AgentInOrder`: on a steady network at the
  file the lanes are at, so that no request is refused), what each lane has
  passed and what is in its batch (`LanesInOrder`: nothing that is neither
  recorded nor pending), and what is recorded of each file (`Kept`, for a calm
  run, as `CalmInOrder` has it): either all of it is in the temp file and nothing
  of the source under the final name, or the file is `Settled`, with all of it
  under the final name and nothing under the temp name. A resume of a settled
  file trusts every chunk (`TrustworthyIs`), so neither lane writes, and
  COMPLETE_FILE finds no temp file to put in its place (`SettledStays`). Racy
  storage cuts only the temp file under the lanes, never what they have settled
  (`StorageCutsStays`).
- `RecordedAreOnDevice`: `SameFileSpec => []RecordedChunksOnDeviceIfCalm`, from
  `Kept`. `RecordedStay`: `SameFileSpec => RecordedChunksStay`, as the checkpoint
  forgets nothing (`StepsAre`) and the next state has the invariant too.
- `FinishedAreWhole`: `SameFileSpec => []FinishedFilesAreWhole`, if the digest is
  taken of all of the file (`Verify` and not `Sampled`), or the network is steady
  and the storage consistent. `CheckedIsWhole` is the step to the report,
  `ReportsInOrder` the invariant that what was reported stays as it was. One of
  the two assumptions is needed: `same_file_hole` violates the property with a
  sampled verification and a lossy network. On a steady network and consistent
  storage the comparison of sizes is enough, whatever an earlier transfer has
  left there; on racy storage it is not, since the other lane makes a shortened
  file long again.

That a lane with no next chunk has passed all of its chunks (`JoinStays`) needs the
least element of a set of numbers (`LeastChunk`), which the library gives for
well-founded relations.

### Assumptions and what is left to TLC

Beside the assumptions named above the theorems use those of the modules
(`ChunkingAssumption`, `SchedulerAssumption`, `CheckpointAssumption`,
`EngineAssumption`, and their likes in `Desktop`, `Agent`, `Worker` and
`ChunkSizing`), which give the constants their types, say that the configured
chunk size is one of `ChunkSizes`, and in `Agent` that the chunk is the unit of
size.

Of `SameFile` they use that a file has some content (`SameFileAssumption`), as only
files of 32 MiB or more are pushed this way.

Only model-checked: liveness (`EventuallyDrained`, `OperationsReturn`,
`TransfersEnd`, `RunsEnd`), which is out of the prover's reach, with what rests on
`ENABLED`; and `OneTransferAtATime`, which rests on `Prompt`. Every other
invariant, action property and refinement that a passing run checks is the
statement of a theorem.

## Where code and documentation part

Runs that TLC must find violated; `PROJECT.json` quotes the sources.

- `misread_checkpoint`: a file cut in its last line can load as an older format,
  with a timestamp's digits as a chunk index, and the task completes without
  that chunk.
- `same_file_hole`: in a same-file push the ADB lane makes the temp file longer
  than a chunk of the Wi-Fi lane that was never written; CHUNK_STATUS and
  STAT_FILE go by length and confirm it, it is recorded, and from 128 MiB on the
  samples of the verification may miss the hole.
- `unverified_retry`: with verification on, the Wi-Fi workers record a file before
  they verify it and skip what is recorded without verifying it, so a task whose
  verification has failed passes at the next attempt.

Others have no run of their own:

- a resize keeps the indices of the old split (engine.rs 631), whose counts are
  then enough for fewer bytes: `delivery` with two chunk sizes violates
  `CompletedMeansAllBytesDealt`;
- the ADB workers verify what they skip, but skip it for its size alone (adb.rs
  342): a file of the right size with other contents makes a verified task fail
  at every attempt, and nothing the desktop does replaces it;
- parts an earlier transfer has left are used if they have the right size, and
  put together with the others even if the file has no such part (adb.rs 956,
  `cat part-*`): a part of another chunk size makes the file longer, which only
  a verification notices;
- the Wi-Fi lane of a Dual task sends its bundles again at every resume, whatever
  the checkpoint has; while it writes a file anew the agent has deleted the old
  one, so a recorded file may be missing until the bundle has been sent;
- the lanes of a Dual task note their totals and then write Running into the card
  (lib.rs 2612), which hides that the user has pressed Pause until they have
  stopped;
- a file whose size is no longer that of the listing when it is put into a bundle
  is an error of the lane, which ends with what it had collected unsent (lib.rs
  1697); one that changes between that look and the reading of its contents
  (lib.rs 1715) leaves a payload that is not as long as the manifest says;
- the files are numbered anew from the directory listing at each start (lib.rs
  1165), while the checkpoint numbers them as they were at creation;
- `delete_task_record` drops the task before it removes the file (engine.rs 617):
  if that fails the command reports an error and the task is back at the next
  start;
- Pause pressed just after the worker has ended leaves a card that says Pausing
  with nobody to change it (lib.rs 297): starts return that card, and only a
  cancellation or a new process gets the task out of it;
- a second start of a task that has failed sends every chunk, records none, and
  shows Completed beside a Failed task (lib.rs 314: the refusal is ignored);
- `RecordedChunksOnDevice` fails in `SameFile` over a lossy network, for the
  reason of `same_file_hole`; a verification of the whole file then refuses the
  file, but does not correct the checkpoint: the resume guard does, for the
  chunks it pulls;
- `RecordedChunksStay` fails there too: after COMPLETE_FILE and a failed
  verification a resume rewrites the bad chunk into a new temp file, which the
  next COMPLETE_FILE puts in the place of the almost whole one;
- both fail on racy storage too, with a steady network: a lane records a chunk the
  other one's write then takes away. What the hardware tests have seen is the
  short file; a file that has grown again has a hole in its place, which the size
  does not show and the samples may miss;
- the agent refuses a root outside of its own directory as long as it has no access
  to all files, and no worker looks at that answer (lib.rs 1437, 1148, 1827, 1849,
  2772): the Wi-Fi files of a verified Dual task are written to, and verified in,
  the default root, and the task ends well with nothing at the target, against
  android-agent/README.md 32 and 48 and what HARDWARE_VALIDATION.md 101 has the
  tester confirm. If the access is given between two runs, the second one skips the
  chunks the first has put in the default root, and COMPLETE_FILE publishes a file
  with a hole. With `access` `"missing"` `Transfers` violates
  `VerifiedTransfersAreWhole` for a verified Dual task, and with `"changing"`, without
  `RootGiven` in their premises, `RecordedChunksOnDevice` and `FinalFilesAreWhole`
  for a Wi-Fi push;
- a Dual or ADB task completes over files nobody sent, if adb finds files of the
  right size there (adb.rs 342), and over chunks CHUNK_STATUS or STAT_FILE took for
  written: `Delivery` says "found" of both, and only a verification tells them
  from sent ones;
- leftovers at the same path confirm lost chunks in a Wi-Fi push as well:
  START_FILE does not truncate, and without `clean` in its premise
  `RecordedChunksOnDevice` fails in `transfers`;
- SET_TARGET_ROOT names no task, and the answers to START_FILE and COMPLETE_FILE,
  like those to it, are only looked at for the transport: a push reports a file
  complete whose COMPLETE_FILE a restarted agent has refused, unless it verifies;
- the base64 fallback cannot carry chunks of more than about 12 KiB, so with the
  sizes the policies choose it only helps a short last chunk (or a small file);
- the checkpoint is overwritten in place (checkpoint.rs 71), so an exit during
  the write may leave a file that does not load; `misread_checkpoint` starts
  there;
- a bundled file of several chunks is counted more than once in the metrics
  (lib.rs 1770): `engine` with `Threshold = 3` violates
  `MetricsMatchCheckpoint`, two bytes in chunks of one being a small file then;
- a Wi-Fi start whose source cannot be listed leaves a Running card that no
  thread serves (lib.rs 1017), which later starts return and which keeps the
  record from being deleted: `RunningCardHasWorker` fails in `desktop`, and is
  checked over ADB;
- a unit test (lib.rs 5598) expects `dual_wifi_chunk_size(8 MiB)` to be 256 KiB
  where the code (4154) computes 4 MiB;
- `ChunkSizing` with `RecordIoErrors = TRUE` violates `WorkersUseTheEngineSplit`
  (the error of writing a record is ignored, lib.rs 554, 1028, 1108).

## Not modelled, and the plan

- *The server's life* (`AgentServer.kt` 41, `TransferService.kt`): a stop followed
  at once by a start lets the old accept loop clear `running` for the new one. To
  a transfer this is an agent that does not answer, which a lossy network and
  `AgentRestarts` have at any moment; what the service promises about it is
  written nowhere.
- *PAUSE_TASK, RESUME_TASK, CANCEL_TASK and the log requests* of the agent set or
  return words that are shown; no worker sends the first three.
- *Commands that try an agent by hand* (lib.rs 3025-3180): they open a session of
  their own, and the page calls only those that read.
- *Several tasks*: `list` and `recoverable_tasks` read all checkpoints, and the
  first that does not load hides the rest (engine.rs 508), in one step; tasks
  share no other state but the agent's one active task, whose root and current
  file a second transfer's START_TASK resets; two transfers at once over the
  agent are not modelled.
- *The registry of a Dual task*: `Desktop` has one thread per task; the locks and
  the pause flag of the two lanes are in `Transfers`, their card is not.
- *Changes of the source* under a task, on the PC or the phone, and errors of the
  local disk beyond those that end a worker.
- *An adb process that outlives the desktop* and goes on writing.
- *Probing and installing* (adb.rs 111-142, 422-776, 1184-1356), *inventory*,
  *logging*, *`protocol.rs`* (types nothing constructs), *UI, service and
  activity, smoke scripts*: no state that a transfer depends on, or rendering.
- Text formats beyond what a torn line needs, fingerprints and digests (equality
  of contents stands for equality of digests), wake locks.

Worth doing next: an abstract specification of the same-file push, which takes a
view of delivery that a chunk may be lost from as long as it is not recorded (the
removal before a new start does that), and a registry of Dual tasks with two lanes
to a card.

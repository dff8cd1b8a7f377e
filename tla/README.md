# A verification project for the Soty agent

Soty is a set of local tools driven from a browser. The page is only an
interface; the work is done by an agent, one Node.js process that owns the
queues, starts ffmpeg, whisper and other children, and streams its state to the
page. This directory holds TLA+ models of the agent's queues, the TLC
configurations that check them, and TLAPS proofs of their most important
invariants. It covers the compression queue, the power governor, the
transcription queue, the stitcher's queue, the image conversions, the way a list
reaches the disk, and the event stream. Paths below are relative to the
repository; `queue.ts` alone means `apps/agent/src/queue/queue.ts`.

## 1. The system

### Components, their state and their operations

| Component | State | Operations | What makes it correct |
|---|---|---|---|
| Lifecycle tables (`packages/shared/src/lifecycle.ts`, `queue/transitions.ts`) | none; a table of statuses and edges per tool | `decideTransition`, `isSettled` | every status a person sees is reached along an edge |
| Compression queue (`queue/queue.ts`) | the list of jobs, the open batch, the one activity slot (`current`: idle, estimating, encoding, encoding-held), pause holds, the previous result of a repeat, tool availability, update state, the drain watchdog | add, remove, start, pump, run, cancel, cancelAll, setPaused, prioritizeEstimate, handleWake, requestUpdateDrain, settings, recovery, shutdown | one encode at a time; nothing queued is forgotten; nothing finished is lost; nothing half-written stays; every child can be stopped |
| Power governor (`power/governor.ts`, `power/spawn.ts`, `platform/windows-suspend.ts`) | the managed children with their tree, holds, termination pin and suspension; the limit; the cycle timer | register, release, hold, resumeForTermination, setLimit, tick, setDescendants, shutdown | a stopped child has somebody who will resume it; a child being terminated runs |
| Power settings (`power/store.ts`) | a file | read, write | the limit shown is the limit that survives a restart |
| Estimation worker (`estimate/worker.ts`) | the background pump, the prioritized pump, a generation, the current child and its abort | schedule, runPrioritized, cancelPrioritized, resume, shutdown | never beside an encode; a cancel reaches its own estimate only |
| Lists on disk (`queue/store.ts`, `queue/transcription-store.ts`, `stitcher/store.ts`) | the list on disk, a save chain, the copies beside it | save, load, migrate | at every moment a start would read a list that was really there, and never an older one than before |
| Transcription queue (`queue/transcription-queue.ts`, `transcription/document-store.ts`) | jobs, the run that holds whisper, the line of language guesses, the documents, the model | add, start, pump, guess, cancel, cancelAll, remove, name a language, restart | the card that says it is transcribed is the one whisper works on; a stop hits its own run; no transcript is lost to a run that did not complete; what a person answered stays |
| Stitch queue (`stitcher/queue.ts`) | rows, a chain of promised turns, the running map, what a run found in its video | add, start, cancel, run, remove, shutdown, restart | one turn at a time; a row that waits has a turn; a run that is stopped or fails leaves the video alone |
| Stitch pipeline (`stitcher/pipeline.ts`, `stitcher/body-cache.ts`) | a directory of prepared bodies | build, evict | not modelled |
| Media actions (`media-actions/queue.ts`) | jobs, additions in flight, the pump, cancels that wait, the quit | add, cancel, cancelAll, shutdown | a stop is not reported as a failure; a converted image is under its own name; a quit ends |
| Event hub (`server/sse.ts`, `power/routes.ts`, `power/sampler.ts`) | subscribers and their channels, the heartbeat, the watchers of the sampler | subscribe, publish, detach, closeAll | the sampler and the heartbeat run exactly while somebody listens |
| Agent shell (`index.ts`) | modules, the update-drain poll, the save chain | HTTP routes, update hand-over, shutdown | an update never interrupts accepted work |
| Web interface, team service, landing tools, packaging | | | not part of the agent's concurrent core |

### How they interact

The process is single-threaded, so nothing is preempted; but almost every method
awaits, and what it read before an await may be stale after it. The compression
queue, the estimator and the governor share one resource, the encoder:

- `pump()` claims the slot for a card and starts ffmpeg through the governor;
- an estimate that a person asked for while the queue works borrows the machine:
  the queue *holds* the encoder suspended through the governor, runs the
  estimator, and releases the hold;
- a pause of a card is a second, independent hold on the same child;
- a stop must undo every hold, because a suspended process does not receive
  SIGTERM, and it frees the slot at once so that the next card may start while
  the old run still unwinds;
- a watchdog looks at the queue every second as a safety net;
- the shell asks for an update to be drained and polls `busy()`.

Within the transcription queue the same happens on a smaller scale: a guess of a
file's language and a run of whisper must not share the machine, so a run sends
the guess of another file back in line and waits for the guess of its own. The
other queues share nothing but the governor, through which each starts its
children, and the event stream, on which each publishes its list.

### What is hard

Interleavings of a stopped run with a newer one; a cancel that awaits while the
pump moves on; the repeat of a finished card, whose old result must survive;
holds that outlive their owner; the safety net switching itself off; a tool
disappearing in the middle of a batch; the machine sleeping; an update arriving
between two awaits of `start()`; a document saved while its card is stopped, put
back or removed; turns promised to rows that were stopped meanwhile; a quit that
waits for additions, which wait for names; a subscription that evicts the last
other reader of the channel it is about to start; a process that dies between a
write and its rename. The list with its lines is `hazards` in
`PROJECT.json`; every property below is aimed at one or more of them.

## 2. Modules

| Module | What it is |
|---|---|
| `JobLifecycle` | the statuses and edges of the compression lifecycle and the function `Moved`, which asks the table before it moves a card |
| `JobCards` | the abstract specification: what a person may see a card do |
| `CompressorQueue` | the compression queue with its slot, its runs, the disk and the governor's holds |
| `MCCompressorQueue` | instances for TLC: the sets, the operations of each run, an initial state restored from disk |
| `CompressorQueueProofs` | type correctness, one lemma per helper and per action; the inductive invariant of the batch and the watchdog; the refinement of `JobCards` |
| `CompressorRunsProofs` | the inductive invariants of a run, its card, the disk, the slot and the pause |
| `PowerLimit` | `setLimit()`: the save of `power/store.ts` with its awaits, the limit it then puts in force, and what a restart would load |
| `PowerGovernor` | extends `PowerLimit` with the governor: children, trees, holds, pins, duty cycle |
| `MCPowerGovernor` | two instances for TLC, one per behaviour: children with one window, and two windows |
| `PowerGovernorProofs` | the inductive invariant of the governor, its theorems, and the limit and its file |
| `TranscriptionQueue` | the transcription queue: runs, guesses of languages, documents, the model, save and restart |
| `MCTranscriptionQueue` | an instance for TLC: one card of a person |
| `TranscriptionQueueProofs` | its inductive invariants and the theorems about runs, stops, answers, documents, probes and saves |
| `StitchQueue` | the stitcher's queue: the chain of turns and the turn that is taken |
| `MCStitchQueue` | an instance for TLC |
| `StitchQueueProofs` | its inductive invariants and theorems |
| `MediaActions` | the queue of image conversions, with its names, stops, deadlines and quit |
| `MediaActionsProofs` | who may be labelled failed, where a converted image is, who takes a waiting one, and what a quit leaves |
| `Filter` | `Only`: the elements of a list that satisfy a condition |
| `FilterProofs` | what `Only` and `Append` keep of a list |
| `StateFile` | how a list reaches the disk: the chain of saves, the copy, the rename, a death in between |
| `ChannelHub` | the event stream and the timers that run for its readers |
| `FileAndStreamProofs` | the invariants of the file, one for copies of one's own and one for the chain, and that of the stream |
| `MCTools` | the smaller components and the transcription queue side by side, for safety |
| `MCProgress` | the image conversions and the transcription queue side by side, for liveness |

An operator with the comment `\* mutant` stands before the definition it changes
and is used by no specification; it records a plausible mistake and shows that the
property named for it in `PROJECT.json` would notice.

### CompressorQueue and the code

| State | Code |
|---|---|
| `status`, `out`, `prev`, `paused`, `prio` | `CompressionJob.status`, `.outputPath`, the queue's `previousResults`, `.paused`, the estimate priority |
| `listed` | the card is in `this.jobs`. It is separate from `status` because a run keeps the job object after the card is removed |
| `file`, `writing` | what is on disk at each output name, and the name each encoder writes. POSIX: unlinking a name under an open encoder leaves the encoder writing to no name |
| `act` | `this.current`, with the run (the `AbortController`) and the child |
| `holds`, `terminating` | the governor's holds on a child, and the children it was told to let terminate |
| `pauseHold` | `this.pauseHolds` |
| `watchdog`, `pumpDue` | the interval is armed; a call of `pump()` is pending |
| `handoff` | the loop of `runPrioritizedEstimates()`, with `wasEncoding` |
| `pc`, `rjob`, `child` | each pass of `pump()` between its awaits, its card, its encoder |
| `batch`, `inBatch` | `this.batch` (none, open, finished) and the cards with its `batchId` |
| `starting`, `cancelling` | a `start()` or a `cancelJob()` between its awaits, with what it read before |
| `tools`, `update` | `this.tools`, `this.updateState` |

An action is the code between two awaits. Where the code calls several methods in
a row, each method is an operator from slot records to slot records (`SetActivity`,
`ReleaseEstimateHold`, `StopActiveEncode`, `Handoff`, ...), so that the order of the
calls in the code is the nesting in the model.

Choices a reader should know:

- `pump()` called synchronously and `pump()` queued as a microtask both set
  `pumpDue`. Microtasks are not given priority: the model has every behaviour of
  the code and some in which another callback comes first.
- Awaits between which nothing of the model changes are one step: source access
  and image preparation (`Prepared`), `probeMedia` and the file size (`Validated`),
  the resets of the cards of one start (`StartBegin`).
- The encoder of a held final image, three passes in a row, is one child.
- `estimating` of an `encoding` activity is set and cleared without an await
  between, on the platforms where it can be set at all, and is left out.
- A second handoff loop while one is active is answered `false` by the estimator
  at once; its claim and its release are one step.
- An `unlink` the code awaits without looking at its result belongs to the step
  that asks for it.
- A card has at most one `cancel` of a repeat in flight.
- `cancelAll()` awaits each card it stops. `CancelAll` is the stop of the cards that are
  not repeats, with the batch closed behind them. Where another callback runs between
  two of its cards, and where a card is a repeat, it is the sequence of their stops
  (`Cancel`, `CancelBegin`, `CancelEnd`) with `CancelAll` at the end.
- `Prepared` is where a run whose images are prepared may be refused, find a tool
  missing, or be stopped.
- Every card has its own output names: names of different cards are disjoint by
  the reservation in `outputPathFor`. A file placed there by a stranger is not
  modelled.
- The order of the list is left out: the pump may take any queued card of the
  batch, where the code takes the first.
- The power limit is 100: the governor's duty cycle is not part of this module.
- A process that vanished during sleep never reports its exit: its run stays in
  the model forever, as it does in the code.

Not modelled of the queue: shutdown and persistence, `removeMissingSources`,
`recoverRuntimeInterruptedJobs`, changes of settings, team jobs, reordering. The
component is therefore marked partly modelled.

### PowerGovernor and the code

| State | Code |
|---|---|
| `children`, `gone` | `this.children`; those whose process has exited and whose close event has not come |
| `tree`, `frozen` | `ManagedChild.descendants`, `.suspendedDescendants`, as pairs of a child and a kid |
| `suspended` | `ManagedChild.suspended` |
| `holds`, `tokens` | `ManagedChild.holds`, and the release functions handed out and not called. They differ after a termination: it clears the holds, the functions remain |
| `terminating`, `lapsed` | `ManagedChild.terminating`, and the children whose `terminationPinUntil` has passed though nobody has looked |
| `cycle` | `this.cycleTimer`: none, or set in the on-window or in the off-window |
| `support` | `this.pauseSupported` |
| `limit` | `this.limit` |
| `disk`, `tmp`, `call`, `want`, `at` | `power.json`, the temporary file, and for each request how far it is, what it wants, and what its open file is called now |
| `crowded`, `clean` | history variables: the requests in flight that met another, and whether a request that met none was the last to end |

The governor's methods are synchronous, so each is one action; what they call
(`suspend`, `resume`, `retune`, ...) are operators from governor records to governor
records, nested as the code calls them. Only `setLimit()` awaits, in the save.

Choices a reader should know:

- `suspended` and `frozen` are what the governor believes. A signal that fails on a
  process that lives is not modelled; a process that has exited cannot be stopped,
  its kids can.
- A tree walk is one step: it replaces what a child's kids are. The code walks while
  the table is being read, and applies the result in one step as well.
- `refreshPauseSupport()` runs when the mechanism gives up. That it gives up inside
  a callback of the cycle, in the middle of `suspendAll()`, is not modelled.
- A process of the model is registered again only when no release function of its
  former life is outstanding; a pid used again before the close event is not modelled.
- Writing into a file another request has renamed goes to the file, not to the name.
- A death of the agent needs no step in `PowerLimit`: `Loaded` is what a start would read
  at any moment, and the properties are asked at every one.
- `shutdown()` resumes and kills everything in one step and is left out.

### TranscriptionQueue and the code

| State | Code |
|---|---|
| `list`, `status` | `this.jobs` and `TranscriptionJob.status`; `none` before it is added, `gone` after a restart that did not bring it back. A run keeps the job object of a card that has left the list, so `status` outlives `list` |
| `lang`, `listening` | `languageSource` (nobody, a guess, the run, a person) and `languageProbing` |
| `probeQueue`, `walker`, `mode` | `this.probeQueue`, the probe `drainProbes()` awaits, and whether it was asked to step aside or was dropped |
| `run` | the pass of `pump()` that holds `inFlight`: its await (`settling`, `running`, `saving`, `renaming`, `restoring`), its card, its attempt, and whether `active.cancel()` reached it |
| `tries` | `attemptId`: which start of the card is the current one |
| `tools`, `model` | `setToolAvailability()`; the speech model on disk, on its way, or neither |
| `doc`, `result` | the sidecar on disk, by the run it came from; a history variable with the run it should have come from |
| `cleanup` | removed jobs whose sidecar is still to be deleted |
| `dirty`, `writing`, `disk` | the persist timer of `index.ts`, the snapshot being written, the list on disk |

An action is again the code between two awaits; the methods that call each other
are operators on the record `Queue`. Choices a reader should know:

- A pause is a hold of the governor on the child of the card and nothing else; it
  is `PowerGovernor`'s subject and left out here.
- The language setting is `auto` and there is one model, so every card wants a
  guess and needs the same download.
- The microtask in which `pump()` goes on after an await that is already kept is
  the step itself; the wait for a guess is a step of its own only when the
  card's own guess is running, for otherwise it is over at once.
- The guess of another file that a run sends back in line goes on until its child
  ends, as it does in the code, and may find the run over by then.
- Files can be read at a restart, and the save of the list does not fail (what a
  failing one leaves is `StateFile`'s subject).
- `clearCompleted` leaves interrupted cards in the list, as the code does.

### StitchQueue and the code

`pump` is the chain of promises (`this.pump` in the code): each press of the button appends a
turn with what the press decided (`to`: beside, replacing or renamed; `found`: what
the row's last run found). `turn` is `run()` between its awaits: `making` the
temporary directory, `looking` at the source, `working` (the pipeline),
`installing`, `measuring`, `clearing`. `live` is `this.running`, `file` and `gone`
what has become of each video, by the press that changed it, and `ran` a history
variable: the press of each row's last turn. A row can be pressed again while an
older turn of it is still in the chain; both are then in `pump`, and the first is
taken for the row, as in the code.

Every await of a turn may fail. A temporary directory that cannot be made fails before the
`try`: the row goes on saying it runs, and `stuck` (a history variable) remembers it. A
refusal is labelled stopped when the signal says so; an error that is thrown is labelled
failed whatever the signal says (`Broken`). An install is a rename, or, from another
volume, a copy that opens its target first (`CopyBegins`): a video it is copied over
is in `damaged` until the copy ends. The unlink of a video that got another name may
fail too. A press is heard while the queue shuts down, as in the code, and its turn is
then skipped. A restart makes of what was in hand an interrupted row (`failed` with
`STITCH_INTERRUPTED`), a status of its own in the model, for no run ended it.

The pipeline is one step that ends or fails.

### MediaActions and the code

`adding` is how far each addition is in its loop, `choosing` the names that were
reserved when the search for a free one began (the search awaits the disk, and two
additions may find the same name). `conversion` is the pump with the conversion it
awaits. `waits` holds those who await the stop of an image, `stopAll` what
`cancelAll()` has still to look at, `quit` where `shutdown()` is.

- `Due` puts the steps that only wait for promises already kept before the next
  event: a continuation of `cancelAll()` or `shutdown()` comes before a timer.
- An encoder that is aborted ends, because the spawn seam kills it after its grace
  period; one that is not may hang. This is what the fairness says.
- An addition cannot break off between two of its images: the only calls in its loop that
  could throw are of `nextConvertedImagePath()`, which takes every error of the disk for
  a free name (`files/paths.ts:52-57`), and of `path`, on the strings the route has
  validated. A request therefore always reaches its `schedule()`.
- The branch of `pump()` for a job that is queued and in `cancelling` at once cannot
  be reached: `cancel()` of a queued job settles it at once. It has no disjunct.

### StateFile and the code

`saves[n]` is the save the n-th change asks for, `node` the files that exist by their
blocks, `copyName` and `onDisk` where the names lead. A write starts at the
beginning and takes nothing away, so a shorter list written into a file somebody
else is using leaves the tail of the longer one. `Chained` and `OwnCopy` TRUE are
the stores of the compressor and of the transcription list
(`queue/store.ts:187`, `:172`); FALSE is the stitcher's (`stitcher/store.ts:98`).

### ChannelHub and the code

`joined` and `wants` are `this.subscribers`, `heartbeat` its timer, `stopper` the
`stopSampling` of `power/routes.ts`, `watchers` the sampler's count, whose timer
runs while it is positive. Nothing awaits; an action is a call with all its
callbacks: `Subscribes` evicts, joins, starts what nobody listened to, and may
lose the reader to a frame that cannot be written. `OpeningFails` says whether the
very first frame may already fail inside `watch()`; the run assumes it does not,
because the response has just been opened (see below for what happens if it
does). A write that fails for nobody is no step.

### MCTools and MCProgress

Both are sums: a behaviour chooses one component at the beginning and the others
stand still. Every property of a component is therefore checked over all
behaviours of that component; the components are not interleaved, which would
multiply the states and show nothing, for they share no state.

## 3. What TLC checks

The runs of the compression queue use two cards, two passes of the pump in flight (the stopped one and the
next; a third would need a second stop before the first child ends, and adds no new
pair of actors) and two output names per card (the first choice, and the one beside
it a repeat needs). The cards are symmetric. `CHECK_DEADLOCK FALSE` everywhere: a
queue with nothing to do rests. Each run enables the operations its question is
about, named by the set `Ops`; together they enable all of them except `readd`, which
reuses a model card for a second file and doubles the state for nothing new.

| Run | Operations besides add, start, pump, run | Properties | Distinct states |
|---|---|---|---|
| `queue_lifecycle` | cancel of a repeat, stop-all, retry, repeat | `TypeOK`, `QueuedInOpenBatch`, `QueueWatched`, `CardsRefinement` | 0.75 M |
| `queue_stop` | cancel, stop-all, retry, repeat, audio fallback, sleep, tools lost, kill, remove | `ProcessingOwnsSlot`, `NoPartialLeft`, `PreviousKept`, `CompletedHasResult` | 1.3 M |
| `queue_handoff` | cancel, stop-all, retry, pause, estimates asked and withdrawn, kill, update | `HoldsHaveOwner`, `EncoderReachable`, `SlotKeptWhileEncoding`, `DrainAdmitsNothing` | 1.3 M |
| `queue_progress` | cancel, estimates asked | `QueuedIsTaken`, `StoppedEnds`, `ProcessingEnds` | 23 k |

Three properties of the passing runs need their operations named, because they fail with more:

- `CompletedHasResult` holds in `queue_stop`, without the cancel of a repeat, and
  fails with it (`repeat_cancel`).
- `SlotKeptWhileEncoding` holds while a card is not started again before its
  stopped run has unwound (`RerunBusy = FALSE`), and fails otherwise.
- `EncoderReachable` holds without audio failures, and fails with them.

The liveness run starts from a list restored from disk (`Restored`) with every card
ready, and assumes the fairness of `Fairness`: the pump's microtask runs, a run that
may go on goes on, an encoder that is not suspended exits, the estimate loop ends,
the watchdog ticks, a `start()` in flight is answered. These are what the event loop,
the timers and the operating system give; nothing is assumed of the person, so the
properties allow for a pause nobody lifts, and nothing brings a lost tool back.

The governor has one passing run, `governor` (0.13 M states), with two instances; a
behaviour is of one of them. `"children"` has two children (one is in the cycle while
the other comes, goes or is held), one kid, one tool, and one window, whose saves
succeed: a refused one changes nothing the children see. `"windows"` has no child and two
windows that set the limit at once, with writes and renames that fail; two are enough for
one request to move what another has open. The limits are 50 and 100: the code only asks
whether the limit is below 100, and the lengths of the windows of the cycle do not matter
to the order of events.

The run checks `StoppedHasOwner`, `TerminatingRuns`, `TreeStopped`, `HeldStaysStopped`,
`FreedRuns`, `PinEnds` and `LimitSurvives`. Two of them are liveness properties
(`FreedRuns`, `PinEnds`) and assume that the timer of the cycle fires
(`WF_vars(Tick)`), which `setTimeout` gives as long as the agent lives, and nothing
else: tools may keep their holds, children may live. `StoppedHasOwner` and `FreedRuns`
exempt one state by name, `LeftToNobody`: the suspend mechanism has given up while a
limit is set, and a release function leaves the child to a cycle that will not come.
`LimitSurvives` says that the limit in force is the one a start would read, at every
step, for requests that meet no other and again after any that did. Without that
condition it is `LimitOnDisk`, which the code breaks (see below).

### The other components

| Run | Instance | Properties | Distinct states |
|---|---|---|---|
| `tools` | two rows of one video, three presses, one restart; two additions of four images, one of them in the target format; three changes of a list of one or two blocks, one death; four readers and two panels, at most three readers, two of a channel; one transcription card of a person, started twice, and one of a team, started once, one language asked for anew (`"cards"`); one transcription card, started, saved and restored (`"list"`); one started twice, saved and restored (`"again"`) | `RunningIsTheTurn`, `QueuedHasTurn`, `StoppedLeftSource`; `ConvertedIsThere`, `StopIsNotFailure`, `QuitLeavesNothing`; `FileIsAList`, `FileKeepsUp`; `CostsFollowReaders`; `ProcessingIsTheRun`, `DocumentKept`, `ListeningIsInLine`, `ManualKept`, `StopHitsItsRun`, `SavedIsCurrent` | 1.15 M |
| `progress` | two additions of three images; two transcription cards, started once each, one of them removable | `QuitComesToAnEnd`, `ListeningIsHeard` | 45 186 |

The bounds. Two cards are enough for whatever one run does to the card of another,
and one of each kind for a stop-all that must spare the team's; two starts of a card
are a run and the one that begins while it unwinds, and it is enough that one card has
them. Two rows of one video and three
presses give the row that is stopped in line and pressed again, with another row's
turn between. Two additions can find one free name; the third image is the one that
is taken while a stop-all waits for the first; the fourth needs no conversion. Three
saves are one on disk, one under way and one that is due; two lengths are what tells a
shorter list from a longer one. Three readers of at most three, two per channel, make
both evictions happen in one subscription.

The transcription queue has three instances in `tools`. `"cards"` keeps the tools and the
model and saves nothing (`CardsNext` leaves out those steps): it is about two cards
whose runs, guesses and stops meet. `"list"` takes the tools and the model away, saves,
dies and restores, with a single card started once (`ListNext`). `"again"` starts that card twice
and lets the agent die in between or in the middle of the second run's save
(`AgainNext`): the transcript of the first run must survive unless it was the document being replaced. `Persisting`,
`CanWithdraw` and `MaxCrashes` name these choices for the other runs. `CanLoseRestore`
is FALSE in every run: `DocumentKept` is checked where putting a document back does not
fail, because when it does the code tells a person, and the new document stays. Nothing
is checked of a card whose run is in flight while its team operation ends.

`ListeningIsHeard` assumes of the event loop that a run that may go on goes on, that a
probe ends, that a download ends, and that a file is measured and a sidecar deleted
(`TranscriptionQueue!Fairness`): each is a child process with a timeout or a call of the file
system. `QuitComesToAnEnd` assumes that names are found on disk, that an aborted
encoder ends, and that the deadline fires (`MediaFairness`); it does not assume that an
encoder left alone ends. Some of it is strong fairness, because steps that are due come
between and disable the others for a moment; those steps themselves end.

### Disagreements found

Five runs are expected to fail; each is a behaviour of the code that contradicts a
sentence of the repository.

| Run | Property | In a sentence |
|---|---|---|
| `repeat_cancel` | `CompletedHasResult` | stopping a repeat that is compressing restores the finished card, and the stopped run then deletes the finished file |
| `pause_lost` | `PausedMeansSuspended` | after an estimate borrowed the machine from a paused encode, the card says paused and the encoder runs |
| `pause_kept` | `FreshRunNotPaused` | a card that was paused when its run ended and is started again says paused while its encoder runs: what should take the old pause back asks whether the card was never started, and the pump has just noted that it was |
| `transcription_stranded` | `QueuedNotStranded` | a card that was started while its model was on its way stays queued when the download is cancelled or gives up: nothing pumps then |
| `stitch_replan` | `PlanIsOfTheVideo` | after a run replaced its video in place, the next run of the row plans its cuts with the screens found in the video that is no longer there (its key frames are probed again) |

Other behaviours of the code lie outside the passing runs. Five properties say what the
repository promises of them; they are defined in their modules, no run lists them, and
TLC finds each violated when the configuration named checks it alone:

- `SettledByItsRun` (`CompressorQueue`; `QueueHandoff.cfg` with `RerunBusy = TRUE`): a card
  that is stopped and started again before the stopped run is over is failed by the old
  run (`queue.ts:2000` and `:2021` ask for the status, which is the new run's) while the
  new one compresses it, and the new encoder loses the slot (`SlotKeptWhileEncoding`).
  `queue.ts:1260` says of freeing the slot early: "Safe because nothing else depends on
  holding the slot".
- `LimitOnDisk` (`PowerLimit`; `Governor.cfg`): two requests to set the limit share one
  temporary file (`power/store.ts:88`) and nothing serialises them (`power/routes.ts:64`).
  When both are over, the limit in force need not be the one a restart would load, where
  `power/governor.ts:285-287` says "a value that cannot be written must not take effect, or
  the lever would show a limit that will not survive a restart".
- `RunningHasTurn` (`StitchQueue`; `StitchReplan.cfg`): when its temporary directory cannot be
  made (`stitcher/queue.ts:334`, outside the `try`; swallowed at `:242`) a row says it runs
  for the rest of the agent's life, with no run behind it, where
  `specs/014-video-stitcher/spec.md:175` says of a full disk "reported by name before or
  during the run, source untouched".
- `RunIsOfLastPress` (`StitchQueue`; `StitchReplan.cfg`): a row that is stopped while it
  waits and pressed again with another destination runs with the first one, for the
  earlier turn finds the row queued (`stitcher/queue.ts:242`, `:322`), where
  `stitcher/routes.ts:193` says "so a setting changed in between is the setting that runs".
- `VideoSurvives` (`StitchQueue`; `StitchReplan.cfg`): a copy over the video from another volume
  (`stitcher/queue.ts:537`) that fails half way leaves a failed row and a torn video, where
  `specs/014-video-stitcher/spec.md:174` says "the original survives intact".

And the passing runs carry restrictions, each with a name. Lifting one in the
configuration shows the behaviour it leaves out:

- `"audio"` among the operations of that run: a stop that lands during the unlink before
  the second attempt (`queue.ts:1992`) is not seen, and the second encoder starts
  outside the slot (`EncoderReachable`).
- `Chained` and `OwnCopy` FALSE in `Tools.cfg`: this is the stitcher's store. Two saves
  write into one copy, and the file a start finds is a short list with the tail of a
  longer one (`FileIsAList`), where `stitcher/store.ts:91` says a crash mid-write cannot
  leave a state file that parses as half a list.
- `OpeningFails = TRUE` in `Tools.cfg`: the first sample is published before
  `stopSampling` is assigned (`power/routes.ts:47`). If that write already fails, the
  reader is gone, the sampler stays (`CostsFollowReaders`).

One more has no constant: an update asked for between the awaits of `start()` is granted
at once, because no card is queued yet (`queue.ts:625`), and the batch starts under it.
`DrainAdmitsNothing` says what remains true: nothing new is admitted.

### Mutants

Every property of a passing run has a mutant: one mapped definition replaced by the
operator beside it, as a plausible mistake would (a guard dropped, a release
forgotten, a wrong field compared). TLC finds the property violated under the run's
own configuration. They are listed in `PROJECT.json`.

## 4. What is proved

The theorems hold for every set of cards, runs, output names and operations
(`QueueAssumption`: `None` is neither a run nor a card, output names are positive
numbers, two constants are Boolean), not only for two of each.

- `TypeCorrect` (`CompressorQueueProofs`): `Spec => []TypeOK`. The invariant
  carries `TypeInv`, which adds to `TypeOK` what the types alone do not give: which
  fields of the slot are `None` in which kind of activity, and that a run between
  its awaits has a card.
- `BatchHolds` and `WatchHolds` (`CompressorQueueProofs`): `QueuedInOpenBatch` and
  `QueueWatched`. Neither is inductive. `BatchInv` adds `StartAlone`: while a
  `start()` is between its awaits no card is queued, because it began when the queue
  was not running and every other road to `queued` goes through it. Without it,
  `StartCommit` could replace an open batch and orphan its cards. The proof has a
  lemma per action; the watchdog's retirement (`WatchdogTick`, `PumpDrained`,
  `CancelAll`, `AbandonBatch`) is where the two invariants need each other.
- `DrainHolds` (`CompressorQueueProofs`): `DrainAdmitsNothing`. A drain is promised
  only while something is under way, and then `start()` is not between its halves.
- `CardsImplemented` (`CompressorQueueProofs`): the queue implements `JobCards`.
  Init maps to init, and each action moves each card along an edge, gives a queued
  repeat back, adds or removes a card, or leaves it; it uses `TypeInv`.

`CompressorRunsProofs` is about what a run does to its card, to the disk and to the
slot. Its theorems leave out behaviours under which the code breaks some of them
(section 3 shows them), and each says which:

| Hypothesis | Left out |
|---|---|
| `NoRepeatStop` | a stop of a repeat, which acts on a status it read before its await (`repeat_cancel`) |
| `Plain` | also a second start of a card whose stopped run still unwinds (`RerunBusy`) |
| `NoAudio` | the retry of an encode without its audio, where a stop between the two encoders reaches neither |
| `NoEstimates` | an estimate asked for during an encode, whose handoff lets a pause go (`pause_lost`) |
| `NoRestart` | a card that is started a second time, which keeps its pause (`pause_kept`) |

- `OwnerIsProcessing`: `ProcessingOwnsSlot`, under `NoRepeatStop`. The invariant
  (`OwnInv`) says more than the property: a card that compresses is on the list, and the
  run in the slot has not begun to unwind. The release at the end of a run, the watchdog
  and the repair in a read of the state each need the second half.
- `PartialsRemoved`, `ResultStays`, `RepeatSparesResult`: `NoPartialLeft`,
  `CompletedHasResult`, `PreviousKept`, under `Plain`. One invariant (`DiskInv`) carries
  the three: where an encoder may write at each step of its run, what is at each
  name, and that `start()` chooses outputs only for cards at rest. A result stays because
  a card has one run, and a partial goes because the name its run unlinks is the name its
  encoder wrote. They rest on `RunInv`: a card has one run (`OneRun`), a card that waits
  has none (`Resting`), and the encode in the slot compresses its card until it unwinds
  (`Driving`).
- `HoldsAreReleased`, `EncodersReached`, `SlotIsKept`: `HoldsHaveOwner`,
  `EncoderReachable`, `SlotKeptWhileEncoding`, under `Plain` and `NoAudio`. The
  argument is on the record of the slot, as for the governor: each operator keeps
  `Sound`, and the actions only compose them.

- `HoldIsShown`: an encoder that a person's pause holds down has the slot, and its card
  says paused, so the button that ends the pause is there (`HeldIsShown`); under `Plain` and
  `NoAudio`, with estimates. `PauseInv` adds to the invariant of the slot that the hold
  recorded for the card is the one the governor has (`HoldShown`).
- `PauseIsTrue`: `PausedMeansSuspended`, the property `pause_lost` refutes, where
  `NoEstimates` and `NoRestart` are assumed as well: the two refuted behaviours are the
  only ones that break it within `Plain` and `NoAudio`. The other direction needs that a card
  which was never started is not paused (`WaitsUnpaused`) and that a pause, once it has a
  hold, keeps it to the end of the encode (`PauseLasts`).
For the governor (`PowerGovernorProofs`), for every set of children, kids, tools and
windows and every set of limits that contains 100 (`LimitAssumption`: limits are
numbers other than the two that stand for no file and a truncated one):

- `GovernorTyped`, `OwnerHolds`, `TerminationHolds`, `TreeHolds`: the invariants of
  the run; `HeldHolds`: the action property. They rest on one inductive invariant,
  `GovernorInv`. `StoppedHasOwner` alone is not inductive: that a release function
  may leave a child to the cycle needs `CycleRuns` (a limit and a child mean a
  running cycle), and that resuming a child lets its kids go needs `RootFirst` (a
  kid is stopped only with its root, unless the root has exited). The argument is on
  governor records: each method preserves `Sound`, and `retune()` establishes
  `Settled` from any sound record, so the five handlers that end in `retune()` need
  only be sound before it.
- `LimitHolds`: `LimitSurvives`, for any number of windows, whatever write or rename
  fails. While `clean` no two requests in flight have met, so what is in flight is one
  request, the temporary name is its own file (`SavedAlone`), and the file on disk is what the last
  request put there. The request that ends without having met another brings this back
  whatever the ones before it left: it wrote and renamed a file of its own.

For the stitcher's queue (`StitchQueueProofs`), for every set of rows and videos and
every number of presses and restarts (`StitchAssumption`):

- `OneTurnAtATime`: `RunningIsTheTurn`, with `StitchTyped`; the argument is that only
  `TakeTurn` makes a row live and that it needs an idle turn, and that a row leaves the live
  ones at the end of its turn, or, where its directory could not be made, never.
- `WaitingHasTurn`: `QueuedHasTurn`, until the queue shuts down (after that a press is still heard
  and its turn skipped, and the next start of the agent reports the row as interrupted). Its one further need
  is that a turn has a row (`TurnHasRow`).
- `StopLeavesSource`: `StoppedLeftSource`. Presses are numbered as they come, so a press
  still in the chain is newer than whatever changed a video; a video carries the press of
  a turn only from its install on, and from there a turn ends done, is cut by a death of the
  agent, or leaves a copy that broke off, which the property names.

For the transcription queue (`TranscriptionQueueProofs`), for every set of cards, team
cards and bounds (`TranscriptionAssumption`):

- `OneRunTranscribes`: `ProcessingIsTheRun`. The invariant is stated once for queue
  records (`Same`: the parts a handler leaves alone), so that each of the operators the
  handlers are nested from is dealt with once.
- `StopsItsOwn`: `StopHitsItsRun`, from the same invariant: `active.cancel()` is called
  when *some* card that is stopped is being transcribed, and the invariant says it is
  the run's.
- `AnswersAreKept`: `ManualKept`.
- `ListenersAreInLine`: `ListeningIsInLine`, by `Lines`: a row that listens is on the
  list, and in line or being heard. A probe that ends for a file no longer on the list
  leaves the flags alone, and that is right only because a file leaves the list and its
  flag in one step. The second half, that a line is never left behind without a probe or
  a run that comes back to it, is `Attends`: `drainProbes()` gives way to a run only
  while there is one, and a stop that empties the line of a walker leaves the walker.
- `QueuedIsServed`: `QueuedHasRun`: with the tools there, a queued card has a run or a
  download to wait for, while no tool, model or download is taken away (`~CanWithdraw`).
  The hypothesis is needed: `setToolAvailability()` (`transcription-queue.ts:473`) offers
  the files to the probes again and does not pump, so cards started while a tool is
  missing stay queued when it comes back, until something else pumps; and a download that
  ends without a model pumps nothing (`transcription_stranded`). TLC agrees on the
  instance of `tools`, in both directions.
- `DocumentsAreKept`: `DocumentKept`, when putting a document back does not fail
  (`~CanLoseRestore`; with it the property is false, as section 3 says). It needs
  that the card of a run is neither completed nor failed before the run ends
  (`Started`), so that a document that has still to be put back is never that of a
  completed card, and that what is removed is off the list (`ListInv`). A death of the
  agent is among the steps: it disturbs the document of a run in its rename or restore
  and no other.
- `SavesCatchUp`: `SavedIsCurrent`, where a list is kept on disk (`Persisting`). The newest snapshot
  is the one a restart should bring back, or the timer is armed, or a removal has still
  to notify (`SaveInv`). Two steps change what a restart would make of the list
  without arming the timer: the rename of a document that is to be put back, where the
  card on the disk is not a completed one either, and the restart itself, which makes
  nothing further of a list it has already migrated. The theorem assumes of `None`
  that it is not itself a snapshot (`NoneIsNoSnapshot`); in the runs it is a model value.

For a list on disk (`FileAndStreamProofs`), for every number of changes, of deaths and
every set of lengths (`StateFileAssumption`). The two habits of the chained stores are
hypotheses of the theorems, so that each says which habit it rests on:

- `StartFindsAList`: with a name of its own for every copy (`OwnCopy`), `FileIsAList`,
  chained or not. The invariant (`CopiesInv`) follows one save: it writes the file of its
  own number, that file is not the list until the rename, and before the rename it
  holds the whole copy.
- `NewerListsLand`: with the chain too (`Chained`), `FileKeepsUp`. One save is under way
  at a time (`OneAtATime`), and its list is not older than the one on disk.

For the event stream (`FileAndStreamProofs`), for any readers, panels, requests and
limits (`HubAssumption`: limits are positive, a request is a sequence):

- `CostsFollow`: `CostsFollowReaders`, when the first frame of a connection can be
  written (`~OpeningFails`; section 3 has what happens if it cannot). A subscription
  evicts for every channel it asks for, and each eviction may stop what the subscription
  is about to start. The invariant (`Follows`) is of the hub as a value: each detaching
  keeps it (`DetachedKeeps`), hence the row of them that makes room does
  (`EvictedKeeps`, by the induction of `FilterProofs`), and joining does (`JoinKeeps`).

For the image conversions (`MediaActionsProofs`), for all images, additions and bounds
(`MediaAssumption`):

- `StopsDoNotFail`: `StopIsNotFailure`. Only the end of a conversion says *failed*,
  and it looks there at `cancelling` and at the quit; that this is enough needs that
  nothing is abandoned before the quit's deadline (`AbandonedLate`).
- `ConvertedStays`: `ConvertedIsThere`. A name is written only while nothing is there,
  and the name of a job changes only while it is waiting for one or being converted: a
  completed job is neither (`PlaceInv`). A search for a free name that would count
  beyond `Names`, the bound of an instance, is not taken.

- `QueuedIsPumped`: a waiting image has somebody who will take it (`QueuedHasPump`):
  the pump, an addition that will call it when it ends, or the quit that will settle it.
  An addition appends its job and awaits the next name before it schedules the pump, and a
  conversion that ends may find the rest of the line stopped.
- `QuitSettles`: `QuitLeavesNothing`: a quit that is over leaves nothing waiting or
  converting. It needs that no addition is in flight once the quit has passed its wait for
  them, and that after the deadline whatever is unsettled is among the abandoned
  (`QuitInv`, which carries both theorems).

Several handlers filter a list. `SelectSeq` is opaque to the provers, so the models
use `Only` (`Filter`), a recursive function with the condition as a set. `FilterProofs`
shows what it keeps (`OnlyMembers`, `OnlyAll`) from the least natural number at which
it would not: an induction over the length that needs no operator as a parameter.

Only model-checked: `PausedMeansSuspended`, which the code breaks; what the theorems
above leave out by their hypotheses; and all liveness (fairness and `ENABLED` are out of
the prover's reach).

## 5. What is left, and what is not modelled

Worth doing next, in this order: the compressor's list across a restart, with the
recovery of a lost tool and the changes of settings that rename outputs; the estimation
worker's background pump with its generations.

Not modelled, and why:

- What an external program computes: ffmpeg, ffprobe, whisper, the stitcher's pipeline
  and its arithmetic on frames. The queues see such a program end or fail, and so do the models.
- The stitcher's cache of prepared bodies, a directory with a size limit.
- The migrations of older lists, which are conversions of records; `Migrated` keeps
  what they do to a card's status.
- The agent's shell: it wires HTTP routes to the queues. Its save timer is in
  `TranscriptionQueue`; its poll for the end of a drain is not modelled.
- The web interface, the team service and its cloud functions, the review player, the
  landing page, release and packaging tools. They are most of the repository's lines; they hold layout, wording, a
  hosted database and sequential file processing, and none of the state the agent's
  correctness depends on.

Bounds follow one rule: as many cards as make two actors meet, one more name or child
than a single actor needs.

# A TLA+ model of github-dark-factory-watcher

The watcher polls GitHub for draft pull requests that carry an approved, not yet
completed spec, and publishes one `CreateTaskCommand` for each; an agent
controller turns a command into an agent run on the pull request's branch. A
second way in is the command topic behind `/trigger`. The program is small. What
is hard about it is that *nothing* it relies on is transactional: GitHub moves
between any two reads, the cursor file is written after the commands are sent,
two polls may overlap, and the request topic is replayed after every restart.
One run too many means two agents on one branch; one too few means a spec that
nobody implements.

This directory models that: TLA+ modules, the TLC configurations that check them
on small instances, and TLAPS proofs. `PROJECT.json` names, for every
definition, the source lines it stands for, and lists the runs, the mutants, the
hazards, the findings and the theorems.

## Inventory

| component | source | state | operations |
|---|---|---|---|
| Poll watcher | `pkg/watcher.go` | in a call of `Poll`: cursor, batch, `newHeadSHAs`, `maxUpdatedAt`; in the process: `startTime` | `Poll`, `fetchAllPRs`, `processPRs`, `processPR`, `publish` |
| Cursor persistence | `pkg/cursor.go` | the file `<path>`, the file `<path>.tmp` | `LoadCursor`, `SaveCursor` |
| Task identifiers | `pkg/taskid.go` | none | `DeriveTaskID`, `DeriveTaskIDForce` |
| GitHub client | `pkg/githubclient.go` | none of its own; GitHub's, and the page a listing has been read to | `SearchPRs`, `GetPRDetails`, `ListPRFiles`, `GetContent`, `ListDir` |
| Candidate gate | `pkg/darkfactory/candidate.go` | in a call of `Evaluate`: the specs still to read, those that matched | `Evaluate`, `findApprovedSpecs`, `parseFrontmatter`, `hasQueuedPrompts` |
| Trigger consumer | `pkg/command/` | the command being executed | `runTrigger`, `publishCreateCommand` |
| Offset store | `pkg/memdb.go` | buckets in memory, the `RWMutex`; lost with the process | `View`, `Update`, `Get`, `Put`, `CreateBucketIfNotExists`, `Close` |
| Process wiring | `main.go`, `pkg/factory/` | the context, the ticker, the producer | `Run` and its checks, `runPollLoop`, `/check` |
| Scope filter | `pkg/filter/` | none | `Skip` |
| Vault map | `pkg/vaultmap/vaultmap.go`, `targetVault` | the entries, read once | `Parse`, `VaultFor` |
| Task file name | `pkg/filename.go` | none | `computeTaskFilename`, `slugifyTitle` |
| Task command content | `watcher.go:312-416` | none | formatting |
| Non-2xx transport | `pkg/non2xx_log.go` | in a response: the prefix that was read, the rest | `RoundTrip`, `logNon2xxResponse`, the replayed body |
| Metrics | `pkg/metrics.go` | write-only counters | none that anything reads |
| Agent controller (external) | relied on at `watcher.go:142-147` | the tasks created | deduplication by `task_identifier` |

How they interact: the ticker loop, the HTTP server and the command consumer run
as three functions of one process (`main.go:292`). The ticker and `/check` both
call `Poll` on the same watcher and the same cursor file, and nothing orders
them. Poll and the command consumer send to the same topic; what they share is
the controller's memory of identifiers, nothing else. A `run.Func` that finishes
cancels the context of the others and `Run` returns *without waiting for them*,
closing the Kafka producer under a poll that is still going on.

What is hard, and the property that says it goes right:

- *The drained window.* While prompts are queued the identifier is pinned to the
  pull request; once they drain it falls back to the head SHA, and the commit
  that drains the queue is not the one that completes the spec. Only the marker
  in the cursor prevents a second run: `QueuedPhaseRunsOnce`, `MarkerPersisted`.
- *The watermark.* Searches start at the newest `updated_at` of the pull
  requests that were published or deduplicated. Anything that failed and is older
  drops out, and nothing else may: `WatermarkHidesOnlyLosses`,
  `WatermarkCoversCandidates`, `EveryCandidateRuns`.
- *Suppression.* An identifier or a marker with no task behind it would silence a
  pull request for ever, whichever of publish, acknowledge and save failed:
  `SuppressionSound`.
- *The file.* Two savers share one temporary name, a write can stop half way, a
  load can come at any time: `ImplementsRegister`, `NoTornFile`.
- *Replay.* The request topic is executed again from the start after each
  restart, at heads that have moved since, with fresh nonces:
  `EveryRequestServed`, `ForcedCommandsRun`, `ReplayIdempotent`,
  `ForcedRunsBounded`.
- *Two publishers.* The poll and `/trigger` hand over the same pull request and
  know nothing of each other: `NoRunUnasked`.
- *Reads that belong to different moments.* The gate makes a request per file, of
  which one is not pinned to the SHA, and a search is read page by page:
  `AnswersAtOneMoment`, `MissesBounded`.
- *Text.* A frontmatter that is empty or broken, a cut in the middle of a slug, a body that
  breaks while it is logged, a map with a broken entry: `ErrorsHaveACause`,
  `HeadsHaveTheirNames`, `SameBody`, `NoRouteLost`.

The full list, each at its line, is under `hazards` in `PROJECT.json`, with the
ones no property covers yet and why.

## The modules

| module | what it is | code |
|---|---|---|
| `TaskID` | identifiers as the parts of the key that is hashed | `taskid.go` |
| `GitHub` | pull requests that people and agents change, and the client's three reads | `githubclient.go` |
| `Candidate` | the gate's verdict in one step, in the order of its early returns | `candidate.go` |
| `Controller` | the tasks created; the first command for an identifier wins | external |
| `Watcher` | the poll cycle, the process around it, its faults (composes the four above) | `watcher.go`, `main.go` |
| `Losses` | `Watcher` with a history of the pull requests whose last hit came to nothing | `watcher.go`, `main.go` |
| `AtomicCursor` | the abstract specification: the cursor is a register | `cursor.go:83` |
| `CursorFile` | load and save, system call by system call; implements `AtomicCursor` | `cursor.go` |
| `OffsetStore` | the abstract specification: one counter for each partition | `memdb.go`, `main.go:268-271` |
| `Trigger` | topic, offset, executor, replay (composes the same four) | `trigger_executor.go`, `memdb.go` |
| `System` | `Watcher` and `Trigger` in one process, over one GitHub and one controller | `main.go` |
| `Gate` | `Evaluate` read by read, over files with a frontmatter; answers as `Candidate` does | `candidate.go` |
| `Fetch` | the pages of a listing that changes between them | `watcher.go`, `githubclient.go` |
| `MemDB` | the offset store's transactions under concurrent consumers; implements `OffsetStore` | `memdb.go` |
| `Transport` | the body of a logged response, as the caller reads it | `non2xx_log.go` |
| `Names` | slug, suffix and truncation of a task's file name | `filename.go` |
| `Routing` | which vault a command targets | `vaultmap.go`, `watcher.go` |
| `Components` | the last six modules side by side, their constants and the assumptions on them; a behaviour is one of one part | |
| `MCWatcher`, `MCLosses`, `MCSystem`, `MCCursorFile`, `MCTrigger`, `MCParts` | the small instances; `MCParts` is the one of `Components` | |
| `GitHub_proofs` | lemmas on the world that `Watcher` and `Trigger` share | |
| `Watcher_proofs`, `QueuedPhase_proofs`, `Watermark_proofs`, `CursorFile_proofs`, `Trigger_proofs`, `System_proofs`, `Components_proofs` | the theorems | |

### State

`Watcher.file` is the cursor file: `NoFile` before the first save, `TornFile` when
it does not parse, which two savers can bring about. `poll[w]` is
the stack frame of poller `w`: `cursor` is `cursorState`, `batch` what is left of
`allPRs`, `newHeadSHAs` and `maxUpdatedAt` are the variables of `processPRs`,
`job` is the hit in hand with the details read for it. The two maps of a cursor
are the sets of their keys; no code reads the values. `cancelled` is `ctx.Done`.
`budget` counts down the faults a behaviour may still contain; it models nothing.

A commit is abstract: whether `.dark-factory.yaml` is there, which spec of the
branch it works on, whether that spec is proposed, approved or completed, whether
the diff touches it, whether prompts are queued. A head SHA pins a commit, so
`GetPRDetails` returns both, and every later read by SHA is a field of it. The one
read that is *not* pinned is `ListPRFiles`; it looks at the pull request of the
moment. A search hit carries the `updated_at` of the search, as in the code,
never the one of the details.

### Actions and their atomicity

Each action holds at most one read or write of shared state, and everything the
code computes before the next one:

| action | code |
|---|---|
| `BeginPoll` | `LoadCursor` |
| `Search`, `AbortSearch` | `fetchAllPRs`, and the ways out that save nothing |
| `SkipOutOfScope`, `ReadDetails`, `DetailsFail` | the head of `processPR`, for one hit in any order (the search asks for no order by time) |
| `EvaluateFails`, `SkipPR`, `Suppress`, `Publish`, `PublishFails` | the gate and what follows from its verdict |
| `Save`, `SaveFails` | the end of `Poll`, also with a part of the batch after a cancellation; a save that fails leaves the file alone (`SaveIsLost`), or, beside another one, a file that does not parse (`SaveTears`) |
| `Cancel`, `Exit`, `Crash`, `Restart` | `run.CancelOnFirstFinish`, the end of the process anywhere in a poll, and the next one |

The gate and the publish are one step: of what they use only `ListPRFiles` can
change under them, and it is read in that step; the rest is pinned by the SHA or
private to the poller. A `LoadCursor` that fails for another reason than a
missing or a broken file makes `Poll` return having changed nothing, which is a stuttering
step. A publish that fails comes in three forms: the command is lost, or only its
acknowledgement is, or the producer was closed by a process on its way out.
`Crash` strikes in mid-poll; `Restart` is the one that finds no poll in
progress, so that an instance can have restarts and exclude the loss of a marker.

`CursorFile` opens up what `Watcher` takes as atomic: one poller's save. What two of
them do to each other through the one `<path>.tmp` is the fault "tear" of `Watcher`:
the file is torn, and what the pollers do next depends on whether both saves are over
(the shorter cursor was written over the longer one) or one of them still writes. Its
files outlive their names, since a reader that opened `<path>` keeps its file across a
rename. Content is one whole cursor or `Corrupt`, with a length, because a shorter
write over a longer file leaves a tail. It models no power loss (the code does not
sync).

`Trigger` has the topic as a sequence and the offset as a number: an executor that
returns nil or `ErrCommandObjectSkipped` moves it, any other error leaves it.
`Restart` puts it back to 0, because `memdb.go` keeps it in memory. `OffsetStore` says
what such a store promises, a counter for each partition, and `MemDB` implements it
(`MemDBImplementsOffsets`). `now` is the clock that forced identifiers are built from,
in microseconds. A reading is one later than the last, unless `ClockFallsBack` came
before it: the clock was set back, or has not moved on since, and a nonce can come
a second time (`taskid.go:51-54`). `NonceInSeconds` is the mutant.

`System` adds no behaviour to the two; it lets their steps interleave over the
same `pr`, `created` and `runs`, and ends both with the process: a cancelled
context keeps the consumer from beginning a command, not from sending the one it
has read, and a restart takes the poll's stack and the consumer's offset along.

### The parts

What `Watcher` and `Trigger` take as one step or as a constant is opened up in
modules of their own, which share no state with each other:

- `Watcher`'s `Search` is one listing that may miss hits (`SearchMisses`, the
  fault "index"). `Fetch` shows where that comes from and how much it can be: an
  entry of the listing is missed only if some entry left its place.
- The gate is `Candidate!Evaluate` in `Watcher` and `Trigger`. `Gate` makes its
  requests one by one; any of them may fail, heads move on in between, and a spec
  is a sequence of lines. Its property says when this is the one-step verdict, and
  that a failure is never mistaken for "no spec", which would drop a marker.
- `Trigger`'s offset is a number that is kept. `MemDB` shows that the store keeps
  it: consumers of several partitions, an `Update` that fails half way and undoes
  nothing, `Close` beside them.
- A command's file name and vault are data in it, and the response behind a
  client error passes through the logging transport: `Names`, `Routing`,
  `Transport`.

A line of a spec is one of six kinds: a fence, a line that only begins like one, the
key `approved` with a value or blank, the key `completed`, and a text that is no
YAML mapping. A key that comes twice is an error too, as it is for `yaml.v3`. A
frontmatter is the lines between the opening fence and the next fence (`InBlock`);
what the code takes for one (`Block`) is a definition of its own. The two differ on
an empty frontmatter with a fence further down, whose text the code reads as the
block, against the comment at `candidate.go:221-222`. The properties of `Gate` name
that case as their one exception (`ReadsOn`). A character of a title is a letter, a
hyphen or another, a glob is the set of repositories it covers: the code tells no
more apart than that. A vault map keeps for each entry the number of its part in
the setting; only the order of the entries counts, and `Matching` takes the first.
The two loops over the characters of a title, the one of `slugifyTitle` and the
one that its property needs, are recursive functions over the prefixes.

## What is checked

| run | instance | shows |
|---|---|---|
| `poll_safe` | one poller, two pull requests, two heads each, comments and pushes within a second, heads that are no candidates; a missed hit, a lost publish, a restart (1.3 million states) | `QueuedPhaseRunsOnce`: a spec whose queued phase was handed over gets no second run. `MarkerPersisted`: between polls its marker is in the file. `WatermarkCoversCandidates`: if no hit failed or was missed, a candidate that the next search cannot see has its run. `WatermarkHidesOnlyLosses`: if one did, the others have |
| `two_pollers` | ticker and `/check`, two pull requests of which one moves on; no backfill, a lost acknowledgement, two saves that tear the file, a crash anywhere (1.2 million states) | `TypeOK`, `SuppressionSound`: whatever a cursor suppresses has a task behind it; `WatermarkHidesOnlyLosses`, where a poll may also be overtaken by another, and a cold start, after a missing or a torn file, may begin behind a pull request |
| `poll_live` | an allowed and an out-of-scope pull request; a missed hit, a failed read, a failed save, a shutdown, a crash, a restart, in any combination; closing and reopening (0.9 million states) | `EveryCandidateRuns`: under fairness, an allowed pull request that stays a candidate is handed over, as no other can move the watermark past it. `WatermarkNeverBack`: no save of a poller that runs alone takes the watermark back, whatever was cancelled or started anew |
| `cursor_register` | one saver, two loaders, cursors of two lengths, failed writes and renames, crashes anywhere | `TypeOK`; `ImplementsRegister`: the file is `AtomicCursor` |
| `trigger` | three commands of every kind, one fault of each kind, a clock that repeats or falls back (0.4 million states) | `TypeOK`; `ForcedCommandsRun`: every forced command that was published has a run of its own, but for one for each microsecond the clock fell back; `EveryRequestServed`: no valid command is lost to an error or a restart. `NoCommandPassedOver`: the offset moves past a command only when it is invalid, no candidate, or has its run |
| `system` | one pull request through queued, drained and completed; the ticker's poll and two commands, forced or not; a lost acknowledgement of the consumer, a restart (1.5 million states) | `SuppressionSound` beside a second publisher; `NoRunUnasked`: a spec whose queued phase was handed over gets no run that nobody asked for; `ForcedRunsBounded`: a forced command has at most one run for each process and each lost acknowledgement |
| `parts` | one of the six parts, each over all its inputs in the bounds of `MCParts` (0.5 million states) | `Gate`: an answer is the one of a single moment, an error has a cause. `Fetch`: what is missed is bounded by what moved. `Transport`: the caller reads what was sent. `MemDB`: nothing stored is forgotten, views are stable, the counters of `OffsetStore` are implemented. `Names`: slugs are clean, names fit, two heads have two names. `Routing`: an addition reroutes nothing, no entry is dropped silently |

Each property also has a mutant: a definition of the model replaced by what a
plausible bug in those lines would make of it (markers rebuilt from the batch,
`updated:>` for `updated:>=`, a watermark that is the time of the save, a nonce in
seconds, `OffsetNewest`, no `O_TRUNC`, ...). The mutated operators stand before the
definition they mutate, and the property must fail with them.

### Bounds, and why they are enough

- `MaxSha` is the number of heads of a pull request. A queued phase needs three
  to be complete (queued, drained, completed), which `system` has; two are enough
  for what concerns one transition, and the theorems hold for any number.
- `MaxClock` is in seconds, the resolution of `updated_at`. What matters is
  whether two changes fall into the same second or not: one or two suffice. No
  property of `Trigger` depends on it, and there it is 0. The nonce's clock has no
  bound of its own; commands and retries are bounded, and so are its readings.
  `Backfill` is at least the span of changes before the first save, as it must
  be in production for a restart not to lose work; `two_pollers` runs without it.
- One fault of each kind named by the instance, at any point and in any combination. A
  fault leaves nothing behind but what the cursor and the tasks record, so that a
  second one of the same kind adds length more than new situations. A torn file is one
  fault too, of two saves at once, and a crash can follow it: the next process then
  starts cold, and later. The safety properties of `Watcher` are proved for any number
  and any kinds. A run has the faults that its properties tell apart: a failed read
  and a lost publish both end in `NotAdvanced`, and a failed search leaves as little
  behind as the search of a cancelled poll.
- The pull requests of `poll_safe` and the pollers of `two_pollers` are symmetric:
  no definition that these runs use tells one from another.
- Two pull requests: a batch is then partly handled and one hit can push the
  watermark past the other, also while it is in the batch of the other poller:
  `poll_safe` and `two_pollers` have two. The races between publishers over one
  pull request are checked with one.
- Commands: three, so that a command is executed, one waits behind it and one
  has been done when the topic is replayed.
- `Activity` names the kinds of change a pull request undergoes in an instance; in
  `poll_live` the one out of scope stands still, and only its hit matters. In
  `two_pollers` one pull request is pushed to and the other keeps its time, so that it
  can fall behind. `poll_safe` leaves closing and reopening out: the marker is then
  dropped by design (`watcher.go:224-230`) and a reopened pull request runs again.
  `trigger` has pushes only, because a command that was skipped for a pull request out
  of draft is not owed anything when it returns; leaving draft and returning is in two
  of the runs that find a violation. In `poll_live` the spec is never completed, since
  nothing is owed to a pull request that stopped being a candidate.
- The parts: a diff of three files, two of them specs, whose contents include
  every shape of frontmatter (absent, unclosed, approved, completed, with a key
  twice, empty, empty with a fence further down); five
  entries on pages of two, so that there are a full page, a partial one and an
  empty one; a body longer, shorter and as long as the limit; two partitions;
  titles of four characters against caps from below the suffix to above the whole;
  maps of three parts.

The limits of the passing runs are deliberate, and each is a hazard of its own that
fails without them: two pollers break `QueuedPhaseRunsOnce` and
`WatermarkNeverBack`, and the first is also broken by an exit or a lost
acknowledgement between publish and save. `WatermarkCoversCandidates` speaks only of
behaviours in which no hit failed or was missed (`NoHitFailed`); one that did may
drop out for good, which is `finding_transient_lost`. `WatermarkHidesOnlyLosses`
speaks of all behaviours and says which ones can drop out: those in `lost`, each on
account of its own hit and only until it changes. Not all of them are lost for good
(a hit that failed may still lie in the next window); nothing is claimed of them.
`NoRunUnasked` excepts an unforced command that was sent: a `/trigger` in the queued
phase leaves no marker, and the poll runs the spec again after the drain.
`trigger_executor.go:43-47` calls the command an override, so this is recorded as a
hazard and not as a finding. `Names!NameFits` and `HeadsHaveTheirNames` suppose a
cap that leaves room for what they speak of; `main.go` checks only that the title's
cap exceeds the slug's.

### Fairness

`Watcher!FairSpec` is weakly fair to the steps of the ticker's poll and to `Exit`.
The loop of `runPollLoop` runs until the context is done and its steps wait for
nobody, and a process whose context is done returns and is started again by its
deployment. There is no fairness for `/check`, for anything on GitHub, or for
faults. `Trigger!FairSpec` is weakly fair to the executor: the consumer keeps
delivering the command at the stored offset. That a read fails only finitely
often is in the budget of faults and is an assumption: a pull request that
GitHub answers with 404 counts as transient (`trigger_executor.go:100-103`) and
would be retried for ever.

### Findings

Five runs expect a violation. Each is a sentence of the repository that the code
does not keep:

- `finding_transient_lost`. `watcher.go:143-145`: filtered or transiently failed
  pull requests "are re-evaluated" on the next poll. They are not if a newer pull
  request of the same batch was published: the watermark has passed them.
- `finding_two_specs`. `watcher_test.go:351`: the marker is cleared "so a later
  batch can trigger". It is cleared, but the later batch is published under the
  identifier of the first one, which the controller has seen.
- `finding_two_pollers`. `cursor.go:25-27`: the marker "must outlive both the drained
  window (...) and any poll the PR is missing from". A poll skips the pull request
  because it reads it as no draft; it is a draft again, and the other poll hands
  its queued prompts over and saves the marker; the first one then saves its older
  cursor over it. The marker is gone, and the spec is still to be completed.
- `finding_shared_tmp`. `cursor.go:83`: "atomically via a temp file + rename".
  With two savers one can rename the file the other has just truncated.
- `finding_replay_forced`. `memdb.go:57-59`: replay is "safe because the
  downstream CreateTaskCommand is idempotent". A forced command's is not. Nor is
  it when only the acknowledgement was lost, of which `trigger_executor.go:205-207`
  says the same: `ForcedRunsBounded` counts those runs.

More were met and have no runs of their own. An exit between a publish and the save
loses the marker, contrary to `README.md:41-43`; a closed and reopened pull request
has lost its marker, contrary to "for good" in `watcher.go:225-226`; two pollers take
the watermark back, so that `WatermarkNeverBack` is checked and proved for one. An
empty frontmatter takes in the text behind it (`candidate.go:228-229`), although
`candidate.go:221-222` says that parsing stops at the closing fence: it is the
exception `ReadsOn` in the properties of `Gate`. Two forced commands whose readings
of the clock agree share one run, as `taskid.go:51-54` admits: it is the term
`ClockLosses` in `ForcedCommandsRun`. `CreateBucketIfNotExists` after `Close` panics,
where `Bucket` returns an error; a poll interval of 0 passes every check and panics
in the ticker.

## What is proved

Every invariant that a passing run checks is proved, and every property of a step;
twenty-nine theorems, in seven modules. They hold for every set of pull requests,
commits, pollers, commands, partitions, files, titles and settings, every budget of
faults and every bound, under the named assumptions of the modules and, where it
says so, a condition of the theorem. Each condition is one of the ways in which
the program breaks the property without it. The assumptions are the types of the
constants; those of the parts are their `Parameters`, which `Components` assumes
and TLC evaluates. Three of them say more than a type: a page holds at least one
entry, what stands for "no bucket", "closed", "unset", "invalid" and "absent" is
none of the values it is told apart from, and a SHA is no shorter than what a file
name shows of it (GitHub's have forty characters; with shorter ones a cut could
leave of the longer of two just the shorter one).

| theorem | condition | argument |
|---|---|---|
| `Watcher_proofs!TypeCorrect` | | `TypeOK` is inductive as it stands; that a poller that evaluates has a hit in hand is the one conjunct that is more than a type |
| `Watcher_proofs!SuppressionIsSound` | | below |
| `QueuedPhase_proofs!QueuedPhaseHasOneRun`, `MarkersArePersisted` | `OnePoll`: one poller, no lost acknowledgement, failed save, cancellation or crash, no reopening, an approved spec is in the diff | below |
| `Watermark_proofs!WatermarkHidesNoWork` | `OneSpecInBackfill`: one spec for each branch, a backfill that reaches back to the start | below |
| `Watermark_proofs!OnlyLossesAreHidden` | `OneSpec`: one spec for each branch | below |
| `Watermark_proofs!WatermarkOnlyRises` | `OnlyPoller` | a poller that runs alone has in its cursor the watermark of the file, from its load to its save, and a save writes the later of that and of its batch |
| `CursorFile_proofs!TypeCorrect` | | any number of savers |
| `CursorFile_proofs!OneSaverNeverTears`, `OneSaverIsAtomic` | `OneSaver` | below |
| `Trigger_proofs!TypeCorrect` | | the offset stays inside the topic |
| `Trigger_proofs!ForcedCommandsAlwaysRun` | | below |
| `Trigger_proofs!NoCommandIsPassedOver` | | the offset moves in `Done` alone, by one; when it is reached by `Send`, the identifier of the command in hand was created now or before, and its task is a run for the pull request, a forced one if the nonce is one |
| `System_proofs!SystemSuppressionIsSound` | | a step of the process is one of `Watcher`, or one of `Trigger`, which only adds tasks; the lemmas of both are used as they are, those of `Trigger` through an instance |
| `System_proofs!ForcedRunsAreBounded` | | each run of a forced command is booked to a pair of a forced command and an ended process, to a forced command this process executed, or to a lost acknowledgement; a restart, which empties the executed commands, adds a process |
| `System_proofs!NoRunIsUnasked` | `OnePoll` | `PhaseInv`, stated for a set of pull requests: here those for which no unforced command was sent, a set that only shrinks; a forced run is no queued run, and the consumer reaches no marker |
| `System_proofs!SystemWatermarkHidesNoWork` | `OneSpecInBackfill` | a command adds runs of the one spec, and touches neither a cursor nor GitHub: what is due becomes less and stays where `WatermarkInv` says it is |
| `Components_proofs!GateAnswersHold`, `GateErrorsAreCaused` | | below |
| `Components_proofs!PagesMissAFew` | | below |
| `Components_proofs!BodiesAreWhole` | | `TransportInv`: what the caller has read and what the transport holds are, without gap or overlap, the bytes read of the body; an error met while peeking stands behind the last of them |
| `Components_proofs!NothingIsForgotten`, `ViewsAreStable` | | who holds the lock follows from where the consumers are; a consumer's position agrees with the store from its load to the end of its `Update` |
| `Components_proofs!StoreIsAtomic` | | below |
| `Components_proofs!SlugsAreClean`, `NamesAreInTheirMaximum`, `HeadsAreToldApart` | | below |
| `Components_proofs!NoRouteIsLost`, `RoutesStay` | | a map in use is what `Parse` makes of the setting as it stands (`RoutingInv`); an appended part comes after every match there is |

`SuppressionSound` says that every key of `HeadSHAs` and `QueuedMarkers`, in the
file and in the memory of any poller, has a task behind it. It is inductive
relative to `TypeOK`, for three reasons: tasks are never removed (`BackedGrows`); a
key enters a cursor only in `Publish`, together with its task, or in `Suppress`, let
in by a key or a marker that is backed already; and load, save and cold start only
copy or drop keys. The disjunction in `BackedID` is what makes it inductive: after
the drain a head's identifier is remembered although its own task was never
created, and it is the queued task that stands for it.

`QueuedPhaseRunsOnce` is about a step, `MarkerPersisted` about the file between
polls; neither is inductive. `PhaseInv` follows the marker into the poll: as long as
a handed-over spec is not over, its marker is in the cursor that counts, which is
the file when the poller is idle and the poller's copy when it is not. To show that
the drop in `SkipPR` keeps this one has to know that the details it looks at are a
state the pull request was in, and that what was over then is over now (`Over`,
`After`). A second publish would need details that were read before the spec was
over, and then the marker was there and suppressed it.

`WatermarkHidesOnlyLosses` and `WatermarkCoversCandidates` are about the file alone.
`Covered(L)` says, for a set `L` of pull requests that may have been lost, where any
other that is due (a candidate without its run) can be. The next search starts no
later than its last change (`FileCovers`). Within a poll it is no older than the
poller's watermark, or awaits its turn in the batch, or is in the poller's hand as
it is now, or has changed since the search, and then it carries a second that no hit
of the batch is beyond (`PollerCovers`). This needs that nothing is from the future
(`Sane`), and it uses `SuppressionSound`: a hit that was deduplicated is not due.
`StepCovered` shows that a step keeps `Covered(L)` if it spares all but `L`: a pull
request is not spared when its hit leaves a batch unhandled, or when a cold start
begins behind it (`Spared`). Both theorems follow from it. With `L` the history
`lost`, the pull requests that are not spared are just those `Losses` adds
(`StepLosses`). A file that does not parse is like none here: nothing is covered by it,
and the cold start that follows, by whichever poller, loses what it begins behind
(`StartsBehind`). With `L` empty, no hit having failed and the backfill reaching back
to the start, there are none (`NoHitLost`).

A forced command is lost to the controller only if its nonce was read before. `Ahead(p)`
is the set of nonces of forced runs that the clock has still to reach; `ForcedInv`
says that the forced commands of a pull request that were published, and the
nonces ahead, are together no more than its forced runs and the microseconds by
which the clock fell back. A reading either repeats the nonce next to it, which is
then ahead no more, or adds a run (`ReadingStep`, `ForcedSendCounts`); a clock that
falls back puts at most one more nonce ahead (`ClockForced`).

`FileInv` says that `<path>` and `<path>.tmp` never name the same file, that a
reader's file is not the one named `.tmp` and holds a whole cursor, that a saver
that writes has the file named `.tmp` open and it is empty, and that a saver about
to rename finds its own cursor there. Under it every step of `CursorFile` is a step
of `AtomicCursor` or a stutter: the rename is the write of the register, the open of
a load its read. The last two conjuncts are those that fail with two savers.

`Components_proofs` has an inductive invariant for each part, and `PartsInv`
composes them: the part that was picked is in its invariant, and no other moves.
Three of them take more than the types.

`GateInv` follows the specs through the requests. Once the diff was listed there is
a head such that what is left to read belongs to its specs, and what was matched
are the approved ones of the rest; this head is the witness of `AnswersAtOneMoment`
when the call ends. What the code reads of a file is compared with what a reader
would call its block: `FrontmatterIsTheBlock` shows that the search for a closing
fence, which starts a line late, finds just the lines of `InBlock`, for every file
but those of `ReadsOn`; there it finds lines where the frontmatter has none.

`FetchInv` counts while a listing changes under the pages: of the entries that stayed
and stand before the next page, those that were not fetched are no more than the
entries that have left their places. An insertion before that point pushes an entry
out of it, which can only lower the number (`InsertFirst`). A departure draws one
entry in and adds one to the count (`RemoveFirst`); a move within the listing is a
departure and an insertion.

`MemDB` implements `OffsetStore` by this mapping: a counter is what `Get` answers for its
partition, and a consumer holds its position from the load to the end of its
`Update`. The `Put` is the commit; the creation of the bucket, locks and unlocks are
stutters, because an empty bucket answers like an absent one. A panic, or a callback
that fails, forgets the position; the counter stays where the `Put`, if it was
reached, left it. That the `Put` adds one to the counter *of the moment*, and
not to the one that was loaded, needs that the two agree through two transactions
(`PositionAgrees`), with others in between: nobody else stores for this partition.

The slug is a computation over texts of any length. `WrittenStepwise` and
`FoundStepwise` take the recursive functions apart, one character at a time. From
there `HyphenatedIsClean` is an induction over the prefixes of the title, and
`LettersOfConcat` one over a second text: what is written has single hyphens and
the letters of the title. `TrimKeeps` and `CutOff` say that trimming takes hyphens
only and that cutting leaves a prefix of the letters. `NameParts` splits a name into
the base, what is left of the slug, and the suffix; two names that agree then agree
on the SHA, which stands at the same place in both. The library's induction
theorems take an operator, which the provers cannot instantiate; `AllNumbers` says
the same of a set, and rests on the least number that is not in it (`LeastOf`).

The proofs rest on nothing about scheduling. That UUID5 maps different keys to
different identifiers is part of the model (`TaskID`).

Only model-checked: the liveness properties `EveryCandidateRuns` and
`EveryRequestServed`, because there is no support for `ENABLED`, and so none for
fairness; and the violations, of which a run is the proof.

## What is not modelled

- The text of commands (title, frontmatter, body): nothing reads it back. The file
  name and the vault in it are.
- HTTP, authentication, the rate-limit fields of the client (written, read by
  nothing), the parsing of URLs, flags and environment, metrics, and the line that
  the logging transport writes.
- How a glob or an allowlist entry matches: it is in an external package. `Allowed`
  and the globs of `Routing` are sets of repositories.
- The operations of `memdb.go` that nothing calls: `Delete`, `DeleteBucket`,
  `CreateBucket`, the iterators, `ListBucketNames`, `Stats`. (The comment at
  `memdb.go:25-26` says that `ListBucketNames` returns an empty result; it returns
  the names.)
- Power loss between a write and a sync.
- How the command framework and Kafka redeliver, beyond "the command at the stored
  offset again". A spec whose frontmatter does not parse fails at every poll and,
  in `Watcher`, would be a read that fails for ever; `Gate` shows when it does.
- The checks of the configuration in `Run`, and the producer and its deferred `Close`:
  a sequence of early returns before anything runs, with nothing beside it. What a
  producer closed under a poll does is in `Watcher` (`PublishFails`).

## Plan

Done, in this order, the most important behaviour first: `TaskID`, `GitHub`,
`Candidate`, `Controller`, `Watcher` with its safety and liveness, `Losses`,
`AtomicCursor` and `CursorFile`, `Trigger`, `System`, the parts; and the proofs of
all that `Watcher`, `CursorFile`, `Trigger`, `System` and the parts promise in
safety.

Left:

1. `Gate` as an implementation of `Candidate`: a call maps to one step of the gate
   that `Watcher` takes, where none of its requests fails.
2. `Fetch` as an implementation of `Watcher`'s search: a listing that misses no more
   hits than have left their places.

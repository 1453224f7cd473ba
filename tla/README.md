# TLA+ models of the Pact Janus engine

Pact Janus is a contract-testing engine. A test's host (an SDK) drives it through a frame protocol: a
consumer test records interactions, serves each selected variant of them from a mock, and ends with a
contract; a provider's build verifies contracts against a real provider. The engine is a Rust kernel
(`src/engine/kernel`) inside an embedding (the CLI subprocess, `src/cli`) with components for
transports, content types and hooks.

This directory models the parts of it where threads, processes, bounded buffers and long sequences of
calls meet, checks them with TLC on small instances, and proves the central results with TLAPS for every
instance.

## 1. Inventory

Paths are under `src/`; `protocol/` stands for `engine/kernel/src/protocol/`.

| component | state it keeps | operations | concurrency and failure | what makes it correct |
|---|---|---|---|---|
| Consumer session (`protocol/session.rs`) | interactions, selections, evidence by variant, verdicts, transports | `create`, `add-interaction`, `add-pact-interaction`, `variants`, `start-transport`, `serve-variant`, `report-variant`, `finalise` | one request at a time, beside one loop thread per transport | a contract is issued only on what happened on the wire; an answered result stays true |
| Exchange loop (`protocol/exchange.rs`) | armings, what is in flight, outcomes, stop flag | poll, match, reply or dispose, record | shares its state with the session under a lock it releases while it matches; transports may fail or hang | an arrival goes to the arming it matches best; no outcome is lost |
| Event streams (`protocol/events.rs`) | one bounded buffer per stream, its counter and its end | `emit`, `finish`, `observe`, `drain`, `wait_for_event` | a task appends and waits when the buffer is full; the dispatcher drains | in order, without gap, exactly once; ends on delivery |
| Background tasks (`protocol/background.rs`, the start of `verification.rs` and `broker.rs`) | a thread per run or publication, its transports | `verify`, `publish-contracts`, the join in `events/poll` | panics, failed spawns, shutdown with runs in flight | transports are released before the terminal event is received |
| Engine dispatch (`protocol/engine.rs`, `frame.rs`, `hello.rs`) | registries of sessions, streams and components, id counters, `shut_down` | every operation | sequential | an id is known exactly while its session lives |
| Verification run (`protocol/verification.rs`, `report.rs`) | tallies, results by source, the publication | hooks, interactions, variants, exchanges, publication, summary | hook failures, stop-on-first-failure, provider errors, panics | every variant is counted once; an aborted run passes nothing |
| Lifecycle hooks (`engine/kernel/src/hooks`, `engine/hooks-host`) | hook data, scratch of an exchange | run the hooks of a point | timeouts, retries, policies for failure | `after-*` runs whenever its `before-*` did |
| Contract files (`engine/kernel/src/contract/files.rs`, `merge.rs`, `cli/src/contract_files.rs`) | a file and its lock | merge, overwrite | several processes, I/O errors, killed processes | no writer's interactions are lost |
| HTTP transport (`engine/component-http`) | instances, pending replies, a server thread | `start`, `stop`, `send`, `poll-inbound`, `reply`, `dispose` | the server's tasks, polls and stops race | every request is answered once |
| Variant selection (`engine/kernel/src/variant`) | none (a function) | generate, select under a budget | - | base and every pair are covered, deterministically |
| Subsumption, compatibility (`engine/kernel/src/subsumption`, `compatibility`) | none | compare shapes, apply policy, decide | - | a yes is containment; a pass rests on runs and on exemptions still in force |
| Provider-shape recorder (`engine/kernel/src/subsumption/record.rs`) | the evidence of each position | observe, finish | sequential | the shape admits everything observed, in any order |
| Shapes and plans (`engine/kernel/src/shape`, `plan`, `variant/generate.rs`) | none | parse, compile, interpret, vary, generate | - | what is generated for a variant is admitted under it |
| Contract text, legacy pacts, content components | none | parse, convert, write | - | conversions, checked by fixtures in the repository |
| Broker and HTTP clients, component host, CLI, SDKs, WASM embedding | connections, caches | I/O | retries | - |

How they interact: the dispatcher owns the registries and runs one request at a time. `start-transport`
spawns an exchange loop that shares an `Exchange` with the session; `finalise` and `shutdown` stop the
transports and join the loops. `verify` and `publish-contracts` spawn a task that shares a `Stream` with
the dispatcher; `events/poll` drains streams and joins the tasks of ended ones. `finalise` with a
`write` goes through the embedding's contract writer, which other processes' engines run on the same
file.

## 2. Modules

| module | models | |
|---|---|---|
| `ConsumerSession` | the session and the loops of all its transports, interleaved | 29 variables, one action per request or critical section |
| `ConsumerSessionProofs` | its theorems | |
| `EventDelivery` | abstract: numbered events, each received once, in order | refined by `EventStreams` |
| `EventStreams` | tasks, buffers, `events/poll`, the start and end of a run, `shutdown` | |
| `EventStreamsProofs` | its theorems, the refinement included | |
| `ContractMerge` | what a contract file holds; `merge`, `next_bytes` | operators only |
| `ContractFile` | abstract: a file each write changes at one instant | refined by `ContractWriter` |
| `ContractWriter` | the native writer in several processes | |
| `ContractWriterProofs` | its theorems, the refinement included | |
| `VerificationRun` | the thread of one verification, from fetching to the terminal event | one action per hook point, send, record or publication |
| `VerificationRunProofs` | its theorems | |
| `RequestReply` | abstract: a request is given once, and answered with the reply to it | refined by `HttpServe` |
| `HttpServe` | the serve role of the HTTP component: instances, server threads, connections | |
| `HttpServeProofs` | its theorems, the refinement included | |
| `VariantSelection` | `select`, pass by pass of the covering algorithm | one action per pass |
| `VariantSelectionProofs` | its theorems | |
| `Shapes` | values, shapes, what the parser reads and what a shape admits | operators only |
| `Subsumption` | the walk of `compare.rs` over two shapes | operators only |
| `ShapeRecorder` | the evidence of observations and the shape emitted | operators only |
| `Compatibility` | layered policy, exemptions and the decision | |
| `ShapeCheck` | recorder, walk and decision composed for one slot | |
| `SubsumptionProofs` | what holds of shapes, values and the walk | lemmas only |
| `ShapeCheckProofs` | the theorems of `ShapeCheck` and `ShapeGeneration`, and the lemmas on the recorder | |
| `ShapeGeneration` | the dimensions a shape varies along, and what a variant generates | operators only |
| `MC*` | instances for TLC | |

### ConsumerSession

One action stands for one `consumer-session/*` request (`AddInteraction`, `RefuseInteraction`,
`Variants`, `StartTransport`, `ServePassive`, `ServeEmissive`), except for the three that wait for a
loop: `report-variant` is `ReportVariant`, one `SettleQuiet` or `SettleTimeout` per transport, then
`ReportAnswer`; `finalise` and `shutdown` are `EndSession`, `StopTransport` and `JoinTransport` for each
transport in turn, then `FinaliseAnswer` or `ShutdownAnswer`. The loop of transport `t` is `LoopTop`,
`PollNothing`/`PollError`/`PollArrival`, then `handle_arrival` in three steps, which is where it takes
and releases the exchange lock: `TakeArmings` (copy the armings, mark them in flight), `Answer` (match,
reply or dispose, without the lock) and `Record`.

Abstractions. A payload is the key (handle, variant) of what was served. A request plan is the score it
gives an arrival (`Score`): the number of mismatches and of actions passed, which is all `best` compares.
The order of armings is the set of handles armed before each. `InteractionEntry.armed`, written and never
read for a decision, and the mismatch lists, which only word an answer, are left out. A request the
engine refuses without changing anything is not a step. `wire` and `answered` are history variables
that no action reads.

### EventStreams

A stream is `queue` (what the append under way has still to push), the buffer (`nextSeq`, `pending`,
`producedLast`, `deliveredLast`) and its task (`work`, `thread`, `targets`). `StartAppend` is
`Stream::append` with its observer, `Push` one `Stream::push`, which waits for room. `events/poll` is
`PollStart`, one `PollDrain` per named stream (each takes that stream's lock alone), `PollWait` and
`PollWake`/`PollTimeout` for the long poll on the first stream, `PollPrune` (ended streams are
forgotten), one `PollJoin` per ended task, `PollAnswer`. `Verify` covers the ways a call can fail once it
has started transports. A run is here the number of events it emits; `VerificationRun` has its order of work.

### ContractWriter

One action per call on the file: `Open`, `Lock`, `Read` (read and ask `next_bytes`) or `ReadRefused`,
`WriteAll`, `SetLen` (with `sync_all`), `Unlock`; `Fail` is an I/O error in any of them and `Crash` the
end of the process, which releases the lock as the operating system does. A document is its parties and
its set of interactions, because interactions are written in identity order and an identity once; an
interaction is an identity and a record (its canonical bytes). A write that is cut off leaves the file
as it was or `Corrupt`: no contract, or one that parses but that no writer wrote, which `NextBytes`
therefore refuses or carries on. `tail` says that bytes of a longer document follow; `contract::read`
does not look past the document, so a reader does not see them.

### VerificationRun

The documents of a run are one list of recorded variants, in the order it meets them, with a mark where
each document ends (`request.ends`), so that `at` says how far it has come. `phase` follows `fn run`:
`Fetch`/`FetchFails`, `Begin` (started, `before-verification`), the variants, one `Publish` per finished
document, `Count` (what was not run), `After` (`after-verification`) and `Finish` (`stop_targets`, then
the summary). `verify_prepared` is `EndEarly`, `Skip`, `Refuse`, `Start`, `CloseSource`; an exchange is
`SetUp` or `FailUnhandled` for each state, `Ask` (`before-request` or `produce-message`) or `Unsendable`,
`Exchange`, `Observe` (`after-response`), `Report`, `TearDown` for each state, `Record`.

What the hooks of a point do is `request.hooks`: the policies of those that may fail there. `Outcomes`
gives what the point can come to, which is any of its failures or none, since a hook may fail at one
exchange and not at another; `warn` leaves nothing behind but an event. What a hook changes, what a plan
scores (`Exchange` picks the outcome), and what an event carries are left out. An interaction is not a
unit of the model: the filter and the pending mark, which the code decides per interaction or per document,
are sets of variants, so that the model has every way to set them and more. `standing` and `blamed` are
history variables.

The thread shares only its stream, so the module composes with `EventStreams` at its two ends: `Begin` to
`Count` are that module's `Emit`, `Finish` its `StopTargets` and `Finish`, and `FetchFails` both at once.

### HttpServe

Each served instance has a server thread (`server`), a channel of collected requests (`arrivals`), the
requests that wait for an answer by event (`pending`), the call that stops it (`stop`) and one call of
`poll-inbound` (`poll`, `woken`): an exchange loop polls its transport alone. A step is what one thread
does under the component's lock, what a task of the server's runtime does between two awaits, or one
operation on a channel; so `Stop` (take the instance, close the channels) and `JoinServer` are two steps,
as are `NextArrival` (woken, the lock released) and `PollReturn` (the lock taken again). `Accept`,
`RefuseBody`, `Collect`, `Deliver` and `Leave` are a connection's task. `failed`, `given` and `said` are
history variables. The octets of a request or a reply are left out; a reply is usable or not.

It stands for the transport that `ConsumerSession` assumes: `live` is a registered instance, `PollArrival`
is `PollReturn` with a request, `Answer` is `Reply` or `Dispose`, and stopping is `Stop` and `JoinServer`.

### VariantSelection

A space is a sequence of dimensions, parents first, with all the gates of each (the walk of a shape
accumulates them); `phase` follows `select`: seeds, pins, then the listing of a small space or the passes
of `janus-ipog-v1` (targets, order, the block of the first dimensions, `GrowAcross` and `GrowDown` for each
further one, completion), then the report. The vertical pass goes once through the targets that are left
when it begins (`pending`, set by `GrownAcross`), whether or not each finds its row. `Less` is the code's
saturating subtraction. The comparisons that make the selection deterministic are in the model
(`TargetBefore`, `CombinationBefore`, `Current`), so a behaviour of one request is a single one.

### Shapes, Subsumption, ShapeRecorder, Compatibility, ShapeCheck

`Shapes` has the operators on values and shapes that the others share: `Admits` is what the plan compiled
from a shape decides of a value (`plan/compile.rs`, `plan/interpret.rs`), `WellFormed` what the parser
accepts. A value is a record by kind; a number keeps how it is written, since `integer` and `decimal` read
that. The operators on text (regexes, formats, dates, `include`, `semver`) and the component operators are
finite sets the instance supplies. Values are `Depth` levels deep at most (`ValueTo`) and have members of
the names in `Name`; shapes are as deep as what is recorded of such values (`ShapeOf`). Every recursion of
the code over a tree is a recursive function here (`Matcher`, `Walk`, `toShape`, ...): its body is an
operator on the function itself (`AdmitsNode`, `ValueNode`, `Emitted`), so that it can be reasoned about.
`ShapeGeneration` has the space of a shape (`Dimensions`, `Variants`) and the value a variant produces
(`Generated`), on the bodies `NodeDimensions` and `Generate`. A document is a function on `Name`; one with a
member of another name, such as `key0` for an entry made up, or deeper than `Depth`, is no value of the model.

`Subsumption` is `compare.rs` row by row: identity, wrappers taken out (`Decompose`), classes of leaves,
literal sets, containers, `one-of`; findings with their paths, severities and exclusions. The floor is taken
away by an exclusion under a node, and by one of a sibling whose name begins with the node's, since the code
compares the paths as texts (`GoesOnFrom`). `ShapeRecorder` is
the evidence a position accumulates and the shape emitted from it. `Compatibility` is the decision of
one request: verification summaries old and new, reports, layers of policy, exemptions with their dates.
`ShapeCheck` composes the three as a host uses them, one slot at a time: `Observe` and `Finish`, or
`Publish`; `Check`; `DecideChecked`.

## 3. Runs

Every run finishes in about two minutes on two cores. Deadlock is checked wherever the system goes on for
ever; the end of a session, of the engine and of all writers is an explicit stuttering step. It is not
checked where the system stops: a server whose instances are all stopped, a selection that is made, a check
that is decided.

| run | instance | properties |
|---|---|---|
| `session` | one interaction with two variants, reselected and rearmed at will, or two of four interactions (passive, converted, emissive, untransported), on one transport | `HonestContract`, `MatchGoesToItsArming`, `AnswerStands`, `OneArmingPerHandle`, `ReportEndsRun` |
| `session_transports` | one interaction on two transports, under fairness | `EvidenceComplete`, `NothingLeftBehind`, `CallsReturn` |
| `streams_delivery` | two tasks that may panic, every way a `verify` can end, a missing component included, buffers of two events, answers of two, a host that goes on polling one stream or both | `EndsWhenDelivered`, `ReportsArrive`, `TransportsAccounted`, `DeliversExactlyOnce` (refinement of `EventDelivery`), `PollReturns`, `RunReachesHost` |
| `streams_panic`, `streams_shutdown` | violations: see 5 | `TransportsReleased`, `LeftToFinish` |
| `contract_files` | three writers, two contracts, a new file, a conflicting one and another pair's, under fairness | `AsOneSession`, `WritesAreAtomic` (refinement of `ContractFile`), `EveryWriteEnds` |
| `verification_run` | documents of two, one and no variants, in all filters, pending marks and strict options of interest, every outcome of every hook, under fairness | `EveryVariantCounted`, `PairsAddUp`, `PublishedWhole`, `VerdictsHonest`, `StopsAtFirstFailure`, `AbortReported`, `TornDownInReverse`, `RunEnds` |
| `verification_hook_failure` | violation: see 5 | `HookFailureFails` |
| `http_serve` | two instances, two requests to one of them, under fairness | `PortIsFree`, `StopIsNoError`, `StopReturns`, `RequestsSettle`, `KeepsPromise` (refinement of `RequestReply`) |
| `variant_selection` | six spaces of up to five dimensions, flat and gated up to two deep, under every strategy, with pins, exclusions, no boundaries and a small budget | `SelectsVariants`, `NothingLeftOut`, `SizeIsExact`, `PairsAreExercised`, `TargetsArePlaced` |
| `variant_coverage` | violation: see 5 | `CoverageIsComputed` |
| `shape_check` | some sixty shapes over every operator two levels deep, each against each, and shapes recorded from up to three observations | `RecordedAdmitsObserved`, `YesIsSound`, `CaveatsAreInert`, `GeneratedIsAdmitted`, `PassIsEarned` |

A module's `TypeOK` is proved for every instance (section 4), so no run repeats it.

Why the bounds are enough to be interesting. The races of a session are between the dispatcher and one
loop (a report or a rearming during `Answer`), between two loops (merging evidence), and between two
interactions armed on one loop; each has an instance where the rest is as small as it can be, and nothing
bounds how often a host serves, reports or reselects. (`session` runs two scenarios at once: `Scenario`
keeps a state to one interaction with two variants or to two with one, and is a state constraint, so that no
action changes.) A buffer of two events with tasks of two to four is always full at some point, and
`DEFAULT_MAX` below the number of events splits a stream over polls. `streams_delivery` starts one transport in
all, for the run of one stream beside a publication, or for a call that fails; the theorem is for any number. A run needs two documents, so that one
can end early with another before or after it, and two states in one exchange, so that one can be set up
when the next fails. Three writers are enough for one to change the file between another's open and lock
while a third dies with the lock. Two requests to one instance are two arrivals whose replies could be
swapped. Five dimensions are one beyond the block of a 3-wise array and two beyond a pair's, so that the
array grows twice. Values two levels deep reach every pair of operators at a node and at its child, and
the observed values repeat, differ in kind, lack members and are null. A check is decided for eight of the
shapes only (`Scenario` of `MCShapeCheck`): a decision sees a report's findings, not the shapes.

Bounds: `MaxInteractions`, `MaxTransports`, `MaxStreams`, `MaxInstances`, `MaxEmits`, `MaxObservations` limit
how much is ever started; `BUFFER_CAP` and `DEFAULT_MAX` stand for the code's 1024 and 128, and `MaxOptions`
and `MinEvidence` for the recorder's policy; a writer writes once.

Fairness. In `ConsumerSession` the dispatcher goes on with its request and a loop goes on except in the
transport's reply (`Answer`), which the engine does not bound: `CallsReturn` says that a report is answered
without it, because `settle` times out, and that a session ends if replies return. Polls time out, so
`PollNothing` or `PollError` is fair. In `EventStreams` the dispatcher goes on with a poll and a task
with an append and with its end, but nothing says that a run's work ends; `PollingHostSpec` adds a host
that polls every stream again and again (strong fairness, since a poll of one stream makes the others
wait). In `ContractWriter` a process goes on with its update; the lock need not be fair because each
writer takes it once. In `VerificationRun` the thread takes its next step: hooks, sends and broker calls
have deadlines. In `HttpServe` the runtime and the callers run (`Scheduling`) and the host polls and
answers what it was given (`Host`, which the exchange loop does); no timeout is ever needed. A selection
is one bounded sequential function, with nothing to say of its end. No fairness asks for a failure, a panic
or a crash.

Each property has a mutant of a mapped definition, named after the bug it stands for and defined beside
the original (`SettleWithoutWaiting`, `PushLossy`, `OpenTruncating`, ...); TLC finds the property
violated with it.

## 4. Proofs

`ConsumerSessionProofs` proves, for any number of interactions, variants and transports, any scores and
any host: `TypeCorrect`, `Honesty` (`HonestContract`), `AnswersStand`, `RunsEnd` (`ReportEndsRun`),
`Completeness` (`EvidenceComplete`), `NothingLeft`, `MatchesFound` and `OneArming`. The inductive
invariant `Inv` has these parts beside the types:

- `Phases`: what the session, the dispatcher and the transports still to visit may be at each point of
  a request;
- `Loops`: what a loop holds at each point of an exchange, and that its thread ends only with its work
  done;
- `Passives`: only a passive interaction is ever armed, in flight or recorded;
- `EvidenceHeld`: the outcomes on the wire of a variant are, merged, what the session, the transports
  visited, the loops' outcomes and the recordings under way hold. It is why no exchange is lost: every
  step moves evidence from one of them to another;
- `Quiet`: once a report has been answered nobody holds, arms or matches the variant any more. It is why
  an answer stands;
- the properties themselves, which need each other.

`Matching` is a second, independent invariant for the best match.

`EventStreamsProofs` proves, for any number of streams, events and transports and any buffer:
`TypeCorrect`, `PolledUntilTheEnd` (`EndsWhenDelivered`), `NoReportIsLost` (`ReportsArrive`),
`TransportsAreStopped` (`TransportsAccounted`, whatever way a `verify` ends) and `ImplementsEventDelivery`.
The argument is about the log of a stream: what the host received, what the answer holds and what is pending, in a row. `LogOK` says that it is numbered, that only its last event is
terminal, and that `producedLast` tells whether it is there. A push appends to the log, and polls only move
events along it (`Moves`), which is the refinement. `TaskOK` says what a task has still to push by where it
is; `PollOK` that a stream is registered until its terminal event is on its way; `SaidOK` that every report
given is in the log or about to be. `Owned`: a started transport belongs to a run that is still working or
panicked.

`ContractWriterProofs` proves, for any writers and contracts, `TypeCorrect`, `MergedAsOne`
(`AsOneSession`) and `Atomicity`: `Spec` implements `ContractFile`. The invariant says that a writer
past its lock has it (`Exclusive`) and that what it is about to write was decided from what the file
holds now (`Fresh`), which is what makes `WriteAll` the one instant of the write. `MergeIsContract`
and `NextBytesDocument` are the lemmas on the operators.

`VerificationRunProofs` proves, for every request a host may make (any documents, filter, pending marks,
states and hook policies), `TypeCorrect`, `VariantsCounted` (`EveryVariantCounted`), `PairsDivide`
(`PairsAddUp`), `HonestVerdicts` (`VerdictsHonest`), `FirstFailureStops` (`StopsAtFirstFailure`),
`AbortsReported` (`AbortReported`), `PublishedResultsWhole` (`PublishedWhole`) and `TearDownReverses`
(`TornDownInReverse`). The parts of its `Inv`,
beside the types:

- `Cursor`, `Located`: the run is between the marks of the document it verifies, so every variant dealt
  with is in a document;
- `Results`: the results are those of the variants up to `at` that the filter admits, in order. With
  `Counted` it makes the tallies add up;
- `Divided`, `RunsDivided`, `OpenDivided`: the positions noted as each document is closed cut the results
  at the documents' marks, and the part after the last cut is the open document's. It is why a pair has its
  own results and no other's, also after an early end;
- `Failures`: no failure is counted without a result or the other way round, and under
  `stop-on-first-failure` none stands while an exchange is under way;
- `Whole`: only a run that was stopped or aborted leaves a document out. With `Failures` it makes a
  verified run one that met everything;
- `OnlyLastUnfinished`: only the document a run ended in is unfinished, so the finished ones are the first
  ones and the code's pairing of sources with finished documents by position gives each source its own;
  with `RunsDivided` it makes what is published of a document (`PublishedOwn`) a verdict on its variants;
- `Reports`: the hook report names the abort of the run; `Standing`: which states may be up at each point
  of an exchange.

`HttpServeProofs` proves, for any instances and requests, `TypeCorrect`, `StopFreesPort` (`PortIsFree`),
`ErrorsAreNotStops` (`StopIsNoError`) and `PromiseKept`: `Spec` implements `RequestReply`. The parts of
`IInv`: a request the host was given has arrived (`GivenArrived`); a request is in one place at most, the
channel, a woken poll or the pending ones, and there once (`HeldOnce`); an event names one pending request,
because the counter is above all of them (`EventsNameOne`); a client's channel holds a reply exactly when
the host said one to it (`RepliesAreSaid`); an ended server has no connection (`EndedIsClosed`).

`VariantSelectionProofs` proves, for every space, strategy, strength, pin and exclusion: `TypeCorrect`,
`OnlyVariants` (`SelectsVariants`), `ExhaustiveIsComplete` (`NothingLeftOut`), `ArraysCover`
(`TargetsArePlaced`), `PairsCovered` (`PairsAreExercised`, of spaces without gates) and `SizesAreExact`
(`SizeIsExact`). Beside the types, `Inv` says where a request stands in each phase (`Kinds`), that every
variant listed is one, once (`Sound`), and what the listing has still to list (`ListedAre`). `Exhaustive` adds
that what is neither listed nor pending is excluded. `Covering` is the invariant of the algorithm: each target
is still to be covered by a dimension to come, is among the targets of this round, or is held by a row or a
seed (`Accounted`), and rows have the shape the round gives them (`Shape`); a step of the vertical pass takes a
target from the second place to the third. Gates are no exception up to there: what a target requires is
closed under the gates of its dimensions, all of them grown over by its turn (`TakenClosed`, `NeedsTaken`), and
a row that takes the target holds it (`NeedsHold`). Completion is: it keeps what a row holds only when nothing
is gated, and it may drop a row for the exclusions, which the report counts (`dropped`); hence the two
theorems. The size is counted from the last dimension back: `Counts(k, b)` says that the variants that agree
with `b` on the first `k` dimensions are as many as the weights of the dimensions `b` leaves open multiply to (`Opened`), and opening one dimension more
splits the variants by its points (`ExtensionsSplit`). It needs the gates of a dimension to be a chain, each
under the next, as the walk of a shape accumulates them (`shape/variant_space.rs:146`): of a dimension gated
by two points that do not gate one another, the tree has no place.

Induction over naturals (`Induction`) and the existence of what a recursive definition defines (`Recursion`)
are lemmas whose parameters are sets and functions, because the library states them for operators, which the
installed provers cannot instantiate. `SubsumptionProofs` has them in general; `VariantSelectionProofs`, which
shares no module with it, has them for bounded ranks, and adds folds over finite sets.

`ShapeCheckProofs` proves, for any names, depth, texts, components, observations and published or declared
shapes: `YesesAreSound` (`YesIsSound`), `RecordedShapesAdmit` (`RecordedAdmitsObserved`),
`CaveatsDecideNothing` (`CaveatsAreInert`), `VariantsProduceMatches` (`GeneratedIsAdmitted`), and
`PassesAreEarned` and `CheckedPassesAreEarned` (`PassIsEarned`, of any request and of the decision on a
check). The lemmas on shapes and the walk are in
`SubsumptionProofs`. It goes from the bottom up:

- a recursive function is what its definition says only if the recursion ends. Values, shapes and evidence
  have a level and so a rank (`valueRank`, `shapeRank`, `evidenceRank`); each body reads its
  function at lower ranks only, and `Recursion` gives the function. From there on `sameValue`, `WellFormed`,
  `Admits`, `Decompose`, `SameAdmits`, `Walk`, `Observed` and `ToShape` are used by their unfoldings;
- a shape covers another (`Covers`) when of every value it admits the other admits an equal one; the values
  equal to one are its `spellings`. Membership as such is not what a yes says: `any-of [1]` admits 1.0, which
  `integer` does not;
- `Decompose` takes absence and null out and leaves the rest: what the shape admits is what the three parts
  admit. Shapes that are `SameAdmits` cover one another, which is the identity floor;
- each rule of the walk is sound if the walk below is: classes, literals, `not-empty`, cardinality, lists
  against lists, maps, objects with undeclared members, unions by discriminator. The hard ones are the unions
  (the literals of an alternative bind its values to it, and the parser's checks keep two alternatives apart)
  and objects (a value is respelled member by member). `NodeSound` closes the induction on the provider's and
  the consumer's ranks together;
- the recorder emits shapes the parser reads, so the walk's lemmas apply to them (`ToShapeFacts`);
- `CheckInv` is inductive: what is held is evidence, what is published is one shape the parser reads,
  and the report is the one of what is published and declared;
- a recorded shape admits what was observed because the evidence of a position holds each value it was given
  (`Holds`): a null was counted, a literal the same and its kind are kept, the length and each item of an
  array are, each member of an object is, and a name the object lacks was seen less often than the object.
  `Holds` is the largest relation that unfolds so. Observing a value enters it (`AllHeld`) and loses none
  (`AllRemain`), in whatever order, so `RecordInv` is inductive beside `CheckInv`; and the shape emitted
  admits all that its evidence holds, wherever it stands (`AllAdmitted`), whether nulls, absences or several
  kinds made it nullable, optional or `any`, and whatever the policy on literals. It takes the counts of
  the evidence to agree (`Consistent`): nulls fewer than what was seen where anything else was, and no member
  seen more often than its object;
- a caveat decides nothing: two outcomes are `Like` when they have the same verdict and say the same but for
  advisories (`Said`). A caveat adds advisories (`CaveatLike`), but it also takes the identity floor away
  from the node it stands on and from every node above, so shapes that are the same are then put to the rules.
  The work is that each rule says a plain yes to them (`WalkYes`): the options of an `any-of` are found back,
  the alternatives of a union are kept apart by their literals, a regex is its own, and the three parts that
  `Decompose` takes the same shapes into are the same again (`DecomposeSame`). From there the walks with and
  without exclusions are alike at every pair of nodes, by induction on their ranks (`NodeLike`, `WalkLike`);
- a variant produces a match. The dimensions and the generator exist because their bodies read lower ranks
  only (`DimensionsRead`, `GenerateReads`). A variant takes one point of each dimension that is open, so at
  the root it `Settles` the shape (`VariantSettles`): every dimension under it whose gates the variant takes
  has one of its points. Taking a point of a gating dimension settles what it gates (`TakesMore`), and so by
  induction on shapes a settled node, at any place whose gates are taken, is produced as a value it admits
  there (`ChoiceProduced`, with one lemma for each kind of node). A pinned presence, nullability, option or
  alternative is both produced and the only one admitted; a list or a map is as long as the point's region
  asks (`SizeWithin`), `min+1` included, where the region is wider than the length produced. What the parser
  wants present is never produced absent (`PresentOnly`), so no item is replaced by null and a `contains`
  claims what it produced in the order of its entries (`EntriesProduced`).

`GeneratedIsAdmitted` has two hypotheses. `Producible` is what production needs of the author: each leaf has an
example, which the leaf admits, and no map makes its keys from a shape; without either the code produces what
its own plan refuses (section 5). And the value produced is one of the model's (`v \in Value`), within the names
and the depth; in the instance every value produced is, so the run leaves none out.

A pass is earned by the lemmas on `Reasons` (`PassIsVerified`, `PassIsExempt`); there the property is inductive
as it stands. The two modules are long and take over twenty minutes to prove from nothing.

Assumed of the constants: a request is well formed (the documents' marks increase and the last one ends
the variants); the bounds are naturals, `base` is a variant and in every space, a spec a host
adds is not the null value, scores are naturals; contracts are contracts with each identity once; every
request of the HTTP server has an instance as its target; a space has its dimensions in the order of their
gates, with the gates of each gate, and a policy's pins and exclusions name its points; the names of members
are finitely many texts, of which `Begins` says which goes on from which, no version is the empty text (so that `semver` is never empty,
`subsumption/compare.rs:1144`), no component admits an absent value, and published and declared shapes are
ones the parser reads, a declared one with the exclusions recorded under its paths; the keys made up for the
entries of a map differ, for as many as there are names and one more. TLC evaluates the
assumptions on every run.

Only model-checked: everything that takes fairness (`CallsReturn`, `PollReturns`, `RunReachesHost`,
`EveryWriteEnds`, `RunEnds`, `StopReturns`, `RequestsSettle`), which the prover cannot do.

## 5. Where the code and its documents disagree

Runs that expect a violation:

- `streams_panic`: a run that panics ends its stream without stopping its transports
  (`protocol/verification.rs:1013`), against `engine.rs:1231` and the protocol's 7.1.
- `streams_shutdown`: after `engine/shutdown` a run with a full buffer waits for ever
  (`protocol/events.rs:142`), where `engine.rs:460` says it is left to finish.
- `verification_hook_failure`: what the `after-response` hooks come to is dropped unless it is an abort
  (`protocol/verification.rs:2359`), where a failure under `fail-exchange`, the default there, is to fail
  the attempt (`hooks/runner.rs:43`, the hooks' 5.2).
- `variant_coverage`: a row can hold the point of a gated dimension without its gate, and loses it on
  completion; the report counts the target as covered (`variant/mod.rs:949`, 1145). On the payload of
  `engine/kernel/tests/variant_select.rs:176` it says 46 of 46 where the variants hold 42.

`streams_delivery` therefore checks `TransportsAccounted`, which says that a transport outlives its run or call
in two cases only: the run panicked, or the call was refused for a missing component. Such a call does not stop
the transports it had started for earlier bindings (`protocol/engine.rs:813`), unlike its other refusals, and
the model and the run have it: the history variable `stranded` holds what these calls leave started.
`streams_panic` leaves that outcome out, so that its counterexample is the panic.

Seen while modelling, without a run of its own:

- a second `variants` call replaces an interaction's selection (`protocol/session.rs:552`), where a comment
  says it is fixed once `variants` answers (`session.rs:33`);
- an `after-verification` hook that aborts replaces an earlier abort in the hook report, and its count of
  variants not run is 0 (`hooks/runner.rs:303`), which is why `AbortReported` leaves that point out;
- a stop closes an instance's connections before it drops the senders of its pending replies, so a client
  sees its connection closed where `component-http/src/lib.rs:213` says it is answered 503;
- selection: seeds and pins are pushed without a look at the exclusions, where the variant spec's 3.5 says an
  excluded assignment is never selected (`SelectsVariants` holds covering variants to it only); an exhaustive
  selection reports no combinations removed; a pin of a gated dimension without its gate loses it silently;
  the spec's rule on a coverage of nothing (3.3) is not implemented;
- shapes: `equality` and `any-of` of 1 admit 1.0 and the recorder takes the two for one, but `integer` and
  `decimal` read how a number is written, so `YesIsSound` is stated up to that;
- `match:regex` reads a number or a boolean as its text (`plan/interpret.rs:1618`), while the walk takes a
  regex for strings only; `YesIsSound` is claimed of values whose numbers and booleans no regex in scope reads
  (`unread`);
- `each-entry` with keys generates one entry whatever the size asked for, which its own plan refuses from two
  on (`Producible` leaves it out, as it does a leaf without an example, which generates null);
- the walk says no where containment holds: an array of literals against `equality` or `any-of`, a `type` of a
  null example against null, a boolean against a regex, a `one-of` with nullable alternatives. Nothing says
  that a no is exact;
- two options of an `any-of` that are written alike, as "1" and 1, share a name in the variant space.

## 6. Plan

In this order, each with its MC module, its mutants and its proofs:

1. done: `ConsumerSession`, `EventStreams`, `ContractWriter`, with proofs.
2. done: `VerificationRun`, with proofs.
3. done: `HttpServe`, with proofs.
4. done: `VariantSelection`, with proofs.
5. done: `Shapes`, `Subsumption`, `ShapeRecorder`, `Compatibility`, `ShapeCheck`, `ShapeGeneration`;
   that a yes is sound, a recorded shape admits what was observed, a caveat decides nothing, a variant
   produces a match and a pass is earned, with proofs.
6. `Engine`: the registries and the handshake around the sessions.
7. Interactions of several slots, and the counts a subsumption report adds up.

## 7. Not modelled

- Of the modelled parts: octets, content types and encoded examples of shapes; the paths written as text
  (a path is the sequence of its steps, and of its text only what `caveats_under` reads of it is kept: which
  name goes on from which, `Begins`; a name that holds a step of its own, such as "a.b", is not told from two
  names); interactions with several slots and the totals of a report; the choice
  of documents by selector (`protocol/select.rs`, `broker.rs`) before a run; what a hook changes and how one is
  run (`engine/hooks-host`), beyond what its point comes to; the requests of the client role of HTTP.
- Legacy pact upgrade, compilation and builder, content components, contract text: conversions over documents
  without state, where a model would repeat the code and fixtures in the repository compare whole documents.
- Engine registries and handshake: sequential maps of ids; the parts that meet concurrency are in the
  modules above.
- Broker and HTTP clients, the component host, the CLI, the SDKs and the WebAssembly embedding: I/O and glue,
  which are the environment of these models. The contract writer of the CLI is in `ContractWriter`.
- Tools, samples, benchmarks.

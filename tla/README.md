# Phortizo in TLA+

Models, checks and proofs for phortizo, the GitHub source handler of
katastroma: the service that receives push webhooks, clones the repositories
its tenants watch and streams them to a renderer. Source paths below are
relative to the repository root.

## Inventory

### The parts and the state they keep

| Part | Code | State | Operations |
| --- | --- | --- | --- |
| pipeline | `internal/source/process.go` | one goroutine per run: lease ID, snapshot | `Target.Process` |
| lease | `internal/lease` | three annotations on the target's ConfigMap: holder, start, replay count | `Acquire`, `Read`, `HeldBy`, `IsLeaseActive`, `ReplayCount`, `Release` (no caller) |
| ConfigMap store | `internal/k8s/configmap` | the cluster's objects, each with a `resourceVersion` | `Get`, `List`, `Update`, `Put` (no caller in a trigger) |
| target store | `internal/source/store.go` | none of its own | `Get`, `List`, `Put` |
| retriever | `internal/retriever` | none of its own | RPCs `Retrieve` and `Replay` |
| webhook handler | `internal/push` | semaphore channel for all deliveries, a WaitGroup per delivery | `ServeHTTP`, `processTargets`, `match` |
| renderer client | `internal/renderer` | a pipe, a result channel and a gRPC stream per call | `Detect`, `Stream`, `send`, `archiveToPipe` |
| trace client | `internal/tracing` | spans, in Tempo | `GetTrace`, event and target attributes |
| token transport | `internal/github/transport` | the cached installation token and its lock | `RoundTrip` |
| credentials | `internal/credential`, `internal/key` | none; reads a Secret | `Resolve` and one provider per kind of secret |
| git | `internal/git` | none | `Clone`: shallow, into memory |
| health | `internal/health`, `internal/github/service` | none | HTTP and gRPC health |
| start and stop | `cmd/main.go`, `internal/config` | the servers | read the environment, serve, shut down |

### How they interact

Three triggers start runs of `Process`. A **webhook** delivery lists the
tenant's ConfigMaps, answers 202 and lets a goroutine process the matches, one
goroutine per target behind a semaphore that all deliveries share.
**Retrieve** processes one named target. **Replay** reads an earlier event's
spans from the trace store, rebuilds the targets from their attributes and
processes each one whose lease is not active.

A run acquires the lease (Get the ConfigMap, set the annotations, Update),
clones the branch, reads the lease back, and streams the snapshot if the ID on
the ConfigMap is still its own. Runs on one or several instances of the service
share nothing but the ConfigMap; the `resourceVersion` that Update carries is
the only lock there is.

Inside a stream, two goroutines of one call share a pipe without a buffer and a
channel of capacity one.

### What is hard about it, and what has to hold

* **Pipeline and lease.** Runs interleave at every API call; a run is replaced
  silently when another acquires; a lost reply leaves a lease with a run that
  failed; leases are never released; timestamps are whole seconds; the tenant
  edits, deletes or recreates the ConfigMap under a run. To hold: a run is
  cleared to stream only as the last to acquire; cleared snapshots do not go
  back; a run that gives way is followed by one that brings its push or breaks
  down; a lease keeps replays off for `LEASE_STALE_AFTER` and not longer; it never
  undoes a tenant's edit; in the absence of failures everything triggered is
  delivered.
* **Retriever.** The check (active? over the limit?) and the acquisition are
  separate calls, and the count is written by a third. To hold: replays are not
  refused before the limit; an answer without an error covers the whole event;
  and, by the documentation, none is admitted after the limit.
* **Webhook handler.** Slots, WaitGroup and the event span end in an order
  given by `defer`. To hold: at most `MAX_CONCURRENT_TARGETS` at once, no slot
  leaks, the event span ends last.
* **Renderer client.** A file error, a broken stream and an early answer race.
  To hold: the renderer never sees a truncated archive end normally, `send`
  returns the cause, both goroutines end.
* **Token transport.** A cached token, an expiry margin and a lock held over a
  network call. To hold: no request carries an expired token unless it is late
  by more than the margin; one exchange per expiry; a hanging exchange does not
  block the others for ever.
* **Trace client, matching, detection, attribute mapping.** Pure functions with
  sharp edges: a target must survive the round trip through its span, the
  prefix match must agree with path containment.

`PROJECT.json` lists the hazards at their lines, with the properties that cover
them; configuration values that nothing checks are under *Known behaviours*.

## Modules

| Module | Models | Composes |
| --- | --- | --- |
| `Publication` | the promise to the renderers: cleared snapshots exist and never go back | |
| `Pipeline` | `Process`, `lease`, ConfigMap `Get`/`List`/`Update`, the triggers, tenants, crashes | implements `Publication` |
| `MCPipeline` | its TLC instances (symmetry) | `Pipeline` |
| `PipelineClaims` | what the repository says of leases and replays where the code does otherwise | `Pipeline` |
| `PipelineProofs` | theorems about `Pipeline` | `Pipeline`, TLAPS |
| `Dispatch` | `ServeHTTP`, `processTargets`, `main` from the start of its servers to its return | |
| `DispatchProofs` | theorems about `Dispatch` | `Dispatch`, TLAPS |
| `ReplayLoop` | `Replay` over an event's targets, spans and their export, `GetTrace` | `Process` in outline |
| `MCReplayLoop` | its TLC instance (symmetry) | `ReplayLoop` |
| `ReplayLoopProofs` | theorems about `ReplayLoop` | `ReplayLoop`, TLAPS |
| `Selection` | pure functions: targets and ConfigMap data, `match`, paths and their cleaning, `Detect`, archive names | |
| `Registry` | source and store `Put`, deliveries and retrievals on what was put | `Selection`; handler and `Process` in one step |
| `MCRegistry` | its TLC instance (paths, files, symmetry) | `Registry` |
| `RegistryProofs` | theorems about `Registry` and the functions of `Selection` | `Registry`, TLAPS |
| `RegistryClaims` | what a comment says of archive names where the code does otherwise | `MCRegistry` |
| `Delivery` | the promise to a caller of the renderer: a source is handed over whole or not seen to end, and the answer is true | |
| `RenderStream` | `send`, `sendChunks`, `archiveToPipe`, `writeTar` | implements `Delivery` |
| `RenderStreamProofs` | theorems about `RenderStream` | `RenderStream`, TLAPS |
| `TokenTransport` | `InstallationTokenAuth.RoundTrip`, `ensureToken` | |
| `TokenTransportProofs` | theorems about `TokenTransport` | `TokenTransport`, TLAPS |

### Pipeline

`pc[r]` is the API call run `r` is about to make, so that everything another
actor does can happen between any two calls.

| State or action | Code |
| --- | --- |
| `obj[t]` | the ConfigMap: `rv` its `resourceVersion`, `gen` the tenant's data (URL, ref, path, secret name) as a generation, `id`, `started` and `count` the lease annotations |
| `run[r]` | the local variables of `Process` and `replayTarget`, with the copy `Acquire` read |
| `Webhook`, `Retrieve`, `Replay` | the start of a run; the target is taken from the object as it is then (for `Replay`, from the span) and is not read again |
| `ReplayCheck` | `replayTarget`: gone, active, refused or processed |
| `AcquireGet`, `AcquireUpdate`, `AcquireRejected`, `AcquireReplyLost` | the two calls of `lease.Acquire` and the ends of the second |
| `Clone`, `CloneDenied` | credentials and `git.Clone`, at the head of the branch at that moment |
| `VerifyHeld`, `VerifyLost`, `VerifyPanics` | `lease.HeldBy`, with the nil state of an object without a lease |
| `Stream` | `renderer.Stream` returned |
| `Fail`, `Crash` | any call returns an error; an instance ends with every run on it |
| `Push`, `Edit`, `Delete`, `Create`, `Tick` | repositories, tenants, the clock |

`holder`, `approved`, `run[r].landed` and `run[r].landedAt` are history (the last
run to write its lease, the last snapshot cleared, the version a run's lease was
first written with, and when), which the properties read and no guard does. A snapshot is the number of pushes it
contains. The snapshot counts as published when verification passes; see
*Known behaviours* for the gap between that moment and the stream. A run's
`want` is what its trigger announced: for a webhook any push made so far, as a
delivery may be late or repeated.

A lease ID is the name of the run that wrote it: the model takes IDs to be
unique. The code uses the run's span ID (`internal/source/process.go:79`), which
a tracer provider draws at random and which is zero for every run under a
provider that does nothing. `main` has a library set one up and exits on its error
(`cmd/main.go:52`); without one every run would hold every lease, and little of what
is said here of leases would be left.

A deleted object keeps its version counter, because the API server draws
versions from one increasing counter for the cluster. One target per instance
of the model is enough: runs of different targets touch different ConfigMaps,
different repositories and different history.

### Dispatch

`status[d]` is the answer to delivery `d`, `dpc[d]` is `processTargets`,
`tpc[d][t]` the goroutine of a target, whose deferred calls are `ReleaseSlot`
and `Signal`, in that order. `sem` is the number of tokens in the channel,
`wg[d]` the WaitGroup. What `Process` does is `Pipeline`'s affair.

`main` is the code's `main` once both servers run, and `serving` the goroutines
that are in `ListenAndServe` or `Serve`. `ServerFails` calls `stop`; `Drain` is
`HandleGracefulShutdown`, a library function taken to end the gRPC server and
return; `Shutdown` and `ShutdownReturns` are the two halves of
`httpServer.Shutdown`, the second in time (`"wait"`) or not (`"late"`);
`MainReturns` is `wg.Wait` and the return. `Panic` ends the process at any moment.

### ReplayLoop

| State or action | Code |
| --- | --- |
| `of[e]`, `rest[e]`, `answer[e]` | a call of `Replay`: the event asked for, the targets of the loop not yet taken, how it ended; `Origin` is a webhook event |
| `at[e][t]`, `attempt[e]` | how far the event is with a target; `replayCount` of the one in hand |
| `ended[e]`, `trace[e]` | spans that ended and wait for the exporter; spans in the trace store |
| `lease[t]` | the annotations: holder, whether the lease is still active, count |
| `Ask` | `GetTrace` and the checks before the loop |
| `Take` | one turn of the loop: `sourceTargetFromAttributes` |
| `Check` | `replayTarget` up to `Process` |
| `Acquire`, `Streams`, `Fails` | `Process`: the lease written, then verified and streamed, or an error, which ends a replay and which the webhook handler logs |
| `Return` | the end of the loop, or of `processTargets`; the event span ends |
| `Export`, `Drop`, `Crash` | the span exporter; an instance that stops with what it has not exported |
| `Expire`, `Preempt` | `LEASE_STALE_AFTER` passes; a run of another event takes the lease |

A trace keeps no order among an event's targets, so `Take` takes any. `bare` is
the set of targets whose ref or path is empty, which `extractAttributes` drops. The
exporter sends spans in the order in which they ended, per event.

### Selection and Registry

`Selection` has no state. A path is a sequence of characters, so that string
prefix and containment in a directory are different things; the data of a
ConfigMap is a record of the keys it has, with `_` for the `-` of
`repo-url` and the like. `Clean`, `Join`, `Below`, `Walked` and `TrimPrefix` are
what the libraries do with such paths: the walk of a clone takes `./deploy`,
`/deploy`, `deploy//` and `a/../deploy` for `deploy`, while `match` compares the
string as it is.

| State or action of `Registry` | Code |
| --- | --- |
| `objs[n]`, `version` | the ConfigMaps and the API server's version counter; of the annotations, the secret name and the lease |
| `PutGet`, `PutGetAgain`, `PutWrite` | `source.Put` and `configmap.Store.Put`: Get, Get again, Update or Create, each a call of its own that may fail |
| `Spoil`, `Delete` | the tenant writes a labelled ConfigMap that is no target, or deletes one |
| `Push` | two commits to a branch, each writing or removing a file; GitHub's event lists what each of them did |
| `Deliver`, `Retrieve` | `List` and `match`, or `Get`; then a run per target that writes its lease and streams what its path holds, or fails |
| `streamed[n]`, `missed` | history: what the renderer was sent last for the target as it is registered; targets for which the last delivery or run failed |

Three assumptions on the constants are names for what Go's types say:
`RegistryAssumption` (a registration's branch is a branch), `ShapeAssumption` (a
target has its five fields, paths and file names are strings) and
`AbsenceAssumption` (an absent object or an error is none of the values it could
be confused with). `WellNamed(path)` are the paths in the form that files are
named in; see *Known behaviours* for the others.

Of the three triggers `Registry` has the two that read the ConfigMaps. A replay
works from spans and without the credential secret; it is `Pipeline`'s
(`TargetOfSpan`, `CanClone`) and `ReplayLoop`'s.

Deliveries are late and out of order, and meet the state of the branch and of
the ConfigMaps at that moment. Handler and runs are one step: their
interleavings are the subject of `Dispatch` and `Pipeline`.

### RenderStream

`spc` is `send` with `sendChunks` inlined; `apc` is the goroutine of
`archiveToPipe` with `writeTar` inlined. A write is `pending` until it has been
read in pieces of at most `ChunkSize`. The transport takes `Window` units ahead
of the renderer, which may also answer early (`Reply`) or break the stream
(`Break`). The order of the result channel and the pipe's close (`Report`, then
`CloseWriter`), and of `CloseReader` and the wait for the result, is the code's.

### TokenTransport

`mu` is the mutex, `token` and `expiresAt` the cache, `pc[r]` a request on its
way through `ensureToken` and out. The exchange is three steps: `Exchange`
leaves, GitHub issues the token (`Issue`), the answer arrives (`Store`), with
any amount of time between them. GitHub counts the lifetime from `Issue`, the
transport from `Store`; a token is represented by these two moments. `over[r]`
says that the request's context is done, which ends a network call and not the
wait for the mutex. `checked` is a history variable.

## Runs

| Run | Shows |
| --- | --- |
| `pipeline_safety` | three runs of a private target, one push, two clock ticks of a two-tick second, one fault: types, the fencing invariant and `FencedVerify`, `RefusalIsEarned`, `StaleInTime`, and that the pipeline implements `Publication` |
| `pipeline_edits` | three runs of a private target under two tenant changes and one fault: `NoLostEdit` and `SupersededIsCovered`, whose exceptions (a failed, edited or secretless successor) all occur |
| `pipeline_live` | no faults, no edits: `EventuallyStreamed` |
| `dispatch` | two deliveries of two targets, two slots, servers that fail and a shutdown: `ConcurrencyBounded`, `SpanEndsLast`, `AcceptedUnlessStopped`; `ReturnsAnswered` and `MainEnds` for `main` |
| `replay_loop` | a webhook event with two targets, two replays of it or of each other, three faults: `AnswerCovers` (what success means for each target), `ReplaysWhatEnded`, `FailureSparesTheRest`, `OverridesOnlyConcurrent` (what a retry repeats) |
| `registry` | two ConfigMaps, four registrations (a directory as `a`, `a/` and `./a`, the whole repository), two pushes of two commits: `NoChangeIsMissed`, `PutReadsBack`, `LeaseLostOnlyBetweenGets` |
| `render_stream` | an archive of six units, chunks of two, a window of three, two faults: `EndsComplete`, `SuccessIsComplete`, `FileErrorReported`, `PipeErrorExplained`, that `send` implements `Delivery`, `Terminates` |
| `token_transport` | three requests, a token valid for two ticks and renewed after one, one fault: `HonouredWhenSent`, `ReplacedWhenExpired`, `EveryRequestReturns` |
| `claim_held_by`, `claim_replay_bound`, `claim_secret`, `claim_relative` | the four disagreements below |

### Bounds

Three runs are a run, one that overtakes it, and one that overtakes that; with
a trigger's target taken before the run starts, or a replay of an event that
has ended, three are what the longest chain in the properties needs
(event, replay, concurrent replay; or loser, winner, winner's own loss). One
push separates the two snapshots that matter, the one before and the one after;
two edits are a deletion and a new object. `StaleAfter = 0` makes every lease
stale at once, which is the most permissive case for replays and needs no
clock. `pipeline_safety` has one: a lease is active for two ticks of a second
with two, so that one written in the second tick of a second is stored as of the
first and becomes stale a tick early.

One instance is enough for these runs: instances share nothing but the ConfigMap,
so that it does not matter where a run executes unless its instance stops, and a
run that stops alone is `Fail`, which leaves the same object behind. A stop that
takes all runs with it is `Crash`. The private target has the replays fail that
lose its secret; webhooks and retrievals of it behave like those of a public one.

Every property of the runs that is not a liveness property is also proved, for
every value of these bounds and of the other constants.

In `dispatch` four targets compete for two slots, so both deliveries can be
blocked, one waiting for the other. In `render_stream` a write can be longer
than a chunk, equal and shorter, the window is smaller than the archive, so the
sender blocks on the renderer, and two faults let a file error meet a broken
stream.

In `token_transport` the third request finds the mutex taken, the new token or
the expired one, depending on how long the first two take; an answer may be
late by less and by more than the buffer.

In `replay_loop` the second replay can be of the event or of the first replay,
beside it or after it; three faults are, for instance, a failed target, a failed
first replay and a lost span, and `MaxReplays = 1` lets the second be refused. With two targets there
is one before and one after the one that fails.

In `registry` two edits are a registration and a change, a deletion or a second
target; two pushes can be delivered in either order or around a retrieval; two
commits let the second revert the first. The files are below a directory, below
a sibling whose name begins like it, and a chart's marker; one registration has a
path that `match` never finds. One fault is a failed Get of a Put or a failed run. The ConfigMaps are interchangeable (`SYMMETRY`).

Deadlock is checked in every run. `Quiescent`, `Idle`, `Down` and `Over` are
the states in which the modelled part has nothing left to do.

### Fairness

`WF_vars(Step(r))` per run: a run is a goroutine, which the Go scheduler does
not starve, and each of its calls returns. The second half is an assumption.
The runs of a webhook have a context without cancellation
(`internal/push/serve_http.go:113`), so that nothing but the peer ends a call; a
peer that hangs keeps the run, and its slot, for ever. The runs of `Retrieve` and
`Replay` have the RPC's context, whose end is one more way to `Fail`. `Fail`,
`Crash`, `AcquireReplyLost`, the triggers and the environment have no fairness.
Weak fairness is enough, as a goroutine's next call, once enabled, stays so
until some outcome of it is taken.

`Dispatch` assumes the same of `processTargets` and each target's goroutine.
A delivery that waits for a slot may lose it to another repeatedly, but each
delivery has finitely many targets, so weak fairness suffices here; Go serves
blocked senders in order anyway. `main` is fair from the moment it is told to
stop (`WF_vars(Main)`): each of its calls returns or has a timeout of ten seconds.
Deliveries, answers, signals, failing servers and panics are not fair.

`RenderStream` assumes that both goroutines are scheduled and that the renderer
reads what it is sent and answers once the stream has ended
(`WF_vars(stream = "half" /\ Reply)`); an early answer, a file error and a broken
stream are never forced.

`TokenTransport` does not assume that GitHub answers. It assumes that every
caller gives up at some time (a probe has a timeout, and both health servers
pass the request's context on), that the HTTP client then returns, and that
Go's mutex is not withheld from one waiter for ever (`SF_vars(Lock(r))`: its
starvation mode hands it to the longest waiter).

## Proofs

Every invariant and every action property of the passing runs is a theorem
below; what the run shows on its instance the theorem says for all constants that
satisfy the module's assumptions. Each proof module has an inductive invariant,
which is `IInv` where it is one formula; the lemmas `InitIInv` and `NextIInv`, or
their counterparts, say that it is one. No proof assumes that a set of runs,
deliveries, requests, events, names or targets is finite.

| Module | Theorem | Property |
| --- | --- | --- |
| `PipelineProofs` | `TypeCorrect`, `LeaseFences` | `TypeOK`, `Fencing` |
| | `VerifyIsFenced`, `Refinement` | `FencedVerify`, `RefinesPublication` |
| | `SupersededCovered`, `StaleOnTime` | `SupersededIsCovered`, `StaleInTime` |
| | `EditsSurvive`, `RefusalsEarned` | `NoLostEdit`, `RefusalIsEarned` |
| `DispatchProofs` | `TypeCorrect`, `Bounded`, `SpansNested`, `AnsweredBeforeReturn` | `TypeOK`, `ConcurrencyBounded`, `SpanEndsLast`, `ReturnsAnswered` |
| `ReplayLoopProofs` | `TypeCorrect`, `ReplaysCover`, `ReplaysEnded` | `TypeOK`, `AnswerCovers`, `ReplaysWhatEnded` |
| | `FailureIsLast`, `OverridesConcurrent` | `FailureSparesTheRest`, `OverridesOnlyConcurrent` |
| `RegistryProofs` | `TypeCorrect`, `ReadsBack`, `NothingMissed` | `TypeOK`, `PutReadsBack`, `NoChangeIsMissed` |
| | `LeaseLost` | `LeaseLostOnlyBetweenGets` |
| `RenderStreamProofs` | `TypeCorrect`, `EndIsComplete`, `SuccessComplete` | `TypeOK`, `EndsComplete`, `SuccessIsComplete` |
| | `FileErrorWins`, `PipeErrorBlamesStream`, `Refinement` | `FileErrorReported`, `PipeErrorExplained`, `RefinesDelivery` |
| `TokenTransportProofs` | `TypeCorrect`, `Honoured`, `ReplacedOnlyWhenExpired` | `TypeOK`, `HonouredWhenSent`, `ReplacedWhenExpired` |

### Pipeline

Assumed: `PipelineAssumption`, that is a null value apart from the others, numbers
in their ranges and a second of at least one tick.

* `TypeOK` needs `TargetOK`: a started run has a target and an instance, and a
  run at its verification has a snapshot.
* `FencedVerify` and `RefinesPublication` need `Fencing`. That cleared snapshots
  do not go back is not inductive: a run at its verification might hold a lease
  and an old snapshot. `Fencing` says why it cannot: the ID on the object is that
  of the last run to write one, or there is none; and a run that still finds its
  own ID has a snapshot at least as recent as the last cleared one, since no
  other run could have been cleared since it acquired, and it cloned after
  that, at a head which had everything cleared before.
* `SupersededIsCovered` needs `Superseding`, which follows a lease from one run to
  the next. `Stands`: from its Get to its end a run has read the current version,
  or holds the lease, or comes before its last holder (`After`: that run's lease
  has a later version than the one read), unless the tenant wrote; and the holder
  after it has not cloned yet or has its push. `Custody`: the last holder is under
  way, done, or broke down. That a later holder has the push is where order
  matters: it cloned after it acquired, hence after the other looked, and a run's
  push is in the repository when it is triggered. `Steady` keeps this stable:
  versions and generations only grow, and a copy with the current version has the
  current generation. `Undisturbed`: while the tenant changes nothing all runs
  have one configuration.
* `StaleInTime` needs `Dated`, a part of the same invariant: the time on a lease
  lies between its run's Get and its Update, but for the fraction of a second.
* `NoLostEdit` follows from `Steady`: an accepted Update was made from the
  current version, hence from the current tenant data.
* `RefusalIsEarned` needs `CountEarned`: the count on the object is at most the
  number of replays of the target that wrote their lease (`Earned`), and the
  count a run carries at most one more. It is the carried count that makes it an
  induction: a run is refused on what it read, which may be old by then, but
  `Earned` never loses a member.

`StepKinds` reduces `Next` to the few kinds of step the invariants tell apart,
so that each invariant has one lemma per kind and not per action.

### Dispatch

Assumed: `DispatchAssumption`, the capacity is a natural number.

`Slots` accounts for each token in the channel: the goroutines between
`TakeSlot` and `ReleaseSlot` (`Holding`) and the deliveries between the channel
send and their `go` statement (`Starting`). `Counted` says that a WaitGroup counts
its goroutines before `Signal`, so that `wg.Wait` returns when there are none.
`Staged` ties a matched target to the list still to do or to its goroutine; with
it an ended event span has no goroutine left. `Closed` says what `Shutdown`
established when it returned in time. That the sets counted are finite is part
of the invariant, not an assumption.

### ReplayLoop

Assumed: `ReplayLoopAssumption` and `SpanNameAssumption`, that the webhook event is
no replay, there is a null value, and the event span is not a target's.

`Hand` says that a replay has one target in hand and that nothing beside it has
failed, as the loop ends at the first error. `Book` is about the trace store: the
event span ends last and is exported last (`EventLast`), and, unless spans were
lost, a target that came to an end has one, waiting or exported (`Kept`). Hence a
trace with an event span is complete. `Source` says that a replay's targets came
from such a trace and are each still to be taken or were. `Override` says that a
lease that became fresh under a replay is held by an event that was not over
when the replay was asked.

### Selection and Registry

Assumed: `SelectionAssumption`, `RegistryAssumption`, `ShapeAssumption` and
`AbsenceAssumption`.

* The lemmas about `Selection` state the round trip and the path algebra:
  `RoundTrip` and `NoTarget` (a ConfigMap reads back as the target it was made of,
  or as none), `Prefix`, `Cleaned`, `MarkerBelow` and `PathCovers` (a file below a
  well named path has it as a string prefix; the chart markers that `Detect` looks
  for are below the path).
* `ContentFromBelow` is the step from there to `NoChangeIsMissed`: what is
  streamed for a target, renderer included, depends on the files below its path
  alone. `UpToDate` then is inductive: a push that changes the content leaves an
  event that touches the target, and only that event's delivery, which streams
  again or fails visibly, removes it.
* `Stored`, `Registered` and `Streamed` say that a ConfigMap holds what was put
  and what was streamed from it; `Keeps`, that a Put between its Gets and its
  write carries the lease of the version it will replace, or is rejected.

`NoChangeIsMissed` claims nothing of a path that is not `WellNamed`, and the proof
needs no more of `Clean` than that: such a path is its own cleaned form, or that
form with a slash behind it and no file of that name.

### RenderStream

Assumed: `RenderStreamAssumption`, sizes are positive.

`Conserved`: units sent, buffered and pending add up to those produced.
`Archived`: the archiver closes the pipe with the verdict it has reported before,
and has none to report only after the whole archive was read. `Sending`: `send`
ends the stream only when the pipe ended with EOF and nothing is buffered, and
what it returns is decided by the archiver's final verdict. The four invariants
are consequences. For `RefinesDelivery` each step of `send` maps to one of
`Delivery`: a message to `Give`, `CloseSend` to `End`, and whatever returns to
`Tell`; the archiver's steps and the pipe's are stutters. The abstract line to
the renderer is the stream, and every error of `send` is the abstract `"error"`.

### TokenTransport

Assumed: `TokenTransportAssumption` and `NoneAssumption`, that the buffer is
shorter than the lifetime and that there is a null value.

Whoever is between `Lock` and the unlock holds the mutex, so that a cache it
found expired stays so until it stores (`Exclusion`); the moments attached to
the cached and the carried tokens are in order, and a token was given out new
or before `expiresAt` (`CacheDated`, `Dated`). The bound on the delay is then
arithmetic: the buffer pays for the answer's delay and the sending's together.

### Only model-checked

`EventuallyStreamed`, `AcceptedUnlessStopped`, `MainEnds`, `Terminates` and
`EveryRequestReturns`: liveness under fairness is out of the prover's reach. The
four disagreements below are counterexamples of TLC's.

## Disagreements between code and documentation

* `claim_held_by`. `lease.Read` returns `nil, nil` for an object without a lease
  ID (`internal/lease/read.go:21-23`) and `HeldBy` dereferences it
  (`internal/lease/verify.go:27`). A ConfigMap that is deleted and created again
  between a run's acquisition and its verification panics the run, and in a
  goroutine of the webhook handler the process.
* `claim_replay_bound`. The repository's `README.md:84` promises at most `MAX_REPLAY_ATTEMPTS`
  replays per event. The count is read by `replayTarget` and written by
  `Acquire` with nothing between to tie them, so two concurrent replays both
  count as the first.
* `claim_secret`. A target rebuilt from its span has no credential secret
  (`internal/retriever/replay.go:146`), which `internal/source/target.go:26-27`
  says means a public repository. The replay of a private target takes the
  lease and then fails to clone.

* `claim_relative`. The archiver writes entries "with paths relative to root"
  (`internal/renderer/send.go:88-89`) by removing the prefix `root + "/"` (line
  108) from paths that the walk has cleaned. A root that ends in a slash, the form
  the repository's tests use, leaves `deploy//` to remove, which is on no path:
  the renderer gets `deploy/Chart.yaml` where it expects `Chart.yaml`.

### Known behaviours that no run reports

* The lease is verified once, before the stream. A run that loses it after that
  streams all the same, and two runs may stream at once, the older finishing
  last. `Stream` has no guard in the model either; `RefinesPublication` speaks
  of the moment of verification.
* A replay may take a lease that became active between its check and its
  acquisition, as `Acquire` does not look at the lease it replaces.
* A health check that waits for the token's mutex goes on waiting after its
  caller gave up, until the caller of the request that holds it gives up too.
* A run that gives way drops its push for good if its successor then fails, is
  rejected by a private repository (a replay) or stops: nobody retries, until
  someone asks for a replay. `SupersededIsCovered` names these ends (`BrokeDown`).
* A run works from the configuration it was triggered with. One triggered before
  a tenant's edit, or a replay of an older span, may take the lease from a run with
  the newer configuration and stream the older. `SupersededIsCovered` promises the
  same configuration only as long as the tenant changes none.
* The replay count belongs to the ConfigMap, not to the event: replays of
  different events add up, and a webhook or manual run sets it back to 0.
* A target whose ref or path is empty cannot be rebuilt from its span and ends
  every replay of its event at that target (`Rebuilds`).
* A replay that skips a target because of a fresh lease answers success whether or
  not the run that wrote the lease succeeded. A target streamed by a replay that
  failed later is processed again by the next one, and counts as an attempt.
* An event whose instance stopped before the event span was exported cannot be
  replayed.
* `match` takes `deploy` to cover `deployment/x`: a needless run.
* `match` compares the path as it is written, the walk cleans it. With `./deploy`,
  `/deploy`, `deploy//`, `a/../deploy` or `a/./b` a run streams the directory, while
  no push ever matches it; `.` matches only names that begin with a dot, `/` and
  `./` nothing, and neither does a file's name with a slash behind it. Only
  `WellNamed` paths are covered by `NoChangeIsMissed`.
* A path of which nothing is left, after the last file below it was removed or
  by a `..` that leads out of the clone, makes the walk, and the run, fail
  (`Missing`): the renderer is not told that the target is empty.
* A push event without commits, as for a branch set back by force, matches nothing.
* `source.Put` takes any error of its Get for a new object. If the object is there
  the lease and other annotations are dropped; if only its second Get fails, the
  Create carries a version and is rejected (`Accepted`).
* `source.Put` writes the annotations it read first. A lease written between its two
  Gets is replaced by the older one, under a newer version: a run whose lease it
  was would find an older run's ID, and that run, if it still waits to verify, its
  own. `Put` has no caller, so `Pipeline`'s tenants write only their own data
  (`Edit`), and its properties would have to be looked at again with one.
* Nothing calls `lease.Release`. A failed event cannot be replayed before
  `LEASE_STALE_AFTER`; the replay answers success without doing anything.
* A delivery answered with 202 is lost when the instance stops: shutdown waits
  for open requests, not for `processTargets`.
* When the archive fails, `send` returns without ending or cancelling the stream
  (`internal/renderer/send.go:48-50`): `stream` stays open until the renderer
  answers or breaks it, and a webhook's context is never cancelled.
* `CHUNK_SIZE=0` makes `sendChunks` read nothing for ever, and
  `MAX_CONCURRENT_TARGETS=0` makes `processTargets` wait for ever; neither is
  checked at start. The first is excluded by `RenderStreamAssumption`; the
  second satisfies `DispatchAssumption` and fails `AcceptedUnlessStopped`.
* The repository's `README.md:22` documents `POST /webhook/{namespace}` and three `RENDERER_*`
  variables; `cmd/main.go` serves `POST /push/{namespace}` (line 177) and reads
  one, `RENDERER_ADDR` (line 116).

## Not modelled

The health service is one request to GitHub per check and keeps no state;
`TokenTransport` models what it shares. Reading the environment and connecting in
`main`, before the servers start, is a sequence of parse-or-exit steps. Of
credentials `Pipeline` has what the lease is exposed to: a run with the name of a
Secret can clone a private repository, one without cannot, and the Get of a
Secret is a call that may fail. The providers, the forms of keys they accept and
what they write back have no state and no other actor, and are left to their
tests; so is the secret store, whose code is the ConfigMap store's. `lease.Release`
has no caller. The test doubles under `internal/tests` are not the program.

## Plan

1. Abstract specifications of the token cache (a token that changes hands in one
   step) and of `Replay` (each ended target once, up to the first failure), with
   `TokenTransport` and `ReplayLoop` shown to implement them as `RenderStream`
   implements `Delivery`.
2. The finite part of the liveness arguments: measures that every fair step of
   `RenderStream` and `Dispatch` decreases, as action properties.

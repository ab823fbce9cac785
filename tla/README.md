# mathop-operator: a TLA+ model

The repository holds two generations of the same idea, workflows of HTTP
calls on Kubernetes in which a later call takes input from the answers of
earlier ones:

* a Crossplane composition function, `function-httptask`, which turns the
  tasks of a `Workflow` composite resource into `DisposableRequest`s that
  `provider-http` executes, with a `watcher` copying progress to Postgres;
* a controller-runtime manager with controllers for `HTTPTask`, `Workflow`,
  `Add`, `Subtract` and `Square`, and a status server.

## Inventory

| part | state | operations | talks to | hard about it |
|---|---|---|---|---|
| `function-httptask` (fn.go) | none; a function of spec.tasks and the observed requests | `RunFunction`: one loop over the tasks, overall phase, webhook | Crossplane calls it and carries out its answer | it sees old observations, is cut short anywhere, and anything it forgets to desire is deleted |
| Crossplane, provider-http (external) | composed resources and their status | observe, apply, garbage-collect; execute once | fn.go | order and partial completion |
| HTTPTask controller | finalizer, Ready condition, output, hash in the HTTPTask | `Reconcile`, `fail`, `waiting`, `findDependentTasks` | API server through a cache, endpoints | stale reads, edits during a call, restarts, deletion of sources |
| Workflow controller | phase, tasks, notifiedPhase in the Workflow; child HTTPTasks | `Reconcile`, `notify` | API server, HTTPTask controller, notifyURL | children change under the loop, POST and record are two steps |
| watcher | rows in Postgres | `handleWorkflow`, `upsertRun`, `upsertTask` | Workflow events, Postgres | rows are written one by one, errors are dropped |
| Add, Subtract, Square controllers, DynamicWatcher | result, condition, finalizer; watched kinds | `Reconcile`, `Ensure`, `FetchTaskResult` | each other through the API | int32 arithmetic, late watches, conditions that stick |
| JSON paths (two copies) | none; maps in memory | `getJSONField`, `setJSONField` | fn.go, HTTPTask controller | nested maps shared between bodies |
| status server | none; a page's script has some | page, JSON, event stream | cache of Workflows | snapshot and events race, the stream ends at the first terminal phase |
| manager, types, scripts, deployment | none of their own | | | |

What makes each part correct:

* function: a request is built only from final, successful answers; what was
  created is desired for ever; the status never goes back; the webhook tells
  the truth and is sent once; a workflow settles. All of this needs flat tasks,
  see below.
* HTTPTask: the condition speaks of the spec it claims to speak of; an
  answered body is not sent again; a source known to be in use is not removed;
  every input is worked off after the last edit; a deletion completes.
* Workflow: the status fits the spec it is stored with; notifyURL hears only
  stored phases that are not yet recorded; a child's condition and answer are
  never overwritten; the status ends up showing the children as they are, and
  notifyURL has been told the phase the Workflow ends in.
* watcher: rows never go back, a task's row is never ahead of its run's, and the
  tables end up as the stored Workflow.
* Add, Subtract, Square: a Ready Square has the result of the source it names now;
  everything settles; a deletion completes.
* JSON paths: a body is the input with the mapped values in their places,
  whatever was built before it.
* status server: a page that was open shows in the end how the Workflow ended.

## Modules

| module | models | read with |
|---|---|---|
| `TaskRunner` | abstract: tasks are requested once, with the answers of their sources | |
| `TaskFunction` | the decisions of fn.go as operators | |
| `Composition` | one Workflow composite: Crossplane, the function, provider-http, the user | extends `TaskFunction`, implements `TaskRunner` |
| `CompositionProofs`, `StatusProofs` | theorems about `Composition`; the first also that it implements `TaskRunner` | the second extends the first, it extends `Composition` |
| `ChildTask` | abstract: how an HTTPTask changes, seen by its owner | |
| `HTTPTask` | the HTTPTask controller, its cache, endpoints and users | implements `ChildTask` |
| `Workflow` | the Workflow controller, its children, notifyURL | its children take the steps of `ChildTask` |
| `Dashboard` | the status server and a page, beside the Workflow controller | extends `Workflow` |
| `Watcher` | the watcher's events and tables | |
| `MathOps` | the Add, Subtract and Square controllers and `DynamicWatcher` | |
| `JsonPath` | `getJSONField`, `setJSONField` and the bodies built with them | |
| `HTTPTaskProofs`, `WorkflowProofs`, `WatcherProofs`, `MathOpsProofs`, `JsonPathProofs` | theorems about the module of their name | extend it |
| `FoldLaws` | what a loop over a sequence comes to, for any body of the loop | instantiated by `JsonPathProofs` for each loop |
| `MC...` | instances for TLC | extend the module of their name |

Every definition that models code is listed in `PROJECT.json` under `map` with
its lines. Operators whose comment begins with "A mutant" are deliberate bugs:
each replaces one definition to show that some property notices.

### TaskFunction and Composition

`RunFunction` walks `spec.tasks` once. Its maps `outputs` and `failedTasks` are
functions of the phases given so far (`ph`) and the observed requests (`obs`),
so every decision is an operator of those: `depFailed`, `depsReady`,
`buildable`, `taskPhase`, `desires`, then `workflowPhase` and `notifyDesired`.
A response body is a model value with a set of fields that resolve in it, or
`"text"`; a request body is the sequence of source answers its mapped values
come from. url, method, headers and `spec.input` are constant for a task and left
out. The function's fatal results (bad input, no tasks) change nothing and
are left out.

**Premise: flat tasks.** Both modules, and every property and theorem about them, are about
workflows whose tasks are `Flat`: no mapping of a task has its target inside the
target of an earlier mapping of that task (`x` and then `x.y`). `buildDisposableRequest`
stores the very map it found in `outputs` in the body (fn.go:223-227). A later mapping
that goes below it writes into that map, and so into the source's output, which the
rest of the call reads. The code does not refuse such tasks, and for them what is
said here is false. Take `A`, `D`, `Job{x<-A.x, x.y<-D.y}` and a fourth task `R`, with D
answering late:

* `R{q<-A.x.y.z}`, and A answers `{"x":{"y":{"z":1}}}`: R is requested and succeeds. When D
  answers, building Job replaces A's `x.y`, R's rebuild fails (fn.go:134-139), R is
  reported Failed and its request is collected. `SourcesSucceeded`, `NeverCollected`,
  `StatusMonotone` and `ImplementsTaskRunner` fail.
* `R{q<-A.x.y}`, and A answers `{"x":{}}`: R fails, the phase is Failed and the webhook is
  sent. When D answers, Job brings A an `x.y`, R can be built, the phase is Running again,
  the notify request is collected and later sent a second time. `StatusMonotone`,
  `FailureTruthful` and `PostsBounded` fail.

With flat tasks the model may treat an output as what was observed (`outputs`), and the
marshalling of a body as free of errors: that is what `BodiesAsSpecified` and `Acyclic` of
`JsonPathProofs` say of the maps in memory. `JsonPath` models tasks of every shape, and
its run `jsonpath_rebuild` finds the failing rebuild.

In `Composition` a reconcile is: `Observe(k)` any number of times, `Call`, one
`LoopStep` per task, `Return`, then `Apply`, `Collect` and `UpdateStatus` in any
order, and `EndReconcile`; `Abandon` cuts it short. So the observations the
function works with may be old, and of different moments for different
requests. `Respond` is provider-http, which may first report a 2xx with
`synced` false; an answer is final when it is an error, a non-2xx or a synced
2xx. `AppendTask` and `LoseRequest` are users. Users who remove or reorder
tasks, or change a task's input, are not modelled.

### HTTPTask

One worker (the default of controller-runtime). `GetNotFound`, `GetDeleting`
and `GetTask` are the beginning of `Reconcile` up to the finalizer; then one
`MergeSource` per mapping; `Skip` or `MarkRunning`; `Send` or `SendFails`;
`Record` or `RequestFailed`. Between any two of them the cache may catch up
(`Sync`), a user may edit, delete or create a task, and the manager may restart
(`Crash`). resourceVersions are reduced to their only use, the detection of an
outdated copy: `behind` and `w.stale`. A body stands for its own hash. The API
refuses an output that is not a JSON object, because the CRD says
`type: object`. A task whose deletion is blocked stays in the queue, which
stands for the requeue after five seconds.

A spec is a record of `input`, `from` (the sources of `inputFrom`) and `rest` (endpoint,
method and headers). Users may edit any of them at any time, as the Workflow
controller does (workflow_controller.go:73-77). `rest` is not part of the hash: after an
edit of `rest` alone the task is skipped (line 118). Two fields of a stored task are
auxiliary. `asked` is the whole spec the recorded answer was asked for with. `held` are
the tasks that `inputFrom` has named, without a break, since the controller last wrote
a condition.

`NeverRemovedInUse` protects what is `held`, and no more can be said: the check at line
54 reads the cache's index. A task that was created, or edited to name the source,
after its last condition may not be in that index yet, and then the source goes. This
holds of tasks that have been answered as of new ones.

Left out: `spec.input` that is not JSON and URLs that cannot be parsed (both fail
in the same way on every attempt), and references with another apiVersion
or kind than HTTPTask's.

`ImplementsChildTask` maps each stored task to what an owner sees of it: the
spec, the reason of the Ready condition (all failures are "Error"), and the
whole spec the recorded output was asked for with (`asked`). This is the interface at which `HTTPTask` and
`Workflow` are composed: every write of the controller, from however old a copy,
is one of the few steps `ChildTask` allows. `Workflow` has a property of the same
name, for what the Workflow controller and the users do to the children.

### Workflow

The same cache and conflicts. `Get`, one `ReconcileStep` (CreateOrUpdate of
the child and its phase) per step, `UpdateStatus`, `Notify` or `NotifyFails`,
`RecordNotified`. The children change by the operators of `ChildTask`
(`ChildWaits`, `ChildRuns`, `ChildEnds`), that is, as the HTTPTask controller was
shown to change them. They may take these steps and need not. An output is the spec it answers, so a status that shows
an old answer can be told from one that shows the current one. Left out:
deletion of the Workflow, several Workflows, TransactionID and DashboardURL, and a
child's finalizer (`DeleteChild` is its actual removal).

### Dashboard

`Workflow` with a page: `Load` starts the script, `Answer` is
`handleWorkflowJSON`, `Tick` one round of `handleStream` (which samples the
cache, so phases may be skipped), `ShowSnapshot` and `ShowEvent` the two calls of
`render` in whatever order the answers arrive, `Disconnect` the `onerror` handler.

### Watcher

The versions of one Workflow name are kept in a log and identified by their
place in it; a row stands for what it says by the version it was written from.
`Receive` is the informer, which may skip versions; `Handle` takes an event,
`upsertRun` and `upsertTask` are single statements, `StatementFails` ends the
event with an error that is only logged, `Restart` lists anew. A Workflow that is
deleted and created again has a new transaction id. The status code passes
through `decoded` and `column`: unstructured objects hold int64, `upsertTask` asks
for a float64.

### MathOps

Caches, conflicts and finalizers as in `HTTPTask`; one worker for each of the
three controllers. `GetSource` is a pass of `Reconcile` on an object that has its
finalizer; otherwise `AddFinalizer` and `Compute`. For a Square:
`GetUnresolvable` or `GetSquare` (with `Ensure`), `Fetch` (a live read: the
manager's client does not cache unstructured objects), then `SourceNotFound`,
`WaitingOnSource` or `Record`. Events of watched kinds come through `notices` and
`findSquaresForSource`. Integers run from `-Half` to `Half - 1` (2^31 in the code) and wrap. The ghost field `of`
tells which source a result was computed from. Conditions of Add and Subtract, which
change only together with the result, are left out.

### JsonPath

Maps in memory are cells of `heap`, so that one map can be part of two values,
as in Go. `build` merges the mappings one by one: from the one map per source a
call of `RunFunction` holds (`shared`), or from a fresh parse, as `Reconcile` does.
The reference, `Reference`, is a definition on values: functions from paths to
leaves. `JsonPathAssumption` says that outputs and inputs are JSON texts as
`json.Unmarshal` leaves them in memory (`IsJson`: every map has one place) and that
`Depth` is enough to show whole outputs. The loops of the code (over the parts of a
path, over the mappings, over the outputs) are folds with named steps: `entry`,
`enter`, `merge`, `keep`.

## Runs

| run | shows | bounds |
|---|---|---|
| `composition_safety` | `SourcesSucceeded`, `NeverCollected`, `StatusMonotone`, `SuccessTruthful`, `FailureTruthful`, `PostsTruthful`, `PostsBounded`, `ImplementsTaskRunner`, `TypeOK` | flat tasks: a chain, a join, a forward reference; an error, a non-2xx, an unsynced and two synced 2xx; one task appended |
| `composition_live` | `Settles` | a chain, a useless and a good answer, one request deleted by hand |
| `httptask_safety` | `ReadyIsCurrent`, `EndpointFence`, `NeverRemovedInUse`, `ImplementsChildTask`, `DeletionCompletes`, `TypeOK` | b may be given a source (a), another input, another endpoint; one creation or edit, two deletions, a restart; 2xx, non-2xx and text answers |
| `httptask_live` | `Converges` | b takes input from a, whose input may change; two possible answers; one edit or creation, one deletion, one failed call, one failed write |
| `httptask_running` | violation, see below | one task |
| `workflow_safety` | `StatusFitsSpec`, `NotifyFence`, `ImplementsChildTask`, `TypeOK` | two steps and one step, edited into each other; one restart |
| `workflow_live` | `Converges` | one step with and without notifyURL, one edit, a deleted child, one failed write, one failed call or notification; children that may stop anywhere |
| `watcher` | `RowsForward`, `RunCoversTasks`, `SnapshotWhenOk`, `CatchUp`, `TypeOK` | four versions of two Workflows of one name, with up to two tasks, renamed and removed; one failed statement, one restart |
| `mathops` | `ReadyIsCurrent`, `Settles`, `DeletionCompletes`, `TypeOK` | one object of each kind, the Square referring to the Add, itself or an unknown kind at first; any two edits, creations, deletions, failures or restarts; four-bit integers |
| `jsonpath` | `BodyAsSpecified` | every pair of mappings of one task, with paths up to length two, on two inputs and two outputs, followed by a second task that takes the first output whole; by both builders |
| `jsonpath_rebuild`, `dashboard_refresh` | violations, see below | one plan; a Workflow of one step |

Two tasks in a chain are the least for which a source can be stale, deleted or
outdated, and two answers the least for which an output can change; the appended task makes it three, and shows what reaches a task
through another; the join has two sources answering at different moments. A
source's deletion is only interesting once its dependent has gone too, hence two
deletions in `httptask_safety`. That run has no failed write: a write that fails for a
passing reason is handled as one refused for a conflict, which it has;
`httptask_live` has both, and the theorems about the safety properties allow any number.
Four bits are enough for sums and squares to wrap both ways. Four
versions allow one to be skipped, one to fail, and a replacement of the
Workflow. Two events in `mathops` allow a change to meet a failure or a restart.
Paths of length two are the shortest that go through a map, and two mappings the
fewest that can interfere. Deadlock is not checked where the system rests once
its bounds are spent (all runs but those of `Composition` and `JsonPath`).

### Where comments and code disagree

* `RunningEnds`: httptask_controller.go:122 ties Running to a call in flight.
  When the input is edited and edited back while a call is in flight, the task
  stays Running for good.
* `RebuildDeterministic`: fn.go:133 says requests are rebuilt
  deterministically. A mapping into an object that another mapping brought writes
  into the source's output. In the run the field that the existing request takes from
  it is gone when the request is rebuilt, the rebuild fails, and the task is
  reported Failed and its request collected, though it was answered.
* `NoRefreshNeeded`: server.go:64 promises a page that needs no refresh. The
  snapshot asked for at line 162 may arrive last, after the final event.

Plain from the code, and without a run of their own:

* README.md:51 says the webhook is sent once every task settles; a failed task
  makes the phase Failed at once (fn.go:154), while independent tasks still run.
  The same holds of workflow_types.go:50 and workflow_controller.go:115.
* README.md:262 says later tasks are marked Skipped; only direct dependents are,
  and theirs stay Pending (fn.go:109).
* README.md:269 says at most one new request is created per reconcile; all tasks
  that are ready are created together (fn.go:116).
* README.md:49 says the same information is in Postgres; `status_code` is always
  NULL (watcher/main.go:160).
* httptask_types.go:63 says the endpoint is not called again when nothing
  changed; after an answer that is not a JSON object it is (httptask_controller.go:168).
* httptask_controller.go:117 speaks of the last successful call, but a non-2xx
  answer is recorded and skipped as well.
* workflow_controller.go:133 says the notification is retried without the task
  loop, but the requeue runs all of `Reconcile`.
* add_types.go:23 says the result is x + y and line 26 that the conditions are the
  latest observations; the sum wraps, and the condition keeps the generation at
  which the result last changed (add_controller.go:66).

## Fairness

* Composition: Crossplane keeps calling the function and finishes what it
  started (its workqueue retries for ever), does not fail midway for ever, reads
  each request again and again, and provider-http brings every request to a
  final answer. `Observe` needs strong fairness, since it is possible only
  between reconciles.
* HTTPTask and Workflow: a worker does not stop inside `Reconcile` (calls of
  endpoints have a timeout of ten seconds; notify uses the default client, which
  has none, so there it is an assumption about notifyURL), watch events arrive,
  and the queue serves every key. The HTTPTask queue needs strong fairness
  because one worker serves several keys. The periodic resync (`Resync`) is
  possible but not fair: convergence must not depend on it.
* The children of a Workflow have no fairness. One whose source never answers never
  runs, one of which only endpoint, method or headers were edited is not called again
  (httptask_controller.go:118), and one may stay Running (`RunningEnds`). `Converges` of
  `Workflow` therefore says that wherever the children have come to rest, they have
  the steps' specs, the status shows them as they are, and a final phase has been told.
  `Converges` of `HTTPTask` speaks of the body (input and the sources' outputs) and not of
  the endpoint, for the same reason. Its premise `Acyclic` excludes tasks that take
  input from themselves: when answers differ, each wakes the next for ever.
* MathOps: weak fairness of "some worker takes a key", "some Reconcile goes on" and
  "some event arrives"; less than the workqueues give, which are fair to each key.
* Watcher: the informer's goroutines keep running; a statement returns, with or
  without an error.
* Dashboard: the ticker ticks, and what is on its way to the page arrives.

## Proofs

Every safety property that a passing run checks is also proved, for every value of
the constants. No property is inductive as it stands; each proof module has the
invariant that is. TLC checked these on the instances of the runs before they were
proved, but for `BodyInv`, which speaks of paths of any length.

### The composition

`CompositionProofs` and `StatusProofs`: every set of names, fields, objects, answers and
well-formed workflows of flat tasks (the premise above), any number of appended tasks.

* `TypeCorrect`: `Spec => []TypeOK`. Not inductive alone: the function reads
  `FieldsOf` and a body only where the observed answer is an object, which
  needs `SuccessObserved` (a phase Succeeded in `run.ph` comes from an observed
  request with such an answer). `TypeInv` is the conjunction.
* `SourcesAlwaysSucceeded`: `Spec => []SourcesSucceeded`, from the inductive
  invariant `SourceInv`. Requests and desired requests are described in terms
  of what is *observed* (`RequestsFed`, `WantFed`), and what is observed is
  related to what exists by `ObservedIsOld`: an observed final answer is still
  the answer. The other parts say that the loop treats an observed task exactly
  as its request says and desires it (`LoopExact`), that a call covers every
  observed task (`CallCovers`), and that therefore nothing is left for Crossplane
  to delete (`NothingDropped`). All are needed together: if a request could be
  collected, an observed answer could disappear.
* `RequestsNeverCollected`: `Spec => NeverCollected`, from the same invariant.
* `RunsTasks`: `MaxLosses = 0 => (Spec => ImplementsTaskRunner)`. From `SourceInv`
  every step maps to a step of `TaskRunner` or to none: applying a request that
  exists changes nothing, since it is rebuilt equal (`RequestsFed`, `WantFed`);
  applying a new one is `Request`, since its body is made of observed final
  answers, which by `ObservedIsOld` are still the stored ones; a final response is
  `Answer`, an unfinal one is invisible; an appended task is `Add`.
* `RequestsStand`: what follows from `TaskRunner` alone and so holds of `Composition`. A
  request keeps its body, and once answered for good it does not change.
* `SuccessAlwaysTruthful`, `FailureAlwaysTruthful`, `StatusForward`,
  `PostsAlwaysTruthful`, `PostsAlwaysBounded`: `SuccessTruthful`, `FailureTruthful`,
  `StatusMonotone`, `PostsTruthful`, `PostsBounded`, from `ReportInv`, which adds to `SourceInv`:
  - `Backed`: every phase ever reported or sent has a ground in what is observed. A
    task is Running because it was observed, Succeeded or Failed because its observed
    request says so, Failed also because it is `Doomed` (its sources have answered
    and one answer has not the field), Skipped because a source was Failed.
    `BackedKept`: grounds are never lost, since what was observed to be final is final.
  - `RunRepeats` with `LoopExact`: the loop decides the same on the same ground. So a
    later call gives a phase that is `Later` (`PhasesForward`), an outcome stands
    until tasks are added (`OutcomeStands`), and what was told is true of the
    requests as they are (`ToldIsTrue`).
  - `PostsCounted`, `UnsentCounted`: the p-th payload lists at least p-1 tasks more
    than the Workflow was created with. By `OutcomeStands` the webhook's request is
    deleted only by a call with more tasks than any payload sent
    (`CollectedForMore`), so only then can another be created and sent.

They rest on `FunctionAssumption` and `CompositionAssumption`: names are distinct,
`__notify__` is not a task's name, an answer of provider-http has an error
or a code. All but `TypeCorrect`, and that payloads are final outcomes, hold while
nobody deletes requests by hand (`losses = 0`): after a deletion a dependent is
reported Failed and collected, and comes back later.

### The manager's controllers

* `HTTPTaskProofs`, from `HInv`: `HTTPTaskTyped`, `ConditionsCurrent`
  (`ReadyIsCurrent`), `EndpointFenced` (`EndpointFence`), `InUseProtected`
  (`NeverRemovedInUse`), `KeepsThePromise` (`ImplementsChildTask`). What a write may
  do rests on the copy it was prepared from. `Held` says that copy is the stored
  object, and the cached copy has its spec, unless it is marked stale, and then the
  API server refuses the write. `Calling` says that during a call the copy is marked Running for its own
  generation, has no answer to the body sent, and that users can have edited the
  spec meanwhile, or created the task anew, but not its answer. `Stored` is
  `ReadyIsCurrent` in the form that survives edits (a condition is never ahead of
  the generation), with `Known`: whatever a stored task holds, its cached copy names
  too. This last part carries `InUseProtected`: the check that reads the cache misses
  only references newer than the last condition. For the refinement, `StoreEffects` lists everything a
  step can do to the store, and `EffectRefines` maps each of these to a step of
  `ChildTask` or to none.
* `WorkflowProofs`, from `NInv`: `WorkflowTyped`, `StatusesFit` (`StatusFitsSpec`),
  `NotifyFenced` (`NotifyFence`). `Held` as above; `Folded`: in the loop the entries
  so far are those of the first steps of the spec *in hand*, so when the update is
  accepted they are those of the stored spec; `Telling`: while notifyURL is told, the
  stored status is the one it is told, because users edit only the spec.
  `OwnerKeepsToChildTask` (`ImplementsChildTask` of `Workflow`): `ChildWaits`,
  `ChildRuns` and `ChildEnds` are steps of `ChildTask` by definition, and
  `DeleteChild` is one; what is to be shown is that `ReconcileStep`, which computes
  the child from a cached copy, writes only where the copy is the stored child.
  Together with `KeepsThePromise` it says that both controllers keep to one
  interface; that the two composed meet `Converges` is not claimed.
* `WatcherProofs`, from `WInv`: `WatcherTyped`, `RunsCoverTasks`
  (`RunCoversTasks`), `SnapshotsComplete` (`SnapshotWhenOk`), `RowsNeverGoBack`
  (`RowsForward`). `Ordered`: the queue is sorted and newer than what is handled;
  `Reached`: all of it is at least as new as any run in the table, also after a
  restart that lists anew; `Written`: the statements that have succeeded for the
  version handled are in the tables. Rows are below their run, so they too are below
  what is written next.
* `MathOpsProofs`, from `MInv`: `MathOpsTyped`, `SquaresCurrent` (`ReadyIsCurrent`).
  The property must hold of every copy there is (stored, cached and in a worker's
  hands: `Sound`, `Proper`), because each may be written back. `WrapTyped` is the
  lemma that results stay in range for any width; the width is given by `Half`
  rather than by an exponent, which the prover has no axioms for.

Their assumptions on constants are type facts: what users write is well typed, `None`
is none of the values it is the absence of, the kinds have different names, bounds are
numbers. `MathOpsAssumption` also says that the objects there are at first are ones
a controller could have left (`Left`).

### JSON paths

`JsonPathProofs`: every set of keys and leaves, all outputs and inputs, paths and
lists of mappings of any length, any number of tasks, calls and rebuilds.

* `BodiesAsSpecified`: `Spec => []BodyAsSpecified`, from `BodyInvariant` (`BodyInv`).
  `BodyAsSpecified` compares a body with the reference; that the comparison holds
  again after the next task is only known if building a body spoils no output that is
  kept. So `BodyInv` has `Held`: the outputs in memory read as they were answered,
  and are the first `M` maps, which lead only to each other. Maps above `M` are new.
* `RebuildsAreDeterministic`: `Spec => [](Tame => RebuildDeterministic)`, from the
  same invariant. `Tame` is the premise of `BodyAsSpecified`: outputs are parsed
  anew, or no mapping goes below what an earlier one has set. The run
  `jsonpath_rebuild` shows that without it the rebuild may differ.
* `SetPlaces`: one call of `setJSONField`. If each new map has one place in the body
  (`Alone`), if the value has none of them (`Apart`), and if there are new maps only
  on the way to the target, then the body has the value at the target, maps above it,
  and everything else as before or, where a leaf gave way to a map, gone (`Place`);
  old maps are not written. It rests on `WriteFound` (a single entry is written) and
  on `EnterStep`, one step of the loop, from which `Walks` follows by induction on
  the path.
* The body of a task is a fold of such calls. `Merged` is the invariant of that fold:
  an old map is found in the body only at or below the target of a mapping
  (`shared`), so the way to a target that is not below another one meets none;
  a missing field makes the body fail and nothing else does; and what is seen of the
  body is the reference so far. `MergedAppend` puts one more value in, `SplicedView`
  compares the result with one step of `Reference`.
* `Acyclic`: such a body does not contain itself. A path to a map leads through as
  many different maps as it has parts (`TrailGrows`), and memory has only so many,
  so no way down is longer than memory.

Induction over data: the library's theorems for it take a predicate, which the
provers cannot instantiate. `FoldLaws` says it with sets instead. A set of numbers
that holds zero and every successor holds all numbers (`InductiveSet`, from the least
element of a well-founded relation), and likewise for sequences (`InductiveSeqs`). From
these it derives that `FoldLeft` does its last element last (`FoldAppend`), for an
operator that is a constant of the module; each loop is an instance.

### Only model-checked

* `Settles`, `Converges`, `DeletionCompletes`, `CatchUp`: liveness under fairness,
  which is out of the prover's reach.
* The three counterexamples above.

## Not modelled

The manager's `main`, generated code, CRDs, deployment, tests and the helper
scripts (`mock_server.py`, `notify_listener.py`, `watch_workflow.py`): no state or
pure I/O. Deletion of a Workflow, and several Workflows whose children's names
collide. Users who remove or change tasks of a composite, two tasks of one name
or one called `__notify__`. References to another apiVersion or kind than
HTTPTask's in `inputFrom`. Kinds that are installed while the manager runs. Composites with tasks that are not flat, beyond
what `JsonPath` says of one call: `Composition` has no shared maps.
`PROJECT.json` lists every hazard with its line; those without a property say why.

## Plan

1. Done: all components with logic of their own; the refinements of
   `TaskRunner` and, from both sides, of `ChildTask`; theorems for every safety
   property.
2. What would come next: several Workflows whose children's names collide, and users
   who remove tasks of a composite (see the hazards without a property); the shared
   maps of `JsonPath` inside `Composition`, for tasks that are not flat; a proof that
   `HTTPTask` and `Workflow`, composed over `ChildTask`, meet `Converges`.

------------------------------ MODULE HTTPTask ------------------------------
(***************************************************************************)
(* HTTPTaskReconciler (internal/controller/httptask_controller.go): its    *)
(* one worker, the informer cache it reads, the API server it writes to,   *)
(* the endpoints it calls, and the users who create, edit and delete       *)
(* tasks.                                                                  *)
(*                                                                         *)
(* Reads go to the cache, which may lag; writes carry the resourceVersion  *)
(* of what was read and fail when the object has changed since.  Only that *)
(* use of resourceVersions is kept: "behind" holds the tasks whose cached  *)
(* copy is no longer the stored one, and w.stale says so of the copy the   *)
(* worker holds.  The cache catches up with the stored object in one step; *)
(* a version in between is seen by catching up before the next change.     *)
(* A request body is the task's input with the output objects its mapped   *)
(* values come from; the hash is modelled by the body itself.              *)
(*                                                                         *)
(* Two fields of a stored task are auxiliary: nothing the code does        *)
(* depends on them, they record what a property speaks of.                 *)
(***************************************************************************)
EXTENDS Naturals, Sequences, FiniteSets

CONSTANTS
    Tasks,        \* names of HTTPTasks
    Specs,        \* the specs of tasks
    SpecsOf,      \* SpecsOf[t]: those that users give t
    Objects,      \* JSON objects an endpoint may return
    HasField,     \* the objects in which the mapped field is found
    Replies,      \* the answers of endpoints
    None,         \* no object, no value
    MaxEdits,     \* bound on creations and edits of the spec
    MaxDeletes,   \* bound on deletions of tasks
    MaxErrors,    \* bound on transient failures of API writes
    MaxFailures,  \* bound on failed HTTP calls
    MaxCrashes    \* bound on restarts of the manager

(***************************************************************************)
(* A spec is a record of input, from (the tasks named in inputFrom, in     *)
(* order) and rest (endpoint, method and headers, which are not hashed).   *)
(***************************************************************************)
Inputs     == {spec.input : spec \in Specs}
Refs(spec) == {spec.from[k] : k \in DOMAIN spec.from}

Body  == [input: Inputs, vals: Seq(Objects)]
Reply == [ok: BOOLEAN, body: Objects \cup {"text"}]

Reasons == {"", "WaitingOnSource", "SourceNotFound", "Running", "RequestFailed",
            "NonSuccessStatus", "Computed"}

(***************************************************************************)
(* An HTTPTask: metadata.generation (of the spec), deletionTimestamp and   *)
(* finalizer; of the status the Ready condition's reason ("" if absent)    *)
(* and observedGeneration, the hash, the output and whether it came with a *)
(* 2xx.  Auxiliary: asked, the spec the answer on record was asked for     *)
(* with, and held, the tasks that inputFrom has named without a break      *)
(* since the controller last wrote a condition.                            *)
(***************************************************************************)
Object == [gen: Nat, spec: Specs, deleting: BOOLEAN, fin: BOOLEAN,
           reason: Reasons, cgen: Nat, hash: Body \cup {None},
           out: Objects \cup {None}, ok: BOOLEAN,
           asked: Specs \cup {None}, held: SUBSET Tasks]

ASSUME HTTPTaskAssumption ==
    /\ \A spec \in Specs : spec.from \in Seq(Tasks)
    /\ SpecsOf \in [Tasks -> SUBSET Specs]
    /\ HasField \subseteq Objects
    /\ Replies \subseteq Reply
    /\ None \notin Object \cup Body \cup Objects \cup Reply \cup Specs
    /\ None \notin [spec: Specs, reason: Reasons \cup {"Error"}, out: Specs \cup {None}]
    /\ {MaxEdits, MaxDeletes, MaxErrors, MaxFailures, MaxCrashes} \subseteq Nat

VARIABLES
    api,     \* the HTTPTasks in the API server
    cache,   \* the manager's informer cache
    behind,  \* the tasks whose cached copy is out of date
    queue,   \* the workqueue
    w,       \* the worker's Reconcile call
    budget   \* what is left of the bounds

vars == <<api, cache, behind, queue, w, budget>>

Idle == [pc |-> "idle", t |-> None, task |-> None, stale |-> FALSE, vals |-> <<>>,
         reply |-> None]

TypeOK ==
    /\ api \in [Tasks -> Object \cup {None}]
    /\ cache \in [Tasks -> Object \cup {None}]
    /\ behind \subseteq Tasks
    /\ \A t \in Tasks \ behind : cache[t] = api[t]
    /\ queue \subseteq Tasks
    /\ w.pc \in {"idle", "merge", "call", "failed", "record"}
    /\ w.pc # "idle" => w.t \in Tasks /\ w.task \in Object /\ w.task.fin /\ ~w.task.deleting
    /\ w.vals \in Seq(Objects)
    /\ w.pc = "record" <=> w.reply # None

NewTask(spec) ==
    [gen |-> 1, spec |-> spec, deleting |-> FALSE, fin |-> FALSE, reason |-> "",
     cgen |-> 0, hash |-> None, out |-> None, ok |-> FALSE, asked |-> None, held |-> {}]

(* Some tasks have been created when the manager starts. *)
Init ==
    /\ \E given \in [Tasks -> Specs \cup {None}] :
          /\ \A t \in Tasks : given[t] \in SpecsOf[t] \cup {None}
          /\ api = [t \in Tasks |-> IF given[t] = None THEN None ELSE NewTask(given[t])]
    /\ cache = [t \in Tasks |-> None]
    /\ behind = {t \in Tasks : api[t] # None}
    /\ queue = {}
    /\ w = Idle
    /\ budget = [edits |-> MaxEdits, deletes |-> MaxDeletes, errors |-> MaxErrors,
                 failures |-> MaxFailures, crashes |-> MaxCrashes]

Spend(what) == budget[what] > 0 /\ budget' = [budget EXCEPT ![what] = @ - 1]

(* The stored task t becomes new; the same object again is no change. *)
Store(t, new) ==
    /\ api' = [api EXCEPT ![t] = new]
    /\ behind' = IF new = api[t] THEN behind ELSE behind \cup {t}

-----------------------------------------------------------------------------
(* Writes.  Update and Status().Update of a copy of task t. *)

(* The write is accepted ... *)
Write(t, stale, new) == ~stale /\ Store(t, new) /\ UNCHANGED budget

(* ... or refused, because of a conflict or for a passing reason. *)
WriteFails(stale) ==
    /\ \/ stale /\ UNCHANGED budget
       \/ Spend("errors")
    /\ UNCHANGED <<api, behind>>

(* SetStatusCondition of the Ready condition *)
WithReady(task, reason) ==
    [task EXCEPT !.reason = reason, !.cgen = task.gen, !.held = Refs(task.spec)]

(* Reconcile returns nil, or an error, on which the key is queued again. *)
Done  == w' = Idle /\ UNCHANGED queue
Retry == w' = Idle /\ queue' = queue \cup {w.t}

fail(reason) ==
    /\ Write(w.t, w.stale, WithReady(w.task, reason)) \/ WriteFails(w.stale)
    /\ Done

waiting(reason) ==
    \/ Write(w.t, w.stale, WithReady(w.task, reason)) /\ Done
    \/ WriteFails(w.stale) /\ Retry

-----------------------------------------------------------------------------
(* A mutant: a dependent that is itself being deleted does not count. *)
referencedByLiving(t) ==
    \E u \in Tasks : cache[u] # None /\ ~cache[u].deleting /\ t \in Refs(cache[u].spec)

(* taskReferencedByOthers, from the cache's index *)
taskReferencedByOthers(t) ==
    \E u \in Tasks : cache[u] # None /\ t \in Refs(cache[u].spec)

(* Take a key off the queue; the task is gone. *)
GetNotFound(t) ==
    /\ w.pc = "idle" /\ t \in queue /\ cache[t] = None
    /\ queue' = queue \ {t}
    /\ UNCHANGED <<api, cache, behind, w, budget>>

(* A mutant: the key of a task in use is not queued again. *)
GetDeletingDropped(t) ==
    /\ w.pc = "idle" /\ t \in queue /\ cache[t] # None /\ cache[t].deleting
    /\ LET inUse == cache[t].fin /\ taskReferencedByOthers(t)
       IN  \/ (~cache[t].fin \/ inUse) /\ queue' = queue \ {t} /\ UNCHANGED <<api, behind, budget>>
           \/ cache[t].fin /\ ~inUse /\ Write(t, t \in behind, None) /\ queue' = queue \ {t}
           \/ cache[t].fin /\ ~inUse /\ WriteFails(t \in behind) /\ UNCHANGED queue
    /\ UNCHANGED <<cache, w>>

(***************************************************************************)
(* The task is being deleted.  While it is referenced its key comes back   *)
(* after five seconds: it simply stays in the queue.                       *)
(***************************************************************************)
GetDeleting(t) ==
    /\ w.pc = "idle" /\ t \in queue /\ cache[t] # None /\ cache[t].deleting
    /\ ~(cache[t].fin /\ taskReferencedByOthers(t))
    /\ \/ ~cache[t].fin /\ queue' = queue \ {t} /\ UNCHANGED <<api, behind, budget>>
       \/ cache[t].fin /\ Write(t, t \in behind, None) /\ queue' = queue \ {t}
       \/ cache[t].fin /\ WriteFails(t \in behind) /\ UNCHANGED queue
    /\ UNCHANGED <<cache, w>>

(* The task lives: add the finalizer if need be, and start on the body. *)
GetTask(t) ==
    /\ w.pc = "idle" /\ t \in queue /\ cache[t] # None /\ ~cache[t].deleting
    /\ LET task == [cache[t] EXCEPT !.fin = TRUE]
       IN  \/ /\ IF cache[t].fin THEN UNCHANGED <<api, behind, budget>> ELSE Write(t, t \in behind, task)
              /\ w' = [Idle EXCEPT !.pc = "merge", !.t = t, !.task = task, !.stale = t \in behind]
              /\ queue' = queue \ {t}
           \/ /\ ~cache[t].fin /\ WriteFails(t \in behind)
              /\ UNCHANGED <<queue, w>>
    /\ UNCHANGED cache

Merging == w.pc = "merge" /\ Len(w.vals) < Len(w.task.spec.from)
source  == cache[w.task.spec.from[Len(w.vals) + 1]]

(* One round of the loop over spec.inputFrom. *)
MergeSource ==
    /\ Merging
    /\ \/ source = None /\ fail("SourceNotFound")
       \/ /\ source # None /\ source.out \notin HasField
          /\ waiting("WaitingOnSource")
       \/ /\ source # None /\ source.out \in HasField
          /\ w' = [w EXCEPT !.vals = Append(@, source.out)]
          /\ UNCHANGED <<api, behind, queue, budget>>
    /\ UNCHANGED cache

Merged == w.pc = "merge" /\ Len(w.vals) = Len(w.task.spec.from)
body   == [input |-> w.task.spec.input, vals |-> w.vals]

(* The body is that of the answer on record; endpoint, method, headers may differ. *)
Unchanged == w.task.hash = body /\ w.task.out # None

Skip ==
    /\ Merged /\ Unchanged
    /\ Done
    /\ UNCHANGED <<api, cache, behind, budget>>

(* A mutant: the call is made although the task could not be marked. *)
MarkRunningLogged ==
    /\ Merged /\ ~Unchanged
    /\ LET task == WithReady(w.task, "Running")
       IN  /\ Write(w.t, w.stale, task) \/ WriteFails(w.stale)
           /\ w' = [w EXCEPT !.pc = "call", !.task = task]
    /\ UNCHANGED <<cache, queue>>

(* Mark the task as running before the call is made. *)
MarkRunning ==
    /\ Merged /\ ~Unchanged
    /\ LET task == WithReady(w.task, "Running")
       IN  \/ /\ Write(w.t, w.stale, task)
              /\ w' = [w EXCEPT !.pc = "call", !.task = task] /\ UNCHANGED queue
           \/ WriteFails(w.stale) /\ Retry
    /\ UNCHANGED cache

(* The endpoint is called and answers ... *)
Send ==
    /\ w.pc = "call"
    /\ \E r \in Replies : w' = [w EXCEPT !.pc = "record", !.reply = r]
    /\ UNCHANGED <<api, cache, behind, queue, budget>>

(* ... or the call fails, possibly after the endpoint got the request. *)
SendFails ==
    /\ w.pc = "call" /\ Spend("failures")
    /\ w' = [w EXCEPT !.pc = "failed"]
    /\ UNCHANGED <<api, cache, behind, queue>>

RequestFailed ==
    /\ w.pc = "failed"
    /\ fail("RequestFailed")
    /\ UNCHANGED cache

(* A mutant: the answer is recorded in a copy of the task read after the call. *)
RecordRefetched ==
    /\ w.pc = "record" /\ api[w.t] # None
    /\ LET ready == WithReady(api[w.t], IF w.reply.ok THEN "Computed" ELSE "NonSuccessStatus")
           task  == [ready EXCEPT !.out = w.reply.body, !.hash = body, !.ok = w.reply.ok,
                                  !.asked = w.task.spec]
       IN  \/ w.reply.body \in Objects /\ Write(w.t, FALSE, task) /\ Done
           \/ WriteFails(FALSE) /\ Retry
           \/ w.reply.body \notin Objects /\ Retry /\ UNCHANGED <<api, behind, budget>>
    /\ UNCHANGED cache

(* A mutant: any answer is recorded as the output. *)
RecordAny ==
    /\ w.pc = "record"
    /\ LET task == [WithReady(w.task, "Computed")
                      EXCEPT !.out = w.reply.body, !.hash = body, !.ok = w.reply.ok,
                             !.asked = w.task.spec]
       IN  \/ Write(w.t, w.stale, task) /\ Done
           \/ WriteFails(w.stale) /\ Retry
    /\ UNCHANGED cache

(***************************************************************************)
(* Record the answer.  An output that is not a JSON object is refused (by  *)
(* the encoder, or by the CRD's "type: object").                           *)
(***************************************************************************)
Record ==
    /\ w.pc = "record"
    /\ LET ready == WithReady(w.task, IF w.reply.ok THEN "Computed" ELSE "NonSuccessStatus")
           task  == [ready EXCEPT !.out = w.reply.body, !.hash = body, !.ok = w.reply.ok,
                                  !.asked = w.task.spec]
       IN  \/ w.reply.body \in Objects /\ Write(w.t, w.stale, task) /\ Done
           \/ WriteFails(w.stale) /\ Retry
           \/ w.reply.body \notin Objects /\ Retry /\ UNCHANGED <<api, behind, budget>>
    /\ UNCHANGED cache

-----------------------------------------------------------------------------
(* A mutant: only the task itself is queued. *)
NoDependents(t) == {}

(* findDependentTasks *)
findDependentTasks(t) ==
    {u \in Tasks : cache'[u] # None /\ t \in Refs(cache'[u].spec)}

(* A watch event reaches the cache and queues the task and its dependents. *)
Sync(t) ==
    /\ t \in behind
    /\ cache' = [cache EXCEPT ![t] = api[t]]
    /\ behind' = behind \ {t}
    /\ queue' = queue \cup {t} \cup findDependentTasks(t)
    /\ UNCHANGED <<api, w, budget>>

(* The informer's periodic resync. *)
Resync(t) ==
    /\ cache[t] # None /\ t \notin queue
    /\ queue' = queue \cup {t}
    /\ UNCHANGED <<api, cache, behind, w, budget>>

(* The manager restarts: what it had in hand is lost, everything is listed. *)
Crash ==
    /\ Spend("crashes")
    /\ cache' = api
    /\ behind' = {}
    /\ queue' = {t \in Tasks : api[t] # None}
    /\ w' = Idle
    /\ UNCHANGED api

(* A change by a user: what the worker holds of the task is out of date. *)
Changed(t, new) ==
    /\ Store(t, new)
    /\ w' = IF w.t = t THEN [w EXCEPT !.stale = TRUE] ELSE w
    /\ UNCHANGED <<cache, queue>>

Create(t, spec) ==
    /\ api[t] = None
    /\ Changed(t, NewTask(spec))
    /\ Spend("edits")

(* Any part of the spec may change: input, inputFrom, endpoint, method, headers. *)
EditSpec(t, spec) ==
    /\ api[t] # None /\ api[t].spec # spec
    /\ Changed(t, [api[t] EXCEPT !.spec = spec, !.gen = @ + 1, !.held = @ \cap Refs(spec)])
    /\ Spend("edits")

DeleteTask(t) ==
    /\ api[t] # None /\ ~api[t].deleting
    /\ Changed(t, IF api[t].fin THEN [api[t] EXCEPT !.deleting = TRUE] ELSE None)
    /\ Spend("deletes")

Worker == \/ \E t \in Tasks : GetNotFound(t) \/ GetDeleting(t) \/ GetTask(t)
          \/ MergeSource \/ Skip \/ MarkRunning \/ Send \/ SendFails \/ RequestFailed \/ Record
User   == \E t \in Tasks : \/ \E spec \in SpecsOf[t] : Create(t, spec) \/ EditSpec(t, spec)
                           \/ DeleteTask(t)

Next == Worker \/ User \/ Crash \/ \E t \in Tasks : Sync(t) \/ Resync(t)

Spec == Init /\ [][Next]_vars

(***************************************************************************)
(* The worker does not stop inside Reconcile, the queue serves every key   *)
(* again and again, and watch events arrive.                               *)
(***************************************************************************)
Get(t) == GetNotFound(t) \/ GetDeleting(t) \/ GetTask(t)

Fairness ==
    /\ WF_vars(MergeSource \/ Skip \/ MarkRunning \/ Send \/ RequestFailed \/ Record)
    /\ \A t \in Tasks : SF_vars(Get(t)) /\ WF_vars(Sync(t))

FairSpec == Spec /\ Fairness

-----------------------------------------------------------------------------
(***************************************************************************)
(* The endpoint is never sent a body whose answer is already stored, even  *)
(* when the worker decides from an old copy of the task (lines 117-132):   *)
(* marking the task as running is refused first.                           *)
(***************************************************************************)
EndpointFence ==
    [][w.pc = "call" /\ w'.pc \in {"failed", "record"} =>
          ~(api[w.t] # None /\ api[w.t].hash = body /\ api[w.t].out # None)]_vars

(***************************************************************************)
(* A condition that speaks of the current generation and reports an answer *)
(* reports the answer to the current input, from the endpoint the spec has *)
(* now (lines 164-185), whatever edits arrived while the call was in       *)
(* flight.                                                                 *)
(***************************************************************************)
ReadyIsCurrent ==
    \A t \in Tasks :
        /\ api[t] # None /\ api[t].cgen = api[t].gen
        /\ api[t].reason \in {"Computed", "NonSuccessStatus"}
        => /\ api[t].hash # None /\ api[t].hash.input = api[t].spec.input
           /\ api[t].asked = api[t].spec
           /\ api[t].reason = "Computed" <=> api[t].ok

(***************************************************************************)
(* In-use protection (lines 50-66): the controller never lets a task go    *)
(* that another has named in inputFrom, without a break, since it was last *)
(* given a condition; also when that task is itself being deleted, and     *)
(* however old the cache is that the check reads.  A reference that is     *)
(* newer than the last condition, because the task was created or edited   *)
(* since, may not be in the cache yet and does not protect.                *)
(***************************************************************************)
NeverRemovedInUse ==
    [][\A t, u \in Tasks :
          /\ api[t] # None /\ api[t].deleting /\ api'[t] = None
          /\ api[u] # None
          => t \notin api[u].held]_vars

(* A task as its owner sees it. *)
ChildOf(task) ==
    IF task = None THEN None
    ELSE [spec   |-> task.spec,
          reason |-> IF task.reason \in {"", "WaitingOnSource", "Running", "Computed"}
                     THEN task.reason ELSE "Error",
          out    |-> task.asked]

Promise == INSTANCE ChildTask WITH child <- [t \in Tasks |-> ChildOf(api[t])]

(***************************************************************************)
(* HTTPTask implements ChildTask, which is all the Workflow controller     *)
(* knows of its children: an answer appears only in a task marked Running  *)
(* and answers the spec it is stored with, and no write of the controller, *)
(* however old the copy it starts from, brings an earlier spec, condition  *)
(* or answer back (lines 68-73, 122-132, 164-204).                         *)
(***************************************************************************)
ImplementsChildTask == Promise!Spec

(* The body a task's stored spec and its sources' stored outputs call for. *)
CurrentBody(t) ==
    [input |-> api[t].spec.input,
     vals  |-> [k \in DOMAIN api[t].spec.from |-> api[api[t].spec.from[k]].out]]

HasSources(t) == \A s \in Refs(api[t].spec) : api[s] # None /\ api[s].out \in HasField

(* No task takes input from itself, directly or through others. *)
Acyclic ==
    \E rank \in [Tasks -> 1..Cardinality(Tasks)] :
        \A t \in Tasks : api[t] # None => \A s \in Refs(api[t].spec) : rank[s] < rank[t]

(***************************************************************************)
(* After the last edit every task with usable sources ends up with the     *)
(* answer to its current input, its current mappings and its sources'      *)
(* current outputs: an edit, a source's new answer, or a failed call       *)
(* anywhere in the chain is eventually worked off through the watch events *)
(* alone (findDependentTasks, fail, waiting).  Tasks in a circle call for  *)
(* ever when answers differ.  Which endpoint gave the answer is not said:  *)
(* a change of endpoint, method or headers alone is skipped (line 118).    *)
(***************************************************************************)
Converges ==
    <>[](Acyclic =>
            \A t \in Tasks : api[t] # None /\ ~api[t].deleting /\ HasSources(t) =>
                api[t].hash = CurrentBody(t) /\ api[t].out # None)

(***************************************************************************)
(* After the last deletion the only tasks still being deleted are those    *)
(* that a stored task references (lines 50-66): nobody wakes a source when *)
(* its last dependent goes, so only the requeue lets it go.                *)
(***************************************************************************)
DeletionCompletes ==
    <>[](\A t \in Tasks : api[t] # None /\ api[t].deleting =>
            \E u \in Tasks : api[u] # None /\ t \in Refs(api[u].spec))

-----------------------------------------------------------------------------
(* A comment that the code does not keep. *)

(***************************************************************************)
(* httptask_controller.go:122 "Mark as actively running BEFORE making the  *)
(* (possibly slow) call, so this is genuinely visible to anything watching *)
(* this object while the call is in flight": a task reported Running does  *)
(* not stay so when no call is in flight.                                  *)
(***************************************************************************)
RunningEnds ==
    \A t \in Tasks :
        [](api[t] # None /\ api[t].reason = "Running" =>
           <>(api[t] = None \/ api[t].reason # "Running"))
=============================================================================

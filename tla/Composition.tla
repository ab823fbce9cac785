----------------------------- MODULE Composition -----------------------------
(***************************************************************************)
(* One Workflow composite resource from its creation on: Crossplane        *)
(* reconciles it by reading the composed DisposableRequests one after the  *)
(* other, calling function-httptask, and carrying out the answer;          *)
(* provider-http executes the requests meanwhile; somebody may append      *)
(* tasks to spec.tasks or delete a DisposableRequest by hand.              *)
(*                                                                         *)
(* RunFunction is taken apart at the granularity of its loop: Call is its  *)
(* entry, LoopStep one iteration, Return everything after the loop.        *)
(* Crossplane and provider-http are not part of this repository; they are  *)
(* modelled as weakly as the function's correctness allows (a reconcile    *)
(* may be given up at any point, what it does for one resource is not      *)
(* ordered with respect to another).                                       *)
(*                                                                         *)
(* All of it is about Workflows of flat tasks (the premise of module       *)
(* TaskFunction; Task has no others): without it a later call may build    *)
(* another body for an existing request, or fail to build it.              *)
(***************************************************************************)
EXTENDS TaskFunction

CONSTANTS
    Workflows,   \* the lists of (flat) tasks a Workflow may be created with
    Additions,   \* tasks that may be appended later
    Answers,     \* statuses provider-http may write
    MaxEdits,    \* bound on the number of appended tasks
    MaxLosses    \* bound on the number of requests deleted by hand

VARIABLES
    tasks,      \* spec.tasks
    notifyURL,  \* spec.notifyURL is not empty
    requests,   \* the DisposableRequests in the API server
    observed,   \* the DisposableRequests as Crossplane last read them
    run,        \* the reconcile in progress
    xr,         \* status.phase and status.tasks of the Workflow
    posted,     \* the payloads POSTed to notifyURL, in order
    edits,      \* how many tasks were appended
    losses      \* how many requests were deleted by hand

vars == <<tasks, notifyURL, requests, observed, run, xr, posted, edits, losses>>

ASSUME CompositionAssumption ==
    /\ \A w \in Workflows : w \in Seq(Task) /\ WellFormed(w)
    /\ Additions \subseteq Task
    /\ \A s \in Answers : s \in Status /\ (s.error # "" \/ s.code # 0)
    /\ MaxEdits \in Nat /\ MaxLosses \in Nat

(***************************************************************************)
(* n is the number of tasks in the request of the call, ph the statuses    *)
(* and want the desired resources collected so far; after Return, todo is  *)
(* what Crossplane still has to do and reported whether the Workflow's     *)
(* status was written.                                                     *)
(***************************************************************************)
Nothing == [k \in Keys |-> None]
Idle == [stage |-> "idle", n |-> 0, ph |-> <<>>, want |-> Nothing,
         todo |-> {}, reported |-> FALSE]

(* The maps from keys to requests, and to the bodies of requests. *)
IsRequestMap(g) == /\ g = [k \in Keys |-> g[k]]
                   /\ \A k \in Keys : g[k] \in Request(k) \cup {None}
IsBodyMap(g)    == /\ g = [k \in Keys |-> g[k]]
                   /\ \A k \in Keys : g[k] \in Body(k) \cup {None}

(* A reconcile of a Workflow with len tasks. *)
IsRun(r, len) ==
    /\ r = [stage |-> r.stage, n |-> r.n, ph |-> r.ph, want |-> r.want,
            todo |-> r.todo, reported |-> r.reported]
    /\ r.stage \in {"idle", "loop", "apply"}
    /\ r.n \in 0..len
    /\ r.ph \in Seq(Phases) /\ Len(r.ph) <= r.n
    /\ IsBodyMap(r.want)
    /\ r.todo \subseteq Keys
    /\ r.reported \in BOOLEAN

(***************************************************************************)
(* Every variable keeps its shape: in particular names stay distinct, a    *)
(* call never looks past the tasks it was given, and task and webhook      *)
(* requests carry their own kind of body.                                  *)
(***************************************************************************)
TypeOK ==
    /\ tasks \in Seq(Task) /\ WellFormed(tasks)
    /\ notifyURL \in BOOLEAN
    /\ IsRequestMap(requests)
    /\ IsRequestMap(observed)
    /\ IsRun(run, Len(tasks))
    /\ xr \in [phase: {"", "Running"} \cup Terminal, tasks: Seq(Phases)]
    /\ posted \in Seq(Payload)
    /\ edits \in Nat /\ losses \in Nat

Init ==
    /\ tasks \in Workflows
    /\ notifyURL \in BOOLEAN
    /\ requests = Nothing
    /\ observed = Nothing
    /\ run = Idle
    /\ xr = [phase |-> "", tasks |-> <<>>]
    /\ posted = <<>>
    /\ edits = 0 /\ losses = 0

-----------------------------------------------------------------------------
(* Crossplane reads one composed resource before it calls the function. *)
Observe(k) ==
    /\ run.stage = "idle"
    /\ observed[k] # requests[k]
    /\ observed' = [observed EXCEPT ![k] = requests[k]]
    /\ UNCHANGED <<tasks, notifyURL, requests, run, xr, posted, edits, losses>>

(* RunFunction up to the loop: the request carries the tasks of this moment. *)
Call ==
    /\ run.stage = "idle"
    /\ run' = [Idle EXCEPT !.stage = "loop", !.n = Len(tasks)]
    /\ UNCHANGED <<tasks, notifyURL, requests, observed, xr, posted, edits, losses>>

(* One iteration of the loop over spec.tasks. *)
LoopStep ==
    /\ run.stage = "loop" /\ Len(run.ph) < run.n
    /\ LET i    == Len(run.ph) + 1
           name == tasks[i].name
       IN  run' = [run EXCEPT
              !.ph = Append(@, taskPhase(tasks, observed, run.ph, i)),
              !.want = IF desires(tasks, observed, run.ph, i)
                       THEN [@ EXCEPT ![name] = requestBody(tasks, observed, i)]
                       ELSE @]
    /\ UNCHANGED <<tasks, notifyURL, requests, observed, xr, posted, edits, losses>>

(* A mutant: the webhook is desired only until it has been created. *)
DesiredUntilCreated ==
    IF notifyDesired(run.ph, notifyURL) /\ observed[NotifyKey] = None
    THEN [run.want EXCEPT ![NotifyKey] = notifyBody(run.ph)] ELSE run.want

(* The desired composed resources of the response. *)
Desired ==
    IF notifyDesired(run.ph, notifyURL)
    THEN [run.want EXCEPT ![NotifyKey] = notifyBody(run.ph)] ELSE run.want

(* RunFunction after the loop. *)
Return ==
    /\ run.stage = "loop" /\ Len(run.ph) = run.n
    /\ run' = [run EXCEPT
          !.stage = "apply",
          !.want = Desired,
          !.todo = {k \in Keys : Desired[k] # None \/ observed[k] # None}]
    /\ UNCHANGED <<tasks, notifyURL, requests, observed, xr, posted, edits, losses>>

(* Crossplane deletes an observed resource that is no longer desired. *)
Collect(k) ==
    /\ run.stage = "apply" /\ k \in run.todo /\ run.want[k] = None
    /\ requests' = [requests EXCEPT ![k] = None]
    /\ run' = [run EXCEPT !.todo = @ \ {k}]
    /\ UNCHANGED <<tasks, notifyURL, observed, xr, posted, edits, losses>>

(* Crossplane creates a desired resource, or updates its spec. *)
Apply(k) ==
    /\ run.stage = "apply" /\ k \in run.todo /\ run.want[k] # None
    /\ requests' = [requests EXCEPT ![k] =
          [body |-> run.want[k],
           status |-> IF requests[k] = None THEN NoStatus ELSE requests[k].status]]
    /\ run' = [run EXCEPT !.todo = @ \ {k}]
    /\ UNCHANGED <<tasks, notifyURL, observed, xr, posted, edits, losses>>

(* Crossplane writes the status the function set on the composite. *)
UpdateStatus ==
    /\ run.stage = "apply" /\ ~run.reported
    /\ xr' = [phase |-> workflowPhase(run.ph), tasks |-> run.ph]
    /\ run' = [run EXCEPT !.reported = TRUE]
    /\ UNCHANGED <<tasks, notifyURL, requests, observed, posted, edits, losses>>

(* The reconcile is complete. *)
EndReconcile ==
    /\ run.stage = "apply" /\ run.todo = {} /\ run.reported
    /\ run' = Idle
    /\ UNCHANGED <<tasks, notifyURL, requests, observed, xr, posted, edits, losses>>

(***************************************************************************)
(* A step of the reconcile fails, or Crossplane restarts.  (Cut short      *)
(* before Return, a reconcile leaves no trace.)                            *)
(***************************************************************************)
Abandon ==
    /\ run.stage = "apply" /\ ~(run.todo = {} /\ run.reported)
    /\ run' = Idle
    /\ UNCHANGED <<tasks, notifyURL, requests, observed, xr, posted, edits, losses>>

-----------------------------------------------------------------------------
(* provider-http sends a request once and is done with a final answer. *)
Answered(s) ==
    s.error # "" \/ (s.code # 0 /\ (s.code \notin 200..299 \/ s.synced # "false"))

Respond(k, s) ==
    /\ requests[k] # None /\ ~Answered(requests[k].status)
    /\ requests' = [requests EXCEPT ![k].status = s]
    /\ posted' = IF k = NotifyKey /\ requests[k].status = NoStatus
                 THEN Append(posted, requests[k].body) ELSE posted
    /\ UNCHANGED <<tasks, notifyURL, observed, run, xr, edits, losses>>

(* The user appends a task to spec.tasks. *)
AppendTask(t) ==
    /\ edits < MaxEdits
    /\ \A i \in DOMAIN tasks : tasks[i].name # t.name
    /\ tasks' = Append(tasks, t)
    /\ edits' = edits + 1
    /\ UNCHANGED <<notifyURL, requests, observed, run, xr, posted, losses>>

(* Somebody deletes a DisposableRequest behind Crossplane's back. *)
LoseRequest(k) ==
    /\ losses < MaxLosses /\ requests[k] # None
    /\ requests' = [requests EXCEPT ![k] = None]
    /\ losses' = losses + 1
    /\ UNCHANGED <<tasks, notifyURL, observed, run, xr, posted, edits>>

Next ==
    \/ \E k \in Keys : Observe(k) \/ Collect(k) \/ Apply(k) \/ LoseRequest(k)
    \/ \E k \in Keys, s \in Answers : Respond(k, s)
    \/ \E t \in Additions : AppendTask(t)
    \/ Call \/ LoopStep \/ Return \/ UpdateStatus \/ EndReconcile \/ Abandon

Spec == Init /\ [][Next]_vars

(***************************************************************************)
(* Crossplane keeps reconciling, reads every request again and again, and  *)
(* does not fail midway for ever; provider-http serves every request to    *)
(* its final answer.                                                       *)
(***************************************************************************)
FinalAnswer(k) == \E s \in Answers : Answered(s) /\ Respond(k, s)

Fairness ==
    /\ WF_vars(Call \/ LoopStep \/ Return \/ UpdateStatus \/ EndReconcile)
    /\ WF_vars(\E k \in Keys : Collect(k) \/ Apply(k))
    /\ <>[][~Abandon]_vars
    /\ \A k \in Keys : SF_vars(Observe(k)) /\ WF_vars(FinalAnswer(k))

FairSpec == Spec /\ Fairness

-----------------------------------------------------------------------------
(* Task i has a request whose status is a synced 2xx with an object body. *)
ReallySucceeded(n) ==
    /\ requests[n] # None
    /\ LET s == requests[n].status
       IN  s.error = "" /\ s.code \in 200..299 /\ s.synced # "false" /\ s.body \in Objects

(***************************************************************************)
(* Whenever a task's request exists, every task it takes input from has a  *)
(* real, synced 2xx answer holding the mapped field, and the request       *)
(* carries exactly the values of those answers (depsReady and              *)
(* buildDisposableRequest, fn.go:116-141): no request is ever sent with a  *)
(* half-baked or outdated input.  (Flat tasks: a deeper mapping into a     *)
(* mapped object, fn.go:223-227, would change what later tasks are given.) *)
(***************************************************************************)
SourcesSucceeded ==
    losses = 0 =>
    \A i \in DOMAIN tasks : requests[tasks[i].name] # None =>
        /\ \A k \in DOMAIN tasks[i].inputFrom :
              LET m == tasks[i].inputFrom[k]
              IN  /\ ReallySucceeded(m.sourceTask)
                  /\ m.sourceField \in FieldsOf[requests[m.sourceTask].status.body]
        /\ requests[tasks[i].name].body =
              [k \in DOMAIN tasks[i].inputFrom |->
                  requests[tasks[i].inputFrom[k].sourceTask].status.body]

(***************************************************************************)
(* Crossplane never garbage-collects, and so never re-sends, a task's      *)
(* request: once created, every later call of the function desires it      *)
(* again (fn.go:133-141), whatever was answered or appended in between.    *)
(* (Flat tasks: otherwise the rebuild of line 134 may find a field gone    *)
(* that another task's mapping has overwritten, and the request is lost.)  *)
(***************************************************************************)
NeverCollected ==
    [][\A n \in Names : requests[n] # None /\ losses' = 0 => requests'[n] # None]_vars

(* The phases a task's reported status may move to. *)
Later(p) ==
    CASE p = "Pending" -> Phases
      [] p = "Running" -> {"Running", "Succeeded", "Failed"}
      [] OTHER         -> {p}

(***************************************************************************)
(* status.tasks only moves forward: a reported result is never taken back, *)
(* in particular a failed task stays Failed (README.md:272) and what was   *)
(* Skipped stays Skipped; and status.phase leaves Succeeded only when      *)
(* tasks were added, and Failed never.  (Flat tasks: a build that writes   *)
(* into an output can fail the rebuild of a task that succeeded, and can   *)
(* add the field whose absence failed one.)                                *)
(***************************************************************************)
StatusMonotone ==
    [][losses' = 0 =>
        /\ \A i \in DOMAIN xr.tasks :
              i \in DOMAIN xr'.tasks /\ xr'.tasks[i] \in Later(xr.tasks[i])
        /\ xr.phase = "Failed" => xr'.phase = "Failed"
        /\ xr.phase = "Succeeded" =>
              xr'.phase = "Succeeded" \/ Len(xr'.tasks) > Len(xr.tasks)]_vars

(***************************************************************************)
(* A Workflow reported Succeeded has nothing outstanding: every task it    *)
(* reports on really succeeded; and no single task is reported Succeeded   *)
(* without (fn.go:142-159), however old the requests were that Crossplane  *)
(* had read.                                                               *)
(***************************************************************************)
SuccessTruthful ==
    losses = 0 =>
    \A i \in DOMAIN xr.tasks :
        xr.phase = "Succeeded" \/ xr.tasks[i] = "Succeeded" => ReallySucceeded(tasks[i].name)

(* The request has its final answer, and that is not a success. *)
ReallyFailed(n) ==
    requests[n] # None /\ Answered(requests[n].status) /\ ~ReallySucceeded(n)

(* All sources of task i have their final answers, and a mapped field is missing. *)
Unbuildable(i) ==
    /\ \A k \in DOMAIN tasks[i].inputFrom : ReallySucceeded(tasks[i].inputFrom[k].sourceTask)
    /\ \E k \in DOMAIN tasks[i].inputFrom :
          LET m == tasks[i].inputFrom[k]
          IN  m.sourceField \notin FieldsOf[requests[m.sourceTask].status.body]

(***************************************************************************)
(* Nothing is given up too early: a Workflow is reported Failed only with  *)
(* a task that is; a task only when its request has failed for good or     *)
(* could never be built from the final answers of its sources; and one is  *)
(* Skipped only when a source of it is reported Failed (fn.go:94-159).     *)
(***************************************************************************)
FailureTruthful ==
    losses = 0 =>
    /\ xr.phase = "Failed" => \E i \in DOMAIN xr.tasks : xr.tasks[i] = "Failed"
    /\ \A i \in DOMAIN xr.tasks :
          /\ xr.tasks[i] = "Failed" => ReallyFailed(tasks[i].name) \/ Unbuildable(i)
          /\ xr.tasks[i] = "Skipped" =>
                \E j \in DOMAIN xr.tasks, k \in DOMAIN tasks[i].inputFrom :
                    tasks[j].name = tasks[i].inputFrom[k].sourceTask /\ xr.tasks[j] = "Failed"

(***************************************************************************)
(* Every payload POSTed to notifyURL tells a final outcome, and a payload  *)
(* that says Succeeded was sent when every task it lists had succeeded     *)
(* (fn.go:161-173).                                                        *)
(***************************************************************************)
PostsTruthful ==
    \A p \in DOMAIN posted :
        /\ posted[p].phase \in Terminal
        /\ posted[p].phase = "Succeeded" /\ losses = 0 =>
              \A i \in DOMAIN posted[p].tasks : ReallySucceeded(tasks[i].name)

(***************************************************************************)
(* "exactly one POST": without edits or manual deletions notifyURL is      *)
(* called at most once however often the function runs and whatever        *)
(* reconciles are cut short; every appended task allows one more.  (Flat   *)
(* tasks: otherwise Failed can turn into Running and end a second time.)   *)
(***************************************************************************)
PostsBounded == losses = 0 => Len(posted) <= 1 + edits

(* Every mapping names a task listed earlier. *)
Ordered(ts) ==
    \A i \in DOMAIN ts : \A k \in DOMAIN ts[i].inputFrom :
        \E j \in 1..(i-1) : ts[j].name = ts[i].inputFrom[k].sourceTask

(***************************************************************************)
(* A Workflow whose mappings only look back settles for good in Succeeded  *)
(* or Failed, reporting on all its tasks, and the webhook, if asked for,   *)
(* is sent; also after requests were deleted by hand.                      *)
(***************************************************************************)
Settles ==
    <>[](Ordered(tasks) =>
            /\ xr.phase \in Terminal /\ Len(xr.tasks) = Len(tasks)
            /\ notifyURL => posted # <<>>)

(* What can be told of a task's request from outside. *)
RequestOf(n) ==
    IF requests[n] = None THEN [with |-> <<>>, answer |-> "unrequested"]
    ELSE [with   |-> requests[n].body,
          answer |-> IF ReallySucceeded(n) THEN requests[n].status.body
                     ELSE IF Answered(requests[n].status) THEN "failed" ELSE "none"]

Promise == INSTANCE TaskRunner WITH requested <- [n \in Names |-> RequestOf(n)]

(***************************************************************************)
(* While nobody deletes requests by hand, the reconciles of Crossplane     *)
(* with this function implement TaskRunner: however they overlap with      *)
(* answers and appended tasks or are cut short, a task is requested once,  *)
(* with the final answers of its sources, and rebuilding the request in    *)
(* every later call (fn.go:133-141) never changes it.  The last is owed to *)
(* the premise that tasks are flat: JsonPath refutes the comment of line   *)
(* 133 without, and proves it with (RebuildsAreDeterministic).             *)
(***************************************************************************)
ImplementsTaskRunner == Promise!Spec
=============================================================================

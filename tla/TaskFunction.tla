---------------------------- MODULE TaskFunction ----------------------------
(***************************************************************************)
(* The decisions of the composition function, function-httptask/fn.go, as  *)
(* operators.  RunFunction walks spec.tasks in order; what it does with    *)
(* one task depends on spec.tasks, on the DisposableRequests Crossplane    *)
(* observed (obs) and on ph, the phases it has already given to the tasks  *)
(* before it.  The maps failedTasks and outputs of the code are functions  *)
(* of those three.                                                         *)
(*                                                                         *)
(* JSON objects are abstract: Objects is a set of response bodies that     *)
(* parse as an object and FieldsOf[o] is the set of dot paths getJSONField *)
(* finds in o.  A request body is represented by the source objects its    *)
(* mapped values were read from, in the order of inputFrom; the constant   *)
(* parts of a request (url, method, headers, spec.input) are left out.     *)
(*                                                                         *)
(* PREMISE.  Every task is Flat: none of its mappings has a target inside  *)
(* the target of an earlier one.  buildDisposableRequest puts the very map *)
(* it found in an output into the body (fn.go:134-141, 223-227), and a     *)
(* target inside such a map would write into the output, which the tasks   *)
(* after it read in the same call.  Module JsonPath models these maps; its *)
(* theorem BodiesAsSpecified says that with flat tasks every body is built *)
(* from the outputs as they were received, RebuildDeterministic shows what *)
(* happens without.  Nothing is claimed here of tasks that are not flat.   *)
(***************************************************************************)
EXTENDS Naturals, Sequences

CONSTANTS
    Names,      \* task names, the keys of the composed resources
    Fields,     \* dot paths a mapping may read
    Targets,    \* dot paths a mapping may write
    Inside,     \* Inside[p]: the targets strictly inside p, as "x.y" is inside "x"
    Objects,    \* response bodies that are JSON objects (null is one with no field)
    FieldsOf,   \* FieldsOf[o]: the paths that resolve in o
    NotifyKey,  \* the resource name "__notify__"
    None        \* no such resource

Mapping == [sourceTask: Names, sourceField: Fields, targetField: Targets]

(* No mapping writes into what an earlier one has put there (JsonPath!Flat). *)
Flat(task) ==
    \A k, l \in DOMAIN task.inputFrom :
        k < l => task.inputFrom[l].targetField \notin Inside[task.inputFrom[k].targetField]

Task == {task \in [name: Names, inputFrom: Seq(Mapping)] : Flat(task)}
Keys == Names \cup {NotifyKey}

Phases   == {"Pending", "Running", "Succeeded", "Failed", "Skipped"}
Terminal == {"Succeeded", "Failed"}

(***************************************************************************)
(* What provider-http writes into a DisposableRequest's status: an error   *)
(* message or "", the HTTP status code (0 while absent), the body (""      *)
(* while absent, "text" for one that is not a JSON object), and synced.    *)
(***************************************************************************)
Status == [error: {"", "error"}, code: Nat, body: Objects \cup {"", "text"},
           synced: {"absent", "false", "true"}]

NoStatus == [error |-> "", code |-> 0, body |-> "", synced |-> "absent"]

(* The payload of the completion webhook. *)
Payload == [phase: {"Running"} \cup Terminal, tasks: Seq(Phases)]

(* The bodies the request with key k may carry, and the requests themselves. *)
Body(k)    == IF k = NotifyKey THEN Payload ELSE Seq(Objects)
Request(k) == [body: Body(k), status: Status]

(* spec.tasks has at least one task, and tasks have distinct names. *)
WellFormed(tasks) ==
    /\ tasks # <<>>
    /\ \A i, j \in DOMAIN tasks : tasks[i].name = tasks[j].name => i = j

ASSUME FunctionAssumption ==
    /\ FieldsOf \in [Objects -> SUBSET Fields]
    /\ Inside \in [Targets -> SUBSET Targets]
    /\ NotifyKey \notin Names
    /\ \A k \in Keys : None \notin Body(k) /\ None \notin Request(k)
    /\ Objects \cap {"", "text"} = {}

-----------------------------------------------------------------------------
(* A mutant: the synced flag is not looked at. *)
PhaseIgnoringSynced(s) ==
    IF s.error # "" THEN "Failed"
    ELSE IF s.code = 0 /\ s.body = "" THEN "Running"
    ELSE IF s.code < 200 \/ s.code >= 300 THEN "Failed"
    ELSE IF s.body \in Objects THEN "Succeeded" ELSE "Failed"

(* A mutant: an answer that is not synced yet is a failure. *)
PhaseUnsyncedFails(s) ==
    IF s.error # "" THEN "Failed"
    ELSE IF s.code = 0 /\ s.body = "" THEN "Running"
    ELSE IF s.code \in 200..299 /\ s.synced = "true" /\ s.body \in Objects THEN "Succeeded"
    ELSE "Failed"

(* The phase taskStatusFromObserved reports, its tests in the code's order. *)
taskStatusFromObserved(s) ==
    IF s.error # "" THEN "Failed"
    ELSE IF s.code = 0 /\ s.body = "" THEN "Running"
    ELSE IF s.code < 200 \/ s.code >= 300 THEN "Failed"
    ELSE IF s.synced = "false" THEN "Running"
    ELSE IF s.body \in Objects THEN "Succeeded" ELSE "Failed"

-----------------------------------------------------------------------------
(* The maps as the tasks before the current one have filled them. *)

(* failedTasks[n] *)
failedTasks(tasks, ph, n) ==
    \E j \in DOMAIN ph : tasks[j].name = n /\ ph[j] = "Failed"

(* A mutant: the task just before the current one is overlooked. *)
hasOutputOffByOne(tasks, ph, n) ==
    \E j \in 1..(Len(ph) - 1) : tasks[j].name = n /\ ph[j] = "Succeeded"

(* n is a key of outputs *)
hasOutput(tasks, ph, n) ==
    \E j \in DOMAIN ph : tasks[j].name = n /\ ph[j] = "Succeeded"

(***************************************************************************)
(* outputs[n], for an n that is a key of outputs: what was observed, as no *)
(* flat task writes into it.                                               *)
(***************************************************************************)
outputs(obs, n) == obs[n].status.body

depFailed(tasks, ph, i) ==
    \E k \in DOMAIN tasks[i].inputFrom :
        failedTasks(tasks, ph, tasks[i].inputFrom[k].sourceTask)

depsReady(tasks, ph, i) ==
    \A k \in DOMAIN tasks[i].inputFrom :
        hasOutput(tasks, ph, tasks[i].inputFrom[k].sourceTask)

(***************************************************************************)
(* buildDisposableRequest returns no error (json.Marshal has none: bodies  *)
(* of flat tasks are free of cycles, JsonPathProofs!Acyclic) ...           *)
(***************************************************************************)
buildable(tasks, obs, ph, i) ==
    \A k \in DOMAIN tasks[i].inputFrom :
        LET m == tasks[i].inputFrom[k]
        IN  /\ hasOutput(tasks, ph, m.sourceTask)
            /\ m.sourceField \in FieldsOf[outputs(obs, m.sourceTask)]

(* A mutant: the source's own request body is passed on, not its answer. *)
requestBodyEchoed(tasks, obs, i) ==
    [k \in DOMAIN tasks[i].inputFrom |-> obs[tasks[i].inputFrom[k].sourceTask].body]

(* ... and this is the body it builds, of outputs that no flat task has changed. *)
requestBody(tasks, obs, i) ==
    [k \in DOMAIN tasks[i].inputFrom |-> outputs(obs, tasks[i].inputFrom[k].sourceTask)]

-----------------------------------------------------------------------------
(* One iteration of the loop, for task i. *)

exists(tasks, obs, i) == obs[tasks[i].name] # None

(* The iteration gets as far as the call of buildDisposableRequest. *)
attempted(tasks, obs, ph, i) ==
    /\ ~depFailed(tasks, ph, i)
    /\ exists(tasks, obs, i) \/ depsReady(tasks, ph, i)

(* The phase the iteration appends to statuses. *)
taskPhase(tasks, obs, ph, i) ==
    IF depFailed(tasks, ph, i) THEN "Skipped"
    ELSE IF ~attempted(tasks, obs, ph, i) THEN "Pending"
    ELSE IF ~buildable(tasks, obs, ph, i) THEN "Failed"
    ELSE IF ~exists(tasks, obs, i) THEN "Pending"
    ELSE taskStatusFromObserved(obs[tasks[i].name].status)

(* A mutant: only a request still to be created is put into desired. *)
desiresOnlyNew(tasks, obs, ph, i) ==
    attempted(tasks, obs, ph, i) /\ buildable(tasks, obs, ph, i) /\ ~exists(tasks, obs, i)

(* The iteration puts the task's request into desired. *)
desires(tasks, obs, ph, i) ==
    attempted(tasks, obs, ph, i) /\ buildable(tasks, obs, ph, i)

-----------------------------------------------------------------------------
(* After the loop. *)

(* A mutant: a task that is still running counts as done. *)
allDoneUnlessPending(ph) == \A i \in DOMAIN ph : ph[i] # "Pending"

allDone(ph) == DOMAIN ph # {} /\ \A i \in DOMAIN ph : ph[i] = "Succeeded"

overallFailed(ph) == \E i \in DOMAIN ph : ph[i] = "Failed"

(* A mutant: only the last task's failure fails the workflow. *)
workflowPhaseLast(ph) ==
    IF ph[Len(ph)] = "Failed" THEN "Failed"
    ELSE IF allDone(ph) THEN "Succeeded" ELSE "Running"

workflowPhase(ph) ==
    IF overallFailed(ph) THEN "Failed"
    ELSE IF allDone(ph) THEN "Succeeded" ELSE "Running"

(* A mutant: the webhook is requested before the outcome is known. *)
notifyAlways(ph, notifyURL) == notifyURL

(***************************************************************************)
(* The synthetic "notify" request is desired.  (buildNotifyRequest cannot  *)
(* fail: what it marshals holds the outputs, which have no cycles.)        *)
(***************************************************************************)
notifyDesired(ph, notifyURL) == workflowPhase(ph) \in Terminal /\ notifyURL

(* buildNotifyRequest's body *)
notifyBody(ph) == [phase |-> workflowPhase(ph), tasks |-> ph]
=============================================================================

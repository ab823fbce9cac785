------------------------------ MODULE Workflow ------------------------------
(***************************************************************************)
(* WorkflowReconciler (internal/controller/workflow_controller.go) for one *)
(* Workflow: the worker that turns every step into a child HTTPTask, folds *)
(* the children's Ready conditions into the Workflow's status and POSTs it *)
(* to notifyURL; the informer cache it reads; the HTTPTask controller as   *)
(* far as the children's conditions show it; and the user, who edits the   *)
(* Workflow and deletes children.                                          *)
(*                                                                         *)
(* As in HTTPTask, "behind" holds the objects whose cached copy is out of  *)
(* date and w.stale says so of the copy of the Workflow the worker holds.  *)
(* TransactionID and DashboardURL are set once and left out.               *)
(***************************************************************************)
EXTENDS Naturals, Sequences

CONSTANTS
    Steps,        \* names of steps, and of their children
    Specs,        \* what a step asks for: endpoint, method, headers, input, mappings
    Workflows,    \* the specs a user may give the Workflow
    Wf,           \* the key of the Workflow
    None,
    MaxEdits,     \* bound on edits of the Workflow
    MaxDeletes,   \* bound on deletions of children
    MaxErrors,    \* bound on transient failures of API writes
    MaxFailures,  \* bound on failed calls of endpoints and of notifyURL, and sources that change
    MaxCrashes    \* bound on restarts of the manager

Step       == [name: Steps, spec: Specs]
Phases     == {"Pending", "Running", "Succeeded", "Failed"}
Terminal   == {"Succeeded", "Failed"}

TaskStatus == [name: Steps, phase: Phases, out: Specs \cup {None}]
WfSpec     == [tasks: Seq(Step), notifyURL: BOOLEAN]
WfObject   == [spec: WfSpec, phase: Phases \cup {""}, tasks: Seq(TaskStatus),
               notified: Phases \cup {""}]

ASSUME WorkflowAssumption ==
    /\ Workflows \subseteq WfSpec
    /\ Wf \notin Steps
    /\ None \notin Specs /\ None \notin WfObject
    /\ {MaxEdits, MaxDeletes, MaxErrors, MaxFailures, MaxCrashes} \subseteq Nat

VARIABLES
    api,     \* the Workflow and its children in the API server
    cache,   \* the manager's informer cache
    behind,  \* the objects whose cached copy is out of date
    queued,  \* whether the Workflow is in the workqueue
    w,       \* the worker's Reconcile call
    budget   \* what is left of the bounds

vars == <<api, cache, behind, queued, w, budget>>

(* The children are HTTPTasks and change as ChildTask says. *)
Kids  == INSTANCE ChildTask WITH Tasks <- Steps, child <- [s \in Steps |-> api[s]]
Child == Kids!Child

Idle == [pc |-> "idle", wf |-> None, stale |-> FALSE, tasks |-> <<>>]

Summary(wf) == [phase |-> wf.phase, tasks |-> wf.tasks]

TypeOK ==
    /\ api[Wf] \in WfObject
    /\ \A s \in Steps : api[s] \in Child \cup {None} /\ cache[s] \in Child \cup {None}
    /\ cache[Wf] \in WfObject \cup {None}
    /\ behind \subseteq Steps \cup {Wf}
    /\ \A k \in (Steps \cup {Wf}) \ behind : cache[k] = api[k]
    /\ queued \in BOOLEAN
    /\ w.pc \in {"idle", "loop", "notify", "record"}
    /\ w.pc # "idle" => w.wf \in WfObject
    /\ w.tasks \in Seq(TaskStatus)

Init ==
    /\ \E x \in Workflows :
          api = [k \in Steps \cup {Wf} |->
                    IF k = Wf THEN [spec |-> x, phase |-> "", tasks |-> <<>>, notified |-> ""]
                    ELSE None]
    /\ cache = [k \in Steps \cup {Wf} |-> None]
    /\ behind = {Wf}
    /\ queued = FALSE
    /\ w = Idle
    /\ budget = [edits |-> MaxEdits, deletes |-> MaxDeletes, errors |-> MaxErrors,
                 failures |-> MaxFailures, crashes |-> MaxCrashes]

Spend(what) == budget[what] > 0 /\ budget' = [budget EXCEPT ![what] = @ - 1]

(* The object k becomes new; the same object again is no change. *)
Store(k, new) ==
    /\ api' = [api EXCEPT ![k] = new]
    /\ behind' = IF new = api[k] THEN behind ELSE behind \cup {k}

-----------------------------------------------------------------------------
(* The API's answer to a write that conflicts or not. *)
Write(k, conflict, new) == ~conflict /\ Store(k, new) /\ UNCHANGED budget

WriteFails(conflict) ==
    /\ \/ conflict /\ UNCHANGED budget
       \/ Spend("errors")
    /\ UNCHANGED <<api, behind>>

(* Reconcile returns an error, or asks to be called again. *)
Retry == w' = Idle /\ queued' = TRUE

-----------------------------------------------------------------------------
(* Reconcile *)

Get ==
    /\ w.pc = "idle" /\ queued /\ cache[Wf] # None
    /\ w' = [Idle EXCEPT !.pc = "loop", !.wf = cache[Wf], !.stale = Wf \in behind]
    /\ queued' = FALSE
    /\ UNCHANGED <<api, cache, behind, budget>>

(* A mutant: a reason that is not expected is passed on as the phase. *)
phaseOrReason(child) ==
    CASE child.reason \in {"", "WaitingOnSource"} -> "Pending"
      [] child.reason = "Computed"                -> "Succeeded"
      [] OTHER                                    -> child.reason

(* The phase of a step, from its child's Ready condition. *)
phase(child) ==
    CASE child.reason \in {"", "WaitingOnSource"} -> "Pending"
      [] child.reason = "Computed"                -> "Succeeded"
      [] child.reason = "Running"                 -> "Running"
      [] OTHER                                    -> "Failed"

(* A mutant: the child is built anew and replaces the one there is. *)
mutatedAnew(old, spec) == Kids!Fresh(spec)

(* The child CreateOrUpdate means to write. *)
mutated(old, spec) ==
    IF old = None THEN Kids!Fresh(spec) ELSE [old EXCEPT !.spec = spec]

Looping == w.pc = "loop" /\ Len(w.tasks) < Len(w.wf.spec.tasks)
step    == w.wf.spec.tasks[Len(w.tasks) + 1]

(* One round of the loop over spec.tasks: CreateOrUpdate, then the status. *)
ReconcileStep ==
    /\ Looping
    /\ LET old      == cache[step.name]
           child    == mutated(old, step.spec)
           conflict == step.name \in behind
           ts       == [name |-> step.name, phase |-> phase(child), out |-> child.out]
       IN  \/ /\ IF child = old THEN UNCHANGED <<api, behind, budget>>
                                ELSE Write(step.name, conflict, child)
              /\ w' = [w EXCEPT !.tasks = Append(@, ts)] /\ UNCHANGED queued
           \/ child # old /\ WriteFails(conflict) /\ Retry
    /\ UNCHANGED cache

overallPhase(tasks) ==
    LET phases == {tasks[k].phase : k \in DOMAIN tasks}
    IN  IF "Failed" \in phases THEN "Failed"
        ELSE IF phases \cap {"Pending", "Running"} # {} THEN "Running"
        ELSE "Succeeded"

isTerminal(p) == p \in Terminal

(* A mutant: a notification is due whenever the phase is terminal. *)
notifyAgain(wf) == isTerminal(wf.phase) /\ wf.spec.notifyURL

(* Whether notifyURL is to be told of the status. *)
notifyDue(wf) == isTerminal(wf.phase) /\ wf.spec.notifyURL /\ wf.notified # wf.phase

(* A mutant: the status is patched, whatever spec it was computed from. *)
UpdateStatusPatched ==
    /\ w.pc = "loop" /\ ~Looping
    /\ LET wf == [api[Wf] EXCEPT !.tasks = w.tasks, !.phase = overallPhase(w.tasks)]
       IN  /\ Write(Wf, FALSE, wf)
           /\ w' = IF notifyDue(wf) THEN [w EXCEPT !.pc = "notify", !.wf = wf] ELSE Idle
    /\ UNCHANGED <<cache, queued>>

UpdateStatus ==
    /\ w.pc = "loop" /\ ~Looping
    /\ LET wf == [w.wf EXCEPT !.tasks = w.tasks, !.phase = overallPhase(w.tasks)]
       IN  \/ /\ Write(Wf, w.stale, wf)
              /\ w' = IF notifyDue(wf) THEN [w EXCEPT !.pc = "notify", !.wf = wf] ELSE Idle
              /\ UNCHANGED queued
           \/ WriteFails(w.stale) /\ Retry
    /\ UNCHANGED cache

(* notify: the POST is answered with less than 300 ... *)
Notify ==
    /\ w.pc = "notify"
    /\ w' = [w EXCEPT !.pc = "record"]
    /\ UNCHANGED <<api, cache, behind, queued, budget>>

(* A mutant: a failed notification is only logged. *)
NotifyFailsSilently ==
    /\ w.pc = "notify" /\ Spend("failures")
    /\ w' = Idle
    /\ UNCHANGED <<api, cache, behind, queued>>

(* ... or not, whether or not it was received; try again in ten seconds. *)
NotifyFails ==
    /\ w.pc = "notify" /\ Spend("failures")
    /\ Retry
    /\ UNCHANGED <<api, cache, behind>>

RecordNotified ==
    /\ w.pc = "record"
    /\ \/ /\ Write(Wf, w.stale, [w.wf EXCEPT !.notified = w.wf.phase])
          /\ w' = Idle /\ UNCHANGED queued
       \/ WriteFails(w.stale) /\ Retry
    /\ UNCHANGED cache

-----------------------------------------------------------------------------
(* A watch event reaches the cache; the Workflow owns the children. *)
Sync(k) ==
    /\ k \in behind
    /\ cache' = [cache EXCEPT ![k] = api[k]]
    /\ behind' = behind \ {k}
    /\ queued' = TRUE
    /\ UNCHANGED <<api, w, budget>>

Crash ==
    /\ Spend("crashes")
    /\ cache' = api
    /\ behind' = {}
    /\ queued' = TRUE
    /\ w' = Idle
    /\ UNCHANGED api

(* The HTTPTask controller updates a child's status. *)
Shows(s, new) ==
    /\ Store(s, new)
    /\ UNCHANGED <<cache, queued, w>>

(* It waits for a source, again if the source has changed ... *)
ChildWaits(s) ==
    /\ api[s] # None
    /\ \E c \in Kids!Waiting(api[s]) : c # api[s] /\ Shows(s, c)
    /\ IF api[s].reason = "" THEN UNCHANGED budget ELSE Spend("failures")

(* ... may start a call, for a new spec or because a source has changed ... *)
ChildRuns(s) ==
    /\ api[s] # None /\ api[s].reason # "Running"
    /\ Shows(s, Kids!Started(api[s]))
    /\ IF api[s].out # api[s].spec THEN UNCHANGED budget ELSE Spend("failures")

(* ... and may record the answer or the failure. *)
ChildEnds(s) ==
    /\ api[s] # None /\ api[s].reason = "Running"
    /\ \/ \E c \in Kids!Answered(api[s]) : Shows(s, c) /\ UNCHANGED budget
       \/ Shows(s, Kids!Failed(api[s])) /\ Spend("failures")

(* The user edits the Workflow ... *)
EditWorkflow(x) ==
    /\ api[Wf].spec # x
    /\ Store(Wf, [api[Wf] EXCEPT !.spec = x])
    /\ w' = IF w.pc = "idle" THEN w ELSE [w EXCEPT !.stale = TRUE]
    /\ Spend("edits")
    /\ UNCHANGED <<cache, queued>>

(* ... or deletes a child. *)
DeleteChild(s) ==
    /\ api[s] # None
    /\ Store(s, None)
    /\ Spend("deletes")
    /\ UNCHANGED <<cache, queued, w>>

Working == ReconcileStep \/ UpdateStatus \/ Notify \/ NotifyFails \/ RecordNotified

Next == \/ Get \/ Working \/ Crash
        \/ \E k \in Steps \cup {Wf} : Sync(k)
        \/ \E s \in Steps : ChildWaits(s) \/ ChildRuns(s) \/ ChildEnds(s) \/ DeleteChild(s)
        \/ \E x \in Workflows : EditWorkflow(x)

Spec == Init /\ [][Next]_vars

(***************************************************************************)
(* The worker keeps going and watch events arrive.  Of the children        *)
(* nothing is asked: one whose source never answers never runs, one whose  *)
(* endpoint alone was edited is not called again, and one can stay Running *)
(* (httptask_controller.go:118).                                           *)
(***************************************************************************)
Fairness ==
    /\ WF_vars(Get) /\ WF_vars(ReconcileStep \/ UpdateStatus \/ Notify \/ RecordNotified)
    /\ \A k \in Steps \cup {Wf} : WF_vars(Sync(k))

FairSpec == Spec /\ Fairness

-----------------------------------------------------------------------------
(***************************************************************************)
(* notifyURL is only ever told the stored status, when that is final, and  *)
(* never a phase that is recorded as told (lines 125-136), however old the *)
(* copy of the Workflow is from which the worker started.                  *)
(***************************************************************************)
NotifyFence ==
    [][w.pc = "notify" /\ w'.pc \in {"record", "idle"} /\ budget'.crashes = budget.crashes =>
          /\ Summary(w.wf) = Summary(api[Wf]) /\ w.wf.phase \in Terminal
          /\ api[Wf].notified # w.wf.phase]_vars

(***************************************************************************)
(* A status is stored only with one entry for each step of the spec it is  *)
(* stored with, in order (lines 54-125): an edit during the loop makes the *)
(* update fail.                                                            *)
(***************************************************************************)
StatusFitsSpec ==
    [][api'[Wf].tasks # api[Wf].tasks =>
          /\ Len(api'[Wf].tasks) = Len(api'[Wf].spec.tasks)
          /\ \A k \in DOMAIN api'[Wf].tasks :
                api'[Wf].tasks[k].name = api'[Wf].spec.tasks[k].name]_vars

(***************************************************************************)
(* A child never changes but as an HTTPTask promises its owner: the        *)
(* Workflow controller creates it or edits its spec (lines 71-79), and     *)
(* however old the copy of the child is that CreateOrUpdate starts from,   *)
(* no condition and no answer is lost, replaced or brought back.           *)
(***************************************************************************)
ImplementsChildTask == Kids!Spec

(* The status of a step whose child is as it is now. *)
StatusNow(s) ==
    [name |-> s.name, phase |-> phase(api[s.name]), out |-> api[s.name].out]

(***************************************************************************)
(* After the last edit, deletion and failure every step has a child with   *)
(* the step's spec, the status shows the children as they are, its phase   *)
(* is theirs, and notifyURL has been told the phase the Workflow ends in   *)
(* (lines 54-136).  That holds wherever the children have come to rest,    *)
(* also if some of them have never answered.                               *)
(***************************************************************************)
Converges ==
    <>[]LET steps == api[Wf].spec.tasks
        IN  /\ \A k \in DOMAIN steps : api[steps[k].name] # None /\ api[steps[k].name].spec = steps[k].spec
            /\ api[Wf].tasks = [k \in DOMAIN steps |-> StatusNow(steps[k])]
            /\ api[Wf].phase = overallPhase(api[Wf].tasks)
            /\ isTerminal(api[Wf].phase) /\ api[Wf].spec.notifyURL => api[Wf].notified = api[Wf].phase
=============================================================================

--------------------------- MODULE WorkflowProofs ---------------------------
(***************************************************************************)
(* Theorems about Workflow: what notifyURL is told, and that a stored      *)
(* status has the steps of the spec it is stored with; for every set of    *)
(* steps, every Workflow spec and every number of edits, deletions,        *)
(* failures and restarts.                                                  *)
(***************************************************************************)
EXTENDS Workflow, SequenceTheorems, TLAPS

Keys == Steps \cup {Wf}

StoreTyped ==
    /\ api \in [Keys -> WfObject \cup Child \cup {None}] /\ api[Wf] \in WfObject
    /\ \A s \in Steps : api[s] \in Child \cup {None} /\ cache[s] \in Child \cup {None}
    /\ cache \in [Keys -> WfObject \cup Child \cup {None}] /\ cache[Wf] \in WfObject \cup {None}
    /\ behind \subseteq Keys /\ \A k \in Keys \ behind : cache[k] = api[k]
    /\ queued \in BOOLEAN

(* The worker's Reconcile call: the shape of w. *)
Call == [pc: {"idle", "loop", "notify", "record"}, wf: WfObject \cup {None}, stale: BOOLEAN,
         tasks: Seq(TaskStatus)]

WorkerTyped == w \in Call /\ (w.pc # "idle" => w.wf \in WfObject)

(* While the user does not edit the Workflow, the worker's copy is the stored one. *)
Held == w.pc # "idle" /\ ~w.stale => api[Wf] = w.wf

(* The entries so far are those of the first steps of the spec in hand. *)
Fits(tasks, steps) ==
    Len(tasks) <= Len(steps) /\ \A k \in DOMAIN tasks : tasks[k].name = steps[k].name

Folded == w.pc = "loop" => Fits(w.tasks, w.wf.spec.tasks)

(***************************************************************************)
(* While notifyURL is told, the stored status is the one it is told, and a *)
(* user's edit does not touch it.                                          *)
(***************************************************************************)
Telling ==
    w.pc \in {"notify", "record"} =>
        /\ Summary(w.wf) = Summary(api[Wf]) /\ w.wf.phase \in Terminal
        /\ api[Wf].notified # w.wf.phase

NInv == StoreTyped /\ WorkerTyped /\ Held /\ Folded /\ Telling

-----------------------------------------------------------------------------
(* The conversions from a child to a status. *)

LEMMA PhaseTyped == \A child : phase(child) \in Phases
BY DEF phase, Phases

LEMMA OverallTyped == \A tasks : overallPhase(tasks) \in Phases
BY DEF overallPhase, Phases

LEMMA MutatedTyped ==
    ASSUME NEW old \in Child \cup {None}, NEW spec \in Specs
    PROVE  mutated(old, spec) \in Child
<1>1. CASE old = None
    BY <1>1 DEF mutated, Child, Kids!Child, Kids!Fresh, Kids!Reasons
<1>2. CASE old # None
    BY <1>2 DEF mutated, Child, Kids!Child
<1> QED BY <1>1, <1>2

LEMMA SpecTyped ==
    ASSUME NEW wf \in WfObject
    PROVE  wf.spec.tasks \in Seq(Step) /\ Len(wf.spec.tasks) \in Nat
<1>1. wf.spec \in WfSpec
    BY DEF WfObject
<1>2. wf.spec.tasks \in Seq(Step)
    BY <1>1 DEF WfSpec
<1> QED BY <1>2

(* The Workflow with a new status. *)
Shown(wf, tasks) == [wf EXCEPT !.tasks = tasks, !.phase = overallPhase(tasks)]

LEMMA ShownTyped ==
    ASSUME NEW wf \in WfObject, NEW tasks \in Seq(TaskStatus)
    PROVE  /\ Shown(wf, tasks) \in WfObject /\ Shown(wf, tasks).tasks = tasks
           /\ Shown(wf, tasks).spec = wf.spec /\ Shown(wf, tasks).notified = wf.notified
           /\ Shown(wf, tasks).phase = overallPhase(tasks)
<1> DEFINE p == overallPhase(tasks)
<1>1. p \in Phases
    BY OverallTyped
<1> HIDE DEF p
<1>2. Shown(wf, tasks) = [wf EXCEPT !.tasks = tasks, !.phase = p]
    BY DEF Shown, p
<1>3. /\ Shown(wf, tasks) \in WfObject /\ Shown(wf, tasks).tasks = tasks
      /\ Shown(wf, tasks).spec = wf.spec /\ Shown(wf, tasks).notified = wf.notified
      /\ Shown(wf, tasks).phase = p
    BY <1>1, <1>2 DEF WfObject
<1> QED BY <1>3 DEF p

(* The Workflow with another spec, and as notified. *)
LEMMA EditedTyped ==
    ASSUME NEW wf \in WfObject, NEW x \in WfSpec
    PROVE  /\ [wf EXCEPT !.spec = x] \in WfObject
           /\ [wf EXCEPT !.spec = x].tasks = wf.tasks /\ [wf EXCEPT !.spec = x].phase = wf.phase
           /\ [wf EXCEPT !.spec = x].notified = wf.notified
BY DEF WfObject

LEMMA NotifiedTyped ==
    ASSUME NEW wf \in WfObject
    PROVE  [wf EXCEPT !.notified = wf.phase] \in WfObject /\ [wf EXCEPT !.notified = wf.phase].tasks = wf.tasks
BY DEF WfObject

-----------------------------------------------------------------------------
(* Writes. *)

LEMMA KeysDiffer == \A s \in Steps : s # Wf
BY WorkflowAssumption

LEMMA StoreChild ==
    ASSUME StoreTyped, NEW s \in Steps, NEW new \in Child \cup {None}, Store(s, new),
           UNCHANGED cache, queued' \in BOOLEAN
    PROVE  StoreTyped' /\ api'[Wf] = api[Wf]
<1>1. api' = [api EXCEPT ![s] = new] /\ behind' = IF new = api[s] THEN behind ELSE behind \cup {s}
    BY DEF Store
<1>2. api' \in [Keys -> WfObject \cup Child \cup {None}] /\ api'[s] = new
    BY <1>1 DEF StoreTyped, Keys
<1>3. \A k \in Keys \ {s} : api'[k] = api[k]
    BY <1>1 DEF StoreTyped, Keys
<1>4. api'[Wf] = api[Wf]
    BY <1>3, KeysDiffer DEF Keys
<1>5. \A u \in Steps : api'[u] \in Child \cup {None}
    BY <1>2, <1>3 DEF StoreTyped, Keys
<1>6. behind' \subseteq Keys /\ \A k \in Keys \ behind' : cache'[k] = api'[k]
    BY <1>1, <1>2, <1>3 DEF StoreTyped, Keys
<1> QED BY <1>2, <1>4, <1>5, <1>6 DEF StoreTyped

LEMMA StoreWf ==
    ASSUME StoreTyped, NEW new \in WfObject, Store(Wf, new), UNCHANGED cache, queued' \in BOOLEAN
    PROVE  StoreTyped' /\ api'[Wf] = new
<1>1. api' = [api EXCEPT ![Wf] = new] /\ behind' = IF new = api[Wf] THEN behind ELSE behind \cup {Wf}
    BY DEF Store
<1>2. api' \in [Keys -> WfObject \cup Child \cup {None}] /\ api'[Wf] = new
    BY <1>1 DEF StoreTyped, Keys
<1>3. \A k \in Keys \ {Wf} : api'[k] = api[k]
    BY <1>1 DEF StoreTyped, Keys
<1>4. \A u \in Steps : api'[u] \in Child \cup {None}
    BY <1>3, KeysDiffer DEF StoreTyped, Keys
<1>5. behind' \subseteq Keys /\ \A k \in Keys \ behind' : cache'[k] = api'[k]
    BY <1>1, <1>2, <1>3 DEF StoreTyped, Keys
<1> QED BY <1>2, <1>4, <1>5 DEF StoreTyped

LEMMA WriteRefused ==
    ASSUME StoreTyped, NEW conflict, WriteFails(conflict), UNCHANGED cache, queued' \in BOOLEAN
    PROVE  StoreTyped' /\ api' = api
BY DEF StoreTyped, WriteFails

(* Reconcile returns. *)
LEMMA IdleTyped == Idle \in Call /\ Idle.pc = "idle"
BY DEF Idle, Call

LEMMA Finished ==
    ASSUME StoreTyped', w' = Idle
    PROVE  NInv'
<1>1. w'.pc = "idle" /\ w' \in Call
    BY IdleTyped
<1> QED BY <1>1 DEF NInv, WorkerTyped, Held, Folded, Telling


-----------------------------------------------------------------------------
LEMMA InitNInv == Init => NInv
<1> SUFFICES ASSUME Init PROVE NInv
    OBVIOUS
<1>1. PICK x \in Workflows :
         api = [k \in Steps \cup {Wf} |->
                   IF k = Wf THEN [spec |-> x, phase |-> "", tasks |-> <<>>, notified |-> ""] ELSE None]
    BY DEF Init
<1>2. [spec |-> x, phase |-> "", tasks |-> <<>>, notified |-> ""] \in WfObject
  <2>1. x \in WfSpec /\ <<>> \in Seq(TaskStatus)
      BY WorkflowAssumption
  <2> HIDE DEF WfSpec, TaskStatus
  <2> QED BY <2>1 DEF WfObject
<1>3. StoreTyped
    BY <1>1, <1>2, KeysDiffer DEF StoreTyped, Keys, Init
<1>4. w = Idle /\ w.pc = "idle" /\ w \in Call
    BY IdleTyped DEF Init
<1> QED BY <1>3, <1>4 DEF NInv, WorkerTyped, Held, Folded, Telling

(* A change that is not the status: the status stays as it is. *)
StatusKept == api'[Wf].tasks = api[Wf].tasks

(* The worker takes its copy from the cache, current or not. *)
LEMMA GetStep ==
    ASSUME NInv, Get
    PROVE  NInv' /\ StatusKept
<1> DEFINE late == Wf \in behind
<1>1. /\ UNCHANGED <<api, cache, behind>> /\ queued' \in BOOLEAN
      /\ cache[Wf] \in WfObject /\ (~late => api[Wf] = cache[Wf])
    BY DEF Get, NInv, StoreTyped, Keys
<1>2. w' = [Idle EXCEPT !.pc = "loop", !.wf = cache[Wf], !.stale = late] /\ late \in BOOLEAN
    BY DEF Get
<1> HIDE DEF late
<1>3. Idle \in Call /\ Idle.tasks = <<>>
    BY IdleTyped DEF Idle
<1>4. /\ w' \in Call /\ w'.pc = "loop" /\ w'.wf = cache[Wf] /\ w'.stale = late
      /\ w'.tasks = <<>>
    BY <1>1, <1>2, <1>3 DEF Call
<1>5. StoreTyped' /\ StatusKept
    BY <1>1 DEF NInv, StoreTyped, StatusKept
<1>6. Folded'
  <2>1. Len(cache[Wf].spec.tasks) \in Nat
      BY <1>1, SpecTyped
  <2> QED BY <1>4, <2>1 DEF Folded, Fits
<1>7. WorkerTyped' /\ Held' /\ Telling'
    BY <1>1, <1>4 DEF WorkerTyped, Held, Telling
<1> QED BY <1>5, <1>6, <1>7 DEF NInv

(* The step the loop is at. *)
LEMMA StepTyped ==
    ASSUME NInv, Looping
    PROVE  /\ step \in Step /\ w.wf \in WfObject /\ w.tasks \in Seq(TaskStatus)
           /\ Len(w.tasks) + 1 \in DOMAIN w.wf.spec.tasks
<1>1. w.pc = "loop" /\ Len(w.tasks) < Len(w.wf.spec.tasks)
    BY DEF Looping
<1>2. w.wf \in WfObject /\ w.tasks \in Seq(TaskStatus)
    BY <1>1 DEF NInv, WorkerTyped, Call
<1>3. w.wf.spec.tasks \in Seq(Step)
    BY <1>2 DEF WfObject, WfSpec
<1> QED BY <1>1, <1>2, <1>3 DEF step

(* The entry of a step has its name, so the fold stays along the spec. *)
LEMMA ReconcileStepStep ==
    ASSUME NInv, ReconcileStep
    PROVE  NInv' /\ StatusKept
<1> DEFINE old == cache[step.name]
           child == mutated(old, step.spec)
           ts == [name |-> step.name, phase |-> phase(child), out |-> child.out]
<1>1. /\ Looping /\ UNCHANGED cache
      /\ \/ /\ UNCHANGED <<api, behind, budget>> \/ Write(step.name, step.name \in behind, child)
            /\ w' = [w EXCEPT !.tasks = Append(@, ts)] /\ UNCHANGED queued
         \/ WriteFails(step.name \in behind) /\ Retry
    BY DEF ReconcileStep
<1>2. /\ step.name \in Steps /\ step.spec \in Specs /\ w.wf \in WfObject /\ w.tasks \in Seq(TaskStatus)
      /\ Len(w.tasks) + 1 \in DOMAIN w.wf.spec.tasks /\ w.pc = "loop"
    BY <1>1, StepTyped DEF Step, Looping
<1>3. child \in Child
    BY <1>2, MutatedTyped DEF NInv, StoreTyped
<1>4. ts \in TaskStatus /\ ts.name = step.name
    BY <1>2, <1>3, PhaseTyped DEF TaskStatus, Child, Kids!Child
<1> HIDE DEF child, ts, old
<1>5. CASE WriteFails(step.name \in behind) /\ Retry
  <2>1. StoreTyped' /\ api' = api /\ w' = Idle
      BY <1>1, <1>5, WriteRefused DEF NInv, Retry
  <2> QED BY <2>1, Finished DEF StatusKept
<1>6. CASE /\ UNCHANGED <<api, behind, budget>> \/ Write(step.name, step.name \in behind, child)
           /\ w' = [w EXCEPT !.tasks = Append(@, ts)] /\ UNCHANGED queued
  <2>1. StoreTyped' /\ api'[Wf] = api[Wf]
    <3>1. CASE UNCHANGED <<api, behind, budget>>
        BY <1>1, <1>6, <3>1 DEF NInv, StoreTyped
    <3>2. CASE Write(step.name, step.name \in behind, child)
        BY <1>1, <1>2, <1>3, <1>6, <3>2, StoreChild DEF NInv, StoreTyped, Write
    <3> QED BY <1>6, <3>1, <3>2
  <2>2. /\ w' \in Call /\ w'.pc = "loop" /\ w'.wf = w.wf /\ w'.stale = w.stale
        /\ w'.tasks = Append(w.tasks, ts)
    <3>1. w \in Call /\ Append(w.tasks, ts) \in Seq(TaskStatus)
        BY <1>2, <1>4 DEF NInv, WorkerTyped
    <3> QED BY <1>2, <1>6, <3>1 DEF Call
  <2>3. Fits(Append(w.tasks, ts), w.wf.spec.tasks)
    <3>1. Fits(w.tasks, w.wf.spec.tasks) /\ ts.name = w.wf.spec.tasks[Len(w.tasks) + 1].name
        BY <1>2, <1>4 DEF NInv, Folded, step
    <3>2. w.wf.spec.tasks \in Seq(Step)
        BY <1>2 DEF WfObject, WfSpec
    <3> QED BY <1>2, <1>4, <3>1, <3>2 DEF Fits
  <2>4. WorkerTyped' /\ Held' /\ Folded' /\ Telling'
      BY <1>2, <2>1, <2>2, <2>3 DEF NInv, WorkerTyped, Held, Folded, Telling
  <2> QED BY <2>1, <2>4 DEF NInv, StatusKept
<1> QED BY <1>1, <1>5, <1>6

(* The status is stored with the spec it was folded from. *)
StatusFits ==
    /\ Len(api'[Wf].tasks) = Len(api'[Wf].spec.tasks)
    /\ \A k \in DOMAIN api'[Wf].tasks : api'[Wf].tasks[k].name = api'[Wf].spec.tasks[k].name

LEMMA UpdateStatusStep ==
    ASSUME NInv, UpdateStatus
    PROVE  NInv' /\ (StatusKept \/ StatusFits)
<1> DEFINE wf == Shown(w.wf, w.tasks)
<1>1. /\ UNCHANGED cache /\ w.pc = "loop" /\ ~(Len(w.tasks) < Len(w.wf.spec.tasks))
      /\ \/ /\ Write(Wf, w.stale, wf) /\ UNCHANGED queued
            /\ w' = IF notifyDue(wf) THEN [w EXCEPT !.pc = "notify", !.wf = wf] ELSE Idle
         \/ WriteFails(w.stale) /\ Retry
    BY Zenon DEF UpdateStatus, Looping, Shown
<1>2. w \in Call /\ w.wf \in WfObject /\ w.tasks \in Seq(TaskStatus)
    BY <1>1 DEF NInv, WorkerTyped, Call
<1>3. wf \in WfObject /\ wf.tasks = w.tasks /\ wf.spec = w.wf.spec /\ wf.notified = w.wf.notified
    BY <1>2, ShownTyped
<1> HIDE DEF wf
<1>4. CASE WriteFails(w.stale) /\ Retry
  <2>1. StoreTyped' /\ api' = api /\ w' = Idle
      BY <1>1, <1>4, WriteRefused DEF NInv, Retry
  <2> QED BY <2>1, Finished DEF StatusKept
<1>5. CASE /\ Write(Wf, w.stale, wf) /\ UNCHANGED queued
           /\ w' = IF notifyDue(wf) THEN [w EXCEPT !.pc = "notify", !.wf = wf] ELSE Idle
  <2>1. StoreTyped' /\ api'[Wf] = wf
      BY <1>1, <1>3, <1>5, StoreWf DEF NInv, StoreTyped, Write
  <2>2. StatusFits
    <3>1. Fits(w.tasks, w.wf.spec.tasks) /\ Len(w.tasks) \in Nat /\ Len(w.wf.spec.tasks) \in Nat
        BY <1>1, <1>2, SpecTyped DEF NInv, Folded
    <3> QED BY <1>1, <1>3, <2>1, <3>1 DEF StatusFits, Fits
  <2>3. CASE ~notifyDue(wf)
      BY <1>5, <2>1, <2>2, <2>3, Finished
  <2>4. CASE notifyDue(wf)
    <3>1. w' \in Call /\ w'.pc = "notify" /\ w'.wf = wf
        BY <1>2, <1>3, <1>5, <2>4 DEF Call
    <3>2. wf.phase \in Terminal /\ wf.notified # wf.phase
        BY <2>4 DEF notifyDue, isTerminal
    <3>3. WorkerTyped' /\ Held' /\ Folded' /\ Telling'
        BY <1>3, <2>1, <3>1, <3>2 DEF WorkerTyped, Held, Folded, Telling
    <3> QED BY <2>1, <2>2, <3>3 DEF NInv
  <2> QED BY <2>3, <2>4
<1> QED BY <1>1, <1>4, <1>5

LEMMA NotifyStep ==
    ASSUME NInv, Notify
    PROVE  NInv' /\ StatusKept
<1>1. UNCHANGED <<api, cache, behind, queued>> /\ w.pc = "notify" /\ w \in Call
    BY DEF Notify, NInv, WorkerTyped
<1>2. w' \in Call /\ w'.pc = "record" /\ w'.wf = w.wf /\ w'.stale = w.stale
    BY <1>1 DEF Notify, Call
<1>3. StoreTyped' /\ StatusKept
    BY <1>1 DEF NInv, StoreTyped, StatusKept
<1>4. WorkerTyped' /\ Held' /\ Folded' /\ Telling'
    BY <1>1, <1>2 DEF NInv, WorkerTyped, Held, Folded, Telling
<1> QED BY <1>3, <1>4 DEF NInv

LEMMA NotifyFailsStep ==
    ASSUME NInv, NotifyFails
    PROVE  NInv' /\ StatusKept
<1>1. StoreTyped' /\ w' = Idle /\ StatusKept
    BY DEF NotifyFails, Retry, NInv, StoreTyped, StatusKept
<1> QED BY <1>1, Finished

LEMMA RecordNotifiedStep ==
    ASSUME NInv, RecordNotified
    PROVE  NInv' /\ StatusKept
<1> DEFINE new == [w.wf EXCEPT !.notified = w.wf.phase]
<1>1. w.pc = "record" /\ w.wf \in WfObject /\ UNCHANGED cache /\ queued' \in BOOLEAN /\ w' = Idle
    BY DEF RecordNotified, Retry, NInv, StoreTyped, WorkerTyped
<1>2. new \in WfObject /\ new.tasks = w.wf.tasks
    BY <1>1, NotifiedTyped
<1>3. Write(Wf, w.stale, new) \/ WriteFails(w.stale)
    BY DEF RecordNotified
<1> HIDE DEF new
<1>4. CASE WriteFails(w.stale)
    BY <1>1, <1>4, WriteRefused, Finished DEF NInv, StatusKept
<1>5. CASE Write(Wf, w.stale, new)
  <2>1. StoreTyped' /\ api'[Wf] = new
      BY <1>1, <1>2, <1>5, StoreWf DEF NInv, Write
  <2>2. api[Wf] = w.wf
      BY <1>1, <1>5 DEF NInv, Held, Write
  <2> QED BY <1>1, <1>2, <2>1, <2>2, Finished DEF StatusKept
<1> QED BY <1>3, <1>4, <1>5

(* The worker goes on with the copy it has. *)
LEMMA CacheStep ==
    ASSUME NInv, UNCHANGED <<api, w>>, StoreTyped'
    PROVE  NInv' /\ StatusKept
BY DEF NInv, WorkerTyped, Held, Folded, Telling, StatusKept

LEMMA SyncStep ==
    ASSUME NInv, NEW k \in Keys, Sync(k)
    PROVE  NInv' /\ StatusKept
<1>1. /\ UNCHANGED <<api, w>> /\ cache' = [cache EXCEPT ![k] = api[k]] /\ behind' = behind \ {k}
      /\ queued' \in BOOLEAN
    BY DEF Sync
<1>2. cache' \in [Keys -> WfObject \cup Child \cup {None}] /\ cache'[k] = api[k]
    BY <1>1 DEF NInv, StoreTyped
<1>3. \A u \in Keys \ {k} : cache'[u] = cache[u]
    BY <1>1 DEF NInv, StoreTyped
<1>4. /\ \A s \in Steps : cache'[s] \in Child \cup {None}
      /\ cache'[Wf] \in WfObject \cup {None}
    BY <1>2, <1>3, KeysDiffer DEF NInv, StoreTyped, Keys
<1>5. StoreTyped'
    BY <1>1, <1>2, <1>3, <1>4 DEF NInv, StoreTyped
<1> QED BY <1>1, <1>5, CacheStep

LEMMA CrashStep ==
    ASSUME NInv, Crash
    PROVE  NInv' /\ StatusKept
<1>1. StoreTyped' /\ w' = Idle /\ StatusKept
    BY DEF Crash, NInv, StoreTyped, StatusKept
<1> QED BY <1>1, Finished

(* What happens to a child does not touch the Workflow. *)
LEMMA ChildStep ==
    ASSUME NInv, NEW s \in Steps, NEW new \in Child \cup {None}, Store(s, new),
           UNCHANGED <<cache, queued, w>>
    PROVE  NInv' /\ StatusKept
<1>1. StoreTyped' /\ api'[Wf] = api[Wf]
    BY StoreChild DEF NInv, StoreTyped
<1> QED BY <1>1 DEF NInv, WorkerTyped, Held, Folded, Telling, StatusKept

LEMMA ChildrenStep ==
    ASSUME NInv, NEW s \in Steps, ChildWaits(s) \/ ChildRuns(s) \/ ChildEnds(s) \/ DeleteChild(s)
    PROVE  NInv' /\ StatusKept
<1>1. api[s] # None /\ api[s] \in Child
    BY DEF ChildWaits, ChildRuns, ChildEnds, DeleteChild, NInv, StoreTyped
<1>2. /\ Kids!Waiting(api[s]) \subseteq Child /\ Kids!Started(api[s]) \in Child
      /\ Kids!Answered(api[s]) \subseteq Child /\ Kids!Failed(api[s]) \in Child
    BY <1>1 DEF Child, Kids!Child, Kids!Reasons, Kids!Waiting, Kids!Started, Kids!Answered, Kids!Failed
<1>3. \E new \in Child \cup {None} : Store(s, new) /\ UNCHANGED <<cache, queued, w>>
    BY <1>2 DEF ChildWaits, ChildRuns, ChildEnds, DeleteChild, Shows
<1> QED BY <1>3, ChildStep

(* An edit makes the worker's copy old and leaves the status. *)
LEMMA EditWorkflowStep ==
    ASSUME NInv, NEW x \in Workflows, EditWorkflow(x)
    PROVE  NInv' /\ StatusKept
<1> DEFINE new == [api[Wf] EXCEPT !.spec = x]
<1>1. UNCHANGED <<cache, queued>> /\ Store(Wf, new) /\ api[Wf] \in WfObject /\ x \in WfSpec
    BY WorkflowAssumption DEF EditWorkflow, NInv, StoreTyped
<1>2. /\ new \in WfObject /\ new.tasks = api[Wf].tasks /\ new.phase = api[Wf].phase
      /\ new.notified = api[Wf].notified
    BY <1>1, EditedTyped
<1> HIDE DEF new
<1>3. StoreTyped' /\ api'[Wf] = new
    BY <1>1, <1>2, StoreWf DEF NInv, StoreTyped
<1>4. /\ w' \in Call /\ w'.pc = w.pc /\ w'.wf = w.wf /\ w'.tasks = w.tasks
      /\ w.pc # "idle" => w'.stale
  <2>1. w \in Call
      BY DEF NInv, WorkerTyped
  <2>2. CASE w.pc = "idle"
      BY <2>1, <2>2 DEF EditWorkflow
  <2>3. CASE w.pc # "idle"
      BY <2>1, <2>3 DEF EditWorkflow, Call
  <2> QED BY <2>2, <2>3
<1>5. WorkerTyped' /\ Held' /\ Folded'
    BY <1>4 DEF NInv, WorkerTyped, Held, Folded
<1>6. Telling'
    BY <1>2, <1>3, <1>4 DEF NInv, Telling, Summary
<1> QED BY <1>2, <1>3, <1>5, <1>6 DEF NInv, StatusKept

-----------------------------------------------------------------------------
LEMMA NInvStep ==
    ASSUME NInv, [Next]_vars
    PROVE  NInv' /\ (StatusKept \/ StatusFits)
<1>1. CASE Get
    BY <1>1, GetStep
<1>2. CASE Working
    BY <1>2, ReconcileStepStep, UpdateStatusStep, NotifyStep, NotifyFailsStep, RecordNotifiedStep DEF Working
<1>3. CASE Crash \/ \E k \in Steps \cup {Wf} : Sync(k)
    BY <1>3, CrashStep, SyncStep DEF Keys
<1>4. CASE \E s \in Steps : ChildWaits(s) \/ ChildRuns(s) \/ ChildEnds(s) \/ DeleteChild(s)
    BY <1>4, ChildrenStep
<1>5. CASE \E x \in Workflows : EditWorkflow(x)
    BY <1>5, EditWorkflowStep
<1>6. CASE UNCHANGED vars
    BY <1>6, CacheStep DEF vars, NInv, StoreTyped
<1> QED BY <1>1, <1>2, <1>3, <1>4, <1>5, <1>6 DEF Next

LEMMA WorkflowInv == Spec => []NInv
<1>1. NInv /\ [Next]_vars => NInv'
    BY NInvStep
<1> QED BY <1>1, InitNInv, PTL DEF Spec

(***************************************************************************)
(* The stored objects, the cache and the worker keep their types; the      *)
(* cache shows the stored object of every key no watch event is due for.   *)
(***************************************************************************)
THEOREM WorkflowTyped == Spec => []TypeOK
<1>1. NInv => TypeOK
  <2> SUFFICES ASSUME NInv PROVE TypeOK
      OBVIOUS
  <2>1. w.pc \in {"idle", "loop", "notify", "record"} /\ w.tasks \in Seq(TaskStatus)
      BY DEF NInv, WorkerTyped, Call
  <2> QED BY <2>1, Zenon DEF NInv, StoreTyped, WorkerTyped, TypeOK, Keys
<1> QED BY <1>1, WorkflowInv, PTL

(***************************************************************************)
(* A status is stored only with one entry for each step of the spec it is  *)
(* stored with, in order, whatever is edited during the loop.              *)
(***************************************************************************)
THEOREM StatusesFit == Spec => StatusFitsSpec
<1> DEFINE Fit == api'[Wf].tasks # api[Wf].tasks =>
          /\ Len(api'[Wf].tasks) = Len(api'[Wf].spec.tasks)
          /\ \A k \in DOMAIN api'[Wf].tasks :
                api'[Wf].tasks[k].name = api'[Wf].spec.tasks[k].name
<1>1. NInv /\ [Next]_vars => Fit
    BY NInvStep DEF NInv, StatusKept, StatusFits
<1> HIDE DEF Fit
<1>2. Spec => [][Fit]_vars
    BY <1>1, WorkflowInv, PTL DEF Spec
<1> QED BY <1>2 DEF StatusFitsSpec, Fit

(***************************************************************************)
(* notifyURL is only ever told the stored status, when that is final, and  *)
(* never a phase recorded as told, however old the copy is from which the  *)
(* worker started; every call of it counts, answered or not.               *)
(***************************************************************************)
THEOREM NotifyFenced == Spec => NotifyFence
<1> DEFINE Fence ==
        w.pc = "notify" /\ w'.pc \in {"record", "idle"} /\ budget'.crashes = budget.crashes =>
          /\ Summary(w.wf) = Summary(api[Wf]) /\ w.wf.phase \in Terminal
          /\ api[Wf].notified # w.wf.phase
<1>1. NInv => Fence
    BY DEF NInv, Telling
<1> HIDE DEF Fence
<1>2. Spec => [][Fence]_vars
    BY <1>1, WorkflowInv, PTL DEF Spec
<1> QED BY <1>2 DEF NotifyFence, Fence

-----------------------------------------------------------------------------
(* The children, and what their owner and their controller do to them. *)

kids == [s \in Steps |-> api[s]]

KidsKept == \A s \in Steps : api'[s] = api[s]

KidStep(s) ==
    api'[s] \in Kids!SpecSteps(api[s]) \cup IF api[s] = None THEN {} ELSE Kids!StatusSteps(api[s])

OneMoves == \E s \in Steps : KidStep(s) /\ \A u \in Steps \ {s} : api'[u] = api[u]

LEMMA StoreOne ==
    ASSUME StoreTyped, NEW k \in Keys, NEW new, Store(k, new)
    PROVE  api'[k] = new /\ \A u \in Keys \ {k} : api'[u] = api[u]
BY DEF StoreTyped, Store

LEMMA WfKeepsKids ==
    ASSUME StoreTyped, NEW new, Store(Wf, new)
    PROVE  KidsKept
BY StoreOne, KeysDiffer DEF KidsKept, Keys

(* CreateOrUpdate asks for the step's spec and keeps the rest of the child. *)
LEMMA MutatedMoves ==
    ASSUME NEW old \in Child \cup {None}, NEW spec \in Specs
    PROVE  mutated(old, spec) \in Kids!SpecSteps(old)
BY DEF mutated, Kids!SpecSteps

(* An old copy is refused, so the child that is written is the stored one. *)
LEMMA ReconcileMoves ==
    ASSUME NInv, ReconcileStep
    PROVE  KidsKept \/ OneMoves
<1> DEFINE s == step.name
           child == mutated(cache[s], step.spec)
<1>1. s \in Steps /\ step.spec \in Specs
    BY StepTyped DEF ReconcileStep, Step
<1>2. api' = api \/ (s \notin behind /\ Store(s, child))
    BY DEF ReconcileStep, Write, WriteFails
<1>3. CASE s \notin behind /\ Store(s, child)
  <2>1. cache[s] = api[s] /\ api[s] \in Child \cup {None}
      BY <1>1, <1>3 DEF NInv, StoreTyped, Keys
  <2>2. child \in Kids!SpecSteps(api[s])
      BY <1>1, <2>1, MutatedMoves
  <2> HIDE DEF child, s
  <2>3. api'[s] = child /\ \A u \in Steps \ {s} : api'[u] = api[u]
      BY <1>1, <1>3, StoreOne DEF NInv, Keys
  <2> QED BY <1>1, <2>2, <2>3 DEF OneMoves, KidStep
<1> QED BY <1>2, <1>3 DEF KidsKept

LEMMA ChildrenMove ==
    ASSUME NInv, NEW s \in Steps, ChildWaits(s) \/ ChildRuns(s) \/ ChildEnds(s) \/ DeleteChild(s)
    PROVE  OneMoves
<1>1. \E new \in {None} \cup Kids!StatusSteps(api[s]) : api[s] # None /\ Store(s, new)
    BY DEF ChildWaits, ChildRuns, ChildEnds, DeleteChild, Shows, Kids!StatusSteps
<1>2. PICK new \in {None} \cup Kids!StatusSteps(api[s]) : api[s] # None /\ Store(s, new)
    BY <1>1
<1>3. api'[s] = new /\ \A u \in Steps \ {s} : api'[u] = api[u]
    BY <1>2, StoreOne DEF NInv, Keys
<1>4. KidStep(s)
    BY <1>2, <1>3 DEF KidStep, Kids!SpecSteps
<1> QED BY <1>3, <1>4 DEF OneMoves

LEMMA StepMoves ==
    ASSUME NInv, [Next]_vars
    PROVE  KidsKept \/ OneMoves
<1>1. CASE Get \/ Notify \/ NotifyFails \/ Crash \/ (\E k \in Steps \cup {Wf} : Sync(k)) \/ UNCHANGED vars
    BY <1>1 DEF Get, Notify, NotifyFails, Crash, Sync, vars, KidsKept
<1>2. CASE ReconcileStep
    BY <1>2, ReconcileMoves
<1>3. CASE UpdateStatus \/ RecordNotified
  <2>1. api' = api \/ \E new : Store(Wf, new)
      BY <1>3 DEF UpdateStatus, RecordNotified, Write, WriteFails
  <2> QED BY <2>1, WfKeepsKids DEF NInv, KidsKept
<1>4. CASE \E s \in Steps : ChildWaits(s) \/ ChildRuns(s) \/ ChildEnds(s) \/ DeleteChild(s)
    BY <1>4, ChildrenMove
<1>5. CASE \E x \in Workflows : EditWorkflow(x)
    BY <1>5, WfKeepsKids DEF EditWorkflow, NInv
<1> QED BY <1>1, <1>2, <1>3, <1>4, <1>5 DEF Next, Working

LEMMA KidsRefine ==
    ASSUME KidsKept \/ OneMoves
    PROVE  [Kids!Next]_kids
<1>1. CASE KidsKept
    BY <1>1 DEF KidsKept, kids
<1>2. CASE OneMoves
    BY <1>2 DEF OneMoves, KidStep, Kids!Next
<1> QED BY <1>1, <1>2

LEMMA KidsInit == Init => Kids!Init
<1> SUFFICES ASSUME Init PROVE Kids!Init
    OBVIOUS
<1>1. \A s \in Steps : api[s] = None
    BY KeysDiffer DEF Init
<1> QED BY <1>1 DEF Kids!Init

(***************************************************************************)
(* The Workflow controller, its crashes and the user do to the children    *)
(* only what ChildTask lets an owner do, however old the cached copies of  *)
(* the children are that CreateOrUpdate starts from.  With KeepsThePromise *)
(* of HTTPTaskProofs the two controllers meet at one interface.            *)
(***************************************************************************)
THEOREM OwnerKeepsToChildTask == Spec => ImplementsChildTask
<1>1. NInv /\ [Next]_vars => [Kids!Next]_([s \in Steps |-> api[s]])
    BY StepMoves, KidsRefine DEF kids
<1>2. Spec => Kids!Spec
    BY <1>1, KidsInit, WorkflowInv, PTL DEF Spec, Kids!Spec
<1> QED BY <1>2 DEF ImplementsChildTask
=============================================================================

-------------------------- MODULE CompositionProofs --------------------------
(***************************************************************************)
(* What Composition guarantees for every set of names, fields, objects and *)
(* answers, every set of well-formed workflows of flat tasks (the premise  *)
(* of TaskFunction) and every bound.                                       *)
(***************************************************************************)
EXTENDS Composition, TLAPS

(* Replacing one entry keeps a map of requests a map of requests. *)
LEMMA RequestMapUpdate ==
    ASSUME NEW g, IsRequestMap(g), NEW k \in Keys, NEW r \in Request(k) \cup {None}
    PROVE  IsRequestMap([g EXCEPT ![k] = r])
  BY DEF IsRequestMap

(* Replacing one entry keeps a map of bodies a map of bodies. *)
LEMMA BodyMapUpdate ==
    ASSUME NEW g, IsBodyMap(g), NEW k \in Keys, NEW x \in Body(k) \cup {None}
    PROVE  IsBodyMap([g EXCEPT ![k] = x])
  BY DEF IsBodyMap

(* The empty maps are maps, and the idle reconcile is well typed. *)
LEMMA NothingIsMap == IsRequestMap(Nothing) /\ IsBodyMap(Nothing)
  BY DEF IsRequestMap, IsBodyMap, Nothing

LEMMA NoStatusType == NoStatus \in Status
  BY DEF NoStatus, Status

(* The phases of the function are phases. *)
LEMMA PhaseTypes ==
    /\ \A s : taskStatusFromObserved(s) \in Phases
    /\ \A ts, obs, ph, i : taskPhase(ts, obs, ph, i) \in Phases
    /\ \A ph : workflowPhase(ph) \in {"Running"} \cup Terminal
  BY DEF taskStatusFromObserved, taskPhase, workflowPhase, Phases, Terminal

(* The idle reconcile is one, whatever the number of tasks. *)
LEMMA IdleIsRun == ASSUME NEW len \in Nat PROVE IsRun(Idle, len)
  <1>1. IsBodyMap(Idle.want)
    BY NothingIsMap DEF Idle
  <1>2. QED
    BY <1>1 DEF IsRun, Idle

(* A reconcile stays one when tasks are appended. *)
LEMMA RunOfMoreTasks ==
    ASSUME NEW r, NEW len \in Nat, IsRun(r, len), NEW more \in Nat, len <= more
    PROVE  IsRun(r, more)
  BY DEF IsRun

(* A status that taskStatusFromObserved calls Succeeded is really one. *)
LEMMA SucceededMeans ==
    ASSUME NEW s \in Status, taskStatusFromObserved(s) = "Succeeded"
    PROVE  /\ s.error = "" /\ s.code \in 200..299
           /\ s.synced # "false" /\ s.body \in Objects
           /\ Answered(s)
  <1>1. s.code \in Nat
    BY DEF Status
  <1>2. s.error = ""
    BY DEF taskStatusFromObserved
  <1>3. ~(s.code = 0 /\ s.body = "")
    BY <1>2 DEF taskStatusFromObserved
  <1>4. ~(s.code < 200 \/ s.code >= 300)
    BY <1>2, <1>3 DEF taskStatusFromObserved
  <1>5. s.synced # "false"
    BY <1>2, <1>3, <1>4 DEF taskStatusFromObserved
  <1>6. s.body \in Objects
    BY <1>2, <1>3, <1>4, <1>5 DEF taskStatusFromObserved
  <1>7. s.code \in 200..299 /\ s.code # 0
    BY <1>1, <1>4
  <1>8. Answered(s)
    BY <1>5, <1>7, Zenon DEF Answered
  <1>9. QED
    BY <1>2, <1>5, <1>6, <1>7, <1>8

(* The tasks of a well-formed list, and those of a list with one more. *)
LEMMA AppendWellFormed ==
    ASSUME NEW ts \in Seq(Task), WellFormed(ts), NEW t \in Task,
           \A i \in DOMAIN ts : ts[i].name # t.name
    PROVE  /\ Append(ts, t) \in Seq(Task) /\ WellFormed(Append(ts, t))
           /\ Len(ts) <= Len(Append(ts, t))
           /\ \A i \in DOMAIN ts : Append(ts, t)[i] = ts[i]
  BY DEF WellFormed

(* A task at a position of the list has a name and mappings of their types. *)
LEMMA TaskTypes ==
    ASSUME NEW ts \in Seq(Task), NEW i \in DOMAIN ts
    PROVE  /\ ts[i].name \in Names
           /\ ts[i].inputFrom \in Seq(Mapping)
           /\ \A k \in DOMAIN ts[i].inputFrom :
                 /\ ts[i].inputFrom[k].sourceTask \in Names
                 /\ ts[i].inputFrom[k].sourceField \in Fields
  <1>1. ts[i] \in Task
    OBVIOUS
  <1>2. ts[i].name \in Names /\ ts[i].inputFrom \in Seq(Mapping)
    BY <1>1 DEF Task
  <1>3. \A k \in DOMAIN ts[i].inputFrom : ts[i].inputFrom[k] \in Mapping
    BY <1>2
  <1>4. QED
    BY <1>2, <1>3 DEF Mapping

-----------------------------------------------------------------------------
(***************************************************************************)
(* Type correctness.  That a request's body is made of objects is not a    *)
(* matter of types alone: the loop must have called only those tasks       *)
(* Succeeded whose observed request says so.                               *)
(***************************************************************************)
SuccessObserved ==
    run.stage # "idle" =>
    \A j \in DOMAIN run.ph : run.ph[j] = "Succeeded" =>
        /\ observed[tasks[j].name] # None
        /\ taskStatusFromObserved(observed[tasks[j].name].status) = "Succeeded"

TypeInv == TypeOK /\ SuccessObserved

(* A task whose request is desired takes its input from observed answers. *)
LEMMA DesiredSources ==
    ASSUME TypeInv, NEW i \in DOMAIN tasks, i = Len(run.ph) + 1, run.stage = "loop",
           desires(tasks, observed, run.ph, i),
           NEW k \in DOMAIN tasks[i].inputFrom
    PROVE  LET m == tasks[i].inputFrom[k]
           IN  /\ \E j \in 1..(i-1) : tasks[j].name = m.sourceTask
               /\ observed[m.sourceTask] # None
               /\ observed[m.sourceTask].status \in Status
               /\ taskStatusFromObserved(observed[m.sourceTask].status) = "Succeeded"
               /\ observed[m.sourceTask].status.body \in Objects
               /\ m.sourceField \in FieldsOf[observed[m.sourceTask].status.body]
  <1> DEFINE m == tasks[i].inputFrom[k]
  <1>1. /\ hasOutput(tasks, run.ph, m.sourceTask)
        /\ m.sourceField \in FieldsOf[observed[m.sourceTask].status.body]
    BY DEF desires, buildable, outputs
  <1>2. PICK j \in DOMAIN run.ph : tasks[j].name = m.sourceTask /\ run.ph[j] = "Succeeded"
    BY <1>1 DEF hasOutput
  <1>3. j \in 1..(i-1)
    <2>1. run.ph \in Seq(Phases)
      BY DEF TypeInv, TypeOK, IsRun
    <2>2. QED
      BY <1>2, <2>1
  <1>4. /\ observed[m.sourceTask] # None
        /\ taskStatusFromObserved(observed[m.sourceTask].status) = "Succeeded"
    BY <1>2 DEF TypeInv, SuccessObserved
  <1>5. m.sourceTask \in Keys
    BY TaskTypes DEF TypeInv, TypeOK, Keys
  <1>6. observed[m.sourceTask].status \in Status
    BY <1>4, <1>5 DEF TypeInv, TypeOK, IsRequestMap, Request
  <1>7. QED
    BY <1>1, <1>2, <1>3, <1>4, <1>6, SucceededMeans

(* The body the function builds for a desired request is one of objects. *)
LEMMA DesiredBodyType ==
    ASSUME TypeInv, NEW i \in DOMAIN tasks, i = Len(run.ph) + 1, run.stage = "loop",
           desires(tasks, observed, run.ph, i)
    PROVE  requestBody(tasks, observed, i) \in Body(tasks[i].name)
  <1>1. \A k \in DOMAIN tasks[i].inputFrom :
           observed[tasks[i].inputFrom[k].sourceTask].status.body \in Objects
    BY DesiredSources
  <1>2. tasks[i].inputFrom \in Seq(Mapping) /\ tasks[i].name \in Names
    BY TaskTypes DEF TypeInv, TypeOK
  <1>3. requestBody(tasks, observed, i) \in Seq(Objects)
    BY <1>1, <1>2 DEF requestBody, outputs
  <1>4. QED
    BY <1>2, <1>3, FunctionAssumption DEF Body

(* Init establishes TypeInv. *)
LEMMA InitTypeInv == Init => TypeInv
  <1> SUFFICES ASSUME Init PROVE TypeInv
    OBVIOUS
  <1>1. tasks \in Seq(Task) /\ WellFormed(tasks)
    BY CompositionAssumption, Zenon DEF Init
  <1>2. IsRequestMap(requests) /\ IsRequestMap(observed)
    BY NothingIsMap, Zenon DEF Init
  <1>3. IsRun(run, Len(tasks))
    <2>1. run = Idle
      BY Zenon DEF Init
    <2>2. Len(tasks) \in Nat
      BY <1>1
    <2>3. QED
      BY <2>1, <2>2, IdleIsRun
  <1>4. xr \in [phase: {"", "Running"} \cup Terminal, tasks: Seq(Phases)]
    <2>1. xr = [phase |-> "", tasks |-> <<>>]
      BY Zenon DEF Init
    <2>2. <<>> \in Seq(Phases) /\ "" \in {"", "Running"} \cup Terminal
      OBVIOUS
    <2>3. QED
      BY <2>1, <2>2, Zenon
  <1>5. posted \in Seq(Payload)
    <2>1. posted = <<>>
      BY Zenon DEF Init
    <2>2. QED
      BY <2>1
  <1>6. SuccessObserved
    <2>1. run.ph = <<>>
      BY DEF Init, Idle
    <2>2. QED
      BY <2>1 DEF SuccessObserved
  <1>7. notifyURL \in BOOLEAN /\ edits \in Nat /\ losses \in Nat
    BY DEF Init
  <1>8. QED
    BY <1>1, <1>2, <1>3, <1>4, <1>5, <1>6, <1>7, Zenon DEF TypeInv, TypeOK

(* Every step of Next preserves TypeInv. *)
LEMMA NextTypeInv == TypeInv /\ [Next]_vars => TypeInv'
  <1> SUFFICES ASSUME TypeInv, [Next]_vars PROVE TypeInv'
    OBVIOUS
  <1> USE DEF TypeInv
  <1>0. /\ tasks \in Seq(Task)
        /\ IsRequestMap(requests) /\ IsRequestMap(observed)
        /\ IsRun(run, Len(tasks)) /\ posted \in Seq(Payload)
        /\ edits \in Nat /\ losses \in Nat
    BY Zenon DEF TypeOK
  <1>1. ASSUME NEW k \in Keys, Observe(k) PROVE TypeInv'
    <2>1. IsRequestMap(observed')
      <3>1. requests[k] \in Request(k) \cup {None}
        BY <1>0 DEF IsRequestMap
      <3>2. QED
        BY <1>0, <1>1, <3>1, RequestMapUpdate DEF Observe
    <2>2. SuccessObserved'
      BY <1>1 DEF Observe, SuccessObserved
    <2>3. QED
      BY <1>1, <2>1, <2>2 DEF Observe, TypeOK
  <1>2. ASSUME NEW k \in Keys, Collect(k) PROVE TypeInv'
    <2>1. IsRequestMap(requests')
      BY <1>0, <1>2, RequestMapUpdate DEF Collect
    <2>2. IsRun(run', Len(tasks)')
      BY <1>0, <1>2 DEF Collect, IsRun
    <2>3. SuccessObserved'
      BY <1>0, <1>2 DEF Collect, SuccessObserved, IsRun
    <2>4. QED
      BY <1>2, <2>1, <2>2, <2>3 DEF Collect, TypeOK
  <1>3. ASSUME NEW k \in Keys, Apply(k) PROVE TypeInv'
    <2> DEFINE st == IF requests[k] = None THEN NoStatus ELSE requests[k].status
    <2>1. IsRequestMap(requests')
      <3>1. st \in Status
        BY <1>0, NoStatusType DEF IsRequestMap, Request
      <3>2. run.want[k] \in Body(k)
        BY <1>0, <1>3 DEF Apply, IsRun, IsBodyMap
      <3>3. [body |-> run.want[k], status |-> st] \in Request(k)
        BY <3>1, <3>2 DEF Request
      <3>4. requests' = [requests EXCEPT ![k] = [body |-> run.want[k], status |-> st]]
        BY <1>3 DEF Apply
      <3>5. QED
        BY <1>0, <3>3, <3>4, RequestMapUpdate
    <2>2. IsRun(run', Len(tasks)')
      BY <1>0, <1>3 DEF Apply, IsRun
    <2>3. SuccessObserved'
      BY <1>0, <1>3 DEF Apply, SuccessObserved, IsRun
    <2>4. QED
      BY <1>3, <2>1, <2>2, <2>3 DEF Apply, TypeOK
  <1>4. ASSUME NEW k \in Keys, LoseRequest(k) PROVE TypeInv'
    <2>1. IsRequestMap(requests')
      BY <1>0, <1>4, RequestMapUpdate DEF LoseRequest
    <2>2. SuccessObserved'
      BY <1>4 DEF LoseRequest, SuccessObserved
    <2>3. losses' \in Nat
      BY <1>0, <1>4 DEF LoseRequest
    <2>4. QED
      BY <1>4, <2>1, <2>2, <2>3, Zenon DEF LoseRequest, TypeOK
  <1>5. ASSUME NEW k \in Keys, NEW s \in Answers, Respond(k, s) PROVE TypeInv'
    <2>1. requests[k] \in Request(k)
      BY <1>0, <1>5 DEF Respond, IsRequestMap
    <2>2. IsRequestMap(requests')
      <3>1. [requests[k] EXCEPT !.status = s] \in Request(k)
        BY <2>1, CompositionAssumption DEF Request
      <3>2. requests' = [requests EXCEPT ![k] = [requests[k] EXCEPT !.status = s]]
        BY <1>5 DEF Respond
      <3>3. QED
        BY <1>0, <3>1, <3>2, RequestMapUpdate
    <2>3. posted' \in Seq(Payload)
      <3>1. k = NotifyKey => requests[k].body \in Payload
        BY <2>1 DEF Request, Body
      <3>2. QED
        BY <1>0, <1>5, <3>1 DEF Respond
    <2>4. SuccessObserved'
      BY <1>5 DEF Respond, SuccessObserved
    <2>5. QED
      BY <1>5, <2>2, <2>3, <2>4 DEF Respond, TypeOK
  <1>6. ASSUME NEW t \in Additions, AppendTask(t) PROVE TypeInv'
    <2>1. /\ tasks' = Append(tasks, t) /\ tasks' \in Seq(Task) /\ WellFormed(tasks')
          /\ Len(tasks) <= Len(tasks')
          /\ \A i \in DOMAIN tasks : tasks'[i] = tasks[i]
      BY <1>0, <1>6, AppendWellFormed, CompositionAssumption DEF AppendTask, TypeOK
    <2>2. IsRun(run', Len(tasks)')
      BY <1>0, <1>6, <2>1, RunOfMoreTasks DEF AppendTask
    <2>3. SuccessObserved'
      <3>1. DOMAIN run.ph \subseteq DOMAIN tasks
        BY <1>0 DEF IsRun
      <3>2. QED
        BY <1>6, <2>1, <3>1 DEF AppendTask, SuccessObserved
    <2>4. edits' \in Nat
      BY <1>0, <1>6 DEF AppendTask
    <2>5. QED
      BY <1>6, <2>1, <2>2, <2>3, <2>4, Zenon DEF AppendTask, TypeOK
  <1>7. CASE Call
    <2>1. IsRun(run', Len(tasks)')
      <3>1. run' = [stage |-> "loop", n |-> Len(tasks), ph |-> <<>>, want |-> Nothing,
                    todo |-> {}, reported |-> FALSE]
        BY <1>7 DEF Call, Idle
      <3>2. Len(tasks) \in 0..Len(tasks) /\ <<>> \in Seq(Phases) /\ Len(tasks)' = Len(tasks)
        BY <1>0, <1>7 DEF Call
      <3>3. QED
        BY <3>1, <3>2, NothingIsMap DEF IsRun
    <2>2. SuccessObserved'
      BY <1>7 DEF Call, SuccessObserved, Idle
    <2>3. QED
      BY <1>7, <2>1, <2>2 DEF Call, TypeOK
  <1>8. CASE LoopStep
    <2> DEFINE i == Len(run.ph) + 1
    <2>1. run.ph \in Seq(Phases) /\ i \in DOMAIN tasks /\ i <= run.n
      BY <1>0, <1>8 DEF LoopStep, IsRun
    <2> DEFINE p == taskPhase(tasks, observed, run.ph, i)
               w == IF desires(tasks, observed, run.ph, i)
                    THEN [run.want EXCEPT ![tasks[i].name] = requestBody(tasks, observed, i)]
                    ELSE run.want
    <2>2. run' = [run EXCEPT !.ph = Append(run.ph, p), !.want = w]
      BY <1>8 DEF LoopStep
    <2>3. IsBodyMap(w)
      <3>1. IsBodyMap(run.want)
        BY <1>0 DEF IsRun
      <3>2. tasks[i].name \in Keys
        BY <1>0, <2>1, TaskTypes DEF Keys
      <3>3. desires(tasks, observed, run.ph, i) =>
                requestBody(tasks, observed, i) \in Body(tasks[i].name)
        BY <1>8, <2>1, DesiredBodyType DEF LoopStep
      <3>4. QED
        BY <3>1, <3>2, <3>3, BodyMapUpdate
    <2>4. Append(run.ph, p) \in Seq(Phases) /\ Len(Append(run.ph, p)) <= run.n
      BY <2>1, PhaseTypes
    <2>5. IsRun(run', Len(tasks)')
      BY <1>0, <1>8, <2>2, <2>3, <2>4 DEF LoopStep, IsRun
    <2>6. SuccessObserved'
      <3>1. p = "Succeeded" =>
              /\ observed[tasks[i].name] # None
              /\ taskStatusFromObserved(observed[tasks[i].name].status) = "Succeeded"
        BY DEF taskPhase, exists
      <3>2. run'.ph = Append(run.ph, p)
        BY <1>0, <2>2 DEF IsRun
      <3>3. QED
        BY <1>8, <2>1, <3>1, <3>2 DEF LoopStep, SuccessObserved
    <2>7. QED
      BY <1>8, <2>5, <2>6 DEF LoopStep, TypeOK
  <1>9. CASE Return
    <2>1. IsBodyMap(Desired)
      <3>1. notifyDesired(run.ph, notifyURL) => notifyBody(run.ph) \in Body(NotifyKey)
        BY <1>0, PhaseTypes DEF notifyBody, Body, Payload, IsRun
      <3>2. QED
        BY <1>0, <3>1, BodyMapUpdate DEF Desired, IsRun, Keys
    <2>2. IsRun(run', Len(tasks)')
      BY <1>0, <1>9, <2>1 DEF Return, IsRun
    <2>3. SuccessObserved'
      BY <1>0, <1>9 DEF Return, SuccessObserved, IsRun
    <2>4. QED
      BY <1>9, <2>2, <2>3 DEF Return, TypeOK
  <1>10. CASE UpdateStatus
    <2>1. xr' \in [phase: {"", "Running"} \cup Terminal, tasks: Seq(Phases)]
      BY <1>0, <1>10, PhaseTypes DEF UpdateStatus, IsRun
    <2>2. IsRun(run', Len(tasks)')
      BY <1>0, <1>10 DEF UpdateStatus, IsRun
    <2>3. SuccessObserved'
      BY <1>0, <1>10 DEF UpdateStatus, SuccessObserved, IsRun
    <2>4. QED
      BY <1>10, <2>1, <2>2, <2>3 DEF UpdateStatus, TypeOK
  <1>11. CASE EndReconcile \/ Abandon
    <2>1. run' = Idle /\ UNCHANGED <<tasks, notifyURL, requests, observed, xr, posted, edits, losses>>
      BY <1>11 DEF EndReconcile, Abandon
    <2>2. IsRun(run', Len(tasks)')
      BY <1>0, <2>1, IdleIsRun
    <2>3. SuccessObserved'
      BY <2>1 DEF SuccessObserved, Idle
    <2>4. QED
      BY <2>1, <2>2, <2>3 DEF TypeOK
  <1>12. CASE UNCHANGED vars
    BY <1>12 DEF vars, TypeOK, SuccessObserved
  <1>13. QED
    BY <1>1, <1>2, <1>3, <1>4, <1>5, <1>6, <1>7, <1>8, <1>9, <1>10, <1>11, <1>12 DEF Next

(***************************************************************************)
(* Spec keeps the types: names stay distinct, the reconcile stays within   *)
(* the tasks it was called with, and every request carries a body of its   *)
(* own kind, so a task's body is only ever made of answers that parsed.    *)
(***************************************************************************)
THEOREM TypeCorrect == Spec => []TypeOK
  <1>1. Spec => []TypeInv
    BY InitTypeInv, NextTypeInv, PTL DEF Spec
  <1>2. TypeInv => TypeOK
    BY DEF TypeInv
  <1>3. QED
    BY <1>1, <1>2, PTL

-----------------------------------------------------------------------------
(***************************************************************************)
(* SourcesSucceeded and NeverCollected.  Neither is inductive: why a       *)
(* request may exist lies in what Crossplane had observed when the call    *)
(* that desired it was made, and why it is desired again lies in the loop. *)
(***************************************************************************)

(* Every source of task i comes before it and was observed to have answered. *)
Fed(i) ==
    \A k \in DOMAIN tasks[i].inputFrom :
        LET m == tasks[i].inputFrom[k]
        IN  /\ \E j \in 1..(i-1) : tasks[j].name = m.sourceTask
            /\ observed[m.sourceTask] # None
            /\ taskStatusFromObserved(observed[m.sourceTask].status) = "Succeeded"
            /\ m.sourceField \in FieldsOf[observed[m.sourceTask].status.body]

(* An observed task still exists, and a final answer was not replaced. *)
ObservedIsOld ==
    \A n \in Names : observed[n] # None =>
        /\ requests[n] # None
        /\ Answered(observed[n].status) => requests[n].status = observed[n].status

(* Requests belong to tasks, and were built from observed answers ... *)
RequestsNamed ==
    \A n \in Names : requests[n] # None => \E i \in DOMAIN tasks : tasks[i].name = n
RequestsFed ==
    \A i \in DOMAIN tasks : requests[tasks[i].name] # None =>
        Fed(i) /\ requests[tasks[i].name].body = requestBody(tasks, observed, i)

(* ... and so do, and were, the requests a call desires. *)
WantNamed ==
    run.stage # "idle" =>
    \A n \in Names : run.want[n] # None => \E i \in DOMAIN tasks : tasks[i].name = n
WantFed ==
    run.stage # "idle" =>
    \A i \in DOMAIN tasks : run.want[tasks[i].name] # None =>
        Fed(i) /\ run.want[tasks[i].name] = requestBody(tasks, observed, i)

(* What was observed belongs to a task of the call. *)
CallCovers ==
    run.stage # "idle" =>
    \A n \in Names : observed[n] # None => \E i \in 1..run.n : tasks[i].name = n

(* The loop takes an observed task's phase from its request and desires it. *)
LoopExact ==
    run.stage # "idle" =>
    \A j \in DOMAIN run.ph : observed[tasks[j].name] # None =>
        /\ run.ph[j] = taskStatusFromObserved(observed[tasks[j].name].status)
        /\ run.want[tasks[j].name] # None

(* Crossplane has no task's request left to delete. *)
NothingDropped ==
    run.stage = "apply" => \A n \in Names : n \in run.todo => run.want[n] # None

Core == /\ ObservedIsOld /\ RequestsNamed /\ RequestsFed /\ WantNamed /\ WantFed
        /\ CallCovers /\ LoopExact /\ NothingDropped

SourceInv == TypeInv /\ (losses = 0 => Core)

(* The parts of TypeInv the steps below use. *)
LEMMA TypeFacts ==
    ASSUME TypeInv
    PROVE  /\ tasks \in Seq(Task) /\ WellFormed(tasks)
           /\ IsRequestMap(requests) /\ IsRequestMap(observed)
           /\ IsRun(run, Len(tasks))
           /\ run.ph \in Seq(Phases) /\ DOMAIN run.ph \subseteq DOMAIN tasks
           /\ DOMAIN run.ph = 1..Len(run.ph) /\ DOMAIN tasks = 1..Len(tasks)
           /\ \A i \in DOMAIN tasks : tasks[i].name \in Names
  <1>1. /\ tasks \in Seq(Task) /\ WellFormed(tasks)
        /\ IsRequestMap(requests) /\ IsRequestMap(observed) /\ IsRun(run, Len(tasks))
    BY Zenon DEF TypeInv, TypeOK
  <1>2. /\ run.ph \in Seq(Phases) /\ Len(run.ph) <= run.n /\ run.n \in 0..Len(tasks)
    BY <1>1 DEF IsRun
  <1>3. \A i \in DOMAIN tasks : tasks[i].name \in Names
    BY <1>1, TaskTypes
  <1>4. QED
    BY <1>1, <1>2, <1>3

(* The loop desires an observed task again: its sources are still Succeeded. *)
LEMMA LoopKeepsObserved ==
    ASSUME TypeInv, ObservedIsOld, RequestsFed, LoopExact, run.stage = "loop",
           NEW i \in DOMAIN tasks, i = Len(run.ph) + 1, observed[tasks[i].name] # None
    PROVE  /\ desires(tasks, observed, run.ph, i)
           /\ taskPhase(tasks, observed, run.ph, i)
                 = taskStatusFromObserved(observed[tasks[i].name].status)
  <1>1. Fed(i)
    BY TypeFacts DEF ObservedIsOld, RequestsFed
  <1>2. ASSUME NEW k \in DOMAIN tasks[i].inputFrom
        PROVE  /\ hasOutput(tasks, run.ph, tasks[i].inputFrom[k].sourceTask)
               /\ ~failedTasks(tasks, run.ph, tasks[i].inputFrom[k].sourceTask)
    <2> DEFINE src == tasks[i].inputFrom[k].sourceTask
    <2>1. PICK j \in 1..(i-1) : tasks[j].name = src
      BY <1>1 DEF Fed
    <2>2. j \in DOMAIN run.ph
      BY <2>1, TypeFacts
    <2>3. observed[src] # None /\ taskStatusFromObserved(observed[src].status) = "Succeeded"
      BY <1>1 DEF Fed
    <2>4. run.ph[j] = "Succeeded"
      BY <2>1, <2>2, <2>3 DEF LoopExact
    <2>5. hasOutput(tasks, run.ph, src)
      BY <2>1, <2>2, <2>4 DEF hasOutput
    <2>6. \A l \in DOMAIN run.ph : tasks[l].name = src => l = j
      BY <2>1, <2>2, TypeFacts DEF WellFormed
    <2>7. ~failedTasks(tasks, run.ph, src)
      BY <2>4, <2>6 DEF failedTasks
    <2>8. QED
      BY <2>5, <2>7
  <1>3. ~depFailed(tasks, run.ph, i)
    BY <1>2 DEF depFailed
  <1>4. buildable(tasks, observed, run.ph, i)
    BY <1>1, <1>2 DEF buildable, Fed, outputs
  <1>5. attempted(tasks, observed, run.ph, i) /\ exists(tasks, observed, i)
    BY <1>3 DEF attempted, exists
  <1>6. QED
    BY <1>3, <1>4, <1>5 DEF desires, taskPhase

(* Reading a request again does not change what a task was built from. *)
LEMMA FedStable ==
    ASSUME TypeInv, ObservedIsOld, NEW k \in Keys, Observe(k),
           NEW i \in DOMAIN tasks, Fed(i)
    PROVE  Fed(i)' /\ requestBody(tasks, observed, i)' = requestBody(tasks, observed, i)
  <1>1. tasks' = tasks /\ observed' = [observed EXCEPT ![k] = requests[k]]
    BY DEF Observe
  <1>2. ASSUME NEW x \in DOMAIN tasks[i].inputFrom
        PROVE  LET src == tasks[i].inputFrom[x].sourceTask
               IN  observed'[src] # None /\ observed'[src].status = observed[src].status
    <2> DEFINE src == tasks[i].inputFrom[x].sourceTask
    <2>1. observed[src] # None /\ taskStatusFromObserved(observed[src].status) = "Succeeded"
      BY DEF Fed
    <2>2. src \in Names /\ src \in Keys
      BY TaskTypes, TypeFacts DEF Keys
    <2>3. observed[src].status \in Status
      BY <2>1, <2>2, TypeFacts DEF IsRequestMap, Request
    <2>4. Answered(observed[src].status)
      BY <2>1, <2>3, SucceededMeans
    <2>5. requests[src] # None /\ requests[src].status = observed[src].status
      BY <2>1, <2>2, <2>4 DEF ObservedIsOld
    <2>6. observed = [l \in Keys |-> observed[l]]
      BY TypeFacts DEF IsRequestMap
    <2>7. QED
      BY <1>1, <2>1, <2>2, <2>5, <2>6
  <1>3. Fed(i)'
    BY <1>1, <1>2 DEF Fed
  <1>4. requestBody(tasks, observed, i)' = requestBody(tasks, observed, i)
    BY <1>1, <1>2 DEF requestBody, outputs
  <1>5. QED
    BY <1>3, <1>4

(* An update of one request keeps the others, and its own entry is the new one. *)
LEMMA RequestsUpdated ==
    ASSUME TypeInv, NEW k \in Keys, NEW r, requests' = [requests EXCEPT ![k] = r]
    PROVE  requests'[k] = r /\ \A l \in Keys : l # k => requests'[l] = requests[l]
  <1>1. requests = [l \in Keys |-> requests[l]]
    BY TypeFacts DEF IsRequestMap
  <1>2. QED
    BY <1>1

(* Reading a request preserves Core. *)
LEMMA ObserveCore ==
    ASSUME TypeInv, Core, NEW k \in Keys, Observe(k)
    PROVE  Core'
  <1> USE DEF Core
  <1>1. /\ run.stage = "idle" /\ UNCHANGED <<tasks, requests, run>>
        /\ observed' = [observed EXCEPT ![k] = requests[k]]
    BY DEF Observe
  <1>2. observed'[k] = requests[k] /\ \A l \in Keys : l # k => observed'[l] = observed[l]
    <2>1. observed = [l \in Keys |-> observed[l]]
      BY TypeFacts DEF IsRequestMap
    <2>2. QED
      BY <1>1, <2>1
  <1>3. ObservedIsOld'
    BY <1>1, <1>2 DEF ObservedIsOld, Keys
  <1>4. RequestsFed'
    <2> SUFFICES ASSUME NEW i \in DOMAIN tasks, requests[tasks[i].name] # None
                 PROVE  /\ Fed(i)'
                        /\ requests[tasks[i].name].body = requestBody(tasks, observed, i)'
      BY <1>1 DEF RequestsFed
    <2>1. Fed(i) /\ requests[tasks[i].name].body = requestBody(tasks, observed, i)
      BY DEF RequestsFed
    <2>2. QED
      BY <2>1, FedStable
  <1>5. RequestsNamed'
    BY <1>1 DEF RequestsNamed
  <1>6. QED
    BY <1>1, <1>3, <1>4, <1>5
      DEF WantNamed, WantFed, CallCovers, LoopExact, NothingDropped

(* Entering the function preserves Core: the call carries every task there is. *)
LEMMA CallCore ==
    ASSUME TypeInv, Core, Call
    PROVE  Core'
  <1> USE DEF Core
  <1>1. /\ UNCHANGED <<tasks, requests, observed>>
        /\ run'.stage = "loop" /\ run'.n = Len(tasks) /\ run'.ph = <<>> /\ run'.want = Nothing
    BY DEF Call, Idle
  <1>2. ObservedIsOld' /\ RequestsNamed' /\ RequestsFed'
    BY <1>1 DEF ObservedIsOld, RequestsNamed, RequestsFed, Fed, requestBody, outputs
  <1>3. WantNamed' /\ WantFed'
    BY <1>1, TypeFacts DEF WantNamed, WantFed, Nothing, Keys
  <1>4. CallCovers'
    <2>1. \A n \in Names : observed[n] # None => \E i \in DOMAIN tasks : tasks[i].name = n
      BY DEF ObservedIsOld, RequestsNamed
    <2>2. QED
      BY <1>1, <2>1, TypeFacts DEF CallCovers
  <1>5. LoopExact' /\ NothingDropped'
    BY <1>1 DEF LoopExact, NothingDropped
  <1>6. QED
    BY <1>2, <1>3, <1>4, <1>5

(* One iteration of the loop preserves Core. *)
LEMMA LoopStepCore ==
    ASSUME TypeInv, Core, LoopStep
    PROVE  Core'
  <1> USE DEF Core
  <1> DEFINE i == Len(run.ph) + 1
             p == taskPhase(tasks, observed, run.ph, i)
             d == desires(tasks, observed, run.ph, i)
             w == IF d THEN [run.want EXCEPT ![tasks[i].name] = requestBody(tasks, observed, i)]
                  ELSE run.want
  <1>1. /\ run.stage = "loop" /\ UNCHANGED <<tasks, requests, observed>>
        /\ run' = [run EXCEPT !.ph = Append(run.ph, p), !.want = w]
    BY DEF LoopStep
  <1>2. /\ i \in DOMAIN tasks /\ tasks[i].name \in Names /\ tasks[i].name \in Keys
    BY TypeFacts DEF LoopStep, IsRun, Keys
  <1>3. run'.stage = "loop" /\ run'.n = run.n /\ run'.ph = Append(run.ph, p) /\ run'.want = w
    BY <1>1, TypeFacts DEF IsRun
  <1>4. /\ \A k \in Keys : k # tasks[i].name => w[k] = run.want[k]
        /\ d => w[tasks[i].name] = requestBody(tasks, observed, i)
        /\ ~d => w[tasks[i].name] = run.want[tasks[i].name]
    <2>1. run.want = [k \in Keys |-> run.want[k]]
      BY TypeFacts DEF IsRun, IsBodyMap
    <2>2. QED
      BY <1>2, <2>1
  <1> HIDE DEF w
  <1>5. d => requestBody(tasks, observed, i) # None
    <2>1. d => requestBody(tasks, observed, i) \in Body(tasks[i].name)
      BY <1>1, <1>2, DesiredBodyType
    <2>2. QED
      BY <1>2, <2>1, FunctionAssumption
  <1>6. ObservedIsOld' /\ RequestsNamed' /\ RequestsFed'
    <2>1. UNCHANGED <<tasks, requests, observed>>
      BY <1>1
    <2>2. QED
      BY <2>1 DEF ObservedIsOld, RequestsNamed, RequestsFed, Fed, requestBody, outputs
  <1>7. WantNamed'
    BY <1>1, <1>2, <1>3, <1>4 DEF WantNamed, Keys
  <1>8. WantFed'
    <2> SUFFICES ASSUME NEW l \in DOMAIN tasks, w[tasks[l].name] # None
                 PROVE  Fed(l) /\ w[tasks[l].name] = requestBody(tasks, observed, l)
      <3>1. UNCHANGED <<tasks, observed>> /\ run'.want = w
        BY <1>1, <1>3
      <3>2. QED
        BY <3>1 DEF WantFed, Fed, requestBody, outputs
    <2>1. CASE l = i /\ d
      <3>1. Fed(i)
        BY <1>1, <1>2, <2>1, DesiredSources DEF Fed
      <3>2. QED
        BY <1>4, <2>1, <3>1
    <2>2. CASE ~(l = i /\ d)
      <3>1. tasks[l].name \in Keys /\ (tasks[l].name = tasks[i].name => l = i)
        BY <1>2, TypeFacts DEF WellFormed, Keys
      <3>2. w[tasks[l].name] = run.want[tasks[l].name]
        BY <1>4, <2>2, <3>1
      <3>3. QED
        BY <1>1, <3>2 DEF WantFed
    <2>3. QED
      BY <2>1, <2>2
  <1>9. CallCovers'
    BY <1>1, <1>3 DEF CallCovers
  <1>10. LoopExact'
    <2> SUFFICES ASSUME NEW j \in DOMAIN Append(run.ph, p), observed[tasks[j].name] # None
                 PROVE  /\ Append(run.ph, p)[j]
                              = taskStatusFromObserved(observed[tasks[j].name].status)
                        /\ w[tasks[j].name] # None
      BY <1>1, <1>3 DEF LoopExact
    <2>1. CASE j = i
      <3>1. d /\ p = taskStatusFromObserved(observed[tasks[i].name].status)
        BY <1>1, <1>2, <2>1, LoopKeepsObserved
      <3>2. Append(run.ph, p)[j] = p
        BY <2>1, TypeFacts
      <3>3. QED
        BY <1>4, <1>5, <2>1, <3>1, <3>2
    <2>2. CASE j # i
      <3>1. j \in DOMAIN run.ph /\ Append(run.ph, p)[j] = run.ph[j]
        BY <2>2, TypeFacts
      <3>2. tasks[j].name \in Keys /\ tasks[j].name # tasks[i].name
        BY <1>2, <2>2, <3>1, TypeFacts DEF WellFormed, Keys
      <3>3. QED
        BY <1>1, <1>4, <3>1, <3>2 DEF LoopExact
    <2>3. QED
      BY <2>1, <2>2
  <1>11. NothingDropped'
    BY <1>3 DEF NothingDropped
  <1>12. QED
    BY <1>6, <1>7, <1>8, <1>9, <1>10, <1>11

(* The end of the function preserves Core: all that was observed is desired. *)
LEMMA ReturnCore ==
    ASSUME TypeInv, Core, Return
    PROVE  Core'
  <1> USE DEF Core
  <1>1. /\ run.stage = "loop" /\ Len(run.ph) = run.n /\ UNCHANGED <<tasks, requests, observed>>
        /\ run'.stage = "apply" /\ run'.n = run.n /\ run'.ph = run.ph /\ run'.want = Desired
        /\ run'.todo = {k \in Keys : Desired[k] # None \/ observed[k] # None}
    BY TypeFacts DEF Return, IsRun
  <1>2. \A n \in Names : n \in Keys /\ Desired[n] = run.want[n]
    <2>1. run.want = [k \in Keys |-> run.want[k]]
      BY TypeFacts DEF IsRun, IsBodyMap
    <2>2. QED
      BY <2>1, FunctionAssumption DEF Desired, Keys
  <1>3. ObservedIsOld' /\ RequestsNamed' /\ RequestsFed'
    BY <1>1 DEF ObservedIsOld, RequestsNamed, RequestsFed, Fed, requestBody, outputs
  <1>4. WantNamed'
    BY <1>1, <1>2 DEF WantNamed
  <1>5. WantFed'
    BY <1>1, <1>2, TypeFacts DEF WantFed, Fed, requestBody, outputs
  <1>6. CallCovers' /\ LoopExact'
    BY <1>1, <1>2, TypeFacts DEF CallCovers, LoopExact
  <1>7. NothingDropped'
    <2> SUFFICES ASSUME NEW n \in Names, observed[n] # None PROVE run.want[n] # None
      BY <1>1, <1>2 DEF NothingDropped
    <2>1. PICK j \in 1..run.n : tasks[j].name = n
      BY <1>1 DEF CallCovers
    <2>2. j \in DOMAIN run.ph
      BY <1>1, <2>1, TypeFacts
    <2>3. QED
      BY <1>1, <2>1, <2>2 DEF LoopExact
  <1>8. QED
    BY <1>3, <1>4, <1>5, <1>6, <1>7

(* Deleting, creating or updating one resource preserves Core. *)
LEMMA CollectCore ==
    ASSUME TypeInv, Core, NEW k \in Keys, Collect(k)
    PROVE  Core' /\ \A n \in Names : requests'[n] = requests[n]
  <1> USE DEF Core
  <1>1. /\ run.stage = "apply" /\ k \in run.todo /\ run.want[k] = None
        /\ UNCHANGED <<tasks, observed>> /\ requests' = [requests EXCEPT ![k] = None]
    BY DEF Collect
  <1>2. /\ run'.stage = "apply" /\ run'.n = run.n /\ run'.ph = run.ph
        /\ run'.want = run.want /\ run'.todo = run.todo \ {k}
    BY <1>1, TypeFacts DEF Collect, IsRun
  <1>3. k \notin Names
    BY <1>1 DEF NothingDropped
  <1>4. \A n \in Names : requests'[n] = requests[n]
    BY <1>1, <1>3, RequestsUpdated DEF Keys
  <1>5. ObservedIsOld' /\ RequestsNamed'
    BY <1>1, <1>4 DEF ObservedIsOld, RequestsNamed
  <1>6. RequestsFed'
    BY <1>1, <1>4, TypeFacts DEF RequestsFed, Fed, requestBody, outputs
  <1>7. WantNamed' /\ WantFed' /\ CallCovers' /\ LoopExact' /\ NothingDropped'
    BY <1>1, <1>2
      DEF WantNamed, WantFed, CallCovers, LoopExact, NothingDropped, Fed, requestBody, outputs
  <1>8. QED
    BY <1>4, <1>5, <1>6, <1>7

LEMMA ApplyCore ==
    ASSUME TypeInv, Core, NEW k \in Keys, Apply(k)
    PROVE  Core'
  <1> USE DEF Core
  <1> DEFINE st == IF requests[k] = None THEN NoStatus ELSE requests[k].status
             r  == [body |-> run.want[k], status |-> st]
  <1>1. /\ run.stage = "apply" /\ run.want[k] # None
        /\ UNCHANGED <<tasks, observed>> /\ requests' = [requests EXCEPT ![k] = r]
    BY DEF Apply
  <1>2. /\ run'.stage = "apply" /\ run'.n = run.n /\ run'.ph = run.ph
        /\ run'.want = run.want /\ run'.todo = run.todo \ {k}
    BY <1>1, TypeFacts DEF Apply, IsRun
  <1> HIDE DEF r
  <1>3. requests'[k] = r /\ \A l \in Keys : l # k => requests'[l] = requests[l]
    BY <1>1, RequestsUpdated
  <1>4. r # None /\ r.body = run.want[k] /\ (requests[k] # None => r.status = requests[k].status)
    <2>1. st \in Status
      BY TypeFacts, NoStatusType DEF IsRequestMap, Request
    <2>2. run.want[k] \in Body(k)
      BY <1>1, TypeFacts DEF IsRun, IsBodyMap
    <2>3. r \in Request(k)
      BY <2>1, <2>2 DEF Request, r
    <2>4. QED
      BY <2>3, FunctionAssumption DEF r
  <1>5. ObservedIsOld'
    BY <1>1, <1>3, <1>4 DEF ObservedIsOld, Keys
  <1>6. RequestsNamed'
    BY <1>1, <1>3 DEF RequestsNamed, WantNamed, Keys
  <1>7. RequestsFed'
    <2> SUFFICES ASSUME NEW i \in DOMAIN tasks, requests'[tasks[i].name] # None
                 PROVE  /\ Fed(i)
                        /\ requests'[tasks[i].name].body = requestBody(tasks, observed, i)
      <3>1. UNCHANGED <<tasks, observed>>
        BY <1>1
      <3>2. QED
        BY <3>1 DEF RequestsFed, Fed, requestBody, outputs
    <2>1. CASE tasks[i].name = k
      BY <1>1, <1>3, <1>4, <2>1 DEF WantFed
    <2>2. CASE tasks[i].name # k
      BY <1>3, <2>2, TypeFacts DEF RequestsFed, Keys
    <2>3. QED
      BY <2>1, <2>2
  <1>8. WantNamed' /\ WantFed' /\ CallCovers' /\ LoopExact' /\ NothingDropped'
    <2>1. UNCHANGED <<tasks, observed>>
      BY <1>1
    <2>2. QED
      BY <1>1, <1>2, <2>1
        DEF WantNamed, WantFed, CallCovers, LoopExact, NothingDropped, Fed, requestBody, outputs
  <1>9. QED
    BY <1>5, <1>6, <1>7, <1>8

(* An answer of provider-http preserves Core: final answers are not replaced. *)
LEMMA RespondCore ==
    ASSUME TypeInv, Core, NEW k \in Keys, NEW s \in Answers, Respond(k, s)
    PROVE  Core' /\ \A n \in Names : requests[n] # None => requests'[n] # None
  <1> USE DEF Core
  <1> DEFINE r == [requests[k] EXCEPT !.status = s]
  <1>1. /\ requests[k] # None /\ ~Answered(requests[k].status)
        /\ UNCHANGED <<tasks, observed, run>> /\ requests' = [requests EXCEPT ![k] = r]
    BY DEF Respond
  <1>2. requests'[k] = r /\ \A l \in Keys : l # k => requests'[l] = requests[l]
    BY <1>1, RequestsUpdated
  <1>3. r # None /\ r.body = requests[k].body
    <2>1. requests[k] \in Request(k)
      BY <1>1, TypeFacts DEF IsRequestMap
    <2>2. r \in Request(k) /\ r.body = requests[k].body
      BY <2>1, CompositionAssumption DEF Request
    <2>3. QED
      BY <2>2, FunctionAssumption
  <1> HIDE DEF r
  <1>4. ObservedIsOld'
    BY <1>1, <1>2, <1>3 DEF ObservedIsOld, Keys
  <1>5. RequestsNamed'
    BY <1>1, <1>2 DEF RequestsNamed, Keys
  <1>6. RequestsFed'
    <2> SUFFICES ASSUME NEW i \in DOMAIN tasks, requests'[tasks[i].name] # None
                 PROVE  /\ Fed(i)
                        /\ requests'[tasks[i].name].body = requestBody(tasks, observed, i)
      <3>1. UNCHANGED <<tasks, observed>>
        BY <1>1
      <3>2. QED
        BY <3>1 DEF RequestsFed, Fed, requestBody, outputs
    <2>1. QED
      BY <1>1, <1>2, <1>3, TypeFacts DEF RequestsFed, Keys
  <1>7. WantNamed' /\ WantFed' /\ CallCovers' /\ LoopExact' /\ NothingDropped'
    <2>1. UNCHANGED <<tasks, observed, run>>
      BY <1>1
    <2>2. QED
      BY <2>1
        DEF WantNamed, WantFed, CallCovers, LoopExact, NothingDropped, Fed, requestBody, outputs
  <1>8. \A n \in Names : requests[n] # None => requests'[n] # None
    BY <1>2, <1>3 DEF Keys
  <1>9. QED
    BY <1>4, <1>5, <1>6, <1>7, <1>8

(* Appending a task preserves Core: the new name has no request yet. *)
LEMMA AppendTaskCore ==
    ASSUME TypeInv, Core, NEW t \in Additions, AppendTask(t)
    PROVE  Core'
  <1> USE DEF Core
  <1>1. /\ tasks' = Append(tasks, t) /\ UNCHANGED <<requests, observed, run>>
        /\ \A i \in DOMAIN tasks : tasks[i].name # t.name
        /\ t \in Task /\ t.name \in Names
    BY CompositionAssumption DEF AppendTask, Task
  <1>2. /\ DOMAIN tasks = 1..Len(tasks) /\ DOMAIN tasks' = 1..(Len(tasks) + 1)
        /\ \A i \in DOMAIN tasks : tasks'[i] = tasks[i]
        /\ tasks'[Len(tasks) + 1] = t
    BY <1>1, TypeFacts
  <1>3. ASSUME NEW i \in DOMAIN tasks, Fed(i)
        PROVE  Fed(i)' /\ requestBody(tasks, observed, i)' = requestBody(tasks, observed, i)
    <2>1. tasks'[i] = tasks[i] /\ \A j \in 1..(i-1) : tasks'[j] = tasks[j]
      BY <1>2
    <2>2. observed' = observed
      BY <1>1
    <2>3. QED
      BY <1>3, <2>1, <2>2 DEF Fed, requestBody, outputs
  <1>4. ObservedIsOld'
    BY <1>1 DEF ObservedIsOld
  <1>5. RequestsNamed' /\ WantNamed'
    BY <1>1, <1>2 DEF RequestsNamed, WantNamed
  <1>6. RequestsFed'
    <2> SUFFICES ASSUME NEW i \in DOMAIN tasks', requests[tasks'[i].name] # None
                 PROVE  /\ Fed(i)'
                        /\ requests[tasks'[i].name].body = requestBody(tasks, observed, i)'
      BY <1>1 DEF RequestsFed
    <2>1. i \in DOMAIN tasks
      BY <1>1, <1>2 DEF RequestsNamed
    <2>2. Fed(i) /\ requests[tasks[i].name].body = requestBody(tasks, observed, i)
      BY <1>2, <2>1 DEF RequestsFed
    <2>3. QED
      BY <1>2, <1>3, <2>1, <2>2
  <1>7. WantFed'
    <2> SUFFICES ASSUME run.stage # "idle",
                        NEW i \in DOMAIN tasks', run.want[tasks'[i].name] # None
                 PROVE  /\ Fed(i)'
                        /\ run.want[tasks'[i].name] = requestBody(tasks, observed, i)'
      BY <1>1 DEF WantFed
    <2>1. i \in DOMAIN tasks
      BY <1>1, <1>2 DEF WantNamed
    <2>2. Fed(i) /\ run.want[tasks[i].name] = requestBody(tasks, observed, i)
      BY <1>2, <2>1 DEF WantFed
    <2>3. QED
      BY <1>2, <1>3, <2>1, <2>2
  <1>8. CallCovers'
    <2>1. 1..run.n \subseteq DOMAIN tasks
      BY TypeFacts DEF IsRun
    <2>2. QED
      BY <1>1, <1>2, <2>1 DEF CallCovers
  <1>9. LoopExact' /\ NothingDropped'
    BY <1>1, <1>2, TypeFacts DEF LoopExact, NothingDropped
  <1>10. QED
    BY <1>4, <1>5, <1>6, <1>7, <1>8, <1>9

(* Steps that only touch the status or end the reconcile preserve Core. *)
LEMMA OtherCore ==
    ASSUME TypeInv, Core,
           UpdateStatus \/ EndReconcile \/ Abandon \/ UNCHANGED vars
    PROVE  Core' /\ requests' = requests
  <1> USE DEF Core
  <1>1. UNCHANGED <<tasks, requests, observed>>
    BY DEF UpdateStatus, EndReconcile, Abandon, vars
  <1>2. ObservedIsOld' /\ RequestsNamed' /\ RequestsFed'
    BY <1>1 DEF ObservedIsOld, RequestsNamed, RequestsFed, Fed, requestBody, outputs
  <1>3. \/ run'.stage = "idle"
        \/ /\ run'.stage = run.stage /\ run'.n = run.n /\ run'.ph = run.ph
           /\ run'.want = run.want /\ run'.todo = run.todo
    BY TypeFacts DEF UpdateStatus, EndReconcile, Abandon, vars, Idle, IsRun
  <1>4. WantNamed' /\ WantFed' /\ CallCovers' /\ LoopExact' /\ NothingDropped'
    BY <1>1, <1>3
      DEF WantNamed, WantFed, CallCovers, LoopExact, NothingDropped, Fed, requestBody, outputs
  <1>5. QED
    BY <1>1, <1>2, <1>4

(* Init establishes SourceInv. *)
LEMMA InitSourceInv == Init => SourceInv
  <1> SUFFICES ASSUME Init PROVE TypeInv /\ Core
    BY DEF SourceInv
  <1>1. requests = Nothing /\ observed = Nothing /\ run.stage = "idle"
    BY DEF Init, Idle
  <1>2. \A n \in Names : requests[n] = None /\ observed[n] = None
    BY <1>1 DEF Nothing, Keys
  <1>3. TypeInv
    BY InitTypeInv
  <1>4. Core
    BY <1>1, <1>2, <1>3, TypeFacts
      DEF Core, ObservedIsOld, RequestsNamed, RequestsFed, WantNamed, WantFed,
          CallCovers, LoopExact, NothingDropped
  <1>5. QED
    BY <1>3, <1>4

(* No request was deleted by hand if the count is still zero. *)
LEMMA NoLoss ==
    ASSUME TypeInv, [Next]_vars, losses' = 0
    PROVE  losses = 0 /\ \A k \in Keys : ~LoseRequest(k)
  <1>1. losses \in Nat
    BY DEF TypeInv, TypeOK
  <1>2. \A k \in Keys : LoseRequest(k) => losses' = losses + 1
    BY DEF LoseRequest
  <1>3. (\A k \in Keys : ~LoseRequest(k)) => losses' = losses
    BY DEF Next, vars, Observe, Collect, Apply, Respond, AppendTask, Call, LoopStep, Return,
           UpdateStatus, EndReconcile, Abandon
  <1>4. QED
    BY <1>1, <1>2, <1>3

(* A step without a manual deletion preserves Core and drops no request. *)
LEMMA NextCore ==
    ASSUME TypeInv, losses = 0 => Core, [Next]_vars, losses' = 0
    PROVE  Core' /\ \A n \in Names : requests[n] # None => requests'[n] # None
  <1>1. losses = 0 /\ \A k \in Keys : ~LoseRequest(k)
    BY NoLoss
  <1>2. Core
    BY <1>1
  <1>3. ASSUME NEW k \in Keys, Observe(k)
        PROVE  Core' /\ \A n \in Names : requests[n] # None => requests'[n] # None
    BY <1>2, <1>3, ObserveCore DEF Observe
  <1>4. ASSUME NEW k \in Keys, Collect(k)
        PROVE  Core' /\ \A n \in Names : requests[n] # None => requests'[n] # None
    BY <1>2, <1>4, CollectCore
  <1>5. ASSUME NEW k \in Keys, Apply(k)
        PROVE  Core' /\ \A n \in Names : requests[n] # None => requests'[n] # None
    <2>1. Core'
      BY <1>2, <1>5, ApplyCore
    <2>2. \A n \in Names : requests[n] # None => requests'[n] # None
      <3> DEFINE st == IF requests[k] = None THEN NoStatus ELSE requests[k].status
      <3>1. [body |-> run.want[k], status |-> st] \in Request(k)
        BY <1>5, TypeFacts, NoStatusType DEF Apply, IsRequestMap, IsRun, IsBodyMap, Request
      <3> DEFINE r == [body |-> run.want[k], status |-> st]
      <3>2. requests' = [requests EXCEPT ![k] = r]
        BY <1>5 DEF Apply
      <3>3. r # None
        BY <3>1, FunctionAssumption
      <3> HIDE DEF r
      <3>4. QED
        BY <3>2, <3>3, RequestsUpdated DEF Keys
    <2>3. QED
      BY <2>1, <2>2
  <1>6. ASSUME NEW k \in Keys, NEW s \in Answers, Respond(k, s)
        PROVE  Core' /\ \A n \in Names : requests[n] # None => requests'[n] # None
    BY <1>2, <1>6, RespondCore
  <1>7. ASSUME NEW t \in Additions, AppendTask(t)
        PROVE  Core' /\ \A n \in Names : requests[n] # None => requests'[n] # None
    BY <1>2, <1>7, AppendTaskCore DEF AppendTask
  <1>8. CASE Call
    BY <1>2, <1>8, CallCore DEF Call
  <1>9. CASE LoopStep
    BY <1>2, <1>9, LoopStepCore DEF LoopStep
  <1>10. CASE Return
    BY <1>2, <1>10, ReturnCore DEF Return
  <1>11. CASE UpdateStatus \/ EndReconcile \/ Abandon \/ UNCHANGED vars
    BY <1>2, <1>11, OtherCore
  <1>12. QED
    BY <1>1, <1>3, <1>4, <1>5, <1>6, <1>7, <1>8, <1>9, <1>10, <1>11 DEF Next

(* SourceInv is an invariant of Spec. *)
LEMMA SourceInvariant == Spec => []SourceInv
  <1>1. SourceInv /\ [Next]_vars => SourceInv'
    BY NextTypeInv, NextCore DEF SourceInv
  <1>2. QED
    BY InitSourceInv, <1>1, PTL DEF Spec

(***************************************************************************)
(* No task's request exists before its sources have really succeeded, and  *)
(* it carries exactly their answers, for every list of flat tasks, any     *)
(* answers of provider-http, any interleaving of reads, writes and         *)
(* cut-short reconciles, and any appended tasks.                           *)
(***************************************************************************)
THEOREM SourcesAlwaysSucceeded == Spec => []SourcesSucceeded
  <1>1. SourceInv => SourcesSucceeded
    <2> SUFFICES ASSUME TypeInv, Core,
                        NEW i \in DOMAIN tasks, requests[tasks[i].name] # None
                 PROVE  /\ \A k \in DOMAIN tasks[i].inputFrom :
                              LET m == tasks[i].inputFrom[k]
                              IN  /\ ReallySucceeded(m.sourceTask)
                                  /\ m.sourceField \in
                                        FieldsOf[requests[m.sourceTask].status.body]
                        /\ requests[tasks[i].name].body =
                              [k \in DOMAIN tasks[i].inputFrom |->
                                  requests[tasks[i].inputFrom[k].sourceTask].status.body]
      BY DEF SourceInv, SourcesSucceeded
    <2>1. Fed(i) /\ requests[tasks[i].name].body = requestBody(tasks, observed, i)
      BY DEF Core, RequestsFed
    <2>2. ASSUME NEW k \in DOMAIN tasks[i].inputFrom
          PROVE  LET m == tasks[i].inputFrom[k]
                 IN  /\ ReallySucceeded(m.sourceTask)
                     /\ requests[m.sourceTask].status = observed[m.sourceTask].status
                     /\ m.sourceField \in FieldsOf[requests[m.sourceTask].status.body]
      <3> DEFINE m == tasks[i].inputFrom[k]
      <3>1. /\ observed[m.sourceTask] # None
            /\ taskStatusFromObserved(observed[m.sourceTask].status) = "Succeeded"
            /\ m.sourceField \in FieldsOf[observed[m.sourceTask].status.body]
        BY <2>1 DEF Fed
      <3>2. m.sourceTask \in Names /\ m.sourceTask \in Keys
        BY TaskTypes, TypeFacts DEF Keys
      <3>3. observed[m.sourceTask].status \in Status
        BY <3>1, <3>2, TypeFacts DEF IsRequestMap, Request
      <3> DEFINE s == observed[m.sourceTask].status
      <3>4. /\ s.error = "" /\ s.code \in 200..299 /\ s.synced # "false" /\ s.body \in Objects
            /\ Answered(s)
        BY <3>1, <3>3, SucceededMeans
      <3>5. requests[m.sourceTask] # None /\ requests[m.sourceTask].status = s
        BY <3>1, <3>2, <3>4 DEF Core, ObservedIsOld
      <3>6. ReallySucceeded(m.sourceTask)
        BY <3>4, <3>5 DEF ReallySucceeded
      <3>7. QED
        BY <3>1, <3>5, <3>6
    <2>3. QED
      BY <2>1, <2>2 DEF requestBody, outputs
  <1>2. QED
    BY SourceInvariant, <1>1, PTL

(***************************************************************************)
(* Crossplane is never told to drop a task's request, so none is deleted   *)
(* and sent again, unless somebody deleted a request by hand.  Tasks are   *)
(* flat: the rebuild of line 134 reads what the first build read.          *)
(***************************************************************************)
THEOREM RequestsNeverCollected == Spec => NeverCollected
  <1>1. SourceInv /\ [Next]_vars =>
          [\A n \in Names : requests[n] # None /\ losses' = 0 => requests'[n] # None]_vars
    BY NextCore DEF SourceInv
  <1>2. QED
    BY SourceInvariant, <1>1, PTL DEF Spec, NeverCollected

-----------------------------------------------------------------------------
(***************************************************************************)
(* Composition implements TaskRunner as long as no request is deleted by   *)
(* hand, for every set of names, workflows, answers and added tasks.       *)
(***************************************************************************)

(* The abstract variable "requested". *)
Requested == [n \in Names |-> RequestOf(n)]

(* Succeeded answers are final ones. *)
LEMMA SucceededIsAnswered ==
    ASSUME NEW n, ReallySucceeded(n)
    PROVE  Answered(requests[n].status) /\ requests[n].status.body \in Objects
  <1>1. /\ requests[n].status.code \in 200..299
        /\ requests[n].status.synced # "false" /\ requests[n].status.body \in Objects
    BY DEF ReallySucceeded
  <1>2. requests[n].status.code # 0
    BY <1>1
  <1>3. QED
    BY <1>1, <1>2, Zenon DEF Answered

(* What a request shows before its final answer, and afterwards. *)
LEMMA Shown ==
    ASSUME NEW n, requests[n] # None
    PROVE  /\ RequestOf(n).with = requests[n].body
           /\ RequestOf(n) = [with |-> RequestOf(n).with, answer |-> RequestOf(n).answer]
           /\ ~Answered(requests[n].status) => RequestOf(n).answer = "none"
           /\ Answered(requests[n].status) => RequestOf(n).answer \in Objects \cup {"failed"}
           /\ ReallySucceeded(n) => RequestOf(n).answer = requests[n].status.body
  BY SucceededIsAnswered DEF RequestOf

(* A step that leaves the tasks' requests alone is a stutter. *)
LEMMA SameRequests ==
    ASSUME \A n \in Names : requests'[n] = requests[n]
    PROVE  Requested' = Requested
  BY DEF Requested, RequestOf, ReallySucceeded

(* A step that changes what one request shows changes one entry. *)
LEMMA OneRequest ==
    ASSUME NEW k \in Names, \A n \in Names \ {k} : requests'[n] = requests[n]
    PROVE  Requested' = [Requested EXCEPT ![k] = RequestOf(k)']
  <1>1. \A n \in Names \ {k} : RequestOf(n)' = RequestOf(n)
    BY DEF RequestOf, ReallySucceeded
  <1>2. QED
    BY <1>1 DEF Requested

(* A task's request is created or updated. *)
LEMMA ApplyStep ==
    ASSUME TypeInv, Core, NEW k \in Names, Apply(k)
    PROVE  \/ Requested' = Requested
           \/ \E i \in DOMAIN tasks : Promise!Request(i)
  <1> USE DEF Core
  <1> DEFINE st == IF requests[k] = None THEN NoStatus ELSE requests[k].status
             r  == [body |-> run.want[k], status |-> st]
  <1>1. run.stage = "apply" /\ run.want[k] # None /\ requests' = [requests EXCEPT ![k] = r]
        /\ UNCHANGED tasks
    BY DEF Apply
  <1>2. PICK i \in DOMAIN tasks : tasks[i].name = k
    BY <1>1 DEF WantNamed
  <1>3. Fed(i) /\ run.want[k] = requestBody(tasks, observed, i)
    BY <1>1, <1>2 DEF WantFed
  <1>4. k \in Keys
    BY DEF Keys
  <1>5. requests'[k] = r /\ \A n \in Names \ {k} : requests'[n] = requests[n]
    <2> HIDE DEF r
    <2>1. requests'[k] = r /\ \A l \in Keys : l # k => requests'[l] = requests[l]
      BY <1>1, <1>4, RequestsUpdated
    <2>2. QED
      BY <2>1 DEF Keys
  <1>6. r # None
    <2>1. st \in Status
      BY <1>4, TypeFacts, NoStatusType DEF IsRequestMap, Request
    <2>2. run.want[k] \in Body(k)
      BY <1>1, <1>4, TypeFacts DEF IsRun, IsBodyMap
    <2>3. r \in Request(k)
      BY <2>1, <2>2 DEF Request
    <2>4. QED
      BY <1>4, <2>3, FunctionAssumption
  <1>7. CASE requests[k] # None
    <2>1. requests[k].body = run.want[k]
      BY <1>2, <1>3, <1>7 DEF RequestsFed
    <2>2. requests'[k].body = requests[k].body /\ requests'[k].status = requests[k].status
      BY <1>5, <1>7, <2>1
    <2>3. requests'[k] # None
      BY <1>5, <1>6
    <2>4. ReallySucceeded(k)' <=> ReallySucceeded(k)
      BY <1>7, <2>2, <2>3 DEF ReallySucceeded
    <2>5. RequestOf(k)' = RequestOf(k)
      BY <1>7, <2>2, <2>3, <2>4, Zenon DEF RequestOf
    <2>6. Requested' = Requested
      BY <1>5, <2>5, OneRequest DEF Requested
    <2>7. QED
      BY <2>6
  <1>8. CASE requests[k] = None
    <2>1. RequestOf(k)' = [with |-> run.want[k], answer |-> "none"]
      <3>1. ~Answered(NoStatus)
        BY DEF Answered, NoStatus
      <3>2. requests'[k] # None /\ requests'[k].body = run.want[k]
            /\ requests'[k].status = NoStatus
        BY <1>5, <1>6, <1>8
      <3>3. NoStatus.code \notin 200..299
        BY DEF NoStatus
      <3>4. ~ReallySucceeded(k)'
        BY <3>2, <3>3, Zenon DEF ReallySucceeded
      <3>5. QED
        BY <3>1, <3>2, <3>4, Zenon DEF RequestOf
    <2>2. RequestOf(k).answer = "unrequested"
      BY <1>8 DEF RequestOf
    <2>3. ASSUME NEW j \in DOMAIN tasks[i].inputFrom
          PROVE  LET s == tasks[i].inputFrom[j].sourceTask
                 IN  /\ s \in Names
                     /\ RequestOf(s).answer = observed[s].status.body
                     /\ observed[s].status.body \in Objects
      <3> DEFINE s == tasks[i].inputFrom[j].sourceTask
      <3>1. observed[s] # None /\ taskStatusFromObserved(observed[s].status) = "Succeeded"
        BY <1>3 DEF Fed
      <3>2. s \in Names /\ s \in Keys
        BY TaskTypes, TypeFacts DEF Keys
      <3>3. observed[s].status \in Status
        BY <3>1, <3>2, TypeFacts DEF IsRequestMap, Request
      <3>4. /\ observed[s].status.error = "" /\ observed[s].status.code \in 200..299
            /\ observed[s].status.synced # "false" /\ observed[s].status.body \in Objects
            /\ Answered(observed[s].status)
        BY <3>1, <3>3, SucceededMeans
      <3>5. requests[s] # None /\ requests[s].status = observed[s].status
        BY <3>1, <3>2, <3>4 DEF ObservedIsOld
      <3>6. ReallySucceeded(s)
        BY <3>4, <3>5 DEF ReallySucceeded
      <3>7. QED
        BY <3>2, <3>4, <3>5, <3>6, Shown
    <2>4. run.want[k] = [j \in DOMAIN tasks[i].inputFrom |->
                            Requested[tasks[i].inputFrom[j].sourceTask].answer]
      BY <1>3, <2>3 DEF requestBody, outputs, Requested
    <2>5. Requested' = [Requested EXCEPT ![k] = [with |-> run.want[k], answer |-> "none"]]
      BY <1>5, <2>1, OneRequest
    <2>6. Promise!Request(i)
      BY <1>1, <1>2, <2>2, <2>3, <2>4, <2>5
        DEF Promise!Request, Promise!Ready, Promise!source, Requested
    <2>7. QED
      BY <2>6
  <1>9. QED
    BY <1>7, <1>8

(* provider-http writes a status. *)
LEMMA RespondStep ==
    ASSUME TypeInv, NEW k \in Keys, NEW s \in Answers, Respond(k, s)
    PROVE  \/ Requested' = Requested
           \/ k \in Names /\ Promise!Answer(k)
  <1> DEFINE r == [requests[k] EXCEPT !.status = s]
  <1>1. requests[k] # None /\ ~Answered(requests[k].status)
        /\ requests' = [requests EXCEPT ![k] = r] /\ UNCHANGED tasks
    BY DEF Respond
  <1>2. requests'[k] = r /\ \A l \in Keys : l # k => requests'[l] = requests[l]
    BY <1>1, RequestsUpdated
  <1>3. CASE k \notin Names
    BY <1>2, <1>3, SameRequests DEF Keys
  <1>4. CASE k \in Names
    <2>1. requests[k] \in Request(k)
      BY <1>1, TypeFacts DEF IsRequestMap
    <2>2. r \in Request(k) /\ r.body = requests[k].body /\ r.status = s
      BY <2>1, CompositionAssumption DEF Request
    <2>3. requests'[k] # None /\ requests'[k].body = requests[k].body
      BY <1>2, <2>2, FunctionAssumption
    <2>4. RequestOf(k).answer = "none" /\ RequestOf(k).with = requests[k].body
      BY <1>1, Shown
    <2>5. RequestOf(k)' = [with |-> requests[k].body, answer |-> RequestOf(k)'.answer]
      BY <2>3 DEF RequestOf
    <2>6. RequestOf(k)'.answer \in Objects \cup {"failed", "none"}
      BY <2>3 DEF RequestOf, ReallySucceeded
    <2>7. Requested' = [Requested EXCEPT ![k] = RequestOf(k)']
      BY <1>2, <1>4, OneRequest DEF Keys
    <2>8. Requested[k] = RequestOf(k) /\ Requested'[k] = RequestOf(k)'
      BY <1>4 DEF Requested
    <2>9. RequestOf(k) = [with |-> requests[k].body, answer |-> "none"]
      BY <1>1, <2>4, Shown
    <2>10. CASE RequestOf(k)'.answer = "none"
      <3>1. Requested' = Requested
        BY <2>5, <2>7, <2>8, <2>9, <2>10 DEF Requested
      <3>2. QED
        BY <3>1
    <2>11. CASE RequestOf(k)'.answer # "none"
      <3>1. Requested'[k].answer \in Objects \cup {"failed"}
        BY <2>6, <2>8, <2>11
      <3>2. Requested' = [Requested EXCEPT ![k].answer = Requested'[k].answer]
        <4> DEFINE a == RequestOf(k)'.answer
        <4>1. [Requested[k] EXCEPT !.answer = a] = RequestOf(k)'
          BY <2>5, <2>8, <2>9
        <4>2. [Requested EXCEPT ![k].answer = a]
                 = [Requested EXCEPT ![k] = [Requested[k] EXCEPT !.answer = a]]
          BY Zenon
        <4>3. QED
          BY <2>7, <2>8, <4>1, <4>2, Zenon
      <3>3. Promise!Answer(k)
        BY <1>1, <2>4, <2>8, <3>1, <3>2, Zenon DEF Promise!Answer, Requested
      <3>4. QED
        BY <1>4, <3>3
    <2>12. QED
      BY <2>10, <2>11
  <1>5. QED
    BY <1>3, <1>4

(* The user appends a task. *)
LEMMA AppendTaskStep ==
    ASSUME TypeInv, NEW t \in Additions, AppendTask(t)
    PROVE  Promise!Add
  <1>1. tasks' = Append(tasks, t) /\ requests' = requests /\ t \in Task
        /\ \A i \in DOMAIN tasks : tasks[i].name # t.name
    BY CompositionAssumption DEF AppendTask
  <1>2. Len(tasks') = Len(tasks) + 1 /\ \A i \in DOMAIN tasks : tasks'[i] = tasks[i]
    BY <1>1, TypeFacts
  <1>3. Requested' = Requested
    BY <1>1, SameRequests
  <1>4. QED
    BY <1>2, <1>3 DEF Promise!Add, Requested

(* Every step of Composition is one of TaskRunner, or none. *)
LEMMA NextStep ==
    ASSUME SourceInv, losses = 0, losses' = 0, [Next]_vars
    PROVE  [Promise!Next]_<<tasks, Requested>>
  <1>1. TypeInv /\ Core
    BY DEF SourceInv
  <1>2. ASSUME NEW k \in Keys, Collect(k)
        PROVE  UNCHANGED <<tasks, Requested>>
    BY <1>1, <1>2, CollectCore, SameRequests DEF Collect
  <1>3. ASSUME NEW k \in Keys, Apply(k)
        PROVE  [Promise!Next]_<<tasks, Requested>>
    <2>1. UNCHANGED tasks
      BY <1>3 DEF Apply
    <2>2. CASE k \in Names
      BY <1>1, <1>3, <2>1, <2>2, ApplyStep DEF Promise!Next
    <2>3. CASE k \notin Names
      <3>1. \A n \in Names : requests'[n] = requests[n]
        BY <1>1, <1>3, <2>3, RequestsUpdated DEF Apply, Keys
      <3>2. QED
        BY <2>1, <3>1, SameRequests
    <2>4. QED
      BY <2>2, <2>3
  <1>4. ASSUME NEW k \in Keys, NEW s \in Answers, Respond(k, s)
        PROVE  [Promise!Next]_<<tasks, Requested>>
    <2>1. UNCHANGED tasks
      BY <1>4 DEF Respond
    <2>2. QED
      BY <1>1, <1>4, <2>1, RespondStep DEF Promise!Next
  <1>5. ASSUME NEW t \in Additions, AppendTask(t)
        PROVE  Promise!Next
    BY <1>1, <1>5, AppendTaskStep DEF Promise!Next
  <1>6. ASSUME NEW k \in Keys, LoseRequest(k)
        PROVE  FALSE
    BY <1>6 DEF LoseRequest
  <1>7. ASSUME \/ \E k \in Keys : Observe(k)
               \/ Call \/ LoopStep \/ Return \/ UpdateStatus \/ EndReconcile \/ Abandon
               \/ UNCHANGED vars
        PROVE  UNCHANGED <<tasks, Requested>>
    <2>1. UNCHANGED tasks /\ requests' = requests
      BY <1>7 DEF Observe, Call, LoopStep, Return, UpdateStatus, EndReconcile, Abandon, vars
    <2>2. QED
      BY <2>1, SameRequests
  <1>8. QED
    BY <1>2, <1>3, <1>4, <1>5, <1>6, <1>7 DEF Next

(* Composition starts where TaskRunner does. *)
LEMMA InitStep == Init => Promise!Init
  <1>1. SUFFICES ASSUME Init PROVE Promise!Init
    OBVIOUS
  <1>2. \A n \in Names : RequestOf(n) = [with |-> <<>>, answer |-> "unrequested"]
    BY <1>1 DEF Init, Nothing, Keys, RequestOf
  <1>3. WellFormed(tasks)
    BY <1>1, CompositionAssumption DEF Init
  <1>4. QED
    BY <1>2, <1>3 DEF Promise!Init, WellFormed

(***************************************************************************)
(* Whatever the lists of flat tasks, answers and interleavings of          *)
(* reconciles with answers and appended tasks: if nobody deletes requests  *)
(* by hand, each task is requested at most once, with the final answers of *)
(* its sources, and later calls rebuild the request as it was (line 134).  *)
(***************************************************************************)
THEOREM RunsTasks == MaxLosses = 0 => (Spec => ImplementsTaskRunner)
  <1>1. SUFFICES ASSUME MaxLosses = 0 PROVE Spec => ImplementsTaskRunner
    OBVIOUS
  <1> DEFINE NoLosses == losses = 0
  <1>2. Init => NoLosses
    BY DEF Init
  <1>3. NoLosses /\ [Next]_vars => NoLosses'
    BY <1>1 DEF Next, vars, Observe, Collect, Apply, Respond, AppendTask, Call, LoopStep,
                Return, UpdateStatus, EndReconcile, Abandon, LoseRequest
  <1>4. SourceInv /\ NoLosses /\ NoLosses' /\ [Next]_vars
           => [Promise!Next]_<<tasks, Requested>>
    BY NextStep
  <1> HIDE DEF NoLosses
  <1>5. Spec => [][Promise!Next]_<<tasks, Requested>>
    BY <1>2, <1>3, <1>4, SourceInvariant, PTL DEF Spec
  <1>6. QED
    BY <1>5, InitStep, PTL DEF Spec, ImplementsTaskRunner, Promise!Spec, Requested

(***************************************************************************)
(* A flat task's request (fn.go:116-141) keeps its body in every later     *)
(* call, and once it has its final answer nothing about it changes: what   *)
(* TaskRunner says of a task, after the step and before.  Of tasks that    *)
(* are not flat JsonPath's counterexample says the opposite.               *)
(***************************************************************************)
Stands(n) ==
    /\ Requested[n].answer # "unrequested" => Requested[n].with' = Requested[n].with
    /\ Requested[n].answer \notin {"unrequested", "none"} => Requested[n]' = Requested[n]

THEOREM RequestsStand == MaxLosses = 0 => (Spec => [][\A n \in Names : Stands(n)]_vars)
  <1>1. ASSUME [Promise!Next]_<<tasks, Requested>>, NEW n \in Names
        PROVE  Stands(n)
    <2>1. CASE Promise!Add \/ UNCHANGED <<tasks, Requested>>
      <3>1. Requested' = Requested
        BY <2>1 DEF Promise!Add, Requested
      <3>2. QED
        BY <3>1 DEF Stands
    <2>2. ASSUME NEW i \in DOMAIN tasks, Promise!Request(i)
          PROVE  Stands(n)
      <3>1. PICK r : Requested' = [Requested EXCEPT ![tasks[i].name] = r]
        BY <2>2 DEF Promise!Request, Requested
      <3>2. Requested[tasks[i].name].answer = "unrequested"
        BY <2>2 DEF Promise!Request, Requested
      <3>3. n # tasks[i].name => Requested'[n] = Requested[n]
        BY <3>1 DEF Requested
      <3>4. QED
        BY <3>2, <3>3 DEF Stands
    <2>3. ASSUME NEW m \in Names, Promise!Answer(m)
          PROVE  Stands(n)
      <3>1. PICK a : Requested' = [Requested EXCEPT ![m].answer = a]
        BY <2>3 DEF Promise!Answer, Requested
      <3>2. Requested[m].answer = "none"
        BY <2>3 DEF Promise!Answer, Requested
      <3>3. n # m => Requested'[n] = Requested[n]
        BY <3>1 DEF Requested
      <3>4. Requested'[m].with = Requested[m].with
        <4>1. Requested[m] = RequestOf(m) /\ DOMAIN Requested = Names
          BY DEF Requested
        <4>2. "with" \in DOMAIN RequestOf(m)
          BY DEF RequestOf
        <4>3. QED
          BY <3>1, <4>1, <4>2
      <3>5. QED
        BY <3>2, <3>3, <3>4 DEF Stands
    <2>4. QED
      BY <1>1, <2>1, <2>2, <2>3 DEF Promise!Next
  <1>2. SUFFICES ASSUME MaxLosses = 0
                 PROVE  Spec => [][\A n \in Names : Stands(n)]_vars
    OBVIOUS
  <1>3. ImplementsTaskRunner => [][Promise!Next]_<<tasks, Requested>>
    BY PTL DEF ImplementsTaskRunner, Promise!Spec, Requested
  <1>4. Spec => [][Promise!Next]_<<tasks, Requested>>
    BY <1>2, <1>3, RunsTasks, PTL
  <1>5. [Promise!Next]_<<tasks, Requested>> => \A n \in Names : Stands(n)
    BY <1>1
  <1>6. QED
    BY <1>4, <1>5, PTL
=============================================================================

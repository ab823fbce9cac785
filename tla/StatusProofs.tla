----------------------------- MODULE StatusProofs -----------------------------
(***************************************************************************)
(* What Composition guarantees of the reported status and of the webhook,  *)
(* for every set of names, fields, objects and answers, every set of       *)
(* well-formed workflows of flat tasks and every bound: SuccessTruthful,   *)
(* FailureTruthful, StatusMonotone, PostsTruthful and PostsBounded.        *)
(*                                                                         *)
(* All five rest on one observation.  A phase, once given to a task, has   *)
(* a ground in what Crossplane has observed (Backed); grounds are never    *)
(* lost while nobody deletes requests by hand, and the loop of a later     *)
(* call decides the same on the same ground (RunRepeats).                  *)
(***************************************************************************)
EXTENDS CompositionProofs

(* The sources of task i come before it and were observed to have answered ... *)
Answering(i) ==
    \A k \in DOMAIN tasks[i].inputFrom :
        LET src == tasks[i].inputFrom[k].sourceTask
        IN  /\ \E j \in 1..(i-1) : tasks[j].name = src
            /\ observed[src] # None
            /\ taskStatusFromObserved(observed[src].status) = "Succeeded"

(* ... but an answer has not the field task i needs: it is never requested. *)
Doomed(i) ==
    /\ Answering(i)
    /\ \E k \in DOMAIN tasks[i].inputFrom :
          tasks[i].inputFrom[k].sourceField \notin
              FieldsOf[observed[tasks[i].inputFrom[k].sourceTask].status.body]

(* Task i has been observed, with a status of phase p. *)
SeenAs(i, p) ==
    /\ observed[tasks[i].name] # None
    /\ taskStatusFromObserved(observed[tasks[i].name].status) = p

(* Task i takes input from a task that failed according to ph. *)
SourceFailed(ph, i) ==
    \E k \in DOMAIN tasks[i].inputFrom, j \in 1..(i-1) :
        tasks[j].name = tasks[i].inputFrom[k].sourceTask /\ ph[j] = "Failed"

(* Every phase of ph has a ground in what Crossplane has observed. *)
Backed(ph) ==
    \A i \in DOMAIN ph :
        /\ ph[i] = "Running" => observed[tasks[i].name] # None
        /\ ph[i] = "Succeeded" => SeenAs(i, "Succeeded")
        /\ ph[i] = "Failed" => SeenAs(i, "Failed") \/ Doomed(i)
        /\ ph[i] = "Skipped" => SourceFailed(ph, i)

(* The number of tasks in the current call, or in the next one. *)
Calling == IF run.stage = "idle" THEN Len(tasks) ELSE run.n

(* ph was reported by this call or an earlier one, with good reason. *)
Told(ph) == Len(ph) <= Calling /\ Backed(ph)

(* The phases the loop gives have a ground, and a ground decides the phase. *)
RunBacked == run.stage # "idle" => Backed(run.ph)
RunRepeats ==
    run.stage # "idle" =>
    \A i \in DOMAIN run.ph :
        /\ Doomed(i) => run.ph[i] = "Failed"
        /\ SourceFailed(run.ph, i) => run.ph[i] = "Skipped"

(* What was reported and sent, or is about to be, has a ground. *)
StatusTold == Told(xr.tasks)
WebhookTold == requests[NotifyKey] # None => Told(requests[NotifyKey].body.tasks)
PostsTold == \A p \in DOMAIN posted : Told(posted[p].tasks)

(***************************************************************************)
(* What holds even if requests are deleted by hand: provider-http wrote    *)
(* the statuses there are ...                                              *)
(***************************************************************************)
Written(s) == s \in Answers \cup {NoStatus}

StatusesWritten ==
    \A k \in Keys : /\ requests[k] # None => Written(requests[k].status)
                    /\ observed[k] # None => Written(observed[k].status)

(* ... a call looks at all its tasks, and decides on the webhook last ... *)
CallShaped ==
    /\ run.stage # "idle" => Len(tasks) <= run.n + edits
    /\ run.stage = "loop" => run.want[NotifyKey] = None
    /\ run.stage = "apply" =>
          /\ Len(run.ph) = run.n
          /\ run.want[NotifyKey] = IF notifyDesired(run.ph, notifyURL)
                                   THEN notifyBody(run.ph) ELSE None

(* ... so a payload tells an outcome, the one of the tasks it lists ... *)
Outcome(payload) ==
    /\ notifyURL
    /\ payload.phase \in Terminal /\ payload.phase = workflowPhase(payload.tasks)

OutcomesTold ==
    /\ requests[NotifyKey] # None => Outcome(requests[NotifyKey].body)
    /\ \A p \in DOMAIN posted : Outcome(posted[p])

(* ... and so does the reported phase. *)
PhaseTold == xr.phase # "" => xr.phase = workflowPhase(xr.tasks)

Shapes == StatusesWritten /\ CallShaped /\ OutcomesTold /\ PhaseTold

(***************************************************************************)
(* The count of webhook calls: the p-th payload lists at least p-1 tasks   *)
(* more than the Workflow was created with.  Another(len): a payload that  *)
(* lists len tasks may be sent on top of those sent.                       *)
(***************************************************************************)
Another(len) == Len(posted) + Len(tasks) <= len + edits

PostsCounted ==
    \A p \in DOMAIN posted : p + Len(tasks) <= Len(posted[p].tasks) + edits + 1
UnsentCounted ==
    /\ requests[NotifyKey] = None => Another(Calling)
    /\ requests[NotifyKey] # None /\ requests[NotifyKey].status = NoStatus =>
          Another(Len(requests[NotifyKey].body.tasks))

Report == /\ RunBacked /\ RunRepeats /\ StatusTold /\ WebhookTold /\ PostsTold
          /\ PostsCounted /\ UnsentCounted

ReportInv == SourceInv /\ Shapes /\ (losses = 0 => Report)

-----------------------------------------------------------------------------
(* A failure reported of a request is final. *)
LEMMA FailedMeans ==
    ASSUME NEW s, Written(s), taskStatusFromObserved(s) = "Failed"
    PROVE  Answered(s)
  <1>1. CASE s = NoStatus
    BY <1>1 DEF NoStatus, taskStatusFromObserved
  <1>2. CASE s \in Answers
    <2>1. s \in Status /\ (s.error # "" \/ s.code # 0)
      BY <1>2, CompositionAssumption
    <2>2. CASE s.error # ""
      BY <2>2 DEF Answered
    <2>3. CASE s.error = "" /\ s.code # 0
      <3>1. s.code \in Nat
        BY <2>1 DEF Status
      <3>2. s.code \in 200..299 => ~(s.code < 200 \/ s.code >= 300)
        BY <3>1
      <3>3. s.code \notin 200..299 \/ s.synced # "false"
        BY <2>3, <3>2, Zenon DEF taskStatusFromObserved
      <3>4. QED
        BY <2>3, <3>3, Zenon DEF Answered
    <2>4. QED
      BY <2>1, <2>2, <2>3
  <1>3. QED
    BY <1>1, <1>2 DEF Written

(* A request whose status is not called Succeeded has not really succeeded. *)
LEMMA ReallyMeans ==
    ASSUME TypeInv, NEW n \in Names, requests[n] # None
    PROVE  ReallySucceeded(n) <=> taskStatusFromObserved(requests[n].status) = "Succeeded"
  <1> DEFINE s == requests[n].status
  <1>1. s \in Status
    BY TypeFacts DEF IsRequestMap, Request, Keys
  <1>2. s.code \in Nat
    BY <1>1 DEF Status
  <1>3. taskStatusFromObserved(s) = "Succeeded" => ReallySucceeded(n)
    BY <1>1, SucceededMeans DEF ReallySucceeded
  <1>4. ReallySucceeded(n) => taskStatusFromObserved(s) = "Succeeded"
    <2> HAVE ReallySucceeded(n)
    <2>1. s.error = "" /\ s.synced # "false" /\ s.body \in Objects
      BY DEF ReallySucceeded
    <2>2. s.code \in 200..299
      BY DEF ReallySucceeded
    <2>3. s.code # 0 /\ ~(s.code < 200) /\ ~(s.code >= 300)
      BY <1>2, <2>2
    <2>4. QED
      BY <2>1, <2>3, Zenon DEF taskStatusFromObserved
  <1>5. QED
    BY <1>3, <1>4

(***************************************************************************)
(* What a step without a manual deletion keeps: the tasks there are, what  *)
(* was observed to exist, and every final answer that was observed.        *)
(***************************************************************************)
Kept == /\ DOMAIN tasks \subseteq DOMAIN tasks' /\ Len(tasks) <= Len(tasks')
        /\ \A i \in DOMAIN tasks : tasks'[i] = tasks[i]
        /\ \A n \in Names : observed[n] # None =>
              /\ observed'[n] # None
              /\ Answered(observed[n].status) => observed'[n].status = observed[n].status

LEMMA NextKeeps ==
    ASSUME TypeInv, ObservedIsOld, [Next]_vars, \A k \in Keys : ~LoseRequest(k)
    PROVE  Kept
  <1>0. tasks \in Seq(Task) /\ DOMAIN tasks = 1..Len(tasks) /\ Len(tasks) \in Nat
    BY TypeFacts
  <1>1. ASSUME NEW k \in Keys, Observe(k) PROVE Kept
    <2>1. observed'[k] = requests[k] /\ \A l \in Keys : l # k => observed'[l] = observed[l]
      <3>1. observed = [l \in Keys |-> observed[l]]
        BY TypeFacts DEF IsRequestMap
      <3>2. QED
        BY <1>1, <3>1 DEF Observe
    <2>2. tasks' = tasks
      BY <1>1 DEF Observe
    <2>3. QED
      BY <1>0, <2>1, <2>2 DEF Kept, ObservedIsOld, Keys
  <1>2. ASSUME NEW t \in Additions, AppendTask(t) PROVE Kept
    <2>1. tasks' = Append(tasks, t) /\ observed' = observed /\ t \in Task
      BY <1>2, CompositionAssumption DEF AppendTask
    <2>2. Len(tasks') = Len(tasks) + 1 /\ \A i \in DOMAIN tasks : tasks'[i] = tasks[i]
      BY <1>0, <2>1
    <2>3. DOMAIN tasks' = 1..(Len(tasks) + 1)
      BY <1>0, <2>1
    <2>4. QED
      BY <1>0, <2>1, <2>2, <2>3 DEF Kept
  <1>3. CASE UNCHANGED <<tasks, observed>>
    BY <1>0, <1>3 DEF Kept
  <1>4. QED
    <2>1. \A k \in Keys : Collect(k) \/ Apply(k) => UNCHANGED <<tasks, observed>>
      BY DEF Collect, Apply
    <2>2. \A k \in Keys, s \in Answers : Respond(k, s) => UNCHANGED <<tasks, observed>>
      BY DEF Respond
    <2>3. Call \/ LoopStep \/ Return \/ UpdateStatus \/ EndReconcile \/ Abandon \/ UNCHANGED vars
            => UNCHANGED <<tasks, observed>>
      BY DEF Call, LoopStep, Return, UpdateStatus, EndReconcile, Abandon, vars
    <2>4. QED
      BY <1>1, <1>2, <1>3, <2>1, <2>2, <2>3, Zenon DEF Next

(* A task seen with a final phase has a final answer. *)
LEMMA SeenIsFinal ==
    ASSUME TypeInv, Shapes, NEW i \in DOMAIN tasks, NEW p \in Terminal, SeenAs(i, p)
    PROVE  /\ tasks[i].name \in Names
           /\ observed[tasks[i].name] # None
           /\ taskStatusFromObserved(observed[tasks[i].name].status) = p
           /\ Answered(observed[tasks[i].name].status)
  <1> DEFINE n == tasks[i].name
  <1>1. n \in Names /\ n \in Keys
    BY TypeFacts DEF Keys
  <1>2. observed[n] # None /\ taskStatusFromObserved(observed[n].status) = p
    BY DEF SeenAs
  <1>3. CASE p = "Succeeded"
    <2>1. observed[n].status \in Status
      BY <1>1, <1>2, TypeFacts DEF IsRequestMap, Request
    <2>2. QED
      BY <1>1, <1>2, <1>3, <2>1, SucceededMeans
  <1>4. CASE p = "Failed"
    <2>1. Written(observed[n].status)
      BY <1>1, <1>2 DEF Shapes, StatusesWritten
    <2>2. QED
      BY <1>1, <1>2, <1>4, <2>1, FailedMeans
  <1>5. QED
    BY <1>3, <1>4 DEF Terminal

(* A final phase seen of a task's request is seen again. *)
LEMMA SeenKept ==
    ASSUME TypeInv, Shapes, Kept, NEW i \in DOMAIN tasks, NEW p \in Terminal, SeenAs(i, p)
    PROVE  SeenAs(i, p)'
  BY SeenIsFinal DEF Kept, SeenAs

(* A task that cannot be requested never can be. *)
LEMMA DoomedKept ==
    ASSUME TypeInv, Shapes, Kept, NEW i \in DOMAIN tasks, Doomed(i)
    PROVE  Doomed(i)'
  <1>1. tasks'[i] = tasks[i] /\ \A j \in 1..(i-1) : tasks'[j] = tasks[j]
    BY TypeFacts DEF Kept
  <1>2. ASSUME NEW k \in DOMAIN tasks[i].inputFrom
        PROVE  LET src == tasks[i].inputFrom[k].sourceTask
               IN  observed'[src] # None /\ observed'[src].status = observed[src].status
    <2> DEFINE src == tasks[i].inputFrom[k].sourceTask
    <2>1. observed[src] # None /\ taskStatusFromObserved(observed[src].status) = "Succeeded"
      BY DEF Doomed, Answering
    <2>2. src \in Names /\ src \in Keys
      BY TaskTypes, TypeFacts DEF Keys
    <2>3. observed[src].status \in Status
      BY <2>1, <2>2, TypeFacts DEF IsRequestMap, Request
    <2>4. Answered(observed[src].status)
      BY <2>1, <2>3, SucceededMeans
    <2>5. QED
      BY <2>1, <2>2, <2>4 DEF Kept
  <1>3. Answering(i)'
    BY <1>1, <1>2 DEF Doomed, Answering
  <1>4. QED
    BY <1>1, <1>2, <1>3 DEF Doomed

(* Grounds are never lost. *)
LEMMA BackedKept ==
    ASSUME TypeInv, Shapes, Kept, NEW ph, DOMAIN ph \subseteq DOMAIN tasks, Backed(ph)
    PROVE  Backed(ph)'
  <1> SUFFICES ASSUME NEW i \in DOMAIN ph
               PROVE  /\ ph[i] = "Running" => observed'[tasks'[i].name] # None
                      /\ ph[i] = "Succeeded" => SeenAs(i, "Succeeded")'
                      /\ ph[i] = "Failed" => SeenAs(i, "Failed")' \/ Doomed(i)'
                      /\ ph[i] = "Skipped" => SourceFailed(ph, i)'
    BY DEF Backed
  <1>1. i \in DOMAIN tasks /\ tasks[i].name \in Names /\ tasks'[i] = tasks[i]
    BY TypeFacts DEF Kept
  <1>2. ph[i] = "Running" => observed'[tasks'[i].name] # None
    BY <1>1 DEF Backed, Kept
  <1>3. ph[i] = "Succeeded" => SeenAs(i, "Succeeded")'
    BY <1>1, SeenKept DEF Backed, Terminal
  <1>4. ph[i] = "Failed" => SeenAs(i, "Failed")' \/ Doomed(i)'
    <2> HAVE ph[i] = "Failed"
    <2>1. CASE SeenAs(i, "Failed")
      BY <1>1, <2>1, SeenKept DEF Terminal
    <2>2. CASE Doomed(i)
      BY <1>1, <2>2, DoomedKept
    <2>3. QED
      BY <2>1, <2>2 DEF Backed
  <1>5. ph[i] = "Skipped" => SourceFailed(ph, i)'
    <2>1. \A j \in 1..(i-1) : tasks'[j] = tasks[j]
      BY <1>1, TypeFacts DEF Kept
    <2>2. QED
      BY <1>1, <2>1 DEF Backed, SourceFailed
  <1>6. QED
    BY <1>2, <1>3, <1>4, <1>5

(* A later call moves a phase only forward. *)
LEMMA PhasesForward ==
    ASSUME TypeInv, LoopExact, RunRepeats, run.stage # "idle",
           NEW ph \in Seq(Phases), Backed(ph), NEW i \in DOMAIN ph, i \in DOMAIN run.ph
    PROVE  run.ph[i] \in Later(ph[i])
  <1>1. /\ ph[i] \in Phases /\ run.ph[i] \in Phases
        /\ i \in 1..Len(run.ph) /\ Len(run.ph) \in Nat
    BY TypeFacts
  <1>2. ASSUME NEW j \in DOMAIN run.ph, j \in DOMAIN ph, ph[j] = "Failed"
        PROVE  run.ph[j] = "Failed"
    BY <1>2 DEF Backed, SeenAs, LoopExact, RunRepeats
  <1>3. CASE ph[i] = "Pending"
    BY <1>1, <1>3 DEF Later
  <1>4. CASE ph[i] = "Running"
    <2>1. observed[tasks[i].name] # None
      BY <1>4 DEF Backed
    <2>2. run.ph[i] = taskStatusFromObserved(observed[tasks[i].name].status)
      BY <2>1 DEF LoopExact
    <2>3. run.ph[i] \in {"Running", "Succeeded", "Failed"}
      BY <2>2 DEF taskStatusFromObserved
    <2>4. QED
      BY <1>4, <2>3 DEF Later
  <1>5. CASE ph[i] = "Succeeded"
    BY <1>5 DEF Backed, SeenAs, LoopExact, Later
  <1>6. CASE ph[i] = "Failed"
    BY <1>2, <1>6 DEF Later
  <1>7. CASE ph[i] = "Skipped"
    <2>1. PICK k \in DOMAIN tasks[i].inputFrom, j \in 1..(i-1) :
              tasks[j].name = tasks[i].inputFrom[k].sourceTask /\ ph[j] = "Failed"
      BY <1>7 DEF Backed, SourceFailed
    <2>2. j \in DOMAIN ph /\ j \in DOMAIN run.ph
      BY <1>1, TypeFacts
    <2>3. run.ph[j] = "Failed"
      BY <1>2, <2>1, <2>2
    <2>4. SourceFailed(run.ph, i)
      BY <2>1, <2>3 DEF SourceFailed
    <2>5. QED
      BY <1>7, <2>4 DEF RunRepeats, Later
  <1>8. QED
    BY <1>1, <1>3, <1>4, <1>5, <1>6, <1>7 DEF Phases

(* A task that cannot be requested has no request. *)
LEMMA DoomedUnrequested ==
    ASSUME RequestsFed, NEW i \in DOMAIN tasks, Doomed(i)
    PROVE  requests[tasks[i].name] = None /\ tasks[i].inputFrom # <<>>
  BY DEF RequestsFed, Fed, Doomed

-----------------------------------------------------------------------------
(* The phase an iteration gives has a ground, and a ground decides it. *)
LEMMA PhaseGround ==
    ASSUME TypeInv, Core, run.stage = "loop", NEW i \in DOMAIN tasks, i = Len(run.ph) + 1,
           NEW p, p = taskPhase(tasks, observed, run.ph, i)
    PROVE  /\ p = "Running" => observed[tasks[i].name] # None
           /\ p = "Succeeded" => SeenAs(i, "Succeeded")
           /\ p = "Failed" => SeenAs(i, "Failed") \/ Doomed(i)
           /\ p = "Skipped" <=> SourceFailed(run.ph, i)
           /\ Doomed(i) => p = "Failed"
  <1>0. DOMAIN run.ph = 1..(i-1)
    BY TypeFacts
  <1>1. depFailed(tasks, run.ph, i) <=> SourceFailed(run.ph, i)
    BY <1>0 DEF depFailed, failedTasks, SourceFailed
  <1>2. \A s : taskStatusFromObserved(s) # "Skipped"
    BY DEF taskStatusFromObserved
  <1>3. p = "Skipped" <=> SourceFailed(run.ph, i)
    BY <1>1, <1>2, Zenon DEF taskPhase
  <1>4. p \in {"Running", "Succeeded"} => exists(tasks, observed, i)
                /\ p = taskStatusFromObserved(observed[tasks[i].name].status)
    BY DEF taskPhase
  <1>5. p = "Failed" => SeenAs(i, "Failed") \/ Doomed(i)
    <2> SUFFICES ASSUME p = "Failed", ~exists(tasks, observed, i) PROVE Doomed(i)
      <3>1. exists(tasks, observed, i) => p = taskStatusFromObserved(observed[tasks[i].name].status)
        BY LoopKeepsObserved DEF Core, exists
      <3>2. QED
        BY <3>1 DEF exists, SeenAs
    <2>1. depsReady(tasks, run.ph, i) /\ ~buildable(tasks, observed, run.ph, i)
      BY DEF taskPhase, attempted
    <2>2. ASSUME NEW k \in DOMAIN tasks[i].inputFrom
          PROVE  LET src == tasks[i].inputFrom[k].sourceTask
                 IN  /\ \E j \in 1..(i-1) : tasks[j].name = src
                     /\ observed[src] # None
                     /\ taskStatusFromObserved(observed[src].status) = "Succeeded"
      <3>1. PICK j \in DOMAIN run.ph : /\ tasks[j].name = tasks[i].inputFrom[k].sourceTask
                                       /\ run.ph[j] = "Succeeded"
        BY <2>1 DEF depsReady, hasOutput
      <3>2. QED
        BY <1>0, <3>1 DEF TypeInv, SuccessObserved
    <2>3. QED
      BY <2>1, <2>2 DEF Doomed, Answering, buildable, depsReady, outputs
  <1>6. Doomed(i) => p = "Failed"
    <2> HAVE Doomed(i)
    <2>1. ASSUME NEW k \in DOMAIN tasks[i].inputFrom
          PROVE  /\ hasOutput(tasks, run.ph, tasks[i].inputFrom[k].sourceTask)
                 /\ ~failedTasks(tasks, run.ph, tasks[i].inputFrom[k].sourceTask)
      <3> DEFINE src == tasks[i].inputFrom[k].sourceTask
      <3>1. PICK j \in 1..(i-1) : tasks[j].name = src
        BY DEF Doomed, Answering
      <3>2. observed[src] # None /\ taskStatusFromObserved(observed[src].status) = "Succeeded"
        BY DEF Doomed, Answering
      <3>3. j \in DOMAIN run.ph /\ run.ph[j] = "Succeeded"
        BY <1>0, <3>1, <3>2 DEF Core, LoopExact
      <3>4. \A l \in DOMAIN run.ph : tasks[l].name = src => l = j
        BY <3>1, <3>3, TypeFacts DEF WellFormed
      <3>5. QED
        BY <3>1, <3>3, <3>4 DEF hasOutput, failedTasks
    <2>2. ~depFailed(tasks, run.ph, i) /\ depsReady(tasks, run.ph, i)
      BY <2>1 DEF depFailed, depsReady
    <2>3. ~buildable(tasks, observed, run.ph, i)
      BY DEF Doomed, buildable, outputs
    <2>4. QED
      BY <2>2, <2>3 DEF taskPhase, attempted
  <1>7. QED
    BY <1>3, <1>4, <1>5, <1>6 DEF exists, SeenAs

(* One iteration keeps the phases grounded. *)
LEMMA LoopStepBacked ==
    ASSUME TypeInv, Core, RunBacked, RunRepeats, LoopStep
    PROVE  RunBacked' /\ RunRepeats'
  <1> DEFINE i == Len(run.ph) + 1
             p == taskPhase(tasks, observed, run.ph, i)
             ph == Append(run.ph, p)
  <1>1. /\ run.stage = "loop" /\ UNCHANGED <<tasks, observed>>
        /\ run'.stage = "loop" /\ run'.ph = ph
    BY TypeFacts DEF LoopStep, IsRun
  <1>2. i \in DOMAIN tasks
    BY TypeFacts DEF LoopStep, IsRun
  <1>3. /\ DOMAIN ph = 1..i /\ ph[i] = p /\ DOMAIN run.ph = 1..(i-1) /\ i \in Nat
        /\ \A j \in 1..(i-1) : ph[j] = run.ph[j]
    <2>1. p \in Phases
      BY PhaseTypes
    <2>2. QED
      BY <2>1, TypeFacts
  <1>4. /\ p = "Running" => observed[tasks[i].name] # None
        /\ p = "Succeeded" => SeenAs(i, "Succeeded")
        /\ p = "Failed" => SeenAs(i, "Failed") \/ Doomed(i)
        /\ p = "Skipped" <=> SourceFailed(run.ph, i)
        /\ Doomed(i) => p = "Failed"
    BY <1>1, <1>2, PhaseGround
  <1> HIDE DEF p, ph
  <1>5. \A j \in 1..i : SourceFailed(ph, j) <=> SourceFailed(run.ph, j)
    <2> TAKE j \in 1..i
    <2>1. \A l \in 1..(j-1) : ph[l] = run.ph[l]
      BY <1>3
    <2>2. QED
      BY <2>1, Zenon DEF SourceFailed
  <1>6. Backed(ph)
    <2> SUFFICES ASSUME NEW j \in 1..i
                 PROVE  /\ ph[j] = "Running" => observed[tasks[j].name] # None
                        /\ ph[j] = "Succeeded" => SeenAs(j, "Succeeded")
                        /\ ph[j] = "Failed" => SeenAs(j, "Failed") \/ Doomed(j)
                        /\ ph[j] = "Skipped" => SourceFailed(ph, j)
      BY <1>3 DEF Backed
    <2>1. CASE j = i
      BY <1>3, <1>4, <1>5, <2>1
    <2>2. CASE j # i
      <3>1. j \in 1..(i-1) /\ ph[j] = run.ph[j]
        BY <1>3, <2>2
      <3>2. QED
        BY <1>1, <1>3, <1>5, <3>1 DEF RunBacked, Backed
    <2>3. QED
      BY <2>1, <2>2
  <1>7. \A j \in 1..i : /\ Doomed(j) => ph[j] = "Failed"
                        /\ SourceFailed(ph, j) => ph[j] = "Skipped"
    <2> TAKE j \in 1..i
    <2>1. CASE j = i
      BY <1>3, <1>4, <1>5, <2>1
    <2>2. CASE j # i
      <3>1. j \in 1..(i-1) /\ ph[j] = run.ph[j]
        BY <1>3, <2>2
      <3>2. QED
        BY <1>1, <1>3, <1>5, <3>1 DEF RunRepeats
    <2>3. QED
      BY <2>1, <2>2
  <1>8. RunBacked'
    BY <1>1, <1>6 DEF RunBacked, Backed, SeenAs, Doomed, Answering, SourceFailed
  <1>9. RunRepeats'
    <2>1. \A j \in 1..i : /\ Doomed(j)' => Doomed(j)
                          /\ SourceFailed(run.ph, j)' => SourceFailed(ph, j)
      BY <1>1 DEF Doomed, Answering, SourceFailed
    <2>2. QED
      BY <1>1, <1>3, <1>7, <2>1 DEF RunRepeats
  <1>10. QED
    BY <1>8, <1>9

-----------------------------------------------------------------------------
(* What the steps do to the parts of Shapes. *)
LEMMA InitShapes == Init => Shapes
  <1> SUFFICES ASSUME Init PROVE Shapes
    OBVIOUS
  <1>1. /\ \A k \in Keys : requests[k] = None /\ observed[k] = None
        /\ NotifyKey \in Keys
    BY DEF Init, Nothing, Keys
  <1>2. run.stage = "idle"
    BY DEF Init, Idle
  <1>3. posted = <<>>
    BY DEF Init
  <1>4. StatusesWritten
    BY <1>1 DEF StatusesWritten
  <1>5. CallShaped
    BY <1>2 DEF CallShaped
  <1>6. OutcomesTold
    <2>1. DOMAIN posted = {}
      BY <1>3
    <2>2. QED
      BY <1>1, <2>1 DEF OutcomesTold
  <1>7. PhaseTold
    <2>1. xr.phase = ""
      BY DEF Init
    <2>2. QED
      BY <2>1 DEF PhaseTold
  <1>8. QED
    BY <1>4, <1>5, <1>6, <1>7 DEF Shapes

(* Every status still was written by provider-http. *)
LEMMA NextStatusesWritten ==
    ASSUME TypeInv, StatusesWritten, [Next]_vars
    PROVE  StatusesWritten'
  <1>1. ASSUME NEW k \in Keys, Observe(k) PROVE StatusesWritten'
    <2>1. observed = [l \in Keys |-> observed[l]]
      BY TypeFacts DEF IsRequestMap
    <2>2. QED
      BY <1>1, <2>1 DEF Observe, StatusesWritten
  <1>2. ASSUME NEW k \in Keys, NEW r, requests' = [requests EXCEPT ![k] = r],
               observed' = observed, r # None => Written(r.status)
        PROVE  StatusesWritten'
    BY <1>2, RequestsUpdated DEF StatusesWritten
  <1>3. ASSUME NEW k \in Keys, Collect(k) \/ LoseRequest(k) PROVE StatusesWritten'
    BY <1>2, <1>3 DEF Collect, LoseRequest
  <1>4. ASSUME NEW k \in Keys, Apply(k) PROVE StatusesWritten'
    <2> DEFINE st == IF requests[k] = None THEN NoStatus ELSE requests[k].status
               r  == [body |-> run.want[k], status |-> st]
    <2>1. Written(st)
      BY DEF StatusesWritten, Written
    <2>2. r.status = st
      OBVIOUS
    <2>3. requests' = [requests EXCEPT ![k] = r] /\ observed' = observed
      BY <1>4 DEF Apply
    <2> HIDE DEF st, r
    <2>4. QED
      BY <1>2, <2>1, <2>2, <2>3
  <1>5. ASSUME NEW k \in Keys, NEW s \in Answers, Respond(k, s) PROVE StatusesWritten'
    <2> DEFINE r == [requests[k] EXCEPT !.status = s]
    <2>1. requests[k] \in Request(k)
      BY <1>5, TypeFacts DEF Respond, IsRequestMap
    <2>2. Written(r.status)
      BY <2>1 DEF Request, Written
    <2>3. requests' = [requests EXCEPT ![k] = r] /\ observed' = observed
      BY <1>5 DEF Respond
    <2> HIDE DEF r
    <2>4. QED
      BY <1>2, <2>2, <2>3
  <1>6. CASE UNCHANGED <<requests, observed>>
    BY <1>6 DEF StatusesWritten
  <1>7. QED
    <2>1. \A t \in Additions : AppendTask(t) => UNCHANGED <<requests, observed>>
      BY DEF AppendTask
    <2>2. Call \/ LoopStep \/ Return \/ UpdateStatus \/ EndReconcile \/ Abandon \/ UNCHANGED vars
            => UNCHANGED <<requests, observed>>
      BY DEF Call, LoopStep, Return, UpdateStatus, EndReconcile, Abandon, vars
    <2>3. QED
      BY <1>1, <1>3, <1>4, <1>5, <1>6, <2>1, <2>2, Zenon DEF Next

(* Every call still looks at all its tasks. *)
LEMMA NextCallShaped ==
    ASSUME TypeInv, CallShaped, [Next]_vars
    PROVE  CallShaped'
  <1>0. /\ tasks \in Seq(Task) /\ Len(tasks) \in Nat /\ edits \in Nat
        /\ IsRun(run, Len(tasks)) /\ run.n \in Nat /\ run.n <= Len(tasks)
        /\ run.ph \in Seq(Phases) /\ Len(run.ph) <= run.n
        /\ IsBodyMap(run.want) /\ NotifyKey \in Keys
    <2>1. edits \in Nat
      BY DEF TypeInv, TypeOK
    <2>2. run.n \in 0..Len(tasks) /\ Len(run.ph) <= run.n /\ IsBodyMap(run.want)
      BY TypeFacts DEF IsRun
    <2>3. QED
      BY <2>1, <2>2, TypeFacts DEF Keys
  <1>1. ASSUME NEW k \in Keys, Observe(k) \/ LoseRequest(k) PROVE CallShaped'
    BY <1>1 DEF Observe, LoseRequest, CallShaped
  <1>2. ASSUME NEW k \in Keys, Collect(k) \/ Apply(k) PROVE CallShaped'
    <2>1. UNCHANGED <<tasks, notifyURL, edits>> /\ run' = [run EXCEPT !.todo = @ \ {k}]
      BY <1>2 DEF Collect, Apply
    <2>2. /\ run'.stage = run.stage /\ run'.n = run.n /\ run'.ph = run.ph
          /\ run'.want = run.want
      BY <1>0, <2>1 DEF IsRun
    <2>3. QED
      BY <2>1, <2>2 DEF CallShaped
  <1>3. ASSUME NEW k \in Keys, NEW s \in Answers, Respond(k, s) PROVE CallShaped'
    BY <1>3 DEF Respond, CallShaped
  <1>4. ASSUME NEW t \in Additions, AppendTask(t) PROVE CallShaped'
    <2>1. t \in Task /\ UNCHANGED <<notifyURL, run>>
          /\ tasks' = Append(tasks, t) /\ edits' = edits + 1
      BY <1>4, CompositionAssumption DEF AppendTask
    <2>2. Len(tasks') = Len(tasks) + 1
      BY <1>0, <2>1
    <2>3. Len(tasks) <= run.n + edits => Len(tasks') <= run.n + edits'
      BY <1>0, <2>1, <2>2
    <2>4. QED
      BY <2>1, <2>3 DEF CallShaped
  <1>5. CASE Call
    <2>1. /\ UNCHANGED <<tasks, edits>>
          /\ run'.stage = "loop" /\ run'.n = Len(tasks) /\ run'.want = Nothing
      BY <1>5 DEF Call, Idle
    <2>2. Nothing[NotifyKey] = None
      BY <1>0 DEF Nothing
    <2>3. Len(tasks) <= Len(tasks) + edits
      BY <1>0
    <2>4. QED
      BY <2>1, <2>2, <2>3 DEF CallShaped
  <1>6. CASE LoopStep
    <2> DEFINE i == Len(run.ph) + 1
               w == IF desires(tasks, observed, run.ph, i)
                    THEN [run.want EXCEPT ![tasks[i].name] = requestBody(tasks, observed, i)]
                    ELSE run.want
    <2>1. /\ UNCHANGED <<tasks, edits>> /\ run.stage = "loop"
          /\ run'.stage = "loop" /\ run'.n = run.n /\ run'.want = w
      BY <1>0, <1>6 DEF LoopStep, IsRun
    <2>2. tasks[i].name \in Names
      BY <1>0, <1>6, TypeFacts DEF LoopStep
    <2>3. w[NotifyKey] = run.want[NotifyKey]
      BY <1>0, <2>2, FunctionAssumption DEF IsBodyMap
    <2> HIDE DEF w
    <2>4. QED
      BY <2>1, <2>3 DEF CallShaped
  <1>7. CASE Return
    <2>1. /\ UNCHANGED <<tasks, notifyURL, edits>> /\ run.stage = "loop" /\ Len(run.ph) = run.n
          /\ run'.stage = "apply" /\ run'.n = run.n /\ run'.ph = run.ph /\ run'.want = Desired
      BY <1>0, <1>7 DEF Return, IsRun
    <2>2. Desired[NotifyKey] = IF notifyDesired(run.ph, notifyURL)
                               THEN notifyBody(run.ph) ELSE None
      BY <1>0, <2>1 DEF Desired, CallShaped, IsBodyMap
    <2>3. QED
      BY <2>1, <2>2 DEF CallShaped
  <1>8. CASE UpdateStatus
    <2>1. UNCHANGED <<tasks, notifyURL, edits>> /\ run' = [run EXCEPT !.reported = TRUE]
      BY <1>8 DEF UpdateStatus
    <2>2. /\ run'.stage = run.stage /\ run'.n = run.n /\ run'.ph = run.ph
          /\ run'.want = run.want
      BY <1>0, <2>1 DEF IsRun
    <2>3. QED
      BY <2>1, <2>2 DEF CallShaped
  <1>9. CASE EndReconcile \/ Abandon
    <2>1. run'.stage = "idle"
      BY <1>9 DEF EndReconcile, Abandon, Idle
    <2>2. QED
      BY <2>1 DEF CallShaped
  <1>10. CASE UNCHANGED vars
    BY <1>10 DEF vars, CallShaped
  <1>11. QED
    BY <1>1, <1>2, <1>3, <1>4, <1>5, <1>6, <1>7, <1>8, <1>9, <1>10, Zenon DEF Next

(* Every payload still tells an outcome. *)
LEMMA NextOutcomesTold ==
    ASSUME TypeInv, CallShaped, OutcomesTold, [Next]_vars
    PROVE  OutcomesTold'
  <1>1. ASSUME NEW k \in Keys, NEW r, requests' = [requests EXCEPT ![k] = r],
               UNCHANGED <<notifyURL, posted>>,
               k = NotifyKey /\ r # None => Outcome(r.body)
        PROVE  OutcomesTold'
    <2>1. NotifyKey \in Keys
      BY DEF Keys
    <2>2. requests'[NotifyKey] # None => Outcome(requests'[NotifyKey].body)
      BY <1>1, <2>1, RequestsUpdated DEF OutcomesTold
    <2>3. QED
      BY <1>1, <2>2 DEF OutcomesTold, Outcome
  <1>2. ASSUME NEW k \in Keys, Collect(k) \/ LoseRequest(k) PROVE OutcomesTold'
    BY <1>1, <1>2 DEF Collect, LoseRequest
  <1>3. ASSUME NEW k \in Keys, Apply(k) PROVE OutcomesTold'
    <2> DEFINE r == [body |-> run.want[k],
                     status |-> IF requests[k] = None THEN NoStatus ELSE requests[k].status]
    <2>1. /\ UNCHANGED <<notifyURL, posted>> /\ requests' = [requests EXCEPT ![k] = r]
          /\ run.stage = "apply" /\ run.want[k] # None
      BY <1>3 DEF Apply
    <2>2. r.body = run.want[k]
      OBVIOUS
    <2>3. k = NotifyKey => Outcome(run.want[k])
      BY <2>1 DEF CallShaped, notifyDesired, notifyBody, Outcome
    <2> HIDE DEF r
    <2>4. QED
      BY <1>1, <2>1, <2>2, <2>3
  <1>4. ASSUME NEW k \in Keys, NEW s \in Answers, Respond(k, s) PROVE OutcomesTold'
    <2> DEFINE r == [requests[k] EXCEPT !.status = s]
    <2>1. requests[k] \in Request(k) /\ requests[k] # None
      BY <1>4, TypeFacts DEF Respond, IsRequestMap
    <2>2. r.body = requests[k].body
      BY <2>1 DEF Request
    <2>3. requests' = [requests EXCEPT ![k] = r] /\ UNCHANGED notifyURL
      BY <1>4 DEF Respond
    <2> HIDE DEF r
    <2>4. requests'[NotifyKey] # None => Outcome(requests'[NotifyKey].body)
      BY <2>1, <2>2, <2>3, RequestsUpdated DEF OutcomesTold, Keys
    <2>5. \A p \in DOMAIN posted' : Outcome(posted'[p])
      <3>1. posted \in Seq(Payload)
        BY DEF TypeInv, TypeOK
      <3>2. CASE posted' = posted
        BY <3>2 DEF OutcomesTold
      <3>3. CASE k = NotifyKey /\ posted' = Append(posted, requests[k].body)
        <4>1. Outcome(requests[k].body)
          BY <2>1, <3>3 DEF OutcomesTold
        <4>2. \A p \in DOMAIN posted' : IF p \in DOMAIN posted THEN posted'[p] = posted[p]
                                        ELSE posted'[p] = requests[k].body
          BY <3>1, <3>3
        <4>3. QED
          BY <4>1, <4>2 DEF OutcomesTold
      <3>4. QED
        BY <1>4, <3>2, <3>3 DEF Respond
    <2>6. QED
      BY <2>3, <2>4, <2>5 DEF OutcomesTold, Outcome
  <1>5. CASE UNCHANGED <<notifyURL, requests, posted>>
    BY <1>5 DEF OutcomesTold, Outcome
  <1>6. QED
    <2>1. Call \/ LoopStep \/ Return \/ UpdateStatus \/ EndReconcile \/ Abandon \/ UNCHANGED vars
            => UNCHANGED <<notifyURL, requests, posted>>
      BY DEF Call, LoopStep, Return, UpdateStatus, EndReconcile, Abandon, vars
    <2>2. \A k \in Keys : Observe(k) => UNCHANGED <<notifyURL, requests, posted>>
      BY DEF Observe
    <2>3. \A t \in Additions : AppendTask(t) => UNCHANGED <<notifyURL, requests, posted>>
      BY DEF AppendTask
    <2>4. QED
      BY <1>2, <1>3, <1>4, <1>5, <2>1, <2>2, <2>3, Zenon DEF Next

(* The reported phase still is the one of the reported tasks. *)
LEMMA NextPhaseTold ==
    ASSUME TypeInv, PhaseTold, [Next]_vars
    PROVE  PhaseTold'
  <1>1. CASE UpdateStatus
    <2>1. xr' = [phase |-> workflowPhase(run.ph), tasks |-> run.ph]
      BY <1>1 DEF UpdateStatus
    <2>2. xr'.phase = workflowPhase(xr'.tasks)
      BY <2>1
    <2>3. QED
      BY <2>2 DEF PhaseTold
  <1>2. CASE UNCHANGED xr
    BY <1>2 DEF PhaseTold
  <1>3. UpdateStatus \/ UNCHANGED xr
    BY DEF Next, vars, Observe, Collect, Apply, LoseRequest, Respond, AppendTask, Call, LoopStep,
           Return, EndReconcile, Abandon
  <1>4. QED
    BY <1>1, <1>2, <1>3

LEMMA NextShapes == TypeInv /\ Shapes /\ [Next]_vars => Shapes'
  BY NextStatusesWritten, NextCallShaped, NextOutcomesTold, NextPhaseTold DEF Shapes

-----------------------------------------------------------------------------
(* The number of tasks called with only grows, up to the tasks there are. *)
LEMMA CallingGrows ==
    ASSUME TypeInv, [Next]_vars
    PROVE  Calling \in Nat /\ Calling' \in Nat /\ Calling <= Calling' /\ Calling <= Len(tasks)
  <1>0. /\ tasks \in Seq(Task) /\ Len(tasks) \in Nat /\ run.n \in Nat /\ run.n <= Len(tasks)
    BY TypeFacts DEF IsRun
  <1>1. Calling \in Nat /\ Calling <= Len(tasks)
    BY <1>0 DEF Calling
  <1>2. TypeInv'
    BY NextTypeInv
  <1>3. Calling' \in Nat
    <2>1. tasks' \in Seq(Task) /\ IsRun(run', Len(tasks'))
      BY <1>2, Zenon DEF TypeInv, TypeOK
    <2>2. QED
      BY <2>1 DEF IsRun, Calling
  <1>4. CASE UNCHANGED tasks /\ run'.stage = "idle"
    BY <1>0, <1>4 DEF Calling
  <1>5. CASE UNCHANGED tasks /\ run'.stage = run.stage /\ run'.n = run.n
    BY <1>0, <1>5 DEF Calling
  <1>6. ASSUME NEW k \in Keys, Observe(k) \/ LoseRequest(k) PROVE Calling <= Calling'
    BY <1>5, <1>6 DEF Observe, LoseRequest
  <1>7. ASSUME NEW k \in Keys, Collect(k) \/ Apply(k) PROVE Calling <= Calling'
    BY <1>5, <1>7, TypeFacts DEF Collect, Apply, IsRun
  <1>8. ASSUME NEW k \in Keys, NEW s \in Answers, Respond(k, s) PROVE Calling <= Calling'
    BY <1>5, <1>8 DEF Respond
  <1>9. ASSUME NEW t \in Additions, AppendTask(t) PROVE Calling <= Calling'
    <2>1. tasks' = Append(tasks, t) /\ t \in Task /\ run' = run
      BY <1>9, CompositionAssumption DEF AppendTask
    <2>2. Len(tasks') = Len(tasks) + 1
      BY <1>0, <2>1
    <2>3. QED
      BY <1>0, <2>1, <2>2 DEF Calling
  <1>10. CASE Call
    <2>1. tasks' = tasks /\ run.stage = "idle" /\ run'.stage = "loop" /\ run'.n = Len(tasks)
      BY <1>10 DEF Call, Idle
    <2>2. QED
      BY <1>0, <2>1 DEF Calling
  <1>11. CASE LoopStep \/ UpdateStatus
    BY <1>5, <1>11, TypeFacts DEF LoopStep, UpdateStatus, IsRun
  <1>12. CASE Return
    <2>1. tasks' = tasks /\ run.stage = "loop" /\ run'.stage = "apply" /\ run'.n = run.n
      BY <1>12, TypeFacts DEF Return, IsRun
    <2>2. QED
      BY <1>0, <2>1 DEF Calling
  <1>13. CASE EndReconcile \/ Abandon
    BY <1>4, <1>13 DEF EndReconcile, Abandon, Idle
  <1>14. CASE UNCHANGED vars
    BY <1>5, <1>14 DEF vars
  <1>15. Calling <= Calling'
    BY <1>6, <1>7, <1>8, <1>9, <1>10, <1>11, <1>12, <1>13, <1>14, Zenon DEF Next
  <1>16. QED
    BY <1>1, <1>3, <1>15

(* What was told stays told. *)
LEMMA ToldKept ==
    ASSUME TypeInv, Shapes, Kept, [Next]_vars, NEW ph \in Seq(Phases), Told(ph)
    PROVE  Told(ph)'
  <1>1. Len(ph) \in Nat /\ DOMAIN ph = 1..Len(ph)
    OBVIOUS
  <1>2. Len(ph) <= Calling' /\ Len(ph) <= Len(tasks)
    BY <1>1, CallingGrows, TypeFacts DEF Told
  <1>3. DOMAIN ph \subseteq DOMAIN tasks
    BY <1>1, <1>2, TypeFacts
  <1>4. Backed(ph)'
    BY <1>3, BackedKept DEF Told
  <1>5. QED
    BY <1>2, <1>4 DEF Told

(* The steps that leave the phases of the call alone keep them grounded. *)
LEMMA PhasesKept ==
    ASSUME TypeInv, Shapes, Kept, RunBacked, RunRepeats,
           run.stage # "idle", run'.ph = run.ph, observed' = observed
    PROVE  RunBacked' /\ RunRepeats'
  <1>0. DOMAIN run.ph \subseteq DOMAIN tasks /\ DOMAIN tasks = 1..Len(tasks)
        /\ DOMAIN run.ph = 1..Len(run.ph)
    BY TypeFacts
  <1>1. \A ph : DOMAIN ph \subseteq DOMAIN tasks /\ Backed(ph) => Backed(ph)'
    BY BackedKept
  <1>2. Backed(run.ph)'
    BY <1>0, <1>1 DEF RunBacked
  <1>3. ASSUME NEW i \in DOMAIN run.ph
        PROVE  /\ Doomed(i)' => Doomed(i)
               /\ SourceFailed(run.ph, i)' => SourceFailed(run.ph, i)
    <2>1. i \in DOMAIN tasks /\ tasks'[i] = tasks[i] /\ \A j \in 1..(i-1) : tasks'[j] = tasks[j]
      BY <1>0 DEF Kept
    <2>2. Doomed(i)' => Doomed(i)
      BY <2>1 DEF Doomed, Answering
    <2>3. SourceFailed(run.ph, i)' => SourceFailed(run.ph, i)
      BY <2>1 DEF SourceFailed
    <2>4. QED
      BY <2>2, <2>3
  <1>4. QED
    BY <1>2, <1>3 DEF RunBacked, RunRepeats

(* Every step keeps the phases of the call grounded. *)
LEMMA NextRunBacked ==
    ASSUME TypeInv, Shapes, Core, Kept, RunBacked, RunRepeats, [Next]_vars,
           \A k \in Keys : ~LoseRequest(k)
    PROVE  RunBacked' /\ RunRepeats'
  <1>1. CASE run'.stage = "idle"
    BY <1>1 DEF RunBacked, RunRepeats
  <1>2. CASE Call
    <2>1. run'.ph = <<>>
      BY <1>2 DEF Call, Idle
    <2>2. QED
      BY <2>1 DEF RunBacked, RunRepeats, Backed
  <1>3. CASE LoopStep
    BY <1>3, LoopStepBacked
  <1>4. CASE run.stage # "idle" /\ run'.ph = run.ph /\ observed' = observed
    BY <1>4, PhasesKept
  <1>5. ASSUME NEW k \in Keys, Observe(k) PROVE run'.stage = "idle"
    BY <1>5 DEF Observe
  <1>6. ASSUME NEW k \in Keys, Collect(k) \/ Apply(k)
        PROVE  run.stage # "idle" /\ run'.ph = run.ph /\ observed' = observed
    BY <1>6, TypeFacts DEF Collect, Apply, IsRun
  <1>7. ASSUME \/ \E k \in Keys, s \in Answers : Respond(k, s)
               \/ \E t \in Additions : AppendTask(t)
               \/ UNCHANGED vars
        PROVE  run' = run /\ observed' = observed
    BY <1>7 DEF Respond, AppendTask, vars
  <1>8. ASSUME Return \/ UpdateStatus
        PROVE  run.stage # "idle" /\ run'.ph = run.ph /\ observed' = observed
    BY <1>8, TypeFacts DEF Return, UpdateStatus, IsRun
  <1>9. ASSUME EndReconcile \/ Abandon PROVE run'.stage = "idle"
    BY <1>9 DEF EndReconcile, Abandon, Idle
  <1>10. QED
    BY <1>1, <1>2, <1>3, <1>4, <1>5, <1>6, <1>7, <1>8, <1>9 DEF Next

(* What an iteration or a later step of the call tells is the call's own. *)
LEMMA RunTold ==
    ASSUME TypeInv, Shapes, Kept, [Next]_vars, RunBacked, run.stage = "apply"
    PROVE  Told(run.ph) /\ \A ph : ph = run.ph => Told(ph)'
  <1>1. run.ph \in Seq(Phases) /\ Len(run.ph) <= Calling
    BY TypeFacts DEF Calling, IsRun
  <1>2. Told(run.ph)
    BY <1>1 DEF RunBacked, Told
  <1>3. QED
    BY <1>1, <1>2, ToldKept

(* The reported status keeps its ground. *)
LEMMA NextStatusTold ==
    ASSUME TypeInv, Shapes, Kept, [Next]_vars, RunBacked, StatusTold
    PROVE  StatusTold'
  <1>1. CASE UpdateStatus
    <2>1. xr'.tasks = run.ph /\ run.stage = "apply"
      BY <1>1 DEF UpdateStatus
    <2>2. \A ph : ph = run.ph => Told(ph)'
      BY <2>1, RunTold
    <2>3. QED
      BY <2>1, <2>2 DEF StatusTold
  <1>2. CASE UNCHANGED xr
    <2>1. xr.tasks \in Seq(Phases)
      BY DEF TypeInv, TypeOK
    <2>2. \A ph : ph \in Seq(Phases) /\ Told(ph) => Told(ph)'
      BY ToldKept
    <2>3. QED
      BY <1>2, <2>1, <2>2 DEF StatusTold
  <1>3. UpdateStatus \/ UNCHANGED xr
    BY DEF Next, vars, Observe, Collect, Apply, LoseRequest, Respond, AppendTask, Call, LoopStep,
           Return, EndReconcile, Abandon
  <1>4. QED
    BY <1>1, <1>2, <1>3

(* The answer of provider-http to the webhook's request: the first is the POST. *)
WebhookAnswered ==
    /\ requests[NotifyKey] # None /\ requests'[NotifyKey] # None
    /\ requests'[NotifyKey].body = requests[NotifyKey].body
    /\ requests'[NotifyKey].status # NoStatus
    /\ run' = run /\ tasks' = tasks /\ edits' = edits
    /\ posted' = IF requests[NotifyKey].status = NoStatus
                 THEN Append(posted, requests[NotifyKey].body) ELSE posted

(* The webhook's request is created or updated. *)
WebhookApplied ==
    /\ Apply(NotifyKey) /\ posted' = posted
    /\ requests'[NotifyKey] # None
    /\ requests'[NotifyKey].body = run.want[NotifyKey]
    /\ requests'[NotifyKey].status = IF requests[NotifyKey] = None THEN NoStatus
                                     ELSE requests[NotifyKey].status

WebhookCollected == Collect(NotifyKey) /\ requests'[NotifyKey] = None /\ posted' = posted

WebhookUntouched == requests'[NotifyKey] = requests[NotifyKey] /\ posted' = posted

(* What a step does to the webhook's request. *)
WebhookStep == WebhookUntouched \/ WebhookCollected \/ WebhookApplied \/ WebhookAnswered

LEMMA WebhookSteps ==
    ASSUME TypeInv, [Next]_vars, \A k \in Keys : ~LoseRequest(k)
    PROVE  WebhookStep
  <1>0. NotifyKey \in Keys
    BY DEF Keys
  <1>1. ASSUME NEW k \in Keys, Collect(k) PROVE WebhookStep
    BY <1>0, <1>1, RequestsUpdated DEF Collect, WebhookStep, WebhookCollected, WebhookUntouched
  <1>2. ASSUME NEW k \in Keys, Apply(k) PROVE WebhookStep
    <2> DEFINE r == [body |-> run.want[k],
                     status |-> IF requests[k] = None THEN NoStatus ELSE requests[k].status]
    <2>1. posted' = posted /\ requests' = [requests EXCEPT ![k] = r] /\ run.want[k] # None
      BY <1>2 DEF Apply
    <2>2. r \in Request(k)
      <3>1. run.want[k] \in Body(k)
        BY <2>1, TypeFacts DEF IsRun, IsBodyMap
      <3>2. (IF requests[k] = None THEN NoStatus ELSE requests[k].status) \in Status
        BY TypeFacts, NoStatusType DEF IsRequestMap, Request
      <3>3. QED
        BY <3>1, <3>2 DEF Request
    <2>3. r # None
      BY <2>2, FunctionAssumption
    <2>4. /\ r.body = run.want[k]
          /\ r.status = IF requests[k] = None THEN NoStatus ELSE requests[k].status
      OBVIOUS
    <2> HIDE DEF r
    <2>5. requests'[k] = r /\ (k # NotifyKey => requests'[NotifyKey] = requests[NotifyKey])
      BY <1>0, <2>1, RequestsUpdated
    <2>6. CASE k = NotifyKey
      BY <1>2, <2>1, <2>3, <2>4, <2>5, <2>6, Zenon DEF WebhookStep, WebhookApplied
    <2>7. CASE k # NotifyKey
      BY <2>1, <2>5, <2>7 DEF WebhookStep, WebhookUntouched
    <2>8. QED
      BY <2>6, <2>7
  <1>3. ASSUME NEW k \in Keys, NEW s \in Answers, Respond(k, s) PROVE WebhookStep
    <2> DEFINE r == [requests[k] EXCEPT !.status = s]
    <2>1. /\ requests[k] # None /\ requests' = [requests EXCEPT ![k] = r]
          /\ run' = run /\ tasks' = tasks /\ edits' = edits
          /\ posted' = IF k = NotifyKey /\ requests[k].status = NoStatus
                       THEN Append(posted, requests[k].body) ELSE posted
      BY <1>3 DEF Respond
    <2>2. requests[k] \in Request(k)
      BY <2>1, TypeFacts DEF IsRequestMap
    <2>3. r \in Request(k) /\ r.body = requests[k].body /\ r.status = s
      BY <2>2, CompositionAssumption DEF Request
    <2>4. r # None
      BY <2>3, FunctionAssumption
    <2>5. s # NoStatus
      <3>1. s.error # "" \/ s.code # 0
        BY CompositionAssumption
      <3>2. NoStatus.error = "" /\ NoStatus.code = 0
        BY DEF NoStatus
      <3>3. QED
        BY <3>1, <3>2, Zenon
    <2> HIDE DEF r
    <2>6. requests'[k] = r /\ (k # NotifyKey => requests'[NotifyKey] = requests[NotifyKey])
      BY <1>0, <2>1, RequestsUpdated
    <2>7. CASE k = NotifyKey
      BY <2>1, <2>3, <2>4, <2>5, <2>6, <2>7 DEF WebhookStep, WebhookAnswered
    <2>8. CASE k # NotifyKey
      BY <2>1, <2>6, <2>8 DEF WebhookStep, WebhookUntouched
    <2>9. QED
      BY <2>7, <2>8
  <1>4. CASE UNCHANGED <<requests, posted>>
    BY <1>4 DEF WebhookStep, WebhookUntouched
  <1>5. QED
    <2>1. \A k \in Keys : Observe(k) => UNCHANGED <<requests, posted>>
      BY DEF Observe
    <2>2. \A t \in Additions : AppendTask(t) => UNCHANGED <<requests, posted>>
      BY DEF AppendTask
    <2>3. Call \/ LoopStep \/ Return \/ UpdateStatus \/ EndReconcile \/ Abandon \/ UNCHANGED vars
            => UNCHANGED <<requests, posted>>
      BY DEF Call, LoopStep, Return, UpdateStatus, EndReconcile, Abandon, vars
    <2>4. QED
      BY <1>1, <1>2, <1>3, <1>4, <2>1, <2>2, <2>3, Zenon DEF Next

(* The payload of the webhook's request, and the payloads sent, are payloads. *)
LEMMA PayloadTypes ==
    ASSUME TypeInv
    PROVE  /\ requests[NotifyKey] # None => requests[NotifyKey].body.tasks \in Seq(Phases)
           /\ posted \in Seq(Payload)
           /\ \A p \in DOMAIN posted : posted[p].tasks \in Seq(Phases)
  <1>1. requests[NotifyKey] # None => requests[NotifyKey].body \in Payload
    BY TypeFacts DEF IsRequestMap, Request, Body, Keys
  <1>2. posted \in Seq(Payload)
    BY DEF TypeInv, TypeOK
  <1>3. \A p \in DOMAIN posted : posted[p] \in Payload
    BY <1>2
  <1>4. QED
    BY <1>1, <1>2, <1>3 DEF Payload

(* In a step that creates or updates it, the webhook tells the call's outcome. *)
LEMMA AppliedPayload ==
    ASSUME TypeInv, Shapes, WebhookApplied
    PROVE  /\ run.stage = "apply" /\ notifyURL /\ workflowPhase(run.ph) \in Terminal
           /\ requests'[NotifyKey].body.tasks = run.ph
           /\ run.ph \in Seq(Phases) /\ Len(run.ph) = run.n /\ Calling = run.n
           /\ run'.stage = "apply" /\ run'.n = run.n
           /\ UNCHANGED <<tasks, edits, posted>>
  <1>1. /\ run.stage = "apply" /\ run.want[NotifyKey] # None /\ UNCHANGED <<tasks, edits>>
        /\ run' = [run EXCEPT !.todo = @ \ {NotifyKey}]
    BY DEF WebhookApplied, Apply
  <1>2. run'.stage = run.stage /\ run'.n = run.n
    BY <1>1, TypeFacts DEF IsRun
  <1>3. /\ notifyDesired(run.ph, notifyURL)
        /\ requests'[NotifyKey].body = notifyBody(run.ph)
    BY <1>1 DEF WebhookApplied, Shapes, CallShaped
  <1>4. requests'[NotifyKey].body.tasks = run.ph
    BY <1>3 DEF notifyBody
  <1>5. QED
    BY <1>1, <1>2, <1>3, <1>4, TypeFacts
      DEF WebhookApplied, Shapes, CallShaped, notifyDesired, Calling

(* What the webhook tells, and told, keeps its ground. *)
LEMMA NextWebhookTold ==
    ASSUME TypeInv, Shapes, Kept, [Next]_vars, RunBacked, WebhookTold, PostsTold, WebhookStep
    PROVE  WebhookTold' /\ PostsTold'
  <1>0. \A ph : ph \in Seq(Phases) /\ Told(ph) => Told(ph)'
    BY ToldKept
  <1>1. requests[NotifyKey] # None /\ requests'[NotifyKey].body = requests[NotifyKey].body
          => WebhookTold'
    BY <1>0, PayloadTypes DEF WebhookTold
  <1>2. posted' = posted => PostsTold'
    BY <1>0, PayloadTypes DEF PostsTold
  <1>3. CASE WebhookUntouched
    BY <1>1, <1>2, <1>3 DEF WebhookUntouched, WebhookTold
  <1>4. CASE WebhookCollected
    BY <1>2, <1>4 DEF WebhookCollected, WebhookTold
  <1>5. CASE WebhookApplied
    <2>1. requests'[NotifyKey].body.tasks = run.ph /\ run.stage = "apply" /\ posted' = posted
      BY <1>5, AppliedPayload
    <2>2. \A ph : ph = run.ph => Told(ph)'
      BY <2>1, RunTold
    <2>3. QED
      BY <1>2, <2>1, <2>2 DEF WebhookTold
  <1>6. CASE WebhookAnswered
    <2>1. WebhookTold'
      BY <1>1, <1>6 DEF WebhookAnswered
    <2>2. CASE posted' = posted
      BY <1>2, <2>1, <2>2
    <2>3. CASE posted' = Append(posted, requests[NotifyKey].body)
      <3>1. \A p \in DOMAIN posted' : IF p \in DOMAIN posted THEN posted'[p] = posted[p]
                                      ELSE posted'[p] = requests[NotifyKey].body
        BY <2>3, PayloadTypes
      <3>2. \A ph : ph = requests[NotifyKey].body.tasks => Told(ph)'
        BY <1>0, <1>6, PayloadTypes DEF WebhookAnswered, WebhookTold
      <3>3. \A p \in DOMAIN posted : \A ph : ph = posted[p].tasks => Told(ph)'
        BY <1>0, PayloadTypes DEF PostsTold
      <3>4. QED
        BY <2>1, <3>1, <3>2, <3>3 DEF PostsTold
    <2>4. QED
      BY <1>6, <2>2, <2>3 DEF WebhookAnswered
  <1>7. QED
    BY <1>3, <1>4, <1>5, <1>6 DEF WebhookStep

-----------------------------------------------------------------------------
(* What a call finds of an outcome told before: it stands, or tasks came. *)
LEMMA OutcomeStands ==
    ASSUME TypeInv, LoopExact, RunRepeats, run.stage = "apply", Len(run.ph) = run.n,
           NEW ph \in Seq(Phases), Told(ph)
    PROVE  /\ \A i \in DOMAIN ph : i \in DOMAIN run.ph /\ run.ph[i] \in Later(ph[i])
           /\ workflowPhase(ph) = "Failed" => workflowPhase(run.ph) = "Failed"
           /\ workflowPhase(ph) = "Succeeded" =>
                 workflowPhase(run.ph) = "Succeeded" \/ Len(run.ph) > Len(ph)
  <1>1. /\ Len(ph) \in Nat /\ DOMAIN ph = 1..Len(ph) /\ run.n \in Nat /\ Len(ph) <= run.n
        /\ DOMAIN run.ph = 1..run.n
    BY TypeFacts DEF Told, Calling, IsRun
  <1>2. \A i \in DOMAIN ph : i \in DOMAIN run.ph /\ run.ph[i] \in Later(ph[i])
    BY <1>1, PhasesForward DEF Told
  <1>3. \A i \in DOMAIN ph : /\ ph[i] = "Failed" => run.ph[i] = "Failed"
                             /\ ph[i] = "Succeeded" => run.ph[i] = "Succeeded"
    BY <1>2 DEF Later
  <1>4. workflowPhase(ph) = "Failed" => workflowPhase(run.ph) = "Failed"
    <2>1. workflowPhase(ph) = "Failed" => overallFailed(ph)
      BY DEF workflowPhase
    <2>2. overallFailed(ph) => overallFailed(run.ph)
      BY <1>2, <1>3 DEF overallFailed
    <2>3. QED
      BY <2>1, <2>2 DEF workflowPhase
  <1>5. ASSUME workflowPhase(ph) = "Succeeded", ~(Len(run.ph) > Len(ph))
        PROVE  workflowPhase(run.ph) = "Succeeded"
    <2>1. DOMAIN run.ph = DOMAIN ph
      BY <1>1, <1>5
    <2>2. allDone(ph)
      BY <1>5 DEF workflowPhase
    <2>3. \A i \in DOMAIN run.ph : run.ph[i] = "Succeeded"
      BY <1>3, <2>1, <2>2 DEF allDone
    <2>4. allDone(run.ph) /\ ~overallFailed(run.ph)
      BY <2>1, <2>2, <2>3 DEF allDone, overallFailed
    <2>5. QED
      BY <2>4 DEF workflowPhase
  <1>6. QED
    BY <1>2, <1>4, <1>5

(* tasks grow only by the edits. *)
LEMMA EditsCount ==
    ASSUME TypeInv, [Next]_vars
    PROVE  /\ Len(tasks) \in Nat /\ Len(tasks') \in Nat /\ edits \in Nat /\ edits' \in Nat
           /\ Len(tasks') + edits = Len(tasks) + edits'
  <1>0. tasks \in Seq(Task) /\ Len(tasks) \in Nat /\ edits \in Nat
    <2>1. edits \in Nat
      BY DEF TypeInv, TypeOK
    <2>2. QED
      BY <2>1, TypeFacts
  <1>1. ASSUME NEW t \in Additions, AppendTask(t)
        PROVE  Len(tasks') = Len(tasks) + 1 /\ edits' = edits + 1
    <2>1. tasks' = Append(tasks, t) /\ t \in Task /\ edits' = edits + 1
      BY <1>1, CompositionAssumption DEF AppendTask
    <2>2. QED
      BY <1>0, <2>1
  <1>2. (\A t \in Additions : ~AppendTask(t)) => UNCHANGED <<tasks, edits>>
    BY DEF Next, vars, Observe, Collect, Apply, LoseRequest, Respond, Call, LoopStep,
           Return, UpdateStatus, EndReconcile, Abandon
  <1>3. QED
    BY <1>0, <1>1, <1>2

(* Another only depends on the payloads sent, and grows with its argument. *)
LEMMA AnotherKept ==
    ASSUME TypeInv, [Next]_vars, posted' = posted, NEW len \in Nat, NEW more \in Nat,
           len <= more, Another(len)
    PROVE  Another(more)'
  <1>1. Len(posted) \in Nat
    BY PayloadTypes
  <1>2. QED
    BY <1>1, EditsCount DEF Another

(***************************************************************************)
(* The webhook's request is only deleted by a call that finds no outcome:  *)
(* that one carries more tasks than any payload sent.                      *)
(***************************************************************************)
LEMMA CollectedForMore ==
    ASSUME TypeInv, Shapes, Core, Report, WebhookCollected
    PROVE  Another(run.n)
  <1>1. run.stage = "apply" /\ run.want[NotifyKey] = None /\ Len(run.ph) = run.n
    BY DEF WebhookCollected, Collect, Shapes, CallShaped
  <1>2. ~notifyDesired(run.ph, notifyURL)
    <2>1. notifyBody(run.ph) # None
      <3>1. notifyBody(run.ph) \in Body(NotifyKey)
        BY PhaseTypes, TypeFacts DEF notifyBody, Body, Payload
      <3>2. QED
        BY <3>1, FunctionAssumption DEF Keys
    <2>2. QED
      BY <1>1, <2>1 DEF Shapes, CallShaped
  <1>3. /\ Len(posted) \in Nat /\ Len(tasks) \in Nat /\ edits \in Nat /\ run.n \in Nat
        /\ Len(tasks) <= run.n + edits
    <2>1. edits \in Nat
      BY DEF TypeInv, TypeOK
    <2>2. Len(tasks) \in Nat /\ run.n \in Nat
      BY TypeFacts DEF IsRun
    <2>3. QED
      BY <1>1, <2>1, <2>2, PayloadTypes DEF Shapes, CallShaped
  <1>4. CASE Len(posted) = 0
    BY <1>3, <1>4 DEF Another
  <1>5. CASE Len(posted) # 0
    <2> DEFINE last == Len(posted)
               ph == posted[last].tasks
    <2>1. last \in DOMAIN posted /\ ph \in Seq(Phases) /\ Len(ph) \in Nat
      BY <1>3, <1>5, PayloadTypes
    <2>2. /\ Told(ph) /\ Outcome(posted[last])
          /\ last + Len(tasks) <= Len(ph) + edits + 1
      BY <2>1 DEF Report, PostsTold, PostsCounted, Shapes, OutcomesTold
    <2>3. notifyURL /\ workflowPhase(ph) \in Terminal
      BY <2>2 DEF Outcome
    <2>4. workflowPhase(run.ph) \notin Terminal
      BY <1>2, <2>3 DEF notifyDesired
    <2>5. Len(run.ph) > Len(ph)
      BY <1>1, <2>1, <2>2, <2>3, <2>4, OutcomeStands DEF Core, Report, Terminal
    <2> HIDE DEF ph
    <2>6. QED
      BY <1>1, <1>3, <2>1, <2>2, <2>5 DEF Another
  <1>6. QED
    BY <1>4, <1>5

(* A webhook not yet called still may be. *)
LEMMA NextUnsentCounted ==
    ASSUME TypeInv, Shapes, Core, Report, [Next]_vars, WebhookStep
    PROVE  UnsentCounted'
  <1>0. Calling \in Nat /\ Calling' \in Nat /\ Calling <= Calling'
    BY CallingGrows
  <1> DEFINE old == Len(requests[NotifyKey].body.tasks)
  <1>1. requests[NotifyKey] # None => old \in Nat /\ old <= Calling
    BY PayloadTypes DEF Report, WebhookTold, Told
  <1>2. posted' = posted => \A len, more \in Nat : len <= more /\ Another(len) => Another(more)'
    BY AnotherKept
  <1>3. CASE WebhookUntouched
    <2>1. requests[NotifyKey] = None => Another(Calling)'
      <3>1. \A c : c = Calling' /\ requests[NotifyKey] = None => Another(c)'
        BY <1>0, <1>2, <1>3 DEF WebhookUntouched, Report, UnsentCounted
      <3>2. QED
        BY <3>1 DEF Another
    <2>2. requests[NotifyKey] # None /\ requests[NotifyKey].status = NoStatus =>
             \A len : len = old => Another(len)'
      BY <1>1, <1>2, <1>3 DEF WebhookUntouched, Report, UnsentCounted
    <2>3. QED
      BY <1>3, <2>1, <2>2 DEF WebhookUntouched, UnsentCounted, Another
  <1>4. CASE WebhookCollected
    <2>1. posted' = posted /\ requests'[NotifyKey] = None /\ run.stage = "apply"
          /\ run' = [run EXCEPT !.todo = @ \ {NotifyKey}]
      BY <1>4 DEF WebhookCollected, Collect
    <2>2. run'.stage = "apply" /\ run'.n = run.n /\ run.n \in Nat
      BY <2>1, TypeFacts DEF IsRun
    <2>3. \A len : len = run.n => Another(len)'
      BY <1>2, <1>4, <2>1, <2>2, CollectedForMore
    <2>4. QED
      BY <2>1, <2>2, <2>3 DEF UnsentCounted, Another, Calling
  <1>5. CASE WebhookApplied
    <2>1. /\ requests'[NotifyKey].body.tasks = run.ph /\ Len(run.ph) = run.n /\ Calling = run.n
          /\ posted' = posted
      BY <1>5, AppliedPayload
    <2>2. requests'[NotifyKey].status = NoStatus => Another(Len(run.ph))
      <3>1. CASE requests[NotifyKey] = None
        BY <2>1, <3>1 DEF Report, UnsentCounted
      <3>2. CASE requests[NotifyKey] # None /\ requests[NotifyKey].status = NoStatus
        <4>1. Another(old) /\ Len(posted) \in Nat /\ Len(tasks) \in Nat /\ edits \in Nat
          BY <3>2, PayloadTypes, EditsCount DEF Report, UnsentCounted
        <4>2. old \in Nat /\ Len(run.ph) \in Nat /\ old <= Len(run.ph)
          BY <1>0, <1>1, <2>1, <3>2
        <4> HIDE DEF old
        <4>3. QED
          BY <4>1, <4>2 DEF Another
      <3>3. QED
        BY <1>5, <3>1, <3>2 DEF WebhookApplied
    <2>3. requests'[NotifyKey].status = NoStatus => \A len : len = Len(run.ph) => Another(len)'
      BY <1>0, <1>2, <2>1, <2>2
    <2>4. requests'[NotifyKey] # None
      BY <1>5 DEF WebhookApplied
    <2>5. QED
      BY <2>1, <2>3, <2>4 DEF UnsentCounted, Another
  <1>6. CASE WebhookAnswered
    BY <1>6 DEF WebhookAnswered, UnsentCounted
  <1>7. QED
    BY <1>3, <1>4, <1>5, <1>6 DEF WebhookStep

(* The calls of the webhook stay counted. *)
LEMMA NextPostsCounted ==
    ASSUME TypeInv, Report, [Next]_vars, WebhookStep
    PROVE  PostsCounted'
  <1>0. /\ Len(tasks) \in Nat /\ Len(tasks') \in Nat /\ edits \in Nat /\ edits' \in Nat
        /\ Len(tasks') + edits = Len(tasks) + edits'
        /\ posted \in Seq(Payload) /\ DOMAIN posted = 1..Len(posted) /\ Len(posted) \in Nat
        /\ \A p \in DOMAIN posted : Len(posted[p].tasks) \in Nat
    BY EditsCount, PayloadTypes
  <1>1. ASSUME NEW p \in DOMAIN posted
        PROVE  p + Len(tasks') <= Len(posted[p].tasks) + edits' + 1
    BY <1>0 DEF Report, PostsCounted
  <1>2. CASE posted' = posted
    BY <1>1, <1>2 DEF PostsCounted
  <1>3. CASE /\ requests[NotifyKey] # None /\ requests[NotifyKey].status = NoStatus
             /\ posted' = Append(posted, requests[NotifyKey].body)
             /\ tasks' = tasks /\ edits' = edits
    <2>1. Another(Len(requests[NotifyKey].body.tasks))
      BY <1>3 DEF Report, UnsentCounted
    <2>2. \A p \in DOMAIN posted' :
             IF p \in DOMAIN posted THEN posted'[p] = posted[p]
             ELSE p = Len(posted) + 1 /\ posted'[p] = requests[NotifyKey].body
      BY <1>0, <1>3
    <2>3. Len(requests[NotifyKey].body.tasks) \in Nat
      BY <1>3, PayloadTypes
    <2>4. (Len(posted) + 1) + Len(tasks')
             <= Len(requests[NotifyKey].body.tasks) + edits' + 1
      BY <1>0, <1>3, <2>1, <2>3 DEF Another
    <2>5. QED
      BY <1>1, <2>2, <2>4 DEF PostsCounted
  <1>4. QED
    BY <1>2, <1>3 DEF WebhookStep, WebhookUntouched, WebhookCollected, WebhookApplied,
                      WebhookAnswered

-----------------------------------------------------------------------------
(* ReportInv is inductive. *)
LEMMA InitReportInv == Init => ReportInv
  <1> SUFFICES ASSUME Init PROVE ReportInv
    OBVIOUS
  <1>1. SourceInv /\ Shapes
    BY InitSourceInv, InitShapes
  <1>2. /\ run.stage = "idle" /\ xr.tasks = <<>> /\ posted = <<>> /\ edits = 0
        /\ requests[NotifyKey] = None
    BY DEF Init, Idle, Nothing, Keys
  <1>3. DOMAIN posted = {} /\ Len(posted) = 0
    <2>1. posted = <<>>
      BY Zenon DEF Init
    <2>2. QED
      BY <2>1
  <1>4. Len(tasks) \in Nat
    BY <1>1, TypeFacts DEF SourceInv
  <1>5. RunBacked /\ RunRepeats
    BY <1>2 DEF RunBacked, RunRepeats
  <1>6. StatusTold
    BY <1>2, <1>4 DEF StatusTold, Told, Backed, Calling
  <1>7. WebhookTold /\ PostsTold /\ PostsCounted
    BY <1>2, <1>3 DEF WebhookTold, PostsTold, PostsCounted
  <1>8. UnsentCounted
    BY <1>2, <1>3, <1>4 DEF UnsentCounted, Another, Calling
  <1>9. QED
    BY <1>1, <1>5, <1>6, <1>7, <1>8 DEF ReportInv, Report

LEMMA NextReportInv == ReportInv /\ [Next]_vars => ReportInv'
  <1> SUFFICES ASSUME ReportInv, [Next]_vars PROVE ReportInv'
    OBVIOUS
  <1>1. SourceInv' /\ Shapes'
    BY NextTypeInv, NextCore, NextShapes DEF ReportInv, SourceInv
  <1>2. ASSUME losses' = 0 PROVE Report'
    <2>1. losses = 0 /\ \A k \in Keys : ~LoseRequest(k)
      BY <1>2, NoLoss DEF ReportInv, SourceInv
    <2>2. TypeInv /\ Core /\ Shapes /\ Report
      BY <2>1 DEF ReportInv, SourceInv
    <2>3. Kept
      BY <2>1, <2>2, NextKeeps DEF Core
    <2>4. WebhookStep
      BY <2>1, <2>2, WebhookSteps
    <2>5. RunBacked' /\ RunRepeats'
      BY <2>1, <2>2, <2>3, NextRunBacked DEF Report
    <2>6. StatusTold'
      BY <2>2, <2>3, NextStatusTold DEF Report
    <2>7. WebhookTold' /\ PostsTold'
      BY <2>2, <2>3, <2>4, NextWebhookTold DEF Report
    <2>8. UnsentCounted' /\ PostsCounted'
      BY <2>2, <2>4, NextUnsentCounted, NextPostsCounted
    <2>9. QED
      BY <2>5, <2>6, <2>7, <2>8 DEF Report
  <1>3. QED
    BY <1>1, <1>2 DEF ReportInv

LEMMA ReportInvariant == Spec => []ReportInv
  BY InitReportInv, NextReportInv, PTL DEF Spec

(* A final phase that was seen is the one the request has now. *)
LEMMA SeenNow ==
    ASSUME TypeInv, Shapes, Core, NEW i \in DOMAIN tasks, NEW p \in Terminal, SeenAs(i, p)
    PROVE  /\ requests[tasks[i].name] # None
           /\ taskStatusFromObserved(requests[tasks[i].name].status) = p
  BY SeenIsFinal DEF Core, ObservedIsOld

(* A task that was seen to be impossible to request still is. *)
LEMMA DoomedNow ==
    ASSUME TypeInv, Shapes, Core, NEW i \in DOMAIN tasks, Doomed(i)
    PROVE  Unbuildable(i)
  <1>1. ASSUME NEW k \in DOMAIN tasks[i].inputFrom
        PROVE  LET src == tasks[i].inputFrom[k].sourceTask
               IN  /\ ReallySucceeded(src)
                   /\ requests[src].status = observed[src].status
    <2> DEFINE src == tasks[i].inputFrom[k].sourceTask
    <2>1. observed[src] # None /\ taskStatusFromObserved(observed[src].status) = "Succeeded"
      BY DEF Doomed, Answering
    <2>2. src \in Names /\ src \in Keys
      BY TaskTypes, TypeFacts DEF Keys
    <2>3. observed[src].status \in Status
      BY <2>1, <2>2, TypeFacts DEF IsRequestMap, Request
    <2>4. Answered(observed[src].status)
      BY <2>1, <2>3, SucceededMeans
    <2>5. requests[src] # None /\ requests[src].status = observed[src].status
      BY <2>1, <2>2, <2>4 DEF Core, ObservedIsOld
    <2>6. QED
      BY <2>1, <2>2, <2>5, ReallyMeans
  <1>2. PICK k \in DOMAIN tasks[i].inputFrom :
           tasks[i].inputFrom[k].sourceField \notin
               FieldsOf[observed[tasks[i].inputFrom[k].sourceTask].status.body]
    BY DEF Doomed
  <1>3. QED
    BY <1>1, <1>2 DEF Unbuildable

(* What was told of a task as its final result is true of its request. *)
LEMMA ToldIsTrue ==
    ASSUME TypeInv, Shapes, Core, NEW ph \in Seq(Phases), Told(ph), NEW i \in DOMAIN ph
    PROVE  /\ i \in DOMAIN tasks
           /\ ph[i] = "Succeeded" => ReallySucceeded(tasks[i].name)
           /\ ph[i] = "Failed" => ReallyFailed(tasks[i].name) \/ Unbuildable(i)
  <1>1. i \in DOMAIN tasks /\ tasks[i].name \in Names
    <2>1. Len(ph) \in Nat /\ i \in 1..Len(ph) /\ Len(ph) <= Len(tasks)
      BY TypeFacts DEF Told, Calling, IsRun
    <2>2. QED
      BY <2>1, TypeFacts
  <1>2. ASSUME ph[i] = "Succeeded" PROVE ReallySucceeded(tasks[i].name)
    <2>1. SeenAs(i, "Succeeded")
      BY <1>2 DEF Told, Backed
    <2>2. QED
      BY <1>1, <2>1, SeenNow, ReallyMeans DEF Terminal
  <1>3. ASSUME ph[i] = "Failed" PROVE ReallyFailed(tasks[i].name) \/ Unbuildable(i)
    <2>1. CASE SeenAs(i, "Failed")
      <3>1. /\ requests[tasks[i].name] # None
            /\ taskStatusFromObserved(requests[tasks[i].name].status) = "Failed"
        BY <1>1, <2>1, SeenNow DEF Terminal
      <3>2. Answered(requests[tasks[i].name].status)
        BY <1>1, <3>1, FailedMeans DEF Shapes, StatusesWritten, Keys
      <3>3. QED
        BY <1>1, <3>1, <3>2, ReallyMeans DEF ReallyFailed
    <2>2. CASE Doomed(i)
      BY <1>1, <2>2, DoomedNow
    <2>3. QED
      BY <1>3, <2>1, <2>2 DEF Told, Backed
  <1>4. QED
    BY <1>1, <1>2, <1>3

(***************************************************************************)
(* A task reported Succeeded really succeeded, and a Workflow reported     *)
(* Succeeded has no task outstanding: true of the requests as they are,    *)
(* although the status was computed from what Crossplane had read before,  *)
(* and maybe a long time ago (fn.go:142-159).  Of flat tasks, as all here. *)
(***************************************************************************)
THEOREM SuccessAlwaysTruthful == Spec => []SuccessTruthful
  <1>1. ReportInv => SuccessTruthful
    <2> SUFFICES ASSUME ReportInv, losses = 0, NEW i \in DOMAIN xr.tasks,
                        xr.phase = "Succeeded" \/ xr.tasks[i] = "Succeeded"
                 PROVE  ReallySucceeded(tasks[i].name)
      BY DEF SuccessTruthful
    <2>1. TypeInv /\ Core /\ Shapes /\ StatusTold /\ PhaseTold
      BY DEF ReportInv, SourceInv, Report, Shapes
    <2>2. xr.tasks \in Seq(Phases)
      BY <2>1 DEF TypeInv, TypeOK
    <2>3. xr.phase = "Succeeded" => workflowPhase(xr.tasks) = "Succeeded"
      BY <2>1 DEF PhaseTold
    <2>4. workflowPhase(xr.tasks) = "Succeeded" => xr.tasks[i] = "Succeeded"
      BY DEF workflowPhase, allDone
    <2>5. QED
      BY <2>1, <2>2, <2>3, <2>4, ToldIsTrue DEF StatusTold
  <1>2. QED
    BY ReportInvariant, <1>1, PTL

(***************************************************************************)
(* Nothing is given up too early: what is reported Failed has failed for   *)
(* good, or can never be built from its sources' final answers, and what   *)
(* is Skipped has a source that is reported Failed (fn.go:94-159).         *)
(***************************************************************************)
THEOREM FailureAlwaysTruthful == Spec => []FailureTruthful
  <1>1. ReportInv => FailureTruthful
    <2> SUFFICES ASSUME ReportInv, losses = 0
                 PROVE  /\ xr.phase = "Failed" => \E i \in DOMAIN xr.tasks : xr.tasks[i] = "Failed"
                        /\ \A i \in DOMAIN xr.tasks :
                              /\ xr.tasks[i] = "Failed" =>
                                    ReallyFailed(tasks[i].name) \/ Unbuildable(i)
                              /\ xr.tasks[i] = "Skipped" =>
                                    \E j \in DOMAIN xr.tasks, k \in DOMAIN tasks[i].inputFrom :
                                        /\ tasks[j].name = tasks[i].inputFrom[k].sourceTask
                                        /\ xr.tasks[j] = "Failed"
      BY DEF FailureTruthful
    <2>1. TypeInv /\ Core /\ Shapes /\ StatusTold /\ PhaseTold
      BY DEF ReportInv, SourceInv, Report, Shapes
    <2>2. xr.tasks \in Seq(Phases)
      BY <2>1 DEF TypeInv, TypeOK
    <2>3. xr.phase = "Failed" => \E i \in DOMAIN xr.tasks : xr.tasks[i] = "Failed"
      <3>1. xr.phase = "Failed" => workflowPhase(xr.tasks) = "Failed"
        BY <2>1 DEF PhaseTold
      <3>2. workflowPhase(xr.tasks) = "Failed" => overallFailed(xr.tasks)
        BY DEF workflowPhase
      <3>3. QED
        BY <3>1, <3>2 DEF overallFailed
    <2>4. ASSUME NEW i \in DOMAIN xr.tasks, xr.tasks[i] = "Failed"
          PROVE  ReallyFailed(tasks[i].name) \/ Unbuildable(i)
      BY <2>1, <2>2, <2>4, ToldIsTrue DEF StatusTold
    <2>5. ASSUME NEW i \in DOMAIN xr.tasks, xr.tasks[i] = "Skipped"
          PROVE  \E j \in DOMAIN xr.tasks, k \in DOMAIN tasks[i].inputFrom :
                     tasks[j].name = tasks[i].inputFrom[k].sourceTask /\ xr.tasks[j] = "Failed"
      <3>1. SourceFailed(xr.tasks, i)
        BY <2>1, <2>5 DEF StatusTold, Told, Backed
      <3>2. \A j \in 1..(i-1) : j \in DOMAIN xr.tasks
        BY <2>2
      <3>3. QED
        BY <3>1, <3>2 DEF SourceFailed
    <2>6. QED
      BY <2>3, <2>4, <2>5
  <1>2. QED
    BY ReportInvariant, <1>1, PTL

(***************************************************************************)
(* A reported result is never taken back: not by a reconcile that read     *)
(* stale requests, nor by one that was cut short and done again.  Tasks    *)
(* are flat, so no build changes what another task's result rests on.      *)
(***************************************************************************)
THEOREM StatusForward == Spec => StatusMonotone
  <1>1. ReportInv /\ [Next]_vars =>
          [losses' = 0 =>
              /\ \A i \in DOMAIN xr.tasks :
                    i \in DOMAIN xr'.tasks /\ xr'.tasks[i] \in Later(xr.tasks[i])
              /\ xr.phase = "Failed" => xr'.phase = "Failed"
              /\ xr.phase = "Succeeded" =>
                    xr'.phase = "Succeeded" \/ Len(xr'.tasks) > Len(xr.tasks)]_vars
    <2> SUFFICES ASSUME ReportInv, [Next]_vars, losses' = 0
                 PROVE  /\ \A i \in DOMAIN xr.tasks :
                              i \in DOMAIN xr'.tasks /\ xr'.tasks[i] \in Later(xr.tasks[i])
                        /\ xr.phase = "Failed" => xr'.phase = "Failed"
                        /\ xr.phase = "Succeeded" =>
                              xr'.phase = "Succeeded" \/ Len(xr'.tasks) > Len(xr.tasks)
      OBVIOUS
    <2>0. TypeInv /\ losses = 0
      BY NoLoss DEF ReportInv, SourceInv
    <2>1. Core /\ Shapes /\ Report
      BY <2>0 DEF ReportInv, SourceInv
    <2>2. xr.tasks \in Seq(Phases)
      BY <2>0 DEF TypeInv, TypeOK
    <2>3. CASE UNCHANGED xr
      <3>1. \A i \in DOMAIN xr.tasks : xr.tasks[i] \in Later(xr.tasks[i])
        <4> TAKE i \in DOMAIN xr.tasks
        <4>1. xr.tasks[i] \in Phases
          BY <2>2
        <4>2. QED
          BY <4>1 DEF Later, Phases
      <3>2. QED
        BY <2>3, <3>1
    <2>4. CASE UpdateStatus
      <3>1. /\ run.stage = "apply" /\ xr'.phase = workflowPhase(run.ph)
            /\ xr'.tasks = run.ph
        BY <2>4 DEF UpdateStatus
      <3>2. Len(run.ph) = run.n /\ LoopExact /\ RunRepeats /\ Told(xr.tasks)
        BY <2>1, <3>1 DEF Shapes, CallShaped, Core, Report, StatusTold
      <3>3. /\ xr.phase = "Failed" => workflowPhase(xr.tasks) = "Failed"
            /\ xr.phase = "Succeeded" => workflowPhase(xr.tasks) = "Succeeded"
        BY <2>1 DEF Shapes, PhaseTold
      <3>4. /\ \A i \in DOMAIN xr.tasks :
                  i \in DOMAIN run.ph /\ run.ph[i] \in Later(xr.tasks[i])
            /\ workflowPhase(xr.tasks) = "Failed" => workflowPhase(run.ph) = "Failed"
            /\ workflowPhase(xr.tasks) = "Succeeded" =>
                  workflowPhase(run.ph) = "Succeeded" \/ Len(run.ph) > Len(xr.tasks)
        BY <2>0, <2>2, <3>1, <3>2, OutcomeStands
      <3>5. QED
        BY <3>1, <3>3, <3>4
    <2>5. UpdateStatus \/ UNCHANGED xr
      BY DEF Next, vars, Observe, Collect, Apply, LoseRequest, Respond, AppendTask, Call,
             LoopStep, Return, EndReconcile, Abandon
    <2>6. QED
      BY <2>3, <2>4, <2>5
  <1>2. QED
    BY ReportInvariant, <1>1, PTL DEF Spec, StatusMonotone

(***************************************************************************)
(* What was POSTed is a final outcome, and one that says Succeeded is      *)
(* about tasks that had all succeeded, and still have (fn.go:161-173).     *)
(***************************************************************************)
THEOREM PostsAlwaysTruthful == Spec => []PostsTruthful
  <1>1. ReportInv => PostsTruthful
    <2> SUFFICES ASSUME ReportInv, NEW p \in DOMAIN posted
                 PROVE  /\ posted[p].phase \in Terminal
                        /\ posted[p].phase = "Succeeded" /\ losses = 0 =>
                              \A i \in DOMAIN posted[p].tasks : ReallySucceeded(tasks[i].name)
      BY DEF PostsTruthful
    <2>1. TypeInv /\ Shapes /\ (losses = 0 => Core /\ PostsTold)
      BY DEF ReportInv, SourceInv, Report
    <2>2. posted[p].phase \in Terminal /\ posted[p].phase = workflowPhase(posted[p].tasks)
      BY <2>1 DEF Shapes, OutcomesTold, Outcome
    <2>3. posted[p].tasks \in Seq(Phases)
      BY <2>1, PayloadTypes
    <2>4. losses = 0 => \A i \in DOMAIN posted[p].tasks :
             posted[p].tasks[i] = "Succeeded" => ReallySucceeded(tasks[i].name)
      BY <2>1, <2>3, ToldIsTrue DEF PostsTold
    <2>5. posted[p].phase = "Succeeded" => allDone(posted[p].tasks)
      BY <2>2 DEF workflowPhase
    <2>6. QED
      BY <2>2, <2>4, <2>5 DEF allDone
  <1>2. QED
    BY ReportInvariant, <1>1, PTL

(***************************************************************************)
(* notifyURL is called at most once, and once more for every appended      *)
(* task, however many reconciles there are and wherever they are cut       *)
(* short: a request for it is created again only for more tasks.  Tasks are *)
(* flat, so that a Workflow once Failed is not Running in a later call.    *)
(***************************************************************************)
THEOREM PostsAlwaysBounded == Spec => []PostsBounded
  <1>1. ReportInv => PostsBounded
    <2> SUFFICES ASSUME ReportInv, losses = 0 PROVE Len(posted) <= 1 + edits
      BY DEF PostsBounded
    <2>1. TypeInv /\ Report
      BY DEF ReportInv, SourceInv
    <2>2. edits \in Nat /\ Len(posted) \in Nat /\ Len(tasks) \in Nat
          /\ DOMAIN posted = 1..Len(posted)
      <3>1. edits \in Nat
        BY <2>1 DEF TypeInv, TypeOK
      <3>2. QED
        BY <2>1, <3>1, TypeFacts, PayloadTypes
    <2>3. CASE Len(posted) = 0
      BY <2>2, <2>3
    <2>4. CASE Len(posted) # 0
      <3> DEFINE last == Len(posted)
                 ph == posted[last].tasks
      <3>1. last \in DOMAIN posted
        BY <2>2, <2>4
      <3>2. Len(ph) \in Nat
        BY <2>1, <3>1, PayloadTypes
      <3>3. Len(ph) <= Len(tasks)
        <4>1. Len(ph) <= Calling
          BY <2>1, <3>1 DEF Report, PostsTold, Told
        <4>2. Calling \in Nat /\ Calling <= Len(tasks)
          BY <2>1, TypeFacts DEF Calling, IsRun
        <4>3. QED
          BY <2>2, <3>2, <4>1, <4>2
      <3>4. last + Len(tasks) <= Len(ph) + edits + 1
        BY <2>1, <3>1 DEF Report, PostsCounted
      <3> HIDE DEF ph
      <3>5. QED
        BY <2>2, <3>2, <3>3, <3>4
    <2>5. QED
      BY <2>3, <2>4
  <1>2. QED
    BY ReportInvariant, <1>1, PTL
=============================================================================

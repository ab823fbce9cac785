--------------------------- MODULE HTTPTaskProofs ---------------------------
(***************************************************************************)
(* Theorems about HTTPTask: what a condition reports, the fence before an  *)
(* endpoint, the in-use protection and the promise to a task's owner, for  *)
(* every set of tasks, every graph of sources and every number of edits,   *)
(* deletions, failures and restarts.                                       *)
(***************************************************************************)
EXTENDS HTTPTask, SequenceTheorems, TLAPS

(* The store, its cache and the queue, as in TypeOK. *)
StoreTyped ==
    /\ api \in [Tasks -> Object \cup {None}] /\ cache \in [Tasks -> Object \cup {None}]
    /\ behind \subseteq Tasks /\ queue \subseteq Tasks
    /\ \A t \in Tasks \ behind : cache[t] = api[t]

(* The worker's Reconcile call: the shape of w, and what TypeOK says of it. *)
Call == [pc: {"idle", "merge", "call", "failed", "record"}, t: Tasks \cup {None},
         task: Object \cup {None}, stale: BOOLEAN, vals: Seq(Objects), reply: Reply \cup {None}]

WorkerTyped ==
    /\ w \in Call
    /\ w.pc # "idle" => w.t \in Tasks /\ w.task \in Object /\ w.task.fin /\ ~w.task.deleting
    /\ w.pc = "record" <=> w.reply # None

(***************************************************************************)
(* ReadyIsCurrent for one task; an edit cannot make an old condition       *)
(* current, and takes from what is held what is no longer named.           *)
(***************************************************************************)
Current(o) ==
    /\ o.cgen <= o.gen
    /\ o.cgen = o.gen /\ o.reason \in {"Computed", "NonSuccessStatus"} =>
          /\ o.hash # None /\ o.hash.input = o.spec.input
          /\ o.asked = o.spec
          /\ o.reason = "Computed" <=> o.ok
    /\ o.held \subseteq Refs(o.spec)

(* What the task o has held is named in its cached copy c too. *)
Known(o, c) == o.held # {} => c # None /\ o.held \subseteq Refs(c.spec)

Stored == \A t \in Tasks : api[t] # None => Current(api[t]) /\ Known(api[t], cache[t])

(***************************************************************************)
(* While no user changes the task, the worker's copy is the stored one,    *)
(* and the cache has its spec, if not its latest status.                   *)
(***************************************************************************)
Held == w.pc # "idle" /\ ~w.stale =>
            /\ api[w.t] = w.task
            /\ cache[w.t] # None /\ cache[w.t].spec = w.task.spec

(***************************************************************************)
(* During a call the worker's copy is marked and has no answer to the body *)
(* sent.  Users cannot change the stored answer either: they can only edit *)
(* the spec, or create the task anew.                                      *)
(***************************************************************************)
Calling ==
    w.pc \in {"call", "failed", "record"} =>
        /\ w.task.reason = "Running" /\ w.task.cgen = w.task.gen
        /\ ~Unchanged
        /\ api[w.t] # None => \/ api[w.t].hash = None
                              \/ api[w.t].hash = w.task.hash /\ api[w.t].out = w.task.out

HInv == StoreTyped /\ WorkerTyped /\ Stored /\ Held /\ Calling

-----------------------------------------------------------------------------
(* Objects that the controller and users write. *)

LEMMA RefsTyped == \A spec \in Specs : Refs(spec) \in SUBSET Tasks
<1> SUFFICES ASSUME NEW spec \in Specs PROVE Refs(spec) \in SUBSET Tasks
    OBVIOUS
<1>1. spec.from \in Seq(Tasks)
    BY HTTPTaskAssumption
<1>2. \A k \in DOMAIN spec.from : spec.from[k] \in Tasks
    BY <1>1, ElementOfSeq
<1> QED BY <1>2 DEF Refs

LEMMA WithReadyObject ==
    ASSUME NEW task \in Object, NEW reason \in Reasons
    PROVE  /\ WithReady(task, reason) \in Object
           /\ WithReady(task, reason).reason = reason /\ WithReady(task, reason).cgen = task.gen
           /\ WithReady(task, reason).gen = task.gen /\ WithReady(task, reason).spec = task.spec
           /\ WithReady(task, reason).deleting = task.deleting /\ WithReady(task, reason).fin = task.fin
           /\ WithReady(task, reason).hash = task.hash /\ WithReady(task, reason).out = task.out
           /\ WithReady(task, reason).ok = task.ok /\ WithReady(task, reason).asked = task.asked
           /\ WithReady(task, reason).held = Refs(task.spec)
<1> DEFINE refs == Refs(task.spec)
<1>1. refs \in SUBSET Tasks
    BY RefsTyped DEF Object
<1>2. WithReady(task, reason) = [task EXCEPT !.reason = reason, !.cgen = task.gen, !.held = refs]
    BY DEF WithReady
<1> HIDE DEF refs
<1>3. LET new == [task EXCEPT !.reason = reason, !.cgen = task.gen, !.held = refs]
      IN  /\ new \in Object /\ new.reason = reason /\ new.cgen = task.gen /\ new.gen = task.gen
          /\ new.spec = task.spec /\ new.deleting = task.deleting /\ new.fin = task.fin
          /\ new.hash = task.hash /\ new.out = task.out /\ new.ok = task.ok
          /\ new.asked = task.asked /\ new.held = refs
    BY <1>1 DEF Object
<1> QED BY <1>2, <1>3 DEF refs

(* The copy of the task with an answer to b. *)
Answer(task, reason, b, out, ok) ==
    [WithReady(task, reason) EXCEPT !.out = out, !.hash = b, !.ok = ok, !.asked = task.spec]

LEMMA AnswerObject ==
    ASSUME NEW task \in Object, NEW reason \in Reasons, NEW b \in Body,
           NEW out \in Objects, NEW ok \in BOOLEAN
    PROVE  /\ Answer(task, reason, b, out, ok) \in Object
           /\ Answer(task, reason, b, out, ok).reason = reason
           /\ Answer(task, reason, b, out, ok).cgen = task.gen
           /\ Answer(task, reason, b, out, ok).gen = task.gen
           /\ Answer(task, reason, b, out, ok).spec = task.spec
           /\ Answer(task, reason, b, out, ok).hash = b
           /\ Answer(task, reason, b, out, ok).out = out
           /\ Answer(task, reason, b, out, ok).ok = ok
           /\ Answer(task, reason, b, out, ok).asked = task.spec
           /\ Answer(task, reason, b, out, ok).held = Refs(task.spec)
<1> DEFINE r == WithReady(task, reason)
<1>1. /\ r \in Object /\ r.reason = reason /\ r.cgen = task.gen /\ r.gen = task.gen
      /\ r.spec = task.spec /\ r.held = Refs(task.spec) /\ task.spec \in Specs
    BY WithReadyObject DEF Object
<1> HIDE DEF r
<1>2. Answer(task, reason, b, out, ok)
          = [r EXCEPT !.out = out, !.hash = b, !.ok = ok, !.asked = task.spec]
    BY DEF Answer, r
<1> QED BY <1>1, <1>2 DEF Object

LEMMA NewTaskObject ==
    ASSUME NEW x \in Specs
    PROVE  /\ NewTask(x) \in Object /\ Current(NewTask(x)) /\ NewTask(x).hash = None
           /\ ~NewTask(x).deleting /\ NewTask(x).held = {}
BY DEF NewTask, Object, Reasons, Current

(* The task with another spec. *)
EditOf(o, x) == [o EXCEPT !.spec = x, !.gen = @ + 1, !.held = @ \cap Refs(x)]

LEMMA EditedObject ==
    ASSUME NEW o \in Object, NEW x \in Specs
    PROVE  LET new == EditOf(o, x)
           IN  /\ new \in Object /\ new.hash = o.hash /\ new.out = o.out
               /\ new.spec = x /\ new.reason = o.reason /\ new.asked = o.asked
               /\ new.held \subseteq o.held
               /\ Current(o) => Current(new)
<1> DEFINE n == o.gen + 1
           h == o.held \cap Refs(x)
           new == [o EXCEPT !.spec = x, !.gen = n, !.held = h]
<1>1. /\ n \in Nat /\ o.gen \in Nat /\ o.cgen \in Nat /\ n > o.gen
      /\ h \in SUBSET Tasks /\ h \subseteq o.held /\ h \subseteq Refs(x)
    BY DEF Object
<1>2. EditOf(o, x) = new
    BY DEF EditOf
<1> HIDE DEF n, h
<1>3. /\ new \in Object /\ new.hash = o.hash /\ new.out = o.out /\ new.cgen = o.cgen
      /\ new.gen = n /\ new.spec = x /\ new.held = h /\ new.reason = o.reason
      /\ new.asked = o.asked
    BY <1>1 DEF Object
<1> HIDE DEF new
<1>4. Current(o) => Current(new)
    BY <1>1, <1>3 DEF Current
<1> QED BY <1>1, <1>2, <1>3, <1>4

LEMMA MetaObject ==
    ASSUME NEW o \in Object
    PROVE  /\ [o EXCEPT !.fin = TRUE] \in Object
           /\ [o EXCEPT !.fin = TRUE].fin = TRUE /\ [o EXCEPT !.fin = TRUE].deleting = o.deleting
           /\ [o EXCEPT !.fin = TRUE].hash = o.hash /\ [o EXCEPT !.fin = TRUE].out = o.out
           /\ [o EXCEPT !.fin = TRUE].spec = o.spec /\ [o EXCEPT !.fin = TRUE].held = o.held
           /\ Current(o) => Current([o EXCEPT !.fin = TRUE])
           /\ o.fin => [o EXCEPT !.fin = TRUE] = o
           /\ [o EXCEPT !.deleting = TRUE] \in Object
           /\ [o EXCEPT !.deleting = TRUE].hash = o.hash /\ [o EXCEPT !.deleting = TRUE].out = o.out
           /\ [o EXCEPT !.deleting = TRUE].held = o.held
           /\ Current(o) => Current([o EXCEPT !.deleting = TRUE])
BY DEF Object, Current

(* The worker between two keys, and as it starts on a task. *)
LEMMA IdleTyped == Idle \in Call /\ Idle.pc = "idle" /\ Idle.vals = <<>> /\ Idle.reply = None
BY DEF Idle, Call

Started(call, t, task, late) ==
    [call EXCEPT !.pc = "merge", !.t = t, !.task = task, !.stale = late]

LEMMA StartedCall ==
    ASSUME NEW call \in Call, NEW t \in Tasks, NEW task \in Object, NEW late \in BOOLEAN
    PROVE  /\ Started(call, t, task, late) \in Call /\ Started(call, t, task, late).pc = "merge"
           /\ Started(call, t, task, late).t = t /\ Started(call, t, task, late).task = task
           /\ Started(call, t, task, late).stale = late
           /\ Started(call, t, task, late).vals = call.vals
           /\ Started(call, t, task, late).reply = call.reply
BY DEF Started, Call

(* The body sent is never the missing hash. *)
LEMMA BodyTyped ==
    ASSUME WorkerTyped, w.pc # "idle"
    PROVE  body \in Body /\ body # None /\ body.input = w.task.spec.input
<1>1. w.task.spec.input \in Inputs /\ w.vals \in Seq(Objects)
    BY DEF WorkerTyped, Call, Object, Inputs
<1> QED BY <1>1, HTTPTaskAssumption DEF body, Body

-----------------------------------------------------------------------------
(* Writes. *)

LEMMA StoreEffect ==
    ASSUME StoreTyped, NEW t \in Tasks, NEW new \in Object \cup {None},
           Store(t, new), UNCHANGED cache, queue' \subseteq Tasks
    PROVE  StoreTyped' /\ api'[t] = new /\ \A u \in Tasks \ {t} : api'[u] = api[u]
<1>1. api' = [api EXCEPT ![t] = new] /\ behind' = IF new = api[t] THEN behind ELSE behind \cup {t}
    BY DEF Store
<1>2. /\ api' \in [Tasks -> Object \cup {None}] /\ api'[t] = new
      /\ \A u \in Tasks \ {t} : api'[u] = api[u]
    BY <1>1 DEF StoreTyped
<1>3. behind' \subseteq Tasks /\ \A u \in Tasks \ behind' : cache'[u] = api'[u]
    BY <1>1, <1>2 DEF StoreTyped
<1> QED BY <1>2, <1>3 DEF StoreTyped

(* A write of the worker's copy succeeds only on the object it was read from. *)
LEMMA WorkerWrite ==
    ASSUME HInv, w.pc # "idle", NEW new \in Object, Current(new), new.spec = w.task.spec,
           Write(w.t, w.stale, new), UNCHANGED cache, queue' \subseteq Tasks
    PROVE  /\ StoreTyped' /\ Stored' /\ api'[w.t] = new /\ api[w.t] = w.task /\ cache[w.t] # None
           /\ \A u \in Tasks \ {w.t} : api'[u] = api[u]
<1>1. w.t \in Tasks /\ ~w.stale /\ Store(w.t, new)
    BY DEF HInv, WorkerTyped, Write
<1>2. StoreTyped' /\ api'[w.t] = new /\ \A u \in Tasks \ {w.t} : api'[u] = api[u]
    BY <1>1, StoreEffect DEF HInv
<1>3. api[w.t] = w.task /\ cache[w.t] # None /\ cache[w.t].spec = w.task.spec
    BY <1>1 DEF HInv, Held
<1>4. Stored'
  <2>1. Known(new, cache[w.t])
      BY <1>3 DEF Current, Known
  <2> QED BY <1>1, <1>2, <2>1 DEF HInv, Stored
<1> QED BY <1>2, <1>3, <1>4

LEMMA WriteRefused ==
    ASSUME HInv, NEW stale, WriteFails(stale), UNCHANGED cache, queue' \subseteq Tasks
    PROVE  StoreTyped' /\ Stored' /\ UNCHANGED api
BY DEF HInv, StoreTyped, Stored, WriteFails

(* Reconcile returns. *)
LEMMA Finished ==
    ASSUME StoreTyped', Stored', w' = Idle
    PROVE  HInv'
<1>1. w'.pc = "idle" /\ w'.reply = None /\ w' = Idle
    BY DEF Idle
<1>2. WorkerTyped'
    BY <1>1, IdleTyped DEF WorkerTyped
<1>3. Held' /\ Calling'
    BY <1>1 DEF Held, Calling
<1> QED BY <1>2, <1>3 DEF HInv

(* The conditions that report no answer. *)
NoAnswer == {"WaitingOnSource", "SourceNotFound", "Running", "RequestFailed"}

LEMMA ConditionCurrent ==
    ASSUME NEW task \in Object, NEW reason \in NoAnswer
    PROVE  /\ WithReady(task, reason) \in Object /\ Current(WithReady(task, reason))
           /\ WithReady(task, reason).spec = task.spec
<1>1. reason \in Reasons /\ reason \notin {"Computed", "NonSuccessStatus"}
    BY DEF NoAnswer, Reasons
<1>2. task.gen \in Nat
    BY DEF Object
<1> HIDE DEF NoAnswer
<1> QED BY <1>1, <1>2, WithReadyObject DEF Current

LEMMA FailStep ==
    ASSUME HInv, w.pc # "idle", NEW reason \in NoAnswer, fail(reason), UNCHANGED cache
    PROVE  HInv'
<1>1. w.task \in Object /\ queue' \subseteq Tasks /\ w' = Idle
    BY DEF HInv, WorkerTyped, StoreTyped, fail, Done
<1>2. /\ WithReady(w.task, reason) \in Object /\ Current(WithReady(w.task, reason))
      /\ WithReady(w.task, reason).spec = w.task.spec
    BY <1>1, ConditionCurrent
<1>3. StoreTyped' /\ Stored'
    BY <1>1, <1>2, WorkerWrite, WriteRefused DEF fail
<1> QED BY <1>1, <1>3, Finished

LEMMA WaitingStep ==
    ASSUME HInv, w.pc # "idle", NEW reason \in NoAnswer, waiting(reason), UNCHANGED cache
    PROVE  HInv'
<1>1. w.task \in Object /\ queue' \subseteq Tasks /\ w' = Idle
    BY DEF HInv, WorkerTyped, StoreTyped, waiting, Done, Retry
<1>2. /\ WithReady(w.task, reason) \in Object /\ Current(WithReady(w.task, reason))
      /\ WithReady(w.task, reason).spec = w.task.spec
    BY <1>1, ConditionCurrent
<1>3. StoreTyped' /\ Stored'
    BY <1>1, <1>2, WorkerWrite, WriteRefused DEF waiting
<1> QED BY <1>1, <1>3, Finished

-----------------------------------------------------------------------------
LEMMA InitHInv == Init => HInv
<1> SUFFICES ASSUME Init PROVE HInv
    OBVIOUS
<1>1. PICK given \in [Tasks -> Specs \cup {None}] :
         api = [t \in Tasks |-> IF given[t] = None THEN None ELSE NewTask(given[t])]
    BY DEF Init
<1>2. \A t \in Tasks : /\ api[t] \in Object \cup {None}
                       /\ api[t] # None => Current(api[t]) /\ api[t].held = {}
    BY <1>1, NewTaskObject
<1>3. StoreTyped
    BY <1>1, <1>2 DEF StoreTyped, Init
<1>4. WorkerTyped /\ Held /\ Calling
  <2>1. w = Idle /\ w.pc = "idle" /\ w.reply = None
      BY DEF Init, Idle
  <2> QED BY <2>1, IdleTyped DEF WorkerTyped, Held, Calling
<1>5. Stored
    BY <1>2 DEF Stored, Known
<1> QED BY <1>3, <1>4, <1>5 DEF HInv

(* Only the queue changes. *)
LEMMA QueueStep ==
    ASSUME HInv, UNCHANGED <<api, cache, behind, w>>, queue' \subseteq Tasks
    PROVE  HInv'
BY DEF HInv, StoreTyped, WorkerTyped, Stored, Held, Calling, Unchanged, body

LEMMA GetNotFoundStep ==
    ASSUME HInv, NEW t \in Tasks, GetNotFound(t)
    PROVE  HInv'
<1>1. queue' \subseteq Tasks
    BY DEF HInv, StoreTyped, GetNotFound
<1> QED BY <1>1, QueueStep DEF GetNotFound

LEMMA ResyncStep ==
    ASSUME HInv, NEW t \in Tasks, Resync(t)
    PROVE  HInv'
<1>1. queue' \subseteq Tasks
    BY DEF HInv, StoreTyped, Resync
<1> QED BY <1>1, QueueStep DEF Resync

(* The finalizer goes, and with it the task, while the worker is between two keys. *)
LEMMA GetDeletingStep ==
    ASSUME HInv, NEW t \in Tasks, GetDeleting(t)
    PROVE  HInv'
<1>1. UNCHANGED <<cache, w>> /\ queue' \subseteq Tasks /\ w.pc = "idle"
    BY DEF GetDeleting, HInv, StoreTyped
<1>2. WorkerTyped' /\ Held' /\ Calling'
    BY <1>1 DEF HInv, WorkerTyped, Held, Calling
<1>3. CASE UNCHANGED <<api, behind>>
    BY <1>1, <1>3, QueueStep
<1>4. CASE Write(t, t \in behind, None)
  <2>1. StoreTyped' /\ api'[t] = None /\ \A u \in Tasks \ {t} : api'[u] = api[u]
      BY <1>1, <1>4, StoreEffect DEF HInv, Write
  <2>2. Stored'
      BY <1>1, <2>1 DEF HInv, Stored
  <2> QED BY <1>2, <2>1, <2>2 DEF HInv
<1>5. CASE WriteFails(t \in behind)
    BY <1>1, <1>2, <1>5, WriteRefused DEF HInv
<1> QED BY <1>3, <1>4, <1>5 DEF GetDeleting

(* The worker takes its copy from the cache; adding the finalizer checks it. *)
LEMMA GetTaskStep ==
    ASSUME HInv, NEW t \in Tasks, GetTask(t)
    PROVE  HInv'
<1> DEFINE task == [cache[t] EXCEPT !.fin = TRUE]
           late == t \in behind
           started == Started(Idle, t, task, late)
<1>1. /\ UNCHANGED cache /\ w.pc = "idle" /\ queue' \subseteq Tasks
      /\ cache[t] \in Object /\ cache[t] # None /\ ~cache[t].deleting
      /\ t \notin behind => cache[t] = api[t]
    BY DEF GetTask, HInv, StoreTyped
<1>2. /\ task \in Object /\ task.fin = TRUE /\ ~task.deleting
      /\ task.spec = cache[t].spec /\ task.held = cache[t].held
      /\ Current(cache[t]) => Current(task)
      /\ cache[t].fin => task = cache[t]
    BY <1>1, MetaObject
<1>3. /\ started.pc = "merge" /\ started.t = t /\ started.task = task
      /\ started.stale = late /\ started.vals = <<>> /\ started.reply = None
      /\ started \in Call
  <2>1. late \in BOOLEAN
      OBVIOUS
  <2> HIDE DEF task, late
  <2>2. Idle \in Call /\ Idle.vals = <<>> /\ Idle.reply = None
      BY IdleTyped
  <2>3. /\ started \in Call /\ started.pc = "merge" /\ started.t = t /\ started.task = task
        /\ started.stale = late /\ started.vals = Idle.vals /\ started.reply = Idle.reply
      BY <1>2, <2>1, <2>2, StartedCall
  <2> QED BY <2>2, <2>3
<1>4. \/ (IF cache[t].fin THEN UNCHANGED <<api, behind, budget>> ELSE Write(t, t \in behind, task))
         /\ w' = started
      \/ WriteFails(t \in behind) /\ UNCHANGED w
    BY Zenon DEF GetTask, Started
<1> HIDE DEF task, started
<1>5. CASE WriteFails(t \in behind) /\ UNCHANGED w
  <2>1. StoreTyped' /\ Stored'
      BY <1>1, <1>5, WriteRefused
  <2>2. WorkerTyped' /\ Held' /\ Calling'
      BY <1>1, <1>5 DEF HInv, WorkerTyped, Held, Calling
  <2> QED BY <2>1, <2>2 DEF HInv
<1>6. ASSUME w' = started
      PROVE  WorkerTyped' /\ Calling'
  <2>1. WorkerTyped'
      BY <1>2, <1>3, <1>6 DEF WorkerTyped
  <2>2. Calling'
      BY <1>3, <1>6 DEF Calling
  <2> QED BY <2>1, <2>2
<1>7. CASE cache[t].fin /\ UNCHANGED <<api, behind, budget>> /\ w' = started
  <2>1. StoreTyped' /\ Stored'
      BY <1>1, <1>7 DEF HInv, StoreTyped, Stored
  <2>2. Held'
      BY <1>1, <1>2, <1>3, <1>7 DEF Held
  <2> QED BY <1>6, <1>7, <2>1, <2>2 DEF HInv
<1>8. CASE ~cache[t].fin /\ Write(t, t \in behind, task) /\ w' = started
  <2>1. /\ StoreTyped' /\ api'[t] = task /\ \A u \in Tasks \ {t} : api'[u] = api[u]
        /\ t \notin behind
      BY <1>1, <1>2, <1>8, StoreEffect DEF HInv, Write
  <2>2. Stored'
      BY <1>1, <1>2, <2>1 DEF HInv, Stored, Known
  <2>3. Held'
      BY <1>1, <1>2, <1>3, <1>8, <2>1 DEF Held
  <2> QED BY <1>6, <1>8, <2>1, <2>2, <2>3 DEF HInv
<1> QED BY <1>4, <1>5, <1>7, <1>8

(* One source after the other is looked up in the cache. *)
LEMMA MergeSourceStep ==
    ASSUME HInv, MergeSource
    PROVE  HInv'
<1>1. w.pc = "merge" /\ UNCHANGED cache
    BY DEF MergeSource, Merging
<1>2. CASE fail("SourceNotFound")
    BY <1>1, <1>2, FailStep DEF NoAnswer
<1>3. CASE waiting("WaitingOnSource")
    BY <1>1, <1>3, WaitingStep DEF NoAnswer
<1>4. CASE /\ source.out \in HasField /\ w' = [w EXCEPT !.vals = Append(@, source.out)]
           /\ UNCHANGED <<api, behind, queue, budget>>
  <2>1. source.out \in Objects
      BY <1>4, HTTPTaskAssumption
  <2>2. Append(w.vals, source.out) \in Seq(Objects) /\ w \in Call
      BY <2>1 DEF HInv, WorkerTyped, Call
  <2>3. /\ w' \in Call /\ w'.pc = "merge" /\ w'.t = w.t /\ w'.task = w.task /\ w'.stale = w.stale
        /\ w'.reply = w.reply
      BY <1>1, <1>4, <2>2 DEF Call
  <2>4. WorkerTyped' /\ Held' /\ Calling'
      BY <1>1, <1>4, <2>3 DEF HInv, WorkerTyped, Held, Calling
  <2>5. StoreTyped' /\ Stored'
      BY <1>1, <1>4 DEF HInv, StoreTyped, Stored
  <2> QED BY <2>4, <2>5 DEF HInv
<1> QED BY <1>2, <1>3, <1>4 DEF MergeSource

LEMMA SkipStep ==
    ASSUME HInv, Skip
    PROVE  HInv'
<1>1. StoreTyped' /\ Stored' /\ w' = Idle
    BY DEF Skip, Done, HInv, StoreTyped, Stored
<1> QED BY <1>1, Finished

(* The mark is accepted only on the task the worker read. *)
LEMMA MarkRunningStep ==
    ASSUME HInv, MarkRunning
    PROVE  HInv'
<1> DEFINE task == WithReady(w.task, "Running")
<1>1. w.pc = "merge" /\ UNCHANGED cache /\ ~Unchanged
    BY DEF MarkRunning, Merged
<1>2. w.task \in Object /\ w.task.fin /\ ~w.task.deleting /\ w \in Call /\ w.t \in Tasks /\ w.reply = None
    BY <1>1 DEF HInv, WorkerTyped
<1>3. /\ task \in Object /\ Current(task) /\ task.reason = "Running" /\ task.cgen = task.gen
      /\ task.hash = w.task.hash /\ task.out = w.task.out /\ task.spec = w.task.spec
      /\ task.fin /\ ~task.deleting
  <2>1. "Running" \in NoAnswer /\ "Running" \in Reasons
      BY DEF NoAnswer, Reasons
  <2> QED BY <1>2, <2>1, WithReadyObject, ConditionCurrent
<1>4. \/ Write(w.t, w.stale, task) /\ w' = [w EXCEPT !.pc = "call", !.task = task] /\ UNCHANGED queue
      \/ WriteFails(w.stale) /\ Retry
    BY DEF MarkRunning
<1> HIDE DEF task
<1>5. CASE WriteFails(w.stale) /\ Retry
  <2>1. queue' \subseteq Tasks /\ w' = Idle
      BY <1>2, <1>5 DEF Retry, HInv, StoreTyped
  <2>2. StoreTyped' /\ Stored'
      BY <1>1, <1>5, <2>1, WriteRefused
  <2> QED BY <2>1, <2>2, Finished
<1>6. CASE Write(w.t, w.stale, task) /\ w' = [w EXCEPT !.pc = "call", !.task = task] /\ UNCHANGED queue
  <2>1. /\ w' \in Call /\ w'.pc = "call" /\ w'.t = w.t /\ w'.task = task /\ w'.stale = w.stale
        /\ w'.vals = w.vals /\ w'.reply = None
      BY <1>2, <1>3, <1>6 DEF Call
  <2>2. /\ StoreTyped' /\ Stored' /\ api'[w.t] = task
        /\ cache[w.t] # None /\ cache[w.t].spec = w.task.spec
    <3>1. queue' \subseteq Tasks
        BY <1>6 DEF HInv, StoreTyped
    <3>2. cache[w.t].spec = w.task.spec
        BY <1>1, <1>6 DEF HInv, Held, Write
    <3> QED BY <1>1, <1>3, <1>6, <3>1, <3>2, WorkerWrite
  <2>3. WorkerTyped' /\ Held'
      BY <1>1, <1>2, <1>3, <2>1, <2>2 DEF WorkerTyped, Held
  <2>4. Unchanged' = Unchanged
      BY <1>3, <2>1 DEF Unchanged, body
  <2>5. Calling'
      BY <1>1, <1>3, <2>1, <2>2, <2>4 DEF Calling
  <2> QED BY <2>2, <2>3, <2>5 DEF HInv
<1> QED BY <1>4, <1>5, <1>6

(* The call ends: only the worker knows. *)
LEMMA CallEnds ==
    ASSUME HInv, w.pc = "call", UNCHANGED <<api, cache, behind, queue>>,
           w' \in Call, w'.pc \in {"failed", "record"}, w'.pc = "record" <=> w'.reply # None,
           w'.t = w.t, w'.task = w.task, w'.stale = w.stale, w'.vals = w.vals
    PROVE  HInv'
<1>1. StoreTyped' /\ Stored'
    BY DEF HInv, StoreTyped, Stored
<1>2. WorkerTyped' /\ Held'
    BY DEF HInv, WorkerTyped, Held
<1>3. Unchanged' = Unchanged
    BY DEF Unchanged, body
<1>4. Calling'
    BY <1>3 DEF HInv, Calling
<1> QED BY <1>1, <1>2, <1>4 DEF HInv

LEMMA SendStep ==
    ASSUME HInv, Send
    PROVE  HInv'
<1>1. PICK r \in Replies : w' = [w EXCEPT !.pc = "record", !.reply = r]
    BY DEF Send
<1>2. r \in Reply /\ r # None /\ w \in Call
    BY HTTPTaskAssumption DEF HInv, WorkerTyped
<1>3. /\ w' \in Call /\ w'.pc = "record" /\ w'.reply = r /\ w'.t = w.t /\ w'.task = w.task
      /\ w'.stale = w.stale /\ w'.vals = w.vals
    BY <1>1, <1>2 DEF Call
<1> QED BY <1>2, <1>3, CallEnds DEF Send

LEMMA SendFailsStep ==
    ASSUME HInv, SendFails
    PROVE  HInv'
<1>1. w \in Call /\ w.pc = "call" /\ w.reply = None
    BY DEF SendFails, HInv, WorkerTyped
<1>2. /\ w' \in Call /\ w'.pc = "failed" /\ w'.reply = None /\ w'.t = w.t /\ w'.task = w.task
      /\ w'.stale = w.stale /\ w'.vals = w.vals
    BY <1>1 DEF SendFails, Call
<1> QED BY <1>1, <1>2, CallEnds DEF SendFails

LEMMA RequestFailedStep ==
    ASSUME HInv, RequestFailed
    PROVE  HInv'
BY FailStep DEF RequestFailed, NoAnswer

(* The answer is recorded with the body it answers, on the task that was marked. *)
LEMMA RecordStep ==
    ASSUME HInv, Record
    PROVE  HInv'
<1> DEFINE reason == IF w.reply.ok THEN "Computed" ELSE "NonSuccessStatus"
           task == Answer(w.task, reason, body, w.reply.body, w.reply.ok)
<1>1. w.pc = "record" /\ UNCHANGED cache /\ w' = Idle /\ queue' \subseteq Tasks
    BY DEF Record, Done, Retry, HInv, StoreTyped, WorkerTyped
<1>2. w.task \in Object /\ w.reply \in Reply /\ w.reply.ok \in BOOLEAN /\ reason \in Reasons
    BY <1>1 DEF HInv, WorkerTyped, Call, Reply, Reasons
<1>3. body \in Body /\ body # None /\ body.input = w.task.spec.input
    BY <1>1, BodyTyped DEF HInv
<1>4. w.reply.body \in Objects => task \in Object /\ Current(task) /\ task.spec = w.task.spec
  <2> SUFFICES ASSUME w.reply.body \in Objects
               PROVE  task \in Object /\ Current(task) /\ task.spec = w.task.spec
      OBVIOUS
  <2>1. /\ task \in Object /\ task.reason = reason /\ task.cgen = w.task.gen /\ task.gen = w.task.gen
        /\ task.spec = w.task.spec /\ task.hash = body /\ task.ok = w.reply.ok
        /\ task.asked = w.task.spec /\ task.held = Refs(w.task.spec)
      BY <1>2, <1>3, AnswerObject
  <2>2. w.task.gen \in Nat
      BY <1>2 DEF Object
  <2> QED BY <1>2, <1>3, <2>1, <2>2 DEF Current
<1>5. \/ w.reply.body \in Objects /\ Write(w.t, w.stale, task)
      \/ WriteFails(w.stale)
      \/ UNCHANGED <<api, behind>>
    BY Zenon DEF Record, Answer
<1> HIDE DEF task
<1>6. CASE w.reply.body \in Objects /\ Write(w.t, w.stale, task)
    BY <1>1, <1>4, <1>6, WorkerWrite, Finished
<1>7. CASE WriteFails(w.stale)
    BY <1>1, <1>7, WriteRefused, Finished
<1>8. CASE UNCHANGED <<api, behind>>
  <2>1. StoreTyped' /\ Stored'
      BY <1>1, <1>8 DEF HInv, StoreTyped, Stored
  <2> QED BY <1>1, <2>1, Finished
<1> QED BY <1>5, <1>6, <1>7, <1>8

(* The cache catches up: what it shows of the worker's task is there. *)
LEMMA SyncStep ==
    ASSUME HInv, NEW t \in Tasks, Sync(t)
    PROVE  HInv'
<1>1. UNCHANGED <<api, w>> /\ cache' = [cache EXCEPT ![t] = api[t]] /\ behind' = behind \ {t}
    BY DEF Sync
<1>2. queue' \subseteq Tasks
    BY DEF Sync, HInv, StoreTyped, findDependentTasks
<1>3. StoreTyped'
    BY <1>1, <1>2 DEF HInv, StoreTyped
<1>4. Stored'
    BY <1>1 DEF HInv, StoreTyped, Stored, Known, Current
<1>5. WorkerTyped'
    BY <1>1 DEF HInv, WorkerTyped
<1>6. Held'
  <2> SUFFICES ASSUME w.pc # "idle", ~w.stale 
               PROVE  api[w.t] = w.task /\ cache'[w.t] # None /\ cache'[w.t].spec = w.task.spec
      BY <1>1 DEF Held
  <2>1. /\ api[w.t] = w.task /\ cache[w.t] # None /\ cache[w.t].spec = w.task.spec
        /\ w.task # None /\ w.t \in Tasks
      BY HTTPTaskAssumption DEF HInv, Held, WorkerTyped
  <2> QED BY <1>1, <2>1 DEF HInv, StoreTyped
<1>7. Calling'
    BY <1>1 DEF HInv, Calling, Unchanged, body
<1> QED BY <1>3, <1>4, <1>5, <1>6, <1>7 DEF HInv

LEMMA CrashStep ==
    ASSUME HInv, Crash
    PROVE  HInv'
<1>1. StoreTyped' /\ Stored' /\ w' = Idle
    BY DEF Crash, HInv, StoreTyped, Stored, Known, Current
<1> QED BY <1>1, Finished

(* A user's change: the worker's copy is out of date, the answer is kept or gone. *)
LEMMA ChangedStep ==
    ASSUME HInv, NEW t \in Tasks, NEW new \in Object \cup {None}, Changed(t, new),
           new # None =>
              /\ Current(new)
              /\ new.held # {} => api[t] # None /\ new.held \subseteq api[t].held
              /\ \/ new.hash = None
                 \/ api[t] # None /\ new.hash = api[t].hash /\ new.out = api[t].out
    PROVE  HInv'
<1>1. UNCHANGED <<cache, queue>> /\ Store(t, new)
    BY DEF Changed
<1>2. StoreTyped' /\ api'[t] = new /\ \A u \in Tasks \ {t} : api'[u] = api[u]
    BY <1>1, StoreEffect DEF HInv, StoreTyped
<1>3. Stored'
  <2>1. new # None => Known(new, cache[t])
      BY DEF HInv, Stored, Known
  <2> QED BY <1>1, <1>2, <2>1 DEF HInv, Stored
<1>4. /\ w' \in Call /\ w'.pc = w.pc /\ w'.t = w.t /\ w'.task = w.task /\ w'.vals = w.vals
      /\ w'.reply = w.reply
      /\ w'.stale = IF w.t = t THEN TRUE ELSE w.stale
  <2>1. w \in Call
      BY DEF HInv, WorkerTyped
  <2>2. CASE w.t = t
      BY <2>1, <2>2 DEF Changed, Call
  <2>3. CASE w.t # t
      BY <2>1, <2>3 DEF Changed
  <2> QED BY <2>2, <2>3
<1>5. WorkerTyped'
    BY <1>4 DEF HInv, WorkerTyped
<1>6. Held'
    BY <1>1, <1>2, <1>4 DEF HInv, WorkerTyped, Held
<1>7. Unchanged' = Unchanged
    BY <1>4 DEF Unchanged, body
<1>8. Calling'
  <2> SUFFICES ASSUME w.pc \in {"call", "failed", "record"}
               PROVE  api'[w.t] # None => \/ api'[w.t].hash = None
                                          \/ api'[w.t].hash = w.task.hash /\ api'[w.t].out = w.task.out
      BY <1>4, <1>7 DEF HInv, Calling
  <2>1. w.t \in Tasks /\ (api[w.t] # None => \/ api[w.t].hash = None
                                             \/ api[w.t].hash = w.task.hash /\ api[w.t].out = w.task.out)
      BY DEF HInv, WorkerTyped, Calling
  <2>2. CASE w.t = t
      BY <1>2, <2>1, <2>2
  <2>3. CASE w.t # t
      BY <1>2, <2>1, <2>3
  <2> QED BY <2>2, <2>3
<1> QED BY <1>2, <1>3, <1>5, <1>6, <1>8 DEF HInv

LEMMA CreateStep ==
    ASSUME HInv, NEW t \in Tasks, NEW x \in Specs, Create(t, x)
    PROVE  HInv'
<1>1. /\ NewTask(x) \in Object /\ Current(NewTask(x)) /\ NewTask(x).hash = None
      /\ NewTask(x).held = {}
    BY NewTaskObject
<1> QED BY <1>1, ChangedStep DEF Create

LEMMA EditSpecStep ==
    ASSUME HInv, NEW t \in Tasks, NEW x \in Specs, EditSpec(t, x)
    PROVE  HInv'
<1> DEFINE new == EditOf(api[t], x)
<1>1. api[t] \in Object /\ api[t] # None /\ Current(api[t]) /\ Changed(t, new)
    BY DEF EditSpec, EditOf, HInv, StoreTyped, Stored
<1>2. /\ new \in Object /\ new.hash = api[t].hash /\ new.out = api[t].out /\ Current(new)
      /\ new.held \subseteq api[t].held
    BY <1>1, EditedObject
<1> HIDE DEF new
<1> QED BY <1>1, <1>2, ChangedStep

LEMMA DeleteTaskStep ==
    ASSUME HInv, NEW t \in Tasks, DeleteTask(t)
    PROVE  HInv'
<1> DEFINE new == IF api[t].fin THEN [api[t] EXCEPT !.deleting = TRUE] ELSE None
<1>1. api[t] \in Object /\ api[t] # None /\ Current(api[t]) /\ Changed(t, new)
    BY DEF DeleteTask, HInv, StoreTyped, Stored
<1>2. /\ new \in Object \cup {None}
      /\ new # None => /\ Current(new) /\ new.hash = api[t].hash /\ new.out = api[t].out
                       /\ new.held = api[t].held
    BY <1>1, MetaObject
<1> HIDE DEF new
<1> QED BY <1>1, <1>2, ChangedStep

-----------------------------------------------------------------------------
LEMMA HInvStep == HInv /\ [Next]_vars => HInv'
<1> SUFFICES ASSUME HInv, [Next]_vars PROVE HInv'
    OBVIOUS
<1>1. CASE \E t \in Tasks : GetNotFound(t) \/ GetDeleting(t) \/ GetTask(t)
    BY <1>1, GetNotFoundStep, GetDeletingStep, GetTaskStep
<1>2. CASE MergeSource \/ Skip \/ MarkRunning
    BY <1>2, MergeSourceStep, SkipStep, MarkRunningStep
<1>3. CASE Send \/ SendFails \/ RequestFailed \/ Record
    BY <1>3, SendStep, SendFailsStep, RequestFailedStep, RecordStep
<1>4. CASE User
    BY <1>4, CreateStep, EditSpecStep, DeleteTaskStep, HTTPTaskAssumption DEF User
<1>5. CASE Crash
    BY <1>5, CrashStep
<1>6. CASE \E t \in Tasks : Sync(t) \/ Resync(t)
    BY <1>6, SyncStep, ResyncStep
<1>7. CASE UNCHANGED vars
  <2>1. queue' \subseteq Tasks
      BY <1>7 DEF vars, HInv, StoreTyped
  <2> QED BY <1>7, <2>1, QueueStep DEF vars
<1> QED BY <1>1, <1>2, <1>3, <1>4, <1>5, <1>6, <1>7 DEF Next, Worker

LEMMA HTTPTaskInv == Spec => []HInv
BY InitHInv, HInvStep, PTL DEF Spec

(***************************************************************************)
(* The store, the cache, the queue and the worker keep their types; the    *)
(* cache shows the stored object of every task no watch event is due for.  *)
(***************************************************************************)
THEOREM HTTPTaskTyped == Spec => []TypeOK
<1>1. HInv => TypeOK
  <2> SUFFICES ASSUME HInv PROVE TypeOK
      OBVIOUS
  <2>1. w.pc \in {"idle", "merge", "call", "failed", "record"} /\ w.vals \in Seq(Objects)
      BY DEF HInv, WorkerTyped, Call
  <2> QED BY <2>1, Zenon DEF HInv, StoreTyped, WorkerTyped, TypeOK
<1> QED BY <1>1, HTTPTaskInv, PTL

(***************************************************************************)
(* A condition of the current generation that reports an answer reports    *)
(* the answer to the current input from the current endpoint, whatever is  *)
(* edited during the call.                                                 *)
(***************************************************************************)
THEOREM ConditionsCurrent == Spec => []ReadyIsCurrent
<1>1. HInv => ReadyIsCurrent
    BY DEF HInv, Stored, Current, ReadyIsCurrent
<1> QED BY <1>1, HTTPTaskInv, PTL

(***************************************************************************)
(* No endpoint is sent a body whose answer is already stored, however old  *)
(* the copy is from which the worker decides to call.                      *)
(***************************************************************************)
THEOREM EndpointFenced == Spec => EndpointFence
<1> DEFINE Fence == w.pc = "call" /\ w'.pc \in {"failed", "record"} =>
                      ~(api[w.t] # None /\ api[w.t].hash = body /\ api[w.t].out # None)
<1>1. HInv => Fence
  <2> SUFFICES ASSUME HInv, w.pc = "call", api[w.t] # None, api[w.t].hash = body, api[w.t].out # None
               PROVE  FALSE
      OBVIOUS
  <2>1. body # None
      BY BodyTyped DEF HInv
  <2> QED BY <2>1 DEF HInv, Calling, Unchanged
<1> HIDE DEF Fence
<1>2. Spec => [][Fence]_vars
    BY <1>1, HTTPTaskInv, PTL DEF Spec
<1> QED BY <1>2 DEF EndpointFence, Fence

-----------------------------------------------------------------------------
(***************************************************************************)
(* How the stored object of t may become "new": created, edited, marked    *)
(* for deletion, given the finalizer, removed by a user or by the          *)
(* controller, given a condition, and given an answer.                     *)
(***************************************************************************)
Created(t, new)   == api[t] = None /\ \E x \in Specs : new = NewTask(x)
Edited(t, new)    == api[t] # None /\ \E x \in Specs : new = EditOf(api[t], x)
Kept(t, new)      == api[t] # None /\ new \in {[api[t] EXCEPT !.deleting = TRUE], [api[t] EXCEPT !.fin = TRUE]}
Dropped(t, new)   == api[t] # None /\ ~api[t].deleting /\ new = None
Released(t, new)  == ~taskReferencedByOthers(t) /\ new = None
Condition(t, new) == api[t] # None /\ \E reason \in NoAnswer : new = WithReady(api[t], reason)
Recorded(t, new)  ==
    /\ api[t] # None /\ api[t].reason = "Running"
    /\ \E reason \in {"Computed", "NonSuccessStatus"}, b \in Body, out \in Objects, ok \in BOOLEAN :
          b.input = api[t].spec.input /\ new = Answer(api[t], reason, b, out, ok)

Effect(t, new) ==
    \/ Created(t, new) \/ Edited(t, new) \/ Kept(t, new) \/ Dropped(t, new)
    \/ Released(t, new) \/ Condition(t, new) \/ Recorded(t, new)

Becomes(t, new) == api' = [api EXCEPT ![t] = new] /\ Effect(t, new)

(* A write of the worker replaces the task by what it makes of it. *)
LEMMA WorkerWriteEffect ==
    ASSUME HInv, w.pc # "idle", NEW new, Write(w.t, w.stale, new)
    PROVE  api' = [api EXCEPT ![w.t] = new] /\ api[w.t] = w.task /\ api[w.t] # None /\ w.t \in Tasks
BY HTTPTaskAssumption DEF HInv, WorkerTyped, Held, Write, Store

LEMMA ConditionEffect ==
    ASSUME HInv, w.pc # "idle", NEW reason \in NoAnswer,
           Write(w.t, w.stale, WithReady(w.task, reason)) \/ WriteFails(w.stale)
    PROVE  UNCHANGED api \/ \E t \in Tasks, new \in Object \cup {None} : Becomes(t, new)
<1>1. CASE WriteFails(w.stale)
    BY <1>1 DEF WriteFails
<1>2. CASE Write(w.t, w.stale, WithReady(w.task, reason))
  <2>1. /\ api' = [api EXCEPT ![w.t] = WithReady(w.task, reason)] /\ api[w.t] = w.task
        /\ api[w.t] # None /\ w.t \in Tasks /\ w.task \in Object
      BY <1>2, WorkerWriteEffect DEF HInv, WorkerTyped
  <2>2. WithReady(w.task, reason) \in Object
      BY <2>1, ConditionCurrent
  <2>3. Condition(w.t, WithReady(w.task, reason))
      BY <2>1 DEF Condition
  <2> QED BY <2>1, <2>2, <2>3 DEF Becomes, Effect
<1> QED BY <1>1, <1>2

LEMMA GetEffect ==
    ASSUME HInv, NEW t \in Tasks, GetDeleting(t) \/ GetTask(t)
    PROVE  UNCHANGED api \/ \E new \in Object \cup {None} : Becomes(t, new)
<1>1. cache[t] \in Object /\ cache[t] # None /\ (t \notin behind => api[t] = cache[t])
    BY DEF GetDeleting, GetTask, HInv, StoreTyped
<1>2. CASE GetDeleting(t)
  <2>1. CASE UNCHANGED api \/ WriteFails(t \in behind)
      BY <2>1 DEF WriteFails
  <2>2. CASE cache[t].fin /\ Write(t, t \in behind, None)
    <3>1. api' = [api EXCEPT ![t] = None]
        BY <2>2 DEF Write, Store
    <3>2. Released(t, None)
        BY <1>2, <2>2 DEF GetDeleting, Released
    <3> QED BY <3>1, <3>2 DEF Becomes, Effect
  <2> QED BY <1>2, <2>1, <2>2 DEF GetDeleting
<1>3. CASE GetTask(t)
  <2> DEFINE new == [cache[t] EXCEPT !.fin = TRUE]
  <2>1. CASE UNCHANGED api \/ WriteFails(t \in behind)
      BY <2>1 DEF WriteFails
  <2>2. CASE Write(t, t \in behind, new)
    <3>1. api' = [api EXCEPT ![t] = new] /\ api[t] = cache[t]
        BY <1>1, <2>2 DEF Write, Store
    <3>2. new \in Object
        BY <1>1, MetaObject
    <3>3. Kept(t, new)
        BY <1>1, <3>1 DEF Kept
    <3> QED BY <3>1, <3>2, <3>3 DEF Becomes, Effect
  <2> QED BY <1>3, <2>1, <2>2 DEF GetTask
<1> QED BY <1>2, <1>3

LEMMA RecordEffect ==
    ASSUME HInv, Record
    PROVE  UNCHANGED api \/ \E t \in Tasks, new \in Object \cup {None} : Becomes(t, new)
<1> DEFINE reason == IF w.reply.ok THEN "Computed" ELSE "NonSuccessStatus"
           task == Answer(w.task, reason, body, w.reply.body, w.reply.ok)
<1>1. \/ w.reply.body \in Objects /\ Write(w.t, w.stale, task)
      \/ UNCHANGED api
    BY Zenon DEF Record, Answer, WriteFails
<1>2. CASE w.reply.body \in Objects /\ Write(w.t, w.stale, task)
  <2>1. w.pc = "record" /\ w.task \in Object /\ w.reply.ok \in BOOLEAN /\ w.task.reason = "Running"
      BY DEF Record, HInv, WorkerTyped, Call, Reply, Calling
  <2>2. body \in Body /\ body.input = w.task.spec.input
      BY <2>1, BodyTyped DEF HInv
  <2>3. reason \in Reasons /\ reason \in {"Computed", "NonSuccessStatus"}
      BY DEF Reasons
  <2> HIDE DEF reason
  <2>4. task \in Object
      BY <1>2, <2>1, <2>2, <2>3, AnswerObject
  <2>5. api' = [api EXCEPT ![w.t] = task] /\ api[w.t] = w.task /\ api[w.t] # None /\ w.t \in Tasks
      BY <1>2, <2>1, WorkerWriteEffect
  <2>6. Recorded(w.t, task)
      BY <1>2, <2>1, <2>2, <2>3, <2>5 DEF Recorded
  <2> QED BY <2>4, <2>5, <2>6 DEF Becomes, Effect
<1> QED BY <1>1, <1>2

LEMMA UserEffect ==
    ASSUME HInv, User
    PROVE  \E t \in Tasks, new \in Object \cup {None} : Becomes(t, new)
<1>1. PICK t \in Tasks : (\E x \in Specs : Create(t, x) \/ EditSpec(t, x)) \/ DeleteTask(t)
    BY HTTPTaskAssumption DEF User
<1>2. api[t] # None => api[t] \in Object
    BY DEF HInv, StoreTyped
<1>3. ASSUME NEW x \in Specs, Create(t, x)
      PROVE  \E new \in Object \cup {None} : Becomes(t, new)
  <2>1. NewTask(x) \in Object /\ Created(t, NewTask(x)) /\ api' = [api EXCEPT ![t] = NewTask(x)]
      BY <1>3, NewTaskObject DEF Create, Changed, Store, Created
  <2> QED BY <2>1 DEF Becomes, Effect
<1>4. ASSUME NEW x \in Specs, EditSpec(t, x)
      PROVE  \E new \in Object \cup {None} : Becomes(t, new)
  <2> DEFINE new == EditOf(api[t], x)
  <2>1. api[t] # None /\ api' = [api EXCEPT ![t] = new]
      BY <1>4 DEF EditSpec, EditOf, Changed, Store
  <2>2. new \in Object
      BY <1>2, <2>1, EditedObject
  <2>3. Edited(t, new)
      BY <2>1 DEF Edited
  <2> QED BY <2>1, <2>2, <2>3 DEF Becomes, Effect
<1>5. CASE DeleteTask(t)
  <2>1. api[t] # None /\ ~api[t].deleting
      BY <1>5 DEF DeleteTask
  <2>2. CASE api[t].fin
    <3> DEFINE new == [api[t] EXCEPT !.deleting = TRUE]
    <3>1. api' = [api EXCEPT ![t] = new]
        BY <1>5, <2>2 DEF DeleteTask, Changed, Store
    <3>2. new \in Object /\ Kept(t, new)
        BY <1>2, <2>1, MetaObject DEF Kept
    <3> QED BY <1>1, <3>1, <3>2 DEF Becomes, Effect
  <2>3. CASE ~api[t].fin
    <3>1. api' = [api EXCEPT ![t] = None] /\ Dropped(t, None)
        BY <1>5, <2>1, <2>3 DEF DeleteTask, Changed, Store, Dropped
    <3> QED BY <1>1, <3>1 DEF Becomes, Effect
  <2> QED BY <2>2, <2>3
<1> QED BY <1>1, <1>3, <1>4, <1>5

(* Whatever step is taken, the store changes in one of these ways or not at all. *)
LEMMA StoreEffects ==
    ASSUME HInv, [Next]_vars
    PROVE  UNCHANGED api \/ \E t \in Tasks, new \in Object \cup {None} : Becomes(t, new)
<1>1. CASE \E t \in Tasks : GetDeleting(t) \/ GetTask(t)
    BY <1>1, GetEffect
<1>2. CASE MergeSource
  <2>1. w.pc # "idle"
      BY <1>2 DEF MergeSource, Merging
  <2>2. CASE fail("SourceNotFound") \/ waiting("WaitingOnSource")
      BY <2>1, <2>2, ConditionEffect DEF fail, waiting, NoAnswer
  <2> QED BY <1>2, <2>2 DEF MergeSource
<1>3. CASE MarkRunning
  <2>1. w.pc # "idle" /\ (Write(w.t, w.stale, WithReady(w.task, "Running")) \/ WriteFails(w.stale))
      BY <1>3 DEF MarkRunning, Merged
  <2> QED BY <2>1, ConditionEffect DEF NoAnswer
<1>4. CASE RequestFailed
    BY <1>4, ConditionEffect DEF RequestFailed, fail, NoAnswer
<1>5. CASE Record
    BY <1>5, RecordEffect
<1>6. CASE User
    BY <1>6, UserEffect
<1>7. CASE \/ \E t \in Tasks : GetNotFound(t) \/ Sync(t) \/ Resync(t)
           \/ Skip \/ Send \/ SendFails \/ Crash \/ UNCHANGED vars
    BY <1>7 DEF GetNotFound, Sync, Resync, Skip, Send, SendFails, Crash, vars
<1> QED BY <1>1, <1>2, <1>3, <1>4, <1>5, <1>6, <1>7 DEF Next, Worker

(* Only the controller removes a task that is being deleted. *)
LEMMA RemovalReleases ==
    ASSUME HInv, NEW t \in Tasks, api[t] # None, api[t].deleting, Effect(t, None)
    PROVE  ~taskReferencedByOthers(t)
<1>1. api[t] \in Object
    BY DEF HInv, StoreTyped
<1>2. ~Edited(t, None) /\ ~Kept(t, None)
  <2>1. ASSUME NEW x \in Specs
        PROVE  None # EditOf(api[t], x)
    <3>1. EditOf(api[t], x) \in Object
        BY <1>1, EditedObject
    <3> QED BY <3>1, HTTPTaskAssumption
  <2>2. [api[t] EXCEPT !.deleting = TRUE] \in Object /\ [api[t] EXCEPT !.fin = TRUE] \in Object
      BY <1>1, MetaObject
  <2>3. None # [api[t] EXCEPT !.deleting = TRUE] /\ None # [api[t] EXCEPT !.fin = TRUE]
      BY <2>2, HTTPTaskAssumption
  <2> QED BY <2>1, <2>3, Zenon DEF Edited, Kept
<1>3. ~Condition(t, None)
    BY <1>1, ConditionCurrent, HTTPTaskAssumption DEF Condition
<1>4. ~Recorded(t, None)
  <2> SUFFICES ASSUME NEW reason \in {"Computed", "NonSuccessStatus"}, NEW b \in Body,
                      NEW out \in Objects, NEW ok \in BOOLEAN
               PROVE  None # Answer(api[t], reason, b, out, ok)
      BY DEF Recorded
  <2>1. reason \in Reasons
      BY DEF Reasons
  <2> QED BY <1>1, <2>1, AnswerObject, HTTPTaskAssumption
<1> QED BY <1>2, <1>3, <1>4 DEF Effect, Created, Dropped, Released

(***************************************************************************)
(* In-use protection: the controller never lets a task go that another has *)
(* named since it was last given a condition.  The check reads a cache     *)
(* that may be old; but to be given a condition a task has been read from  *)
(* that cache with its spec, and what it has named ever since is named in  *)
(* whatever the cache shows of it.                                         *)
(***************************************************************************)
THEOREM InUseProtected == Spec => NeverRemovedInUse
<1> DEFINE Protected ==
        \A t, u \in Tasks :
           /\ api[t] # None /\ api[t].deleting /\ api'[t] = None
           /\ api[u] # None
           => t \notin api[u].held
<1>1. ASSUME HInv, [Next]_vars
      PROVE  Protected
  <2> SUFFICES ASSUME NEW t \in Tasks, NEW u \in Tasks,
                      api[t] # None, api[t].deleting, api'[t] = None, api[u] # None,
                      t \in api[u].held
               PROVE  FALSE
      BY Zenon
  <2>1. PICK s \in Tasks, new \in Object \cup {None} : Becomes(s, new)
      BY <1>1, StoreEffects
  <2>2. s = t /\ new = None
      BY <1>1, <2>1 DEF HInv, StoreTyped, Becomes
  <2>3. ~taskReferencedByOthers(t)
      BY <1>1, <2>1, <2>2, RemovalReleases DEF Becomes
  <2>4. cache[u] # None /\ t \in Refs(cache[u].spec)
      BY <1>1 DEF HInv, Stored, Known
  <2> QED BY <2>3, <2>4 DEF taskReferencedByOthers
<1> HIDE DEF Protected
<1>2. Spec => [][Protected]_vars
    BY <1>1, HTTPTaskInv, PTL DEF Spec
<1> QED BY <1>2 DEF NeverRemovedInUse, Protected

-----------------------------------------------------------------------------
(* The refinement: what the owner of the tasks sees of each change. *)

(* The reason of the condition as an owner sees it. *)
OwnerReason(reason) ==
    IF reason \in {"", "WaitingOnSource", "Running", "Computed"} THEN reason ELSE "Error"

LEMMA ChildShape ==
    ASSUME NEW o \in Object
    PROVE  /\ ChildOf(o) = [spec |-> o.spec, reason |-> OwnerReason(o.reason), out |-> o.asked]
           /\ ChildOf(o).spec = o.spec /\ ChildOf(o).reason = OwnerReason(o.reason)
           /\ ChildOf(o).out = o.asked
           /\ ChildOf(o) # None
<1> DEFINE r == OwnerReason(o.reason)
           c == [spec |-> o.spec, reason |-> r, out |-> o.asked]
<1>1. o # None
    BY HTTPTaskAssumption
<1>2. ChildOf(o) = c
    BY <1>1, Zenon DEF ChildOf, OwnerReason
<1>3. o.spec \in Specs /\ r \in Reasons \cup {"Error"} /\ o.asked \in Specs \cup {None}
  <2>1. o.spec \in Specs /\ o.reason \in Reasons /\ o.asked \in Specs \cup {None}
      BY DEF Object
  <2> QED BY <2>1 DEF OwnerReason
<1> HIDE DEF r
<1>4. c.spec = o.spec /\ c.reason = r /\ c.out = o.asked /\ c # None
    BY <1>3, HTTPTaskAssumption
<1> QED BY <1>2, <1>4 DEF r

(* The updates that ChildTask's steps are made of. *)
LEMMA ChildUpdates ==
    ASSUME NEW o \in Object, NEW n \in Object
    PROVE  /\ n.spec = o.spec /\ n.asked = o.asked =>
                 ChildOf(n) = [ChildOf(o) EXCEPT !.reason = OwnerReason(n.reason)]
           /\ n.reason = o.reason /\ n.asked = o.asked =>
                 ChildOf(n) = [ChildOf(o) EXCEPT !.spec = n.spec]
           /\ n.reason = o.reason /\ n.asked = o.asked /\ n.spec = o.spec =>
                 ChildOf(n) = ChildOf(o)
           /\ n.spec = o.spec /\ n.asked = o.spec =>
                 ChildOf(n) = [ChildOf(o) EXCEPT !.reason = OwnerReason(n.reason),
                                                 !.out = ChildOf(o).spec]
<1> DEFINE rn == OwnerReason(n.reason)
           ro == OwnerReason(o.reason)
<1>1. /\ ChildOf(o) = [spec |-> o.spec, reason |-> ro, out |-> o.asked]
      /\ ChildOf(n) = [spec |-> n.spec, reason |-> rn, out |-> n.asked]
      /\ ChildOf(o).spec = o.spec
    BY ChildShape
<1>2. n.reason = o.reason => rn = ro
    OBVIOUS
<1> HIDE DEF rn, ro
<1>3. [ChildOf(o) EXCEPT !.reason = rn] = [spec |-> o.spec, reason |-> rn, out |-> o.asked]
    BY <1>1
<1>4. [ChildOf(o) EXCEPT !.spec = n.spec] = [spec |-> n.spec, reason |-> ro, out |-> o.asked]
    BY <1>1
<1>5. [ChildOf(o) EXCEPT !.reason = rn, !.out = ChildOf(o).spec]
          = [spec |-> o.spec, reason |-> rn, out |-> o.spec]
  <2> DEFINE marked == [ChildOf(o) EXCEPT !.reason = rn]
  <2>1. [ChildOf(o) EXCEPT !.reason = rn, !.out = ChildOf(o).spec] = [marked EXCEPT !.out = o.spec]
      BY <1>1, Zenon
  <2>2. marked = [spec |-> o.spec, reason |-> rn, out |-> o.asked]
      BY <1>3
  <2> HIDE DEF marked
  <2>3. [marked EXCEPT !.out = o.spec] = [spec |-> o.spec, reason |-> rn, out |-> o.spec]
      BY <2>2
  <2> QED BY <2>1, <2>3
<1> QED BY <1>1, <1>2, <1>3, <1>4, <1>5 DEF rn

LEMMA InitRefines == Init => Promise!Init
<1> SUFFICES ASSUME Init PROVE Promise!Init
    OBVIOUS
<1>1. PICK given \in [Tasks -> Specs \cup {None}] :
         api = [t \in Tasks |-> IF given[t] = None THEN None ELSE NewTask(given[t])]
    BY DEF Init
<1>2. ASSUME NEW x \in Specs
      PROVE  ChildOf(NewTask(x)) = Promise!Fresh(x)
  <2>1. NewTask(x) \in Object /\ NewTask(x).reason = "" /\ NewTask(x).spec = x /\ NewTask(x).asked = None
      BY NewTaskObject DEF NewTask
  <2> QED BY <2>1, ChildShape DEF OwnerReason, Promise!Fresh
<1>3. ASSUME NEW t \in Tasks
      PROVE  ChildOf(api[t]) \in {None} \cup {Promise!Fresh(x) : x \in Specs}
  <2>1. CASE given[t] = None
      BY <1>1, <2>1 DEF ChildOf
  <2>2. CASE given[t] # None
      BY <1>1, <1>2, <2>2
  <2> QED BY <2>1, <2>2
<1> QED BY <1>3 DEF Promise!Init

(* Every change of a stored task is a step of its promise, or invisible. *)
LEMMA EffectRefines ==
    ASSUME HInv, NEW t \in Tasks, NEW new \in Object \cup {None}, Effect(t, new)
    PROVE  \/ ChildOf(new) = ChildOf(api[t])
           \/ ChildOf(new) \in Promise!SpecSteps(ChildOf(api[t]))
           \/ ChildOf(api[t]) # None /\ ChildOf(new) \in Promise!StatusSteps(ChildOf(api[t]))
<1> DEFINE o == api[t]
           c == ChildOf(o)
<1>1. o # None => o \in Object /\ c # None
    BY ChildShape DEF HInv, StoreTyped
<1>2. CASE new = None
    BY <1>2 DEF ChildOf, Promise!SpecSteps
<1>3. CASE Created(t, new)
  <2>1. PICK x \in Specs : new = NewTask(x)
      BY <1>3 DEF Created
  <2>2. NewTask(x) \in Object /\ NewTask(x).reason = "" /\ NewTask(x).spec = x /\ NewTask(x).asked = None
      BY NewTaskObject DEF NewTask
  <2>3. ChildOf(new) = Promise!Fresh(x)
      BY <2>1, <2>2, ChildShape DEF OwnerReason, Promise!Fresh
  <2>4. ChildOf(api[t]) = None
      BY <1>3 DEF Created, ChildOf
  <2> QED BY <2>3, <2>4 DEF Promise!SpecSteps
<1>4. CASE Edited(t, new)
  <2>1. PICK x \in Specs : new = EditOf(o, x)
      BY <1>4 DEF Edited
  <2>2. o \in Object /\ c # None
      BY <1>1, <1>4 DEF Edited
  <2>3. new \in Object /\ new.spec = x /\ new.reason = o.reason /\ new.asked = o.asked
      BY <2>1, <2>2, EditedObject
  <2>4. ChildOf(new) = [c EXCEPT !.spec = x]
      BY <2>2, <2>3, ChildUpdates
  <2> HIDE DEF c
  <2> QED BY <2>2, <2>4 DEF Promise!SpecSteps, c
<1>5. CASE Kept(t, new)
  <2>1. o \in Object
      BY <1>1, <1>5 DEF Kept
  <2>2. new \in Object /\ new.spec = o.spec /\ new.reason = o.reason /\ new.asked = o.asked
      BY <1>5, <2>1 DEF Kept, Object
  <2> QED BY <2>1, <2>2, ChildUpdates
<1>6. CASE Condition(t, new)
  <2>1. PICK reason \in NoAnswer : new = WithReady(o, reason)
      BY <1>6 DEF Condition
  <2>2. o \in Object /\ c # None
      BY <1>1, <1>6 DEF Condition
  <2>3. reason \in Reasons
      BY DEF NoAnswer, Reasons
  <2>4. new \in Object /\ new.spec = o.spec /\ new.asked = o.asked /\ new.reason = reason
      BY <2>1, <2>2, <2>3, WithReadyObject
  <2>5. ChildOf(new) = [c EXCEPT !.reason = OwnerReason(reason)]
      BY <2>2, <2>4, ChildUpdates
  <2>6. OwnerReason(reason) \in {"WaitingOnSource", "Error", "Running"}
      BY DEF OwnerReason, NoAnswer
  <2> HIDE DEF c
  <2>7. ChildOf(new) \in Promise!Waiting(c) \cup {Promise!Started(c)}
      BY <2>5, <2>6 DEF Promise!Waiting, Promise!Started
  <2> QED BY <2>2, <2>7 DEF Promise!StatusSteps, c
<1>7. CASE Recorded(t, new)
  <2>1. PICK reason \in {"Computed", "NonSuccessStatus"}, b \in Body, out \in Objects, ok \in BOOLEAN :
           b.input = o.spec.input /\ new = Answer(o, reason, b, out, ok)
      BY <1>7 DEF Recorded
  <2>2. o \in Object /\ c # None /\ o.reason = "Running"
      BY <1>1, <1>7 DEF Recorded
  <2>3. reason \in Reasons
      BY DEF Reasons
  <2>4. new \in Object /\ new.spec = o.spec /\ new.asked = o.spec /\ new.reason = reason
      BY <2>1, <2>2, <2>3, AnswerObject
  <2>5. ChildOf(new) = [c EXCEPT !.reason = OwnerReason(reason), !.out = c.spec]
      BY <2>2, <2>4, ChildUpdates, Zenon
  <2>6. OwnerReason(reason) \in {"Computed", "Error"} /\ c.reason = "Running"
      BY <2>2, ChildShape DEF OwnerReason
  <2> HIDE DEF c
  <2>7. ChildOf(new) \in Promise!Answered(c)
      BY <2>5, <2>6 DEF Promise!Answered
  <2> QED BY <2>2, <2>6, <2>7 DEF Promise!StatusSteps, c
<1>8. new \in Object => ~Dropped(t, new) /\ ~Released(t, new)
    BY HTTPTaskAssumption DEF Dropped, Released
<1> QED BY <1>2, <1>3, <1>4, <1>5, <1>6, <1>7, <1>8 DEF Effect

LEMMA StepRefines ==
    ASSUME HInv, [Next]_vars
    PROVE  Promise!Next \/ UNCHANGED [t \in Tasks |-> ChildOf(api[t])]
<1>1. CASE UNCHANGED api
    BY <1>1
<1>2. ASSUME NEW t \in Tasks, NEW new \in Object \cup {None}, Becomes(t, new)
      PROVE  Promise!Next \/ UNCHANGED [u \in Tasks |-> ChildOf(api[u])]
  <2>1. api'[t] = new /\ \A u \in Tasks \ {t} : api'[u] = api[u]
      BY <1>2 DEF HInv, StoreTyped, Becomes
  <2>2. \A u \in Tasks \ {t} : ChildOf(api'[u]) = ChildOf(api[u])
      BY <2>1
  <2>3. CASE ChildOf(new) = ChildOf(api[t])
      BY <2>1, <2>2, <2>3
  <2>4. CASE ChildOf(new) \in Promise!SpecSteps(ChildOf(api[t]))
      BY <2>1, <2>2, <2>4 DEF Promise!Next
  <2>5. CASE ChildOf(api[t]) # None /\ ChildOf(new) \in Promise!StatusSteps(ChildOf(api[t]))
      BY <2>1, <2>2, <2>5 DEF Promise!Next
  <2> QED BY <1>2, <2>3, <2>4, <2>5, EffectRefines DEF Becomes
<1> QED BY <1>1, <1>2, StoreEffects

(***************************************************************************)
(* HTTPTask implements ChildTask: its owner sees nothing but the steps the *)
(* Workflow controller is written for, whatever the controller reads from  *)
(* an old cache and wherever it is restarted.                              *)
(***************************************************************************)
THEOREM KeepsThePromise == Spec => ImplementsChildTask
<1>1. HInv /\ [Next]_vars => [Promise!Next]_([t \in Tasks |-> ChildOf(api[t])])
    BY StepRefines
<1>2. Spec => Promise!Spec
    BY <1>1, InitRefines, HTTPTaskInv, PTL DEF Spec, Promise!Spec
<1> QED BY <1>2 DEF ImplementsChildTask
=============================================================================

---------------------------- MODULE WatcherProofs ----------------------------
(***************************************************************************)
(* Theorems about Watcher: the two tables never go backwards, no task's    *)
(* row is ahead of its run, and a version whose handler returned nil is in *)
(* the tables completely; for every number of versions, failed statements  *)
(* and restarts.                                                           *)
(***************************************************************************)
EXTENDS Watcher, SequenceTheorems, TLAPS

(* TypeOK, with the shape of the two records that it only uses. *)
Typed ==
    /\ log \in Seq(Version) /\ log # <<>> /\ received \in 0..Len(log)
    /\ events \in Seq(Nat) /\ \A e \in DOMAIN events : events[e] \in 1..received
    /\ h \in [pc: {"busy", "ok", "failed"}, ver: 0..received, done: Nat]
    /\ h.pc = "busy" => h.ver > 0 /\ h.done <= Len(object.tasks)
    /\ runs \in [Uids -> {None} \cup 1..Len(log)]
    /\ rows \in [Uids \X Names -> {None} \cup Row]

(* What waits is newer than what is handled, and in order. *)
Ordered ==
    /\ \A i, j \in DOMAIN events : i < j => events[i] < events[j]
    /\ \A i \in DOMAIN events : h.ver < events[i]

(***************************************************************************)
(* What is handled, what waits and what will come are as new as any run    *)
(* written.  A restart forgets the version handled (h.ver = 0), and what   *)
(* it lists takes its place.                                               *)
(***************************************************************************)
Reached ==
    \A u \in Uids : runs[u] # None =>
        /\ runs[u] <= received
        /\ h.ver > 0 => runs[u] <= h.ver
        /\ \A i \in DOMAIN events : runs[u] <= events[i]

(* The statements of the version handled that have succeeded. *)
HasRun    == runs[object.uid] = h.ver
HasRow(k) == rows[key(k)] # None /\ rows[key(k)].ver = h.ver

Written ==
    h.pc = "busy" /\ h.done > 0 => HasRun /\ \A k \in 1..(h.done - 1) : HasRow(k)

WInv == Typed /\ Ordered /\ Reached /\ RunCoversTasks /\ Written /\ SnapshotWhenOk

-----------------------------------------------------------------------------
(* The integers of the status column never survive the conversion. *)
LEMMA ColumnIsNull ==
    ASSUME NEW code \in Codes \cup {None}
    PROVE  column(decoded(code)) = None
<1>1. CASE code = None
    BY <1>1 DEF column, decoded
<1>2. CASE code # None
    BY <1>2 DEF column, decoded
<1> QED BY <1>1, <1>2

(* The version handled and the keys of its rows. *)
LEMMA HandledTyped ==
    ASSUME Typed, h.ver > 0
    PROVE  /\ object \in Version
           /\ \A k \in DOMAIN object.tasks :
                 /\ object.tasks[k].statusCode \in Codes \cup {None}
                 /\ key(k) \in Uids \X Names
           /\ Len(object.tasks) \in Nat /\ DOMAIN object.tasks = 1..Len(object.tasks)
<1>1. object \in Version
    BY DEF Typed, object
<1>2. object.tasks \in Seq(TaskStatus) /\ object.uid \in Uids
    BY <1>1, WatcherAssumption DEF Version
<1>3. ASSUME NEW k \in DOMAIN object.tasks
      PROVE  /\ object.tasks[k].statusCode \in Codes \cup {None}
             /\ key(k) \in Uids \X Names
  <2>1. object.tasks[k] \in TaskStatus
      BY <1>2
  <2>2. object.tasks[k].name \in Names /\ object.tasks[k].statusCode \in Codes \cup {None}
      BY <2>1 DEF TaskStatus
  <2> QED BY <1>2, <2>2 DEF key
<1> QED BY <1>1, <1>2, <1>3

(* A log that grows keeps its versions. *)
LEMMA LogKept ==
    ASSUME Typed, NEW v \in Version, log' = Append(log, v)
    PROVE  /\ log' \in Seq(Version) /\ log' # <<>> /\ Len(log') = Len(log) + 1
           /\ \A n \in 1..Len(log) : log'[n] = log[n]
BY DEF Typed

-----------------------------------------------------------------------------
LEMMA InitWInv == Init => WInv
<1> SUFFICES ASSUME Init PROVE WInv
    OBVIOUS
<1>1. <<[uid |-> 1, ran |-> FALSE, tasks |-> <<>>]>> \in Seq(Version)
    BY WatcherAssumption DEF Version
<1>2. Typed
    BY <1>1 DEF Init, Typed
<1>3. Ordered /\ Reached /\ RunCoversTasks /\ Written /\ SnapshotWhenOk
    BY DEF Init, Ordered, Reached, RunCoversTasks, Written, SnapshotWhenOk
<1> QED BY <1>2, <1>3 DEF WInv

(* A new version of the Workflow leaves the watcher as it was. *)
LEMMA NewVersionStep ==
    ASSUME WInv, NEW v \in Version, NewVersion(v)
    PROVE  WInv'
<1> USE DEF WInv
<1>1. /\ log' \in Seq(Version) /\ log' # <<>> /\ Len(log') = Len(log) + 1
      /\ \A n \in 1..Len(log) : log'[n] = log[n]
    BY LogKept DEF NewVersion
<1>2. UNCHANGED <<received, events, h, runs, rows>>
    BY DEF NewVersion
<1>3. h.ver > 0 => object' = object
    BY <1>1, <1>2 DEF Typed, object
<1>4. Typed'
    BY <1>1, <1>2, <1>3 DEF Typed
<1>5. Ordered' /\ Reached' /\ RunCoversTasks'
    BY <1>2 DEF Ordered, Reached, RunCoversTasks
<1>6. Written'
    BY <1>2, <1>3 DEF Typed, Written, HasRun, HasRow, key
<1>7. SnapshotWhenOk'
  <2>1. CASE h.ver > 0
    <3>1. log'[h.ver] = log[h.ver]
        BY <1>1, <2>1 DEF Typed
    <3> QED BY <1>2, <1>3, <2>1, <3>1 DEF SnapshotWhenOk, key
  <2>2. CASE ~(h.ver > 0)
      BY <1>2, <2>2 DEF SnapshotWhenOk
  <2> QED BY <2>1, <2>2
<1> QED BY <1>4, <1>5, <1>6, <1>7

(* A version received is newer than everything received before. *)
LEMMA ReceiveStep ==
    ASSUME WInv, NEW v \in 1..MaxVersions, Receive(v)
    PROVE  WInv'
<1> USE DEF WInv
<1>1. UNCHANGED <<log, h, runs, rows>> /\ object' = object
    BY DEF Receive, object
<1>2. v \in (received + 1)..Len(log) /\ received' = v /\ received \in Nat /\ v \in Nat
    BY DEF Receive, Typed
<1>3. /\ events' \in Seq(Nat) /\ Len(events') = Len(events) + 1
      /\ events'[Len(events) + 1] = v
      /\ \A i \in DOMAIN events : events'[i] = events[i]
      /\ DOMAIN events' = DOMAIN events \cup {Len(events) + 1}
    BY <1>2 DEF Receive, Typed
<1>4. Typed'
    BY <1>1, <1>2, <1>3 DEF Typed
<1>5. Ordered'
  <2>1. h.ver \in Nat /\ h.ver < v /\ \A i \in DOMAIN events : events[i] \in Nat /\ events[i] < v
      BY <1>2 DEF Typed
  <2>2. \A i \in DOMAIN events' : h'.ver < events'[i]
      BY <1>1, <1>3, <2>1 DEF Ordered
  <2>3. ASSUME NEW i \in DOMAIN events', NEW j \in DOMAIN events', i < j
        PROVE  events'[i] < events'[j]
    <3>1. Len(events) \in Nat /\ DOMAIN events = 1..Len(events)
        BY DEF Typed
    <3>2. i \in DOMAIN events
        BY <1>3, <2>3, <3>1
    <3>3. CASE j \in DOMAIN events
        BY <1>3, <2>3, <3>2, <3>3 DEF Ordered
    <3>4. CASE j = Len(events) + 1
        BY <1>3, <2>1, <3>2, <3>4
    <3> QED BY <1>3, <3>3, <3>4
  <2> QED BY <2>2, <2>3 DEF Ordered
<1>6. Reached'
    BY <1>1, <1>2, <1>3 DEF Typed, Reached
<1>7. RunCoversTasks' /\ Written' /\ SnapshotWhenOk'
    BY <1>1 DEF RunCoversTasks, Written, SnapshotWhenOk, HasRun, HasRow, key
<1> QED BY <1>4, <1>5, <1>6, <1>7

(* The next event is the oldest that waits. *)
LEMMA HandleStep ==
    ASSUME WInv, Handle
    PROVE  WInv'
<1> USE DEF WInv
<1> DEFINE e == events[1]
<1>1. UNCHANGED <<log, received, runs, rows>>
    BY DEF Handle
<1>2. /\ events' \in Seq(Nat) /\ e \in 1..received
      /\ Len(events') = Len(events) - 1
      /\ \A i \in DOMAIN events' : i + 1 \in DOMAIN events /\ events'[i] = events[i + 1]
      /\ \A i \in DOMAIN events' : e < events'[i]
    BY DEF Handle, Typed, Ordered
<1>3. /\ h' \in [pc: {"busy", "ok"}, ver: 1..received, done: {0}] /\ h'.ver = e
      /\ h'.pc = "ok" => ~log[e].ran
    BY <1>2 DEF Handle
<1>4. log[e] \in Version /\ object' = log[e]
    BY <1>1, <1>2, <1>3 DEF Typed, object
<1>5. Len(log[e].tasks) \in Nat
    BY <1>4, WatcherAssumption DEF Version
<1>6. Typed'
    BY <1>1, <1>2, <1>3, <1>4, <1>5 DEF Typed
<1>7. Ordered'
    BY <1>2, <1>3 DEF Typed, Ordered
<1>8. Reached'
  <2> SUFFICES ASSUME NEW u \in Uids, runs[u] # None
               PROVE  /\ runs[u] <= received
                      /\ runs[u] <= e
                      /\ \A i \in DOMAIN events' : runs[u] <= events'[i]
      BY <1>1, <1>3 DEF Reached
  <2>1. runs[u] <= received /\ 1 \in DOMAIN events /\ \A i \in DOMAIN events : runs[u] <= events[i]
      BY DEF Handle, Typed, Reached
  <2> QED BY <1>2, <2>1
<1>9. RunCoversTasks' /\ Written' /\ SnapshotWhenOk'
    BY <1>1, <1>3, <1>4 DEF RunCoversTasks, Written, SnapshotWhenOk
<1> QED BY <1>6, <1>7, <1>8, <1>9

(* How far the handler is after a statement that succeeded. *)
LEMMA AdvanceTyped ==
    ASSUME Typed, h.pc = "busy", Advance
    PROVE  /\ h'.ver = h.ver /\ h'.done = h.done + 1 /\ h'.pc \in {"busy", "ok"}
           /\ h' \in [pc: {"busy", "ok", "failed"}, ver: 0..received, done: Nat]
           /\ h'.pc = "ok" => h.done = Len(object.tasks)
           /\ h'.pc = "busy" => h'.done <= Len(object.tasks)
<1>1. Len(object.tasks) \in Nat
    BY HandledTyped DEF Typed
<1>2. h \in [pc: {"busy", "ok", "failed"}, ver: 0..received, done: Nat]
    BY DEF Typed
<1>3. h.done <= Len(object.tasks)
    BY DEF Typed
<1> DEFINE pc == IF h.done = Len(object.tasks) THEN "ok" ELSE "busy"
<1>4. h' = [h EXCEPT !.done = h.done + 1, !.pc = pc] /\ pc \in {"busy", "ok"}
    BY DEF Advance
<1> HIDE DEF pc
<1>5. h'.ver = h.ver /\ h'.done = h.done + 1
    BY <1>2, <1>4
<1>6. h'.pc = pc
    BY <1>2, <1>4
<1>7. h' \in [pc: {"busy", "ok", "failed"}, ver: 0..received, done: Nat]
  <2>1. h = [pc |-> h.pc, ver |-> h.ver, done |-> h.done]
      BY <1>2
  <2>2. h' = [pc |-> pc, ver |-> h.ver, done |-> h.done + 1]
      BY <2>1, <1>4
  <2> QED BY <1>2, <1>4, <2>2
<1> QED BY <1>1, <1>2, <1>3, <1>5, <1>6, <1>7 DEF pc

(* The run is written first, as of the version handled. *)
LEMMA upsertRunStep ==
    ASSUME WInv, upsertRun
    PROVE  WInv' /\ \A u \in Uids : runs[u] # None => runs'[u] >= runs[u]
<1> USE DEF WInv
<1>1. UNCHANGED <<log, received, events, rows>> /\ h.pc = "busy" /\ h.done = 0 /\ Advance
    BY DEF upsertRun
<1>2. h.ver \in 1..received /\ received \in 0..Len(log) /\ Len(log) \in Nat
    BY <1>1 DEF Typed
<1>3. object.uid \in Uids /\ DOMAIN object.tasks = 1..Len(object.tasks)
    BY <1>2, HandledTyped DEF Version
<1>4. /\ h'.ver = h.ver /\ h'.done = 1 /\ h'.pc \in {"busy", "ok"}
      /\ h' \in [pc: {"busy", "ok", "failed"}, ver: 0..received, done: Nat]
      /\ h'.pc = "ok" => Len(object.tasks) = 0
      /\ h'.pc = "busy" => h'.done <= Len(object.tasks)
    BY <1>1, AdvanceTyped
<1>5. object' = object /\ \A k : key(k)' = key(k)
    BY <1>1, <1>4 DEF object, key
<1>6. /\ runs' \in [Uids -> {None} \cup 1..Len(log)] /\ runs'[object.uid] = h.ver
      /\ \A u \in Uids : u # object.uid => runs'[u] = runs[u]
    BY <1>2, <1>3 DEF upsertRun, Typed
<1>7. \A u \in Uids : runs[u] # None => runs'[u] >= runs[u]
    BY <1>2, <1>6 DEF Reached, Typed
<1>8. Typed'
    BY <1>1, <1>2, <1>4, <1>5, <1>6 DEF Typed
<1>9. Ordered'
    BY <1>1, <1>4 DEF Ordered
<1>10. Reached'
  <2> SUFFICES ASSUME NEW u \in Uids, runs'[u] # None
               PROVE  /\ runs'[u] <= received
                      /\ runs'[u] <= h.ver
                      /\ \A i \in DOMAIN events : runs'[u] <= events[i]
      BY <1>1, <1>4 DEF Reached
  <2>1. CASE u = object.uid
    <3>1. \A i \in DOMAIN events : h.ver < events[i] /\ events[i] \in Nat
        BY DEF Typed, Ordered
    <3> QED BY <1>2, <1>6, <2>1, <3>1
  <2>2. CASE u # object.uid
      BY <1>2, <1>6, <2>2 DEF Reached
  <2> QED BY <2>1, <2>2
<1>11. RunCoversTasks'
  <2> SUFFICES ASSUME NEW u \in Uids, NEW n \in Names, rows[<<u, n>>] # None
               PROVE  runs'[u] # None /\ runs'[u] >= rows[<<u, n>>].ver
      BY <1>1 DEF RunCoversTasks
  <2>1. runs[u] # None /\ runs[u] >= rows[<<u, n>>].ver /\ rows[<<u, n>>].ver \in Nat
      BY DEF RunCoversTasks, Typed, Row
  <2>2. runs[u] \in Nat /\ runs'[u] \in Nat /\ runs'[u] # None
      BY <1>2, <1>6, <2>1, WatcherAssumption DEF Typed
  <2> QED BY <1>7, <2>1, <2>2
<1>12. Written'
    BY <1>4, <1>5, <1>6 DEF Written, HasRun
<1>13. SnapshotWhenOk'
    BY <1>1, <1>3, <1>4, <1>5, <1>6 DEF SnapshotWhenOk
<1> QED BY <1>7, <1>8, <1>9, <1>10, <1>11, <1>12, <1>13

(* Then each task, as of the same version. *)
LEMMA upsertTaskStep ==
    ASSUME WInv, upsertTask
    PROVE  /\ WInv'
           /\ \A r \in Uids \X Names : rows[r] # None => rows'[r] # None /\ rows'[r].ver >= rows[r].ver
<1> USE DEF WInv
<1> DEFINE r0 == key(h.done)
           new == [ver |-> h.ver, status_code |-> column(decoded(object.tasks[h.done].statusCode))]
<1>1. UNCHANGED <<log, received, events, runs>> /\ h.pc = "busy" /\ h.done > 0 /\ Advance
    BY DEF upsertTask
<1>2. h.ver \in 1..received /\ received \in 0..Len(log) /\ Len(log) \in Nat /\ h.done \in 1..Len(object.tasks)
    BY <1>1 DEF Typed
<1>3. /\ object \in Version /\ object.uid \in Uids /\ r0 \in Uids \X Names
      /\ DOMAIN object.tasks = 1..Len(object.tasks) /\ Len(object.tasks) \in Nat
    BY <1>2, HandledTyped DEF Version
<1>4. new \in Row /\ new # None /\ new.ver = h.ver
  <2>1. object.tasks[h.done].statusCode \in Codes \cup {None}
      BY <1>2, <1>3, HandledTyped
  <2>2. column(decoded(object.tasks[h.done].statusCode)) = None
      BY <2>1, ColumnIsNull
  <2>3. new \in Row
      BY <1>2, <2>2 DEF Row
  <2> QED BY <2>3, WatcherAssumption
<1>5. /\ h'.ver = h.ver /\ h'.done = h.done + 1 /\ h'.pc \in {"busy", "ok"}
      /\ h' \in [pc: {"busy", "ok", "failed"}, ver: 0..received, done: Nat]
      /\ h'.pc = "ok" => h.done = Len(object.tasks)
      /\ h'.pc = "busy" => h'.done <= Len(object.tasks)
    BY <1>1, AdvanceTyped
<1>6. object' = object /\ \A k : key(k)' = key(k)
    BY <1>1, <1>5 DEF object, key
<1>7. rows' = [rows EXCEPT ![r0] = new]
    BY DEF upsertTask
<1> HIDE DEF r0, new
<1>8. /\ rows' \in [Uids \X Names -> {None} \cup Row] /\ rows'[r0] = new
      /\ \A r \in Uids \X Names : r # r0 => rows'[r] = rows[r]
    BY <1>3, <1>4, <1>7 DEF Typed
<1>9. HasRun /\ \A k \in 1..(h.done - 1) : HasRow(k)
    BY <1>1 DEF Written
<1>10. r0[1] = object.uid /\ r0 = <<object.uid, r0[2]>> /\ r0[2] \in Names
    BY <1>3 DEF r0, key
<1>11. \A r \in Uids \X Names : rows[r] # None => rows'[r] # None /\ rows'[r].ver >= rows[r].ver
  <2> SUFFICES ASSUME NEW r \in Uids \X Names, rows[r] # None
               PROVE  rows'[r] # None /\ rows'[r].ver >= rows[r].ver
      OBVIOUS
  <2>1. rows[r] \in Row /\ rows[r].ver \in Nat
      BY DEF Typed, Row
  <2>2. CASE r = r0
    <3>1. h.ver >= rows[r].ver
        BY <1>3, <1>9, <1>10, <2>2 DEF RunCoversTasks, HasRun
    <3> QED BY <1>4, <1>8, <2>2, <3>1
  <2>3. CASE r # r0
      BY <1>8, <2>1, <2>3
  <2> QED BY <2>2, <2>3
<1>12. Typed'
    BY <1>1, <1>5, <1>6, <1>8, <1>2 DEF Typed
<1>13. Ordered' /\ Reached'
    BY <1>1, <1>5 DEF Ordered, Reached
<1>14. RunCoversTasks'
  <2> SUFFICES ASSUME NEW u \in Uids, NEW n \in Names, rows'[<<u, n>>] # None
               PROVE  runs[u] # None /\ runs[u] >= rows'[<<u, n>>].ver
      BY <1>1 DEF RunCoversTasks
  <2>1. CASE <<u, n>> = r0
    <3>1. u = object.uid
        BY <1>10, <2>1
    <3>2. runs[u] = h.ver /\ rows'[<<u, n>>].ver = h.ver /\ h.ver \in Nat
        BY <1>2, <1>4, <1>8, <1>9, <2>1, <3>1 DEF HasRun
    <3> QED BY <3>2, WatcherAssumption
  <2>2. CASE <<u, n>> # r0
      BY <1>8, <2>2 DEF RunCoversTasks
  <2> QED BY <2>1, <2>2
<1>15. \A k \in 1..h.done : rows'[key(k)] # None /\ rows'[key(k)].ver = h.ver
  <2> SUFFICES ASSUME NEW k \in 1..h.done
               PROVE  rows'[key(k)] # None /\ rows'[key(k)].ver = h.ver
      OBVIOUS
  <2>1. CASE key(k) = r0
      BY <1>4, <1>8, <2>1
  <2>2. CASE key(k) # r0
    <3>1. k \in 1..(h.done - 1) /\ key(k) \in Uids \X Names
        BY <1>2, <1>3, <2>2, HandledTyped DEF r0
    <3> QED BY <1>8, <1>9, <2>2, <3>1 DEF HasRow
  <2> QED BY <2>1, <2>2
<1>16. Written'
    BY <1>1, <1>2, <1>5, <1>6, <1>9, <1>15 DEF Written, HasRun, HasRow
<1>17. SnapshotWhenOk'
    BY <1>1, <1>2, <1>3, <1>5, <1>6, <1>9, <1>15 DEF SnapshotWhenOk, HasRun
<1> QED BY <1>11, <1>12, <1>13, <1>14, <1>16, <1>17

(* A statement that fails ends the handler: its version stays half written. *)
LEMMA StatementFailsStep ==
    ASSUME WInv, StatementFails
    PROVE  WInv'
<1> USE DEF WInv
<1>1. UNCHANGED <<log, received, events, runs, rows>>
    BY DEF StatementFails
<1>2. /\ h' \in [pc: {"busy", "ok", "failed"}, ver: 0..received, done: Nat]
      /\ h'.pc = "failed" /\ h'.ver = h.ver
    BY DEF StatementFails, Typed
<1>3. Typed'
    BY <1>1, <1>2 DEF Typed
<1>4. Ordered' /\ Reached' /\ RunCoversTasks' /\ Written' /\ SnapshotWhenOk'
    BY <1>1, <1>2 DEF Ordered, Reached, RunCoversTasks, Written, SnapshotWhenOk
<1> QED BY <1>3, <1>4

(* A restart lists the stored version, which is as new as any run written. *)
LEMMA RestartStep ==
    ASSUME WInv, Restart
    PROVE  WInv'
<1> USE DEF WInv
<1>1. UNCHANGED <<log, runs, rows>> /\ received' = Len(log) /\ events' = <<Len(log)>>
    BY DEF Restart
<1>2. h'.pc = "failed" /\ h'.ver = 0 /\ h' \in [pc: {"busy", "ok", "failed"}, ver: {0}, done: Nat]
    BY DEF Restart
<1>3. received \in 0..Len(log) /\ Len(log) \in Nat
    BY DEF Typed
<1>4. Len(log) > 0
    BY DEF Typed
<1>5. Typed'
    BY <1>1, <1>2, <1>3, <1>4 DEF Typed
<1>6. Ordered'
    BY <1>1, <1>2, <1>4 DEF Ordered
<1>7. Reached'
    BY <1>1, <1>2, <1>3 DEF Reached, Typed
<1>8. RunCoversTasks' /\ Written' /\ SnapshotWhenOk'
    BY <1>1, <1>2 DEF RunCoversTasks, Written, SnapshotWhenOk
<1> QED BY <1>5, <1>6, <1>7, <1>8

-----------------------------------------------------------------------------
LEMMA StutterStep ==
    ASSUME WInv, UNCHANGED vars
    PROVE  WInv'
<1>1. object' = object /\ \A k : key(k)' = key(k)
    BY DEF vars, object, key
<1> QED BY <1>1 DEF vars, WInv, Typed, Ordered, Reached, RunCoversTasks, Written, HasRun, HasRow, SnapshotWhenOk

LEMMA WInvStep == WInv /\ [Next]_vars => WInv'
<1> SUFFICES ASSUME WInv, [Next]_vars PROVE WInv'
    OBVIOUS
<1>1. CASE Handle
    BY <1>1, HandleStep
<1>2. CASE upsertRun
    BY <1>2, upsertRunStep
<1>3. CASE upsertTask
    BY <1>3, upsertTaskStep
<1>4. CASE StatementFails
    BY <1>4, StatementFailsStep
<1>5. CASE Restart
    BY <1>5, RestartStep
<1>6. CASE \E v \in 1..MaxVersions : Receive(v)
    BY <1>6, ReceiveStep
<1>7. CASE \E v \in Version : NewVersion(v)
    BY <1>7, NewVersionStep
<1>8. CASE UNCHANGED vars
    BY <1>8, StutterStep
<1> QED BY <1>1, <1>2, <1>3, <1>4, <1>5, <1>6, <1>7, <1>8 DEF Next

LEMMA WatcherInv == Spec => []WInv
BY InitWInv, WInvStep, PTL DEF Spec

(***************************************************************************)
(* The tables, the informer's queue and the handler keep their types.      *)
(***************************************************************************)
THEOREM WatcherTyped == Spec => []TypeOK
<1>1. WInv => TypeOK
  <2> SUFFICES ASSUME WInv PROVE TypeOK
      OBVIOUS
  <2>1. h.pc \in {"busy", "ok", "failed"} /\ h.ver \in 0..received
      BY DEF WInv, Typed
  <2> QED BY <2>1, Zenon DEF WInv, Typed, TypeOK, object
<1> QED BY <1>1, WatcherInv, PTL

(***************************************************************************)
(* No row of workflow_tasks is ahead of its run, wherever handleWorkflow   *)
(* was cut off.                                                            *)
(***************************************************************************)
THEOREM RunsCoverTasks == Spec => []RunCoversTasks
<1>1. WInv => RunCoversTasks
    BY DEF WInv
<1> QED BY <1>1, WatcherInv, PTL

(***************************************************************************)
(* When handleWorkflow has returned nil, its version is in the tables      *)
(* completely.                                                             *)
(***************************************************************************)
THEOREM SnapshotsComplete == Spec => []SnapshotWhenOk
<1>1. WInv => SnapshotWhenOk
    BY DEF WInv
<1> QED BY <1>1, WatcherInv, PTL

(***************************************************************************)
(* Neither a run nor a task's row is overwritten with an older version of  *)
(* the Workflow, nor removed, by any step of the informer, the handler or  *)
(* a restart.                                                              *)
(***************************************************************************)
THEOREM RowsNeverGoBack == Spec => RowsForward
<1> DEFINE Forward ==
        /\ \A u \in Uids : runs[u] # None => runs'[u] >= runs[u]
        /\ \A r \in Uids \X Names : rows[r] # None => rows'[r] # None /\ rows'[r].ver >= rows[r].ver
<1>1. ASSUME WInv, UNCHANGED <<runs, rows>>
      PROVE  Forward
  <2>1. \A u \in Uids : runs[u] # None => runs[u] \in Int
      BY <1>1 DEF WInv, Typed
  <2>2. \A r \in Uids \X Names : rows[r] # None => rows[r].ver \in Int
      BY <1>1 DEF WInv, Typed, Row
  <2> QED BY <1>1, <2>1, <2>2
<1>2. ASSUME WInv, [Next]_vars
      PROVE  Forward
  <2>1. CASE upsertRun
    <3>1. \A r \in Uids \X Names : rows[r] # None => rows[r].ver \in Int
        BY <1>2 DEF WInv, Typed, Row
    <3>2. UNCHANGED rows
        BY <2>1 DEF upsertRun
    <3> QED BY <1>2, <2>1, <3>1, <3>2, upsertRunStep
  <2>2. CASE upsertTask
    <3>1. \A u \in Uids : runs[u] # None => runs[u] \in Int
        BY <1>2 DEF WInv, Typed
    <3>2. UNCHANGED runs
        BY <2>2 DEF upsertTask
    <3> QED BY <1>2, <2>2, <3>1, <3>2, upsertTaskStep
  <2>3. CASE \/ Handle \/ StatementFails \/ Restart
             \/ \E v \in 1..MaxVersions : Receive(v)
             \/ \E v \in Version : NewVersion(v)
             \/ UNCHANGED vars
    <3>1. UNCHANGED <<runs, rows>>
        BY <2>3 DEF Handle, StatementFails, Restart, Receive, NewVersion, vars
    <3> QED BY <1>1, <1>2, <3>1
  <2> QED BY <1>2, <2>1, <2>2, <2>3 DEF Next
<1>3. WInv /\ [Next]_vars => [Forward]_vars
    BY <1>2
<1> HIDE DEF Forward
<1>4. Spec => [][Forward]_vars
    BY <1>3, WatcherInv, PTL DEF Spec
<1> QED BY <1>4 DEF RowsForward, Forward
=============================================================================

------------------------------- MODULE Watcher -------------------------------
(***************************************************************************)
(* function-httptask/watcher/main.go: the informer's events for one name   *)
(* of a Workflow, handleWorkflow, and the two tables it writes.            *)
(*                                                                         *)
(* The versions of the Workflow are kept in a log; a row stands for what   *)
(* it says by the version it was copied from.  Only the status code column *)
(* is kept as a value, since it passes through a conversion.               *)
(***************************************************************************)
EXTENDS Naturals, Sequences

CONSTANTS
    Names,        \* names of tasks
    Codes,        \* HTTP status codes
    Statuses,     \* the lists of tasks a status may show
    Uids,         \* Workflows that had the name one after the other, 1..n
    None,         \* NULL, no row
    MaxVersions,  \* bound on the versions of the Workflow
    MaxErrors,    \* bound on failed statements
    MaxCrashes    \* bound on restarts of the watcher

(* status.transactionID is the uid once the function has run. *)
TaskStatus == [name: Names, statusCode: Codes \cup {None}]
Version    == [uid: Uids, ran: BOOLEAN, tasks: Statuses]

(* A row of workflow_tasks. *)
Row == [ver: Nat, status_code: Codes \cup {None}]

ASSUME WatcherAssumption ==
    /\ Codes \subseteq Nat /\ Uids \subseteq Nat /\ 1 \in Uids /\ None \notin Nat \cup Row
    /\ Statuses \subseteq Seq(TaskStatus) /\ <<>> \in Statuses
    /\ {MaxVersions, MaxErrors, MaxCrashes} \subseteq Nat

VARIABLES
    log,       \* the versions of the Workflow, the stored one last
    received,  \* the latest version the informer has received
    events,    \* the versions still to be handled, in order
    h,         \* handleWorkflow: version, statements done, how it ended
    runs,      \* workflow_runs by transaction_id
    rows,      \* workflow_tasks by transaction_id and task_name
    budget

vars == <<log, received, events, h, runs, rows, budget>>

(* h.ver is the version handled last, "ok" or not, when it is not "busy". *)
TypeOK ==
    /\ log \in Seq(Version)
    /\ received \in 0..Len(log) /\ \A e \in DOMAIN events : events[e] \in 1..received
    /\ h.pc \in {"busy", "ok", "failed"} /\ h.ver \in 0..received
    /\ h.pc = "busy" => h.done <= Len(log[h.ver].tasks)
    /\ runs \in [Uids -> {None} \cup 1..Len(log)]
    /\ rows \in [Uids \X Names -> {None} \cup Row]

Init ==
    /\ log = <<[uid |-> 1, ran |-> FALSE, tasks |-> <<>>]>>
    /\ received = 0 /\ events = <<>>
    /\ h = [pc |-> "ok", ver |-> 0, done |-> 0]
    /\ runs = [u \in Uids |-> None]
    /\ rows = [r \in Uids \X Names |-> None]
    /\ budget = [errors |-> MaxErrors, crashes |-> MaxCrashes]

Spend(what) == budget[what] > 0 /\ budget' = [budget EXCEPT ![what] = @ - 1]

-----------------------------------------------------------------------------
(* Crossplane writes the status, or users replace the Workflow. *)
NewVersion(v) ==
    /\ Len(log) < MaxVersions
    /\ LET old == log[Len(log)]
       IN  \/ v.uid = old.uid /\ v.ran
           \/ v.uid = old.uid + 1 /\ ~v.ran /\ v.tasks = <<>>
    /\ log' = Append(log, v)
    /\ UNCHANGED <<received, events, h, runs, rows, budget>>

(* A mutant: updates are not subscribed to. *)
ReceiveAddOnly(v) ==
    /\ v \in (received + 1)..Len(log)
    /\ received' = v
    /\ events' = IF received = 0 THEN Append(events, v) ELSE events
    /\ UNCHANGED <<log, h, runs, rows, budget>>

(***************************************************************************)
(* AddFunc or UpdateFunc: the next version, or a later one when the watch  *)
(* broke and the informer had to list again.                               *)
(***************************************************************************)
Receive(v) ==
    /\ v \in (received + 1)..Len(log)
    /\ received' = v
    /\ events' = Append(events, v)
    /\ UNCHANGED <<log, h, runs, rows, budget>>

object == log[h.ver]
key(k) == <<object.uid, object.tasks[k].name>>

(* A mutant: the rows of a version are written before its last task. *)
AdvanceEarly == h' = [h EXCEPT !.done = @ + 1,
                               !.pc = IF h.done + 1 >= Len(object.tasks) THEN "ok" ELSE "busy"]

(* A mutant: one statement too many. *)
AdvanceLate == h' = [h EXCEPT !.done = @ + 1,
                              !.pc = IF h.done > Len(object.tasks) THEN "ok" ELSE "busy"]

(* A mutant: each event has its own goroutine, and the latest comes first. *)
HandleLatest ==
    /\ h.pc # "busy" /\ events # <<>>
    /\ LET e == events[Len(events)]
       IN  h' = [pc |-> IF log[e].ran THEN "busy" ELSE "ok", ver |-> e, done |-> 0]
    /\ events' = SubSeq(events, 1, Len(events) - 1)
    /\ UNCHANGED <<log, received, runs, rows, budget>>

(* handleWorkflow takes an event; there is nothing to do before the function ran. *)
Handle ==
    /\ h.pc # "busy" /\ events # <<>>
    /\ h' = [pc |-> IF log[Head(events)].ran THEN "busy" ELSE "ok", ver |-> Head(events), done |-> 0]
    /\ events' = Tail(events)
    /\ UNCHANGED <<log, received, runs, rows, budget>>

(* The statement after "done" others has succeeded: the run's, then each task's. *)
Advance == h' = [h EXCEPT !.done = @ + 1,
                          !.pc = IF h.done = Len(object.tasks) THEN "ok" ELSE "busy"]

(* A mutant: a run that is there already is left as it is. *)
upsertRunOnce ==
    /\ h.pc = "busy" /\ h.done = 0
    /\ runs' = [runs EXCEPT ![object.uid] = IF @ = None THEN h.ver ELSE @]
    /\ Advance
    /\ UNCHANGED <<log, received, events, rows, budget>>

upsertRun ==
    /\ h.pc = "busy" /\ h.done = 0
    /\ runs' = [runs EXCEPT ![object.uid] = h.ver]
    /\ Advance
    /\ UNCHANGED <<log, received, events, rows, budget>>

(* Integers of an unstructured object are int64: the assertion to float64 fails. *)
decoded(code) == IF code = None THEN None ELSE [type |-> "int64", value |-> code]
column(v)     == IF v # None /\ v.type = "float64" THEN v.value ELSE None

upsertTask ==
    /\ h.pc = "busy" /\ h.done > 0
    /\ LET k == h.done
       IN  rows' = [rows EXCEPT ![key(k)] =
              [ver |-> h.ver, status_code |-> column(decoded(object.tasks[k].statusCode))]]
    /\ Advance
    /\ UNCHANGED <<log, received, events, runs, budget>>

(* A statement fails: the rest of the version is not written, nobody retries. *)
StatementFails ==
    /\ h.pc = "busy" /\ Spend("errors")
    /\ h' = [h EXCEPT !.pc = "failed"]
    /\ UNCHANGED <<log, received, events, runs, rows>>

(* The watcher restarts and lists the Workflow. *)
Restart ==
    /\ Spend("crashes")
    /\ received' = Len(log)
    /\ events' = <<Len(log)>>
    /\ h' = [pc |-> "failed", ver |-> 0, done |-> 0]
    /\ UNCHANGED <<log, runs, rows>>

Next == \/ Handle \/ upsertRun \/ upsertTask \/ StatementFails \/ Restart
        \/ \E v \in 1..MaxVersions : Receive(v)
        \/ \E v \in Version : NewVersion(v)

Spec == Init /\ [][Next]_vars

(***************************************************************************)
(* The informer's goroutines keep running: what is stored is received, what *)
(* is received is handled, and a handler's next statement returns.          *)
(***************************************************************************)
FairSpec == Spec /\ WF_vars(Handle) /\ WF_vars(upsertRun \/ upsertTask)
                 /\ WF_vars(\E v \in 1..MaxVersions : Receive(v))

-----------------------------------------------------------------------------
(***************************************************************************)
(* Versions are skipped, statements fail and the watcher restarts between  *)
(* two statements of one version, yet neither a run nor a task's row is    *)
(* ever overwritten with an older version of the Workflow, nor removed.    *)
(***************************************************************************)
RowsForward ==
    [][/\ \A u \in Uids : runs[u] # None => runs'[u] >= runs[u]
       /\ \A r \in Uids \X Names : rows[r] # None => rows'[r] # None /\ rows'[r].ver >= rows[r].ver
      ]_vars

(***************************************************************************)
(* workflow_tasks REFERENCES workflow_runs, and the run is written first:  *)
(* no row has a version its run has not reached, wherever handleWorkflow   *)
(* was cut off.                                                            *)
(***************************************************************************)
RunCoversTasks ==
    \A u \in Uids, n \in Names :
        rows[<<u, n>>] # None => runs[u] # None /\ runs[u] >= rows[<<u, n>>].ver

(***************************************************************************)
(* When handleWorkflow has returned nil, the run and every task the        *)
(* version shows are in the tables as of that version, whatever an earlier *)
(* failed or interrupted version left half written.                        *)
(***************************************************************************)
SnapshotWhenOk ==
    h.pc = "ok" /\ h.ver > 0 /\ log[h.ver].ran =>
        /\ runs[object.uid] = h.ver
        /\ \A k \in DOMAIN object.tasks : rows[key(k)] # None /\ rows[key(k)].ver = h.ver

(***************************************************************************)
(* Once no more versions come, the tables show the stored Workflow, unless *)
(* one of its statements failed: nothing repeats an event, so that version *)
(* is lost until the watcher restarts.                                     *)
(***************************************************************************)
CatchUp ==
    <>[](/\ h.ver = Len(log) /\ h.pc # "busy"
         /\ h.pc = "failed" => budget.errors < MaxErrors)
=============================================================================

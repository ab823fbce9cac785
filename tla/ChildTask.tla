------------------------------ MODULE ChildTask ------------------------------
(***************************************************************************)
(* What an HTTPTask promises to whoever owns it, in particular to the      *)
(* Workflow controller: how its spec, the reason of its Ready condition    *)
(* and the recorded answer may change.  Workflow is written with these     *)
(* steps, and HTTPTask is shown to take no others.                         *)
(***************************************************************************)
CONSTANTS Tasks, Specs, None

VARIABLE child  \* the HTTPTasks by name

(* "" if there is no condition; "Error" stands for every other reason.     *)
Reasons == {"", "WaitingOnSource", "Running", "Computed", "Error"}

(* The spec, the condition, and the spec that the recorded output answers. *)
Child == [spec: Specs, reason: Reasons, out: Specs \cup {None}]

Fresh(x) == [spec |-> x, reason |-> "", out |-> None]

(* A source is missing or has no usable output. *)
Waiting(c) == {[c EXCEPT !.reason = r] : r \in {"WaitingOnSource", "Error"}}

(* A call begins ... *)
Started(c) == [c EXCEPT !.reason = "Running"]

(* ... and ends with an answer or without one. *)
Answered(c) == {[c EXCEPT !.reason = r, !.out = c.spec] : r \in {"Computed", "Error"}}
Failed(c)   == [c EXCEPT !.reason = "Error"]

StatusSteps(c) ==
    Waiting(c) \cup {Started(c)} \cup
    IF c.reason = "Running" THEN Answered(c) \cup {Failed(c)} ELSE {}

(* Owners and users create, edit and delete. *)
SpecSteps(c) ==
    {None} \cup IF c = None THEN {Fresh(x) : x \in Specs} ELSE {[c EXCEPT !.spec = x] : x \in Specs}

Init == child \in [Tasks -> {None} \cup {Fresh(x) : x \in Specs}]

Next == \E t \in Tasks :
    /\ child'[t] \in SpecSteps(child[t]) \cup IF child[t] = None THEN {} ELSE StatusSteps(child[t])
    /\ \A u \in Tasks \ {t} : child'[u] = child[u]

Spec == Init /\ [][Next]_child
=============================================================================

----------------------------- MODULE TaskRunner -----------------------------
(***************************************************************************)
(* What a Workflow promises to whoever lists tasks in it: each task is     *)
(* requested once, with the answers of the tasks it names, which have all  *)
(* succeeded by then, and its answer is final.                             *)
(***************************************************************************)
EXTENDS Naturals, Sequences

CONSTANTS Names, Objects

VARIABLES
    tasks,     \* the tasks listed: their names, and the mappings of each, in order
    requested  \* for each name: the objects it was requested with, and the answer

Init ==
    /\ \A i, j \in DOMAIN tasks : tasks[i].name = tasks[j].name => i = j
    /\ requested = [n \in Names |-> [with |-> <<>>, answer |-> "unrequested"]]

(* Tasks are only added. *)
Add ==
    /\ Len(tasks') = Len(tasks) + 1 /\ \A i \in DOMAIN tasks : tasks'[i] = tasks[i]
    /\ UNCHANGED requested

Ready(n) == requested[n].answer \in Objects

source(i, k) == tasks[i].inputFrom[k].sourceTask

Request(i) ==
    /\ requested[tasks[i].name].answer = "unrequested"
    /\ \A k \in DOMAIN tasks[i].inputFrom : Ready(source(i, k))
    /\ requested' = [requested EXCEPT ![tasks[i].name] =
          [with   |-> [k \in DOMAIN tasks[i].inputFrom |-> requested[source(i, k)].answer],
           answer |-> "none"]]
    /\ UNCHANGED tasks

Answer(n) ==
    /\ requested[n].answer = "none"
    /\ requested'[n].answer \in Objects \cup {"failed"}
    /\ requested' = [requested EXCEPT ![n].answer = requested'[n].answer]
    /\ UNCHANGED tasks

Next == Add \/ (\E i \in DOMAIN tasks : Request(i)) \/ \E n \in Names : Answer(n)

Spec == Init /\ [][Next]_<<tasks, requested>>
=============================================================================

------------------------------ MODULE JsonPath ------------------------------
(***************************************************************************)
(* Request bodies: getJSONField and setJSONField, of which the repository  *)
(* has two copies (internal/controller/jsonpath.go and the end of          *)
(* function-httptask/fn.go), and the two ways a body is built with them.   *)
(*                                                                         *)
(* Go's maps are references: the maps in memory are the sequence heap, and *)
(* a map's entry is a leaf, the index of another map, or Absent.  A JSON   *)
(* text is a heap of its own whose first map is the root; what a map says  *)
(* as JSON is its view, a function from paths.                             *)
(***************************************************************************)
EXTENDS Naturals, SequencesExt

CONSTANTS
    Keys,     \* the parts of paths
    Leaves,   \* the values that are no maps
    Depth,    \* bound on the length of the paths in a view
    Absent,   \* no such entry
    Object,   \* what a view has for a map
    Sources,  \* tasks that have answered, or will
    Output,   \* Output[s]: their outputs
    Plans,    \* [shared, tasks]: who builds, and the tasks with inputs and mappings
    None

Values == Nat \cup Leaves \cup {Absent}

(* A JSON text: every map but the first has its one place in an earlier one. *)
IsJson(json) ==
    /\ json \in Seq([Keys -> Values]) /\ json # <<>>
    /\ \A i \in DOMAIN json, key \in Keys :
          json[i][key] \in Nat => json[i][key] \in (i + 1)..Len(json)
    /\ \A i, j \in DOMAIN json, key1, key2 \in Keys :
          json[i][key1] \in Nat /\ json[i][key1] = json[j][key2] => i = j /\ key1 = key2

Mapping == [source: Sources, field: Seq(Keys) \ {<<>>}, target: Seq(Keys) \ {<<>>}]

Task == [input: Seq([Keys -> Values]), inputFrom: Seq(Mapping)]

VARIABLES
    plan,
    done,    \* the sources that have answered
    heap,    \* the memory of a call of RunFunction or Reconcile
    root,    \* the maps in which it holds the outputs
    k,       \* the task whose turn it is
    sent,    \* the body of each task when it was first built
    body     \* and when it was built last, Absent if that failed

vars == <<plan, done, heap, root, k, sent, body>>

-----------------------------------------------------------------------------
entry(h, cur, p) == IF cur \in DOMAIN h THEN h[cur][p] ELSE Absent

getJSONField(h, data, path) == FoldLeft(LAMBDA cur, p : entry(h, cur, p), data, path)

(* A mutant: an entry on the way is replaced also when it is a map. *)
setFresh(h, data, path, value) ==
    LET next(at, p) == [h |-> Append([at.h EXCEPT ![at.cur][p] = Len(at.h) + 1],
                                     [key \in Keys |-> Absent]),
                        cur |-> Len(at.h) + 1]
        last == FoldLeft(next, [h |-> h, cur |-> data], Front(path))
    IN  [last.h EXCEPT ![last.cur][Last(path)] = value]

(* The next map on the way, which is made where there is none. *)
enter(at, p) ==
    IF at.h[at.cur][p] \in DOMAIN at.h THEN [h |-> at.h, cur |-> at.h[at.cur][p]]
    ELSE [h   |-> Append([at.h EXCEPT ![at.cur][p] = Len(at.h) + 1],
                         [key \in Keys |-> Absent]),
          cur |-> Len(at.h) + 1]

walk(h, data, path) == FoldLeft(LAMBDA at, p : enter(at, p), [h |-> h, cur |-> data], path)

setJSONField(h, data, path, value) ==
    LET last == walk(h, data, Front(path))
    IN  [last.h EXCEPT ![last.cur][Last(path)] = value]

(* json.Unmarshal: new maps, the first of which is the root. *)
load(h, json) ==
    h \o [i \in DOMAIN json |-> [key \in Keys |->
             IF json[i][key] \in DOMAIN json THEN json[i][key] + Len(h) ELSE json[i][key]]]

Paths == UNION {[1..n -> Keys] : n \in 0..Depth}

view(h, data) ==
    [p \in Paths |-> LET v == getJSONField(h, data, p) IN IF v \in DOMAIN h THEN Object ELSE v]

(* json.Marshal finds a map that contains itself: there is an endless way down. *)
down(h, maps) == {h[j][key] : j \in maps, key \in Keys} \cap DOMAIN h
cyclic(h, data) == FoldLeft(LAMBDA maps, i : down(h, maps), {data}, [i \in DOMAIN h |-> i]) # {}

(***************************************************************************)
(* The body of a task.  RunFunction takes a value from the one map it has  *)
(* of a source's output (shared); Reconcile parses the output anew every   *)
(* time.                                                                   *)
(***************************************************************************)
merge(shared, roots, at, m) ==
    LET h   == IF shared THEN at.h ELSE load(at.h, Output[m.source])
        src == IF shared THEN roots[m.source] ELSE Len(at.h) + 1
        val == getJSONField(h, src, m.field)
    IN  IF ~at.ok \/ val = Absent THEN [h |-> at.h, body |-> at.body, ok |-> FALSE]
        ELSE [h |-> setJSONField(h, at.body, m.target, val), body |-> at.body, ok |-> TRUE]

build(shared, roots, h, task) ==
    FoldLeft(LAMBDA at, m : merge(shared, roots, at, m),
             [h |-> load(h, task.input), body |-> Len(h) + 1, ok |-> TRUE], task.inputFrom)

(* An output is parsed and kept. *)
keep(mem, s) ==
    [h |-> load(mem.h, Output[s]), root |-> [mem.root EXCEPT ![s] = Len(mem.h) + 1]]

memory(known) ==
    FoldLeft(LAMBDA mem, s : keep(mem, s), [h |-> <<>>, root |-> [s \in Sources |-> None]],
             SetToSeq(known))

-----------------------------------------------------------------------------
Init ==
    /\ plan \in Plans
    /\ done = {} /\ heap = <<>> /\ root = [s \in Sources |-> None]
    /\ k = Len(plan.tasks) + 1
    /\ sent = [i \in DOMAIN plan.tasks |-> None] /\ body = sent

(* A call begins, with the outputs there are now. *)
Call ==
    /\ k > Len(plan.tasks)
    /\ \E more \in SUBSET (Sources \ done) :
          LET mem == memory(done \cup more)
          IN  done' = done \cup more /\ heap' = mem.h /\ root' = mem.root
    /\ k' = 1
    /\ UNCHANGED <<plan, sent, body>>

(* The task's sources have answered: its body is built, or built again. *)
Build ==
    /\ k <= Len(plan.tasks)
    /\ \A m \in Range(plan.tasks[k].inputFrom) : m.source \in done
    /\ LET b   == build(plan.shared, root, heap, plan.tasks[k])
           new == IF ~b.ok \/ cyclic(b.h, b.body) THEN Absent ELSE view(b.h, b.body)
       IN  /\ heap' = b.h
           /\ body' = [body EXCEPT ![k] = new]
           /\ sent' = [sent EXCEPT ![k] = IF @ = None THEN new ELSE @]
    /\ k' = k + 1
    /\ UNCHANGED <<plan, done, root>>

(* depsReady is false. *)
NotReady ==
    /\ k <= Len(plan.tasks)
    /\ \E m \in Range(plan.tasks[k].inputFrom) : m.source \notin done
    /\ k' = k + 1
    /\ UNCHANGED <<plan, done, heap, root, sent, body>>

Next == Call \/ Build \/ NotReady

Spec == Init /\ [][Next]_vars

-----------------------------------------------------------------------------
(* The reference: values, which share nothing. *)

(* What view v says below path. *)
Below(v, path) == [p \in Paths |-> IF path \o p \in Paths THEN v[path \o p] ELSE Absent]

(***************************************************************************)
(* v with val in the place of path: below the path there is only val,      *)
(* above it there are objects, and where such an object takes the place of *)
(* something else nothing else is in it.                                   *)
(***************************************************************************)
Spliced(v, path, val) ==
    LET above(p) == IsStrictPrefix(p, path)
        gone(p)  == \E q \in Paths : above(q) /\ v[q] # Object /\ IsPrefix(q, p)
    IN  [p \in Paths |-> IF IsPrefix(path, p) THEN val[SubSeq(p, Len(path) + 1, Len(p))]
                         ELSE IF above(p) THEN Object
                         ELSE IF gone(p) THEN Absent ELSE v[p]]

Reference(task) ==
    FoldLeft(LAMBDA v, m : Spliced(v, m.target, Below(view(Output[m.source], 1), m.field)),
             view(task.input, 1), task.inputFrom)

Missing(task) ==
    \E m \in Range(task.inputFrom) : getJSONField(Output[m.source], 1, m.field) = Absent

(***************************************************************************)
(* Leaves are no maps; outputs and inputs are JSON texts, and the views    *)
(* are deep enough to show whole outputs.                                  *)
(***************************************************************************)
ASSUME JsonPathAssumption ==
    /\ Depth \in Nat /\ IsFiniteSet(Sources)
    /\ {Absent, Object, None} \cap Nat = {} /\ Leaves \cap Nat = {}
    /\ Absent # Object /\ {Absent, Object} \cap Leaves = {}
    /\ \A s \in Sources : /\ IsJson(Output[s])
                          /\ \A p \in [1..(Depth + 1) -> Keys] :
                                getJSONField(Output[s], 1, p) = Absent
    /\ Plans \subseteq [shared: BOOLEAN, tasks: Seq(Task)]
    /\ \A pl \in Plans : \A i \in DOMAIN pl.tasks : IsJson(pl.tasks[i].input)

(* No mapping writes into what an earlier one has put there. *)
Flat(task) ==
    \A i, j \in DOMAIN task.inputFrom :
        i < j => ~IsStrictPrefix(task.inputFrom[i].target, task.inputFrom[j].target)

(***************************************************************************)
(* The body of a task is its input with the mapped fields in their places, *)
(* later ones over earlier ones, whatever was built before it: always in   *)
(* the HTTPTask controller (httptask_controller.go:75-108), in the         *)
(* function (fn.go:210-232) when no task maps into a mapped object.        *)
(***************************************************************************)
BodyAsSpecified ==
    ~plan.shared \/ (\A i \in DOMAIN plan.tasks : Flat(plan.tasks[i])) =>
        \A i \in DOMAIN plan.tasks : body[i] # None =>
            body[i] = IF Missing(plan.tasks[i]) THEN Absent ELSE Reference(plan.tasks[i])

(***************************************************************************)
(* fn.go:133 "Already exists - rebuild deterministically": the body of a   *)
(* request that exists is built again as it was built first.  It is not    *)
(* when another task has since written into an output that the two share:  *)
(* the body is another one, or the mapped field is gone and there is none. *)
(***************************************************************************)
RebuildDeterministic == \A i \in DOMAIN body : body[i] = sent[i]
=============================================================================

----------------------------- MODULE MCJsonPath -----------------------------
(* Small instances of JsonPath. *)
EXTENDS JsonPath

CONSTANTS x, y, leaf, A, D

Map(vx, vy) == [key \in {x, y} |-> IF key = x THEN vx ELSE vy]

(* A answers {"x": {"x": leaf}, "y": leaf}, D {"y": leaf}. *)
MCOutput == [s \in {A, D} |-> IF s = A THEN <<Map(2, leaf), Map(leaf, Absent)>>
                                       ELSE <<Map(Absent, leaf)>>]

Short == {<<x>>, <<y>>}
Long  == Short \cup {<<x, x>>, <<x, y>>, <<y, x>>}

M(s, f, t)   == [source |-> s, field |-> f, target |-> t]
Job(in, ms) == [input |-> in, inputFrom |-> ms]

(* A request that takes all of A's x, built after another task's. *)
Reader == Job(<<Map(Absent, Absent)>>, <<M(A, <<x>>, <<y>>)>>)

(* All pairs of mappings of one task, on two inputs, and by both builders. *)
MCPlans ==
    {[shared |-> sh, tasks |-> <<Job(in, <<M(A, f, t), M(s, g, u)>>), Reader>>] :
        sh \in BOOLEAN, in \in {<<Map(Absent, leaf)>>, <<Map(leaf, 2), Map(leaf, leaf)>>},
        f \in Long, t \in Long, s \in {A, D}, g \in Long, u \in Long}

(* A answers {"x": {"y": {"y": leaf}}}, D {"y": leaf}. *)
MCNestedOutput == [MCOutput EXCEPT ![A] = <<Map(2, Absent), Map(Absent, 3), Map(Absent, leaf)>>]

(***************************************************************************)
(* The task {x <- A.x, x.y <- D.y} is not flat: it writes D's y into A's   *)
(* output, in whose x.y another request has found its input.               *)
(***************************************************************************)
MCNested ==
    {[shared |-> TRUE,
      tasks |-> <<Job(<<Map(Absent, Absent)>>, <<M(A, <<x>>, <<x>>), M(D, <<y>>, <<x, y>>)>>),
                  Job(<<Map(Absent, Absent)>>, <<M(A, <<x, y, y>>, <<y>>)>>)>>]}
=============================================================================

------------------------------ MODULE MCHTTPTask ------------------------------
(* Small instances of HTTPTask for TLC. *)
EXTENDS HTTPTask, TLC

CONSTANTS a, b, x, y, e, f, o1, o2

S(input, from, rest) == [input |-> input, from |-> from, rest |-> rest]

Plain == S(x, <<>>, e)
Fed   == S(y, <<a>>, e)

(* b is given a source, another input and another endpoint; *)
Varied  == {Plain, Fed, S(y, <<a>>, f)}
Edited  == (a :> {Plain}) @@ (b :> Varied)
(* a is given another input while b takes its output. *)
TwoInputs == {Plain, S(y, <<>>, e)}
AllSpecs  == TwoInputs \cup {Fed}
Chained   == (a :> TwoInputs) @@ (b :> {Fed})
Alone     == (a :> TwoInputs)

R(ok, out) == [ok |-> ok, body |-> out]
AllReplies  == {R(TRUE, o1), R(FALSE, o2), R(TRUE, "text")}
GoodReplies == {R(TRUE, o1), R(TRUE, o2)}
=============================================================================

---------------------------- MODULE MCComposition ----------------------------
(* Small instances of Composition for TLC. *)
EXTENDS Composition, TLC

CONSTANTS a, b, c, f, o1, o2, p, q

MCFieldsOf == (o1 :> {f}) @@ (o2 :> {})

(* q is inside p: a task may map to q and then to p, not the other way round. *)
MCInside == (p :> {q}) @@ (q :> {})

From(n, target) == [sourceTask |-> n, sourceField |-> f, targetField |-> target]
T(n, sources) ==
    [name |-> n, inputFrom |-> [k \in DOMAIN sources |-> From(sources[k], <<q, p>>[k])]]

Chain   == <<T(a, <<>>), T(b, <<a>>)>>
Join    == <<T(a, <<>>), T(b, <<>>), T(c, <<a, b>>)>>
Forward == <<T(b, <<a>>), T(a, <<>>)>>

Answer(error, code, body, synced) ==
    [error |-> error, code |-> code, body |-> body, synced |-> synced]

(* An error; a non-2xx whose body is an object; a 2xx not yet synced; and   *)
(* synced 2xx answers: an object with and one without the field, and text.  *)
ManyAnswers ==
    {Answer("error", 0, "", "false"), Answer("", 300, o1, "true"), Answer("", 299, o1, "false"),
     Answer("", 200, o1, "true"), Answer("", 200, o2, "true")}
TwoAnswers == {Answer("", 200, "text", "true"), Answer("", 200, o1, "true")}

AllWorkflows == {Chain, Join, Forward}
ChainOnly    == {Chain}
Growth       == {T(c, <<b>>)}
NoAdditions  == {}
=============================================================================

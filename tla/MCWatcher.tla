------------------------------ MODULE MCWatcher ------------------------------
(* Small instances of Watcher. *)
EXTENDS Watcher

CONSTANTS a, b

(* Tasks appear, are answered, are removed from the spec and renamed. *)
MCStatuses ==
    LET T(n, code) == [name |-> n, statusCode |-> code]
    IN  {<<>>, <<T(a, None)>>, <<T(a, 200), T(b, None)>>, <<T(b, 200)>>}
=============================================================================

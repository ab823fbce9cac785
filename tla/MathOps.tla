------------------------------ MODULE MathOps ------------------------------
(***************************************************************************)
(* The Add, Subtract and Square controllers (internal/controller), the     *)
(* DynamicWatcher by which a Square follows whatever it references, and    *)
(* the in-use check by which a Square keeps its source.                    *)
(*                                                                         *)
(* The three controllers share one manager: one worker each, one cache.    *)
(* Caches and conflicts are modelled as in module HTTPTask; FetchTaskResult *)
(* reads an unstructured object, which the manager's client does not cache. *)
(***************************************************************************)
EXTENDS Integers

CONSTANTS
    Adds, Subtracts, Squares,  \* names of objects, by kind
    Invalid,      \* references whose apiVersion does not parse
    Unknown,      \* references to kinds that are not on the cluster
    Operands,     \* the pairs <<x, y>> of spec.x and spec.y
    Given,        \* what there may be when the manager starts
    Half,         \* half of the results, those below 0: 2^31
    None,
    MaxEvents     \* bound on the users' changes, failed API calls and restarts together

Sources == Adds \cup Subtracts
Names   == Sources \cup Squares
Refs    == Names \cup Invalid \cup Unknown
Kinds   == {"Add", "Subtract", "Square"}

Kind(n) == IF n \in Adds THEN "Add" ELSE IF n \in Subtracts THEN "Subtract" ELSE "Square"

Ints == (-Half)..(Half - 1)

(* A mutant: results as wide as they come. *)
Unwrapped(n) == n

(* Conversion to a signed integer of this width, as Go does it. *)
Wrap(n) == ((n + Half) % (2 * Half)) - Half

Results == Ints \cup {None}
Source  == [operands: Operands, fin: BOOLEAN, deleting: BOOLEAN, result: Results]

(* cgen is the observedGeneration; "of" is a ghost: the reference squared. *)
Square  == [ref: Refs, gen: Nat, result: Results, of: Refs \cup {None}, cgen: Nat,
            reason: {"", "InvalidSourceRef", "SourceKindUnavailable", "SourceNotFound",
                     "WaitingOnSource", "Computed"}]

(* What Ready says of the current generation. *)
Current(sq) ==
    sq.reason = "Computed" /\ sq.cgen = sq.gen => sq.result # None /\ sq.of = sq.ref

(* What a manager before this one may have left. *)
Left(n, obj) ==
    IF n \in Squares THEN obj \in Square /\ obj.cgen <= obj.gen /\ Current(obj) ELSE obj \in Source

ASSUME MathOpsAssumption ==
    /\ Half \in Nat \ {0} /\ Operands \subseteq Ints \X Ints
    /\ Adds \cap Subtracts = {} /\ Sources \cap Squares = {}
    /\ Names \cap (Invalid \cup Unknown) = {} /\ Invalid \cap Unknown = {}
    /\ None \notin Refs \cup Int \cup Source \cup Square
    /\ Given \subseteq [Names -> Source \cup Square \cup {None}]
    /\ \A g \in Given, n \in Names : g[n] = None \/ Left(n, g[n])
    /\ MaxEvents \in Nat

VARIABLES
    api,      \* the stored objects
    cache,    \* the manager's cache
    behind,   \* the names whose cached copy is out of date
    queue,    \* the three workqueues; a name tells its controller
    w,        \* the three workers' Reconcile calls
    seen,     \* DynamicWatcher.seen: the kinds watched for Squares
    notices,  \* objects of these kinds with an event to be delivered
    events,   \* how many of them there were
    failures  \* and how many of these were failed API calls

vars == <<api, cache, behind, queue, w, seen, notices, events, failures>>
counts == <<events, failures>>

Idle == [pc |-> "idle", n |-> None, obj |-> None, stale |-> FALSE, sum |-> None]

TypeOK ==
    /\ \A v \in {api, cache} : \A n \in Names :
          v[n] = None \/ v[n] \in IF n \in Squares THEN Square ELSE Source
    /\ behind \subseteq Names /\ \A n \in Names \ behind : cache[n] = api[n]
    /\ queue \subseteq Names /\ notices \subseteq Names /\ seen \subseteq Kinds
    /\ \A k \in Kinds : /\ w[k].pc \in {"idle", "remove", "compute", "fetch", "missing", "record"}
                        /\ w[k].pc # "idle" => Kind(w[k].n) = k
                        /\ w[k].sum \in Results

NewSource(xy) == [operands |-> xy, fin |-> FALSE, deleting |-> FALSE, result |-> None]
NewSquare(r)  == [ref |-> r, gen |-> 1, result |-> None, of |-> None, cgen |-> 0, reason |-> ""]

(* The manager has listed what is there; its workers start. *)
Init ==
    /\ api \in Given
    /\ cache = api /\ behind = {}
    /\ queue = {n \in Names : api[n] # None} /\ seen = {} /\ notices = {}
    /\ w = [k \in Kinds |-> Idle]
    /\ events = 0 /\ failures = 0

Event   == events < MaxEvents /\ events' = events + 1 /\ UNCHANGED failures
Failure == events < MaxEvents /\ events' = events + 1 /\ failures' = failures + 1

(* An object is stored; watches for it are due. *)
Store(n, new) ==
    /\ api' = [api EXCEPT ![n] = new]
    /\ behind' = IF new = api[n] THEN behind ELSE behind \cup {n}
    /\ notices' = IF new # api[n] /\ Kind(n) \in seen THEN notices \cup {n} ELSE notices

Write(n, stale, new) == ~stale /\ Store(n, new) /\ UNCHANGED counts

WriteFails(stale) ==
    /\ (stale /\ UNCHANGED counts) \/ Failure
    /\ UNCHANGED <<api, behind, notices>>

Begin(n, pc, obj, stale) == w' = [w EXCEPT ![Kind(n)] =
    [Idle EXCEPT !.pc = pc, !.n = n, !.obj = obj, !.stale = stale]]

Done(k)  == w' = [w EXCEPT ![k] = Idle] /\ UNCHANGED queue
Retry(k) == w' = [w EXCEPT ![k] = Idle] /\ queue' = queue \cup {w[k].n}

(* The Update decides how Reconcile returns. *)
Finish(k, new) ==
    \/ Write(w[k].n, w[k].stale, new) /\ Done(k)
    \/ WriteFails(w[k].stale) /\ Retry(k)

(* A worker takes a name off its queue; the object is gone. *)
Ready(n) == n \in queue /\ w[Kind(n)].pc = "idle"

GetNotFound(n) ==
    /\ Ready(n) /\ cache[n] = None
    /\ queue' = queue \ {n}
    /\ UNCHANGED <<api, cache, behind, w, seen, notices, counts>>

-----------------------------------------------------------------------------
(* Add and Subtract. *)

(* The cached Squares whose index value is n's. *)
squaresOf(n) == {q \in Squares : cache[q] # None /\ cache[q].ref = n}

referencedBySquare(n) == squaresOf(n) # {}

(* A mutant: the key of a source in use is not queued again. *)
GetDeletingDropped(n) ==
    /\ Ready(n) /\ n \in Sources /\ cache[n] # None /\ cache[n].deleting
    /\ queue' = queue \ {n}
    /\ IF cache[n].fin /\ ~referencedBySquare(n)
       THEN Begin(n, "remove", cache[n], n \in behind) ELSE UNCHANGED w
    /\ UNCHANGED <<api, cache, behind, seen, notices, counts>>

(* Deleting, but in use: the key comes back after five seconds (it stays). *)
GetDeleting(n) ==
    /\ Ready(n) /\ n \in Sources /\ cache[n] # None /\ cache[n].deleting
    /\ cache[n].fin => ~referencedBySquare(n)
    /\ queue' = queue \ {n}
    /\ IF cache[n].fin THEN Begin(n, "remove", cache[n], n \in behind) ELSE UNCHANGED w
    /\ UNCHANGED <<api, cache, behind, seen, notices, counts>>

RemoveFinalizer(k) ==
    /\ w[k].pc = "remove"
    /\ Finish(k, None)
    /\ UNCHANGED <<cache, seen>>

(* The sum, or the difference, in int32. *)
compute(k, xy) == Wrap(IF k = "Add" THEN xy[1] + xy[2] ELSE xy[1] - xy[2])

(* A copy that has the finalizer is read and written, or found right, in one step. *)
GetSource(n) ==
    /\ Ready(n) /\ n \in Sources /\ cache[n] # None /\ ~cache[n].deleting /\ cache[n].fin
    /\ LET new == [cache[n] EXCEPT !.result = compute(Kind(n), cache[n].operands)]
       IN  \/ new = cache[n] /\ queue' = queue \ {n} /\ UNCHANGED <<api, behind, notices, counts>>
           \/ new # cache[n] /\ Write(n, n \in behind, new) /\ queue' = queue \ {n}
           \/ new # cache[n] /\ WriteFails(n \in behind) /\ UNCHANGED queue
    /\ UNCHANGED <<cache, w, seen>>

(* Otherwise the finalizer is written first. *)
AddFinalizer(n) ==
    /\ Ready(n) /\ n \in Sources /\ cache[n] # None /\ ~cache[n].deleting /\ ~cache[n].fin
    /\ LET obj == [cache[n] EXCEPT !.fin = TRUE]
       IN  \/ Write(n, n \in behind, obj) /\ Begin(n, "compute", obj, FALSE) /\ queue' = queue \ {n}
           \/ WriteFails(n \in behind) /\ UNCHANGED <<queue, w>>
    /\ UNCHANGED <<cache, seen>>

Compute(k) ==
    /\ w[k].pc = "compute"
    /\ Finish(k, [w[k].obj EXCEPT !.result = compute(k, w[k].obj.operands)])
    /\ UNCHANGED <<cache, seen>>

-----------------------------------------------------------------------------
(* Square. *)

WithReady(sq, reason) == [sq EXCEPT !.reason = reason, !.cgen = sq.gen]

square == w["Square"]

(* Ensure: the first time a kind is seen its objects are listed and watched. *)
Ensure(kind) ==
    /\ seen' = seen \cup {kind}
    /\ notices' = IF kind \in seen THEN notices
                  ELSE notices \cup {n \in Names : Kind(n) = kind /\ api[n] # None}

GetSquare(q) ==
    /\ Ready(q) /\ q \in Squares /\ cache[q] # None /\ cache[q].ref \in Names
    /\ Ensure(Kind(cache[q].ref))
    /\ Begin(q, "fetch", cache[q], q \in behind)
    /\ queue' = queue \ {q}
    /\ UNCHANGED <<api, cache, behind, counts>>

(***************************************************************************)
(* The reference does not parse, or Ensure fails: for good, or because the *)
(* API server could not be asked.  Nothing is queued again if the status   *)
(* can be written.                                                         *)
(***************************************************************************)
GetUnresolvable(q) ==
    /\ Ready(q) /\ q \in Squares /\ cache[q] # None
    /\ LET ref    == cache[q].ref
           reason == IF ref \in Invalid THEN "InvalidSourceRef" ELSE "SourceKindUnavailable"
           put(new) == q \notin behind /\ Store(q, new) /\ queue' = queue \ {q}
           keep     == UNCHANGED <<api, behind, notices, queue>>
       IN  \/ ref \notin Names /\ put(WithReady(cache[q], reason)) /\ UNCHANGED counts
           \/ ref \notin Names /\ q \in behind /\ keep /\ UNCHANGED counts
           \/ ref \notin Names /\ Failure /\ keep
           \/ /\ ref \in Names /\ Kind(ref) \notin seen /\ Failure
              /\ put(WithReady(cache[q], reason)) \/ (q \in behind /\ keep)
    /\ UNCHANGED <<cache, w, seen>>

(* A mutant: the source is read from the cache. *)
FetchCached ==
    /\ square.pc = "fetch"
    /\ LET src == cache[square.obj.ref]
       IN  w' = [w EXCEPT !["Square"].pc = IF src = None THEN "missing" ELSE "record",
                          !["Square"].sum = IF src = None THEN None ELSE src.result]
    /\ UNCHANGED <<api, cache, behind, queue, seen, notices, counts>>

(* FetchTaskResult: a live read of the source. *)
Fetch ==
    /\ square.pc = "fetch"
    /\ LET src == api[square.obj.ref]
       IN  w' = [w EXCEPT !["Square"].pc = IF src = None THEN "missing" ELSE "record",
                          !["Square"].sum = IF src = None THEN None ELSE src.result]
    /\ UNCHANGED <<api, cache, behind, queue, seen, notices, counts>>

(* The read fails: the source is reported missing, and Reconcile returns the error. *)
FetchFails ==
    /\ square.pc = "fetch" /\ Failure
    /\ \/ ~square.stale /\ Store(square.n, WithReady(square.obj, "SourceNotFound"))
       \/ square.stale /\ UNCHANGED <<api, behind, notices>>
    /\ Retry("Square")
    /\ UNCHANGED <<cache, seen>>

(* The error of this update is dropped. *)
SourceNotFound ==
    /\ square.pc = "missing"
    /\ \/ Write(square.n, square.stale, WithReady(square.obj, "SourceNotFound"))
       \/ WriteFails(square.stale)
    /\ Done("Square")
    /\ UNCHANGED <<cache, seen>>

WaitingOnSource ==
    /\ square.pc = "record" /\ square.sum = None
    /\ Finish("Square", WithReady(square.obj, "WaitingOnSource"))
    /\ UNCHANGED <<cache, seen>>

(* A mutant: the result is patched into whatever is stored. *)
RecordPatched ==
    /\ square.pc = "record" /\ square.sum # None /\ api[square.n] # None
    /\ LET result == Wrap(square.sum * square.sum)
       IN  /\ Store(square.n, [WithReady(api[square.n], "Computed")
                               EXCEPT !.result = result, !.of = square.obj.ref])
           /\ Done("Square")
    /\ UNCHANGED <<cache, seen, counts>>

Record ==
    /\ square.pc = "record" /\ square.sum # None
    /\ LET result == Wrap(square.sum * square.sum)
       IN  IF square.obj.result = result
           THEN Done("Square") /\ UNCHANGED <<api, behind, notices, counts>>
           ELSE Finish("Square", [WithReady(square.obj, "Computed")
                                  EXCEPT !.result = result, !.of = square.obj.ref])
    /\ UNCHANGED <<cache, seen>>

-----------------------------------------------------------------------------
(* Watches, restarts and users. *)

Sync(n) ==
    /\ n \in behind
    /\ cache' = [cache EXCEPT ![n] = api[n]]
    /\ behind' = behind \ {n}
    /\ queue' = queue \cup {n}
    /\ UNCHANGED <<api, w, seen, notices, counts>>

(* findSquaresForSource *)
Notice(n) ==
    /\ n \in notices
    /\ queue' = queue \cup squaresOf(n)
    /\ notices' = notices \ {n}
    /\ UNCHANGED <<api, cache, behind, w, seen, counts>>

Crash ==
    /\ Event
    /\ cache' = api /\ behind' = {}
    /\ queue' = {n \in Names : api[n] # None}
    /\ w' = [k \in Kinds |-> Idle]
    /\ seen' = {} /\ notices' = {}
    /\ UNCHANGED api

(* A worker that holds the object now holds an old copy. *)
Changed(n, new) ==
    /\ new # api[n] /\ Store(n, new)
    /\ w' = [k \in Kinds |-> IF w[k].n = n THEN [w[k] EXCEPT !.stale = TRUE] ELSE w[k]]
    /\ UNCHANGED <<cache, queue, seen>>

EditSource(n, xy) ==
    /\ Event
    /\ Changed(n, IF api[n] = None THEN NewSource(xy) ELSE [api[n] EXCEPT !.operands = xy])

EditSquare(q, r) ==
    /\ Event
    /\ api[q] # None => api[q].ref # r
    /\ Changed(q, IF api[q] = None THEN NewSquare(r)
                  ELSE [api[q] EXCEPT !.ref = r, !.gen = @ + 1])

Delete(n) ==
    /\ api[n] # None /\ Event
    /\ Changed(n, IF n \in Sources /\ api[n].fin THEN [api[n] EXCEPT !.deleting = TRUE] ELSE None)

Get(n)  == GetNotFound(n) \/ GetDeleting(n) \/ GetSource(n) \/ AddFinalizer(n)
           \/ GetSquare(n) \/ GetUnresolvable(n)
Step(k) == RemoveFinalizer(k) \/ Compute(k)
SquareStep == Fetch \/ SourceNotFound \/ WaitingOnSource \/ Record
User == \/ \E n \in Sources, xy \in Operands : EditSource(n, xy)
        \/ \E q \in Squares, r \in Refs : EditSquare(q, r)
        \/ \E n \in Names : Delete(n)

Next == \/ \E n \in Names : Get(n) \/ Sync(n) \/ Notice(n)
        \/ \E k \in {"Add", "Subtract"} : Step(k)
        \/ SquareStep \/ FetchFails \/ Crash \/ User

Spec == Init /\ [][Next]_vars

(***************************************************************************)
(* Some worker with a key in its queue takes one, some Reconcile in        *)
(* progress goes on, some event that is due arrives.                       *)
(***************************************************************************)
FairSpec ==
    /\ Spec
    /\ WF_vars(\E n \in Names : Get(n))
    /\ WF_vars(SquareStep \/ \E k \in {"Add", "Subtract"} : Step(k))
    /\ WF_vars(\E n \in Names : Sync(n) \/ Notice(n))

-----------------------------------------------------------------------------
(***************************************************************************)
(* A Square that is Ready for its current generation has the result of the *)
(* source its spec names now (square_controller.go:80-91), although the    *)
(* reference may be edited between the read of the source and the write.   *)
(***************************************************************************)
ReadyIsCurrent ==
    \A q \in Squares :
        api[q] # None => Current(api[q])

(***************************************************************************)
(* Once users stop, every source has its sum or difference, and every      *)
(* Square the square of what its source has, in arithmetic that wraps,     *)
(* or says why not: through Ensure, live reads and findSquaresForSource,   *)
(* and also when Squares reference Squares or themselves (repeated         *)
(* squaring modulo a power of two ends in 0 or 1).  Two failures may go    *)
(* unrepaired: a dropped update, and an Ensure that fails twice.           *)
(***************************************************************************)
Settled(q) ==
    LET sq == api[q]
    IN  \/ sq.ref \in Invalid /\ sq.reason = "InvalidSourceRef"
        \/ sq.ref \in Unknown /\ sq.reason = "SourceKindUnavailable"
        \/ sq.ref \in Names /\ failures > 1 /\ sq.reason = "SourceKindUnavailable"
        \/ /\ sq.ref \in Names
           /\ CASE api[sq.ref] = None        -> sq.reason = "SourceNotFound" \/ failures > 0
                [] api[sq.ref].result = None -> sq.reason = "WaitingOnSource"
                [] OTHER -> sq.result = Wrap(api[sq.ref].result * api[sq.ref].result)

Settles ==
    <>[](/\ \A n \in Sources : api[n] # None /\ ~api[n].deleting =>
               api[n].result = compute(Kind(n), api[n].operands)
         /\ \A q \in Squares : api[q] # None => Settled(q))

(***************************************************************************)
(* A source being deleted goes once no Square references it, although no   *)
(* event of a Square wakes its controller (add_controller.go:38-53).       *)
(***************************************************************************)
DeletionCompletes ==
    <>[](\A n \in Sources : api[n] # None /\ api[n].deleting =>
            \E q \in Squares : api[q] # None /\ api[q].ref = n)
=============================================================================

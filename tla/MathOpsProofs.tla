---------------------------- MODULE MathOpsProofs ----------------------------
(***************************************************************************)
(* Theorems about MathOps: results stay in the range of the integers they  *)
(* are stored in, and a Square that is Ready for its current generation    *)
(* has the result of the source its spec names; for every set of objects,  *)
(* every width and every number of edits, failures and restarts.           *)
(***************************************************************************)
EXTENDS MathOps, TLAPS

Object == Source \cup Square \cup {None}

(* What is stored, or was when it was read. *)
Sound(n, obj) == obj = None \/ Left(n, obj)

StoreInv ==
    /\ api \in [Names -> Object] /\ \A n \in Names : Sound(n, api[n])
    /\ cache \in [Names -> Object] /\ \A n \in Names : Sound(n, cache[n])
    /\ behind \subseteq Names /\ \A n \in Names \ behind : cache[n] = api[n]
    /\ queue \subseteq Names /\ notices \subseteq Names /\ seen \subseteq Kinds

(* A Reconcile call of one of the three workers: the shape of w[k]. *)
Call == [pc: {"idle", "remove", "compute", "fetch", "missing", "record"}, n: Names \cup {None},
         obj: Object, stale: BOOLEAN, sum: Results]

(* It is about an object of its own kind, and reads only what can be read. *)
Proper(k, c) ==
    /\ c.pc # "idle" => c.n \in Names /\ Kind(c.n) = k /\ c.obj # None /\ Left(c.n, c.obj)
    /\ c.pc = "fetch" => k = "Square" /\ c.obj.ref \in Names
    /\ c.pc \in {"missing", "record"} => k = "Square"

WorkersInv == w \in [Kinds -> Call] /\ \A k \in Kinds : Proper(k, w[k])

MInv == StoreInv /\ WorkersInv

-----------------------------------------------------------------------------
(* The arithmetic. *)

LEMMA WrapTyped == \A n \in Int : Wrap(n) \in Ints
<1> SUFFICES ASSUME NEW n \in Int PROVE Wrap(n) \in Ints
    OBVIOUS
<1>1. Half \in Nat \ {0}
    BY MathOpsAssumption
<1> DEFINE m == n + Half
           d == 2 * Half
<1>2. m \in Int /\ d \in Nat /\ d > 0
    BY <1>1
<1> HIDE DEF m, d
<1>3. m % d \in 0..(d - 1)
    BY <1>2
<1>4. (m % d) - Half \in (-Half)..(Half - 1)
    BY <1>1, <1>2, <1>3 DEF d
<1> QED BY <1>4 DEF Wrap, Ints, m, d

LEMMA IntsAreInt == Ints \subseteq Int /\ None \notin Ints
BY MathOpsAssumption DEF Ints

LEMMA computeTyped ==
    ASSUME NEW k, NEW xy \in Operands
    PROVE  compute(k, xy) \in Ints
<1>1. xy[1] \in Int /\ xy[2] \in Int
    BY IntsAreInt, MathOpsAssumption
<1>2. xy[1] + xy[2] \in Int /\ xy[1] - xy[2] \in Int
    BY <1>1
<1> QED BY <1>2, WrapTyped DEF compute

-----------------------------------------------------------------------------
(* The objects by kind, and what is written to them. *)

LEMMA KindOf ==
    ASSUME NEW n \in Names
    PROVE  /\ Kind(n) \in Kinds
           /\ n \in Squares <=> Kind(n) = "Square"
           /\ n \in Sources <=> Kind(n) \in {"Add", "Subtract"}
BY MathOpsAssumption DEF Kind, Kinds, Names, Sources

LEMMA LeftObject ==
    ASSUME NEW n \in Names, NEW obj, Left(n, obj)
    PROVE  obj \in Object /\ obj # None
BY MathOpsAssumption DEF Left, Object

LEMMA SourceUpdates ==
    ASSUME NEW o \in Source, NEW xy \in Operands, NEW result \in Ints
    PROVE  /\ [o EXCEPT !.result = result] \in Source /\ [o EXCEPT !.fin = TRUE] \in Source
           /\ [o EXCEPT !.operands = xy] \in Source /\ [o EXCEPT !.deleting = TRUE] \in Source
           /\ o.operands \in Operands /\ o.result \in Results
BY DEF Source, Results

LEMMA LeftSource ==
    ASSUME NEW n \in Sources
    PROVE  \A obj : Left(n, obj) <=> obj \in Source
<1>1. n \notin Squares
    BY MathOpsAssumption
<1> QED BY <1>1 DEF Left

LEMMA LeftSquare ==
    ASSUME NEW n \in Squares
    PROVE  \A obj : Left(n, obj) <=> obj \in Square /\ obj.cgen <= obj.gen /\ Current(obj)
BY DEF Left

LEMMA ConditionSquare ==
    ASSUME NEW sq \in Square,
           NEW reason \in {"InvalidSourceRef", "SourceKindUnavailable", "SourceNotFound", "WaitingOnSource"},
           NEW q \in Squares
    PROVE  Left(q, WithReady(sq, reason))
<1> DEFINE new == WithReady(sq, reason)
<1>1. new \in Square /\ new.reason = reason /\ new.cgen = sq.gen /\ new.gen = sq.gen /\ sq.gen \in Nat
    BY DEF WithReady, Square
<1> HIDE DEF new
<1>2. new.cgen <= new.gen /\ Current(new)
    BY <1>1 DEF Current
<1> QED BY <1>1, <1>2, LeftSquare DEF new

(* The square of a sum, of what the spec in hand references. *)
Computed(sq, result) == [WithReady(sq, "Computed") EXCEPT !.result = result, !.of = sq.ref]

LEMMA ComputedSquare ==
    ASSUME NEW sq \in Square, NEW result \in Ints, NEW q \in Squares
    PROVE  Left(q, Computed(sq, result))
<1> DEFINE r == WithReady(sq, "Computed")
           new == Computed(sq, result)
<1>1. /\ r \in Square /\ r.reason = "Computed" /\ r.cgen = sq.gen /\ r.gen = sq.gen /\ r.ref = sq.ref
      /\ sq.gen \in Nat /\ sq.ref \in Refs
    BY DEF WithReady, Square
<1> HIDE DEF r
<1>2. new = [r EXCEPT !.result = result, !.of = sq.ref]
    BY DEF Computed, r
<1>3. /\ new \in Square /\ new.reason = "Computed" /\ new.cgen = sq.gen /\ new.gen = sq.gen
      /\ new.ref = sq.ref /\ new.of = sq.ref /\ new.result = result
    BY <1>1, <1>2 DEF Square, Results
<1> HIDE DEF new
<1>4. new.cgen <= new.gen /\ Current(new)
    BY <1>1, <1>3, IntsAreInt DEF Current
<1> QED BY <1>3, <1>4, LeftSquare DEF new

LEMMA EditedSquare ==
    ASSUME NEW q \in Squares, NEW sq, Left(q, sq), NEW r \in Refs
    PROVE  Left(q, [sq EXCEPT !.ref = r, !.gen = @ + 1])
<1> DEFINE g == sq.gen + 1
           new == [sq EXCEPT !.ref = r, !.gen = g]
<1>1. sq \in Square /\ sq.cgen <= sq.gen
    BY LeftSquare
<1>2. sq.gen \in Nat /\ sq.cgen \in Nat
    BY <1>1 DEF Square
<1>3. g \in Nat /\ sq.cgen < g
    BY <1>1, <1>2
<1> HIDE DEF g
<1>4. new \in Square /\ new.cgen = sq.cgen /\ new.gen = g
    BY <1>1, <1>3 DEF Square
<1> HIDE DEF new
<1>5. new.cgen <= new.gen /\ Current(new)
    BY <1>2, <1>3, <1>4 DEF Current
<1>6. Left(q, new)
    BY <1>4, <1>5, LeftSquare
<1> QED BY <1>6 DEF new, g

LEMMA NewObjects ==
    /\ \A n \in Sources, xy \in Operands : Left(n, NewSource(xy))
    /\ \A q \in Squares, r \in Refs : Left(q, NewSquare(r))
<1>1. \A xy \in Operands : NewSource(xy) \in Source
    BY DEF NewSource, Source, Results
<1>2. \A r \in Refs : NewSquare(r) \in Square /\ NewSquare(r).cgen <= NewSquare(r).gen /\ Current(NewSquare(r))
    BY DEF NewSquare, Square, Results, Current
<1> QED BY <1>1, <1>2, LeftSource, LeftSquare

-----------------------------------------------------------------------------
(* Writes, and what the workers hold. *)

LEMMA StoreEffect ==
    ASSUME StoreInv, NEW n \in Names, NEW new, Sound(n, new), Store(n, new),
           UNCHANGED <<cache, seen>>, queue' \subseteq Names
    PROVE  StoreInv'
<1>1. new \in Object
    BY LeftObject DEF Sound, Object
<1>2. api' = [api EXCEPT ![n] = new] /\ behind' = IF new = api[n] THEN behind ELSE behind \cup {n}
    BY DEF Store
<1>3. /\ api' \in [Names -> Object] /\ api'[n] = new
      /\ \A m \in Names \ {n} : api'[m] = api[m]
    BY <1>1, <1>2 DEF StoreInv
<1>4. \A m \in Names : Sound(m, api'[m])
    BY <1>3 DEF StoreInv
<1>5. behind' \subseteq Names /\ \A m \in Names \ behind' : cache'[m] = api'[m]
    BY <1>2, <1>3 DEF StoreInv
<1>6. notices' \subseteq Names
    BY DEF Store, StoreInv
<1> QED BY <1>3, <1>4, <1>5, <1>6 DEF StoreInv

LEMMA StoreSame ==
    ASSUME StoreInv, UNCHANGED <<api, cache, behind, seen>>,
           queue' \subseteq Names, notices' \subseteq Names
    PROVE  StoreInv'
BY DEF StoreInv

LEMMA WorkerMoves ==
    ASSUME WorkersInv, NEW k \in Kinds, NEW c \in Call, Proper(k, c), w' = [w EXCEPT ![k] = c]
    PROVE  WorkersInv'
BY DEF WorkersInv

LEMMA IdleProper == Idle \in Call /\ Idle.pc = "idle" /\ \A k : Proper(k, Idle)
BY DEF Idle, Call, Object, Results, Proper

(* Started(c, ...) is how a call begins. *)
Started(c, pc, n, obj, stale) == [c EXCEPT !.pc = pc, !.n = n, !.obj = obj, !.stale = stale]

LEMMA BeginStep ==
    ASSUME WorkersInv, NEW n \in Names, NEW pc \in {"remove", "compute", "fetch"}, NEW obj,
           NEW stale \in BOOLEAN, Left(n, obj),
           pc = "fetch" => n \in Squares /\ obj.ref \in Names,
           Begin(n, pc, obj, stale)
    PROVE  WorkersInv'
<1> DEFINE c == Started(Idle, pc, n, obj, stale)
<1>1. w' = [w EXCEPT ![Kind(n)] = c]
    BY Zenon DEF Begin, Started
<1>2. obj \in Object /\ obj # None
    BY LeftObject
<1>3. Idle \in Call
    BY IdleProper
<1>4. c \in Call /\ c.pc = pc /\ c.n = n /\ c.obj = obj
    BY <1>2, <1>3 DEF Started, Call
<1> HIDE DEF c
<1>5. Proper(Kind(n), c)
    BY <1>2, <1>4, KindOf DEF Proper
<1> QED BY <1>1, <1>4, <1>5, KindOf, WorkerMoves

(* A worker in Reconcile: its object, and how it returns. *)
LEMMA Busy ==
    ASSUME MInv, NEW k \in Kinds, w[k].pc # "idle"
    PROVE  /\ w[k] \in Call /\ w[k].n \in Names /\ Kind(w[k].n) = k
           /\ Left(w[k].n, w[k].obj) /\ w[k].sum \in Results
BY DEF MInv, WorkersInv, Proper, Call

LEMMA Returns ==
    ASSUME MInv, NEW k \in Kinds, w' = [w EXCEPT ![k] = Idle], StoreInv'
    PROVE  MInv'
BY IdleProper, WorkerMoves DEF MInv

LEMMA FinishStep ==
    ASSUME MInv, NEW k \in Kinds, w[k].pc # "idle", NEW new, Sound(w[k].n, new), Finish(k, new),
           UNCHANGED <<cache, seen>>
    PROVE  MInv'
<1>1. w[k].n \in Names
    BY Busy
<1>2. w' = [w EXCEPT ![k] = Idle] /\ queue' \subseteq Names
    BY <1>1 DEF Finish, Done, Retry, MInv, StoreInv
<1>3. CASE Write(w[k].n, w[k].stale, new)
    BY <1>1, <1>2, <1>3, StoreEffect, Returns DEF Write, MInv
<1>4. CASE WriteFails(w[k].stale)
  <2>1. UNCHANGED <<api, behind, notices>>
      BY <1>4 DEF WriteFails
  <2>2. StoreInv'
      BY <1>2, <2>1, StoreSame DEF MInv, StoreInv
  <2> QED BY <1>2, <2>2, Returns
<1> QED BY <1>3, <1>4 DEF Finish

-----------------------------------------------------------------------------
LEMMA InitMInv == Init => MInv
<1> SUFFICES ASSUME Init PROVE MInv
    OBVIOUS
<1>1. api \in [Names -> Object] /\ \A n \in Names : Sound(n, api[n])
    BY MathOpsAssumption DEF Init, Object, Sound
<1>2. StoreInv
    BY <1>1 DEF Init, StoreInv
<1>3. WorkersInv
    BY IdleProper DEF Init, WorkersInv
<1> QED BY <1>2, <1>3 DEF MInv

(* Only queues and deliveries change. *)
LEMMA QueueStep ==
    ASSUME MInv, UNCHANGED <<api, cache, behind, w, seen>>,
           queue' \subseteq Names, notices' \subseteq Names
    PROVE  MInv'
<1>1. StoreInv'
    BY StoreSame DEF MInv
<1> QED BY <1>1 DEF MInv, WorkersInv

(* A worker takes an object; nothing is written yet. *)
LEMMA Takes ==
    ASSUME MInv, NEW n \in Names, NEW pc \in {"remove", "compute", "fetch"}, NEW stale \in BOOLEAN,
           cache[n] # None, pc = "fetch" => n \in Squares /\ cache[n].ref \in Names,
           Begin(n, pc, cache[n], stale), StoreInv'
    PROVE  MInv'
<1>1. Left(n, cache[n])
    BY DEF MInv, StoreInv, Sound
<1>2. WorkersInv'
    BY <1>1, BeginStep DEF MInv
<1> QED BY <1>2 DEF MInv

LEMMA GetNotFoundStep ==
    ASSUME MInv, NEW n \in Names, GetNotFound(n)
    PROVE  MInv'
<1>1. queue' \subseteq Names /\ notices' \subseteq Names
    BY DEF GetNotFound, MInv, StoreInv
<1> QED BY <1>1, QueueStep DEF GetNotFound

LEMMA GetDeletingStep ==
    ASSUME MInv, NEW n \in Names, GetDeleting(n)
    PROVE  MInv'
<1> DEFINE late == n \in behind
<1>1. /\ UNCHANGED <<api, cache, behind, seen>> /\ queue' \subseteq Names /\ notices' \subseteq Names
      /\ cache[n] # None
    BY DEF GetDeleting, MInv, StoreInv
<1>2. StoreInv'
    BY <1>1, StoreSame DEF MInv
<1>3. UNCHANGED w \/ Begin(n, "remove", cache[n], late)
    BY DEF GetDeleting
<1>4. late \in BOOLEAN
    OBVIOUS
<1> HIDE DEF late
<1>5. CASE UNCHANGED w
    BY <1>2, <1>5 DEF MInv, WorkersInv
<1>6. CASE Begin(n, "remove", cache[n], late)
    BY <1>1, <1>2, <1>4, <1>6, Takes
<1> QED BY <1>3, <1>5, <1>6

LEMMA RemoveFinalizerStep ==
    ASSUME MInv, NEW k \in Kinds, RemoveFinalizer(k)
    PROVE  MInv'
<1>1. Sound(w[k].n, None)
    BY DEF Sound
<1> QED BY <1>1, FinishStep DEF RemoveFinalizer

(* The result is computed from the operands that it is written with. *)
LEMMA ComputedSource ==
    ASSUME NEW n \in Sources, NEW obj, NEW k, Left(n, obj)
    PROVE  Left(n, [obj EXCEPT !.result = compute(k, obj.operands)])
<1>1. obj \in Source
    BY LeftSource
<1>2. compute(k, obj.operands) \in Ints
    BY <1>1, computeTyped DEF Source
<1>3. [obj EXCEPT !.result = compute(k, obj.operands)] \in Source
  <2> DEFINE r == compute(k, obj.operands)
  <2>1. r \in Ints
      BY <1>2
  <2> HIDE DEF r
  <2>2. [obj EXCEPT !.result = r] \in Source
      BY <1>1, <2>1 DEF Source, Results
  <2> QED BY <2>2 DEF r
<1> QED BY <1>3, LeftSource

LEMMA GetSourceStep ==
    ASSUME MInv, NEW n \in Names, GetSource(n)
    PROVE  MInv'
<1> DEFINE new == [cache[n] EXCEPT !.result = compute(Kind(n), cache[n].operands)]
<1>1. /\ n \in Sources /\ cache[n] # None /\ UNCHANGED <<cache, w, seen>> /\ queue' \subseteq Names
    BY DEF GetSource, MInv, StoreInv
<1>2. Left(n, new)
    BY <1>1, ComputedSource DEF MInv, StoreInv, Sound
<1>3. \/ UNCHANGED <<api, behind, notices>>
      \/ Write(n, n \in behind, new)
    BY DEF GetSource, WriteFails
<1> HIDE DEF new
<1>4. CASE UNCHANGED <<api, behind, notices>>
    BY <1>1, <1>4, QueueStep DEF MInv, StoreInv
<1>5. CASE Write(n, n \in behind, new)
  <2>1. StoreInv'
      BY <1>1, <1>2, <1>5, StoreEffect DEF Write, Sound, MInv
  <2> QED BY <1>1, <2>1 DEF MInv, WorkersInv
<1> QED BY <1>3, <1>4, <1>5

LEMMA AddFinalizerStep ==
    ASSUME MInv, NEW n \in Names, AddFinalizer(n)
    PROVE  MInv'
<1> DEFINE new == [cache[n] EXCEPT !.fin = TRUE]
<1>1. /\ n \in Sources /\ cache[n] # None /\ UNCHANGED <<cache, seen>> /\ queue' \subseteq Names
      /\ Left(n, cache[n])
    BY DEF AddFinalizer, MInv, StoreInv, Sound
<1>2. Left(n, new)
  <2>1. cache[n] \in Source
      BY <1>1, LeftSource
  <2>2. new \in Source
      BY <2>1 DEF Source
  <2> QED BY <1>1, <2>2, LeftSource
<1>3. \/ Write(n, n \in behind, new) /\ Begin(n, "compute", new, FALSE)
      \/ WriteFails(n \in behind) /\ UNCHANGED w
    BY DEF AddFinalizer
<1> HIDE DEF new
<1>4. CASE WriteFails(n \in behind) /\ UNCHANGED w
    BY <1>1, <1>4, QueueStep DEF MInv, StoreInv, WriteFails
<1>5. CASE Write(n, n \in behind, new) /\ Begin(n, "compute", new, FALSE)
  <2>1. StoreInv'
      BY <1>1, <1>2, <1>5, StoreEffect DEF Write, Sound, MInv
  <2>2. WorkersInv'
      BY <1>2, <1>5, BeginStep DEF MInv
  <2> QED BY <2>1, <2>2 DEF MInv
<1> QED BY <1>3, <1>4, <1>5

LEMMA ComputeStep ==
    ASSUME MInv, NEW k \in {"Add", "Subtract"}, Compute(k)
    PROVE  MInv'
<1> DEFINE new == [w[k].obj EXCEPT !.result = compute(k, w[k].obj.operands)]
<1>1. k \in Kinds /\ w[k].pc # "idle"
    BY DEF Compute, Kinds
<1>2. w[k].n \in Sources /\ Left(w[k].n, w[k].obj)
    BY <1>1, Busy, KindOf
<1>3. Sound(w[k].n, new)
    BY <1>2, ComputedSource DEF Sound
<1>4. Finish(k, new) /\ UNCHANGED <<cache, seen>>
    BY DEF Compute
<1> HIDE DEF new
<1> QED BY <1>1, <1>3, <1>4, FinishStep

-----------------------------------------------------------------------------
LEMMA GetSquareStep ==
    ASSUME MInv, NEW n \in Names, GetSquare(n)
    PROVE  MInv'
<1> DEFINE late == n \in behind
<1>1. /\ UNCHANGED <<api, cache, behind>> /\ queue' \subseteq Names /\ Ensure(Kind(cache[n].ref))
      /\ cache[n] # None /\ n \in Squares /\ cache[n].ref \in Names
    BY DEF GetSquare, MInv, StoreInv
<1>2. notices' \subseteq Names /\ seen' \subseteq Kinds
    BY <1>1, KindOf DEF Ensure, MInv, StoreInv
<1>3. StoreInv'
    BY <1>1, <1>2 DEF MInv, StoreInv
<1>4. Begin(n, "fetch", cache[n], late)
    BY DEF GetSquare
<1>5. late \in BOOLEAN
    OBVIOUS
<1> HIDE DEF late
<1> QED BY <1>1, <1>3, <1>4, <1>5, Takes

LEMMA GetUnresolvableStep ==
    ASSUME MInv, NEW n \in Names, GetUnresolvable(n)
    PROVE  MInv'
<1> DEFINE reason == IF cache[n].ref \in Invalid THEN "InvalidSourceRef" ELSE "SourceKindUnavailable"
           new == WithReady(cache[n], reason)
<1>1. /\ n \in Squares /\ cache[n] # None /\ UNCHANGED <<cache, w, seen>>
      /\ Left(n, cache[n])
    BY DEF GetUnresolvable, MInv, StoreInv, Sound
<1>2. Left(n, new)
  <2>1. cache[n] \in Square
      BY <1>1, LeftSquare
  <2>2. reason \in {"InvalidSourceRef", "SourceKindUnavailable"}
      OBVIOUS
  <2> HIDE DEF reason
  <2> QED BY <1>1, <2>1, <2>2, ConditionSquare
<1>3. \/ Store(n, new) /\ queue' = queue \ {n}
      \/ UNCHANGED <<api, behind, notices, queue>>
    BY Zenon DEF GetUnresolvable
<1> HIDE DEF new
<1>4. CASE Store(n, new) /\ queue' = queue \ {n}
  <2>1. queue' \subseteq Names
      BY <1>4 DEF MInv, StoreInv
  <2>2. StoreInv'
      BY <1>1, <1>2, <1>4, <2>1, StoreEffect DEF Sound, MInv
  <2> QED BY <1>1, <2>2 DEF MInv, WorkersInv
<1>5. CASE UNCHANGED <<api, behind, notices, queue>>
    BY <1>1, <1>5, QueueStep DEF MInv, StoreInv
<1> QED BY <1>3, <1>4, <1>5

(* The worker of the Squares in Reconcile. *)
LEMMA SquareBusy ==
    ASSUME MInv, square.pc # "idle"
    PROVE  /\ "Square" \in Kinds /\ square \in Call /\ square.n \in Squares /\ square.n \in Names
           /\ square.obj \in Square /\ Left(square.n, square.obj) /\ square.sum \in Results
<1>1. "Square" \in Kinds
    BY DEF Kinds
<1>2. /\ square \in Call /\ square.n \in Names /\ Kind(square.n) = "Square"
      /\ Left(square.n, square.obj) /\ square.sum \in Results
    BY <1>1, Busy DEF square
<1> QED BY <1>1, <1>2, KindOf, LeftSquare

(* The live read: whatever kind the source is, its result is an integer or missing. *)
LEMMA FetchStep ==
    ASSUME MInv, Fetch
    PROVE  MInv'
<1> DEFINE src == api[square.obj.ref]
           pc  == IF src = None THEN "missing" ELSE "record"
           sum == IF src = None THEN None ELSE src.result
           w1  == [w EXCEPT !["Square"].pc = pc]
           c   == [square EXCEPT !.pc = pc, !.sum = sum]
<1>1. square.pc = "fetch" /\ UNCHANGED <<api, cache, behind, queue, seen, notices>>
    BY DEF Fetch
<1>2. /\ "Square" \in Kinds /\ square \in Call /\ square.n \in Squares /\ square.n \in Names
      /\ Left(square.n, square.obj) /\ square.obj # None /\ Kind(square.n) = "Square"
      /\ square.obj.ref \in Names /\ w \in [Kinds -> Call]
    BY <1>1, SquareBusy, KindOf DEF MInv, WorkersInv, Proper, square
<1>3. pc \in {"missing", "record"} /\ sum \in Results
  <2>1. src = None \/ src \in Source \/ src \in Square
      BY <1>2 DEF MInv, StoreInv, Sound, Left
  <2>2. src \in Source => src.result \in Results
      BY DEF Source
  <2>3. src \in Square => src.result \in Results
      BY DEF Square
  <2> QED BY <2>1, <2>2, <2>3 DEF Results
<1>4. w' = [w1 EXCEPT !["Square"].sum = sum]
    BY Zenon DEF Fetch
<1> HIDE DEF src, pc, sum
<1>5. w' = [w EXCEPT !["Square"] = c]
  <2>1. w1 = [w EXCEPT !["Square"] = [square EXCEPT !.pc = pc]]
      BY Zenon DEF square
  <2>2. w1["Square"] = [square EXCEPT !.pc = pc]
      BY <1>2, <2>1
  <2>3. w' = [w1 EXCEPT !["Square"] = [w1["Square"] EXCEPT !.sum = sum]]
      BY <1>4, Zenon
  <2>4. w' = [w1 EXCEPT !["Square"] = c]
      BY <2>2, <2>3, Zenon
  <2> HIDE DEF w1, c
  <2>5. w' = [w EXCEPT !["Square"] = c]
      BY <1>2, <2>1, <2>4
  <2> QED BY <2>5
<1>6. /\ c \in Call /\ c.pc = pc /\ c.n = square.n /\ c.obj = square.obj
    BY <1>2, <1>3 DEF Call
<1> HIDE DEF w1, c
<1>7. Proper("Square", c)
    BY <1>2, <1>3, <1>6 DEF Proper
<1>8. WorkersInv'
    BY <1>2, <1>5, <1>6, <1>7, WorkerMoves DEF MInv
<1>9. StoreInv'
    BY <1>1 DEF MInv, StoreInv
<1> QED BY <1>8, <1>9 DEF MInv

(* A condition on the Square in hand is stored, or not. *)
LEMMA SquareWritten ==
    ASSUME MInv, square.pc # "idle", w' = [w EXCEPT !["Square"] = Idle], queue' \subseteq Names,
           NEW new, Left(square.n, new), UNCHANGED <<cache, seen>>,
           Store(square.n, new) \/ UNCHANGED <<api, behind, notices>>
    PROVE  MInv'
<1>1. square.n \in Names /\ "Square" \in Kinds
    BY SquareBusy
<1>2. CASE Store(square.n, new)
    BY <1>1, <1>2, StoreEffect, Returns DEF Sound, MInv
<1>3. CASE UNCHANGED <<api, behind, notices>>
  <2>1. StoreInv'
      BY <1>3, StoreSame DEF MInv, StoreInv
  <2> QED BY <1>1, <2>1, Returns
<1> QED BY <1>2, <1>3

LEMMA FetchFailsStep ==
    ASSUME MInv, FetchFails
    PROVE  MInv'
<1> DEFINE new == WithReady(square.obj, "SourceNotFound")
<1>1. square.pc # "idle" /\ UNCHANGED <<cache, seen>>
    BY DEF FetchFails
<1>2. w' = [w EXCEPT !["Square"] = Idle] /\ queue' \subseteq Names
    BY <1>1, SquareBusy DEF FetchFails, Retry, MInv, StoreInv, square
<1>3. Left(square.n, new)
    BY <1>1, SquareBusy, ConditionSquare
<1>4. Store(square.n, new) \/ UNCHANGED <<api, behind, notices>>
    BY DEF FetchFails
<1> HIDE DEF new
<1> QED BY <1>1, <1>2, <1>3, <1>4, SquareWritten

LEMMA SourceNotFoundStep ==
    ASSUME MInv, SourceNotFound
    PROVE  MInv'
<1> DEFINE new == WithReady(square.obj, "SourceNotFound")
<1>1. square.pc # "idle" /\ UNCHANGED <<cache, seen>>
    BY DEF SourceNotFound
<1>2. w' = [w EXCEPT !["Square"] = Idle] /\ queue' \subseteq Names
    BY DEF SourceNotFound, Done, MInv, StoreInv
<1>3. Left(square.n, new)
    BY <1>1, SquareBusy, ConditionSquare
<1>4. Store(square.n, new) \/ UNCHANGED <<api, behind, notices>>
    BY DEF SourceNotFound, Write, WriteFails
<1> HIDE DEF new
<1> QED BY <1>1, <1>2, <1>3, <1>4, SquareWritten

LEMMA WaitingOnSourceStep ==
    ASSUME MInv, WaitingOnSource
    PROVE  MInv'
<1> DEFINE new == WithReady(square.obj, "WaitingOnSource")
<1>1. square.pc # "idle" /\ UNCHANGED <<cache, seen>> /\ Finish("Square", new)
    BY DEF WaitingOnSource
<1>2. Sound(square.n, new)
    BY <1>1, SquareBusy, ConditionSquare DEF Sound
<1> HIDE DEF new
<1> QED BY <1>1, <1>2, SquareBusy, FinishStep DEF square

(* The result is written with the reference it was computed from. *)
LEMMA RecordStep ==
    ASSUME MInv, Record
    PROVE  MInv'
<1> DEFINE result == Wrap(square.sum * square.sum)
           new == Computed(square.obj, result)
<1>1. square.pc = "record" /\ square.sum # None /\ UNCHANGED <<cache, seen>>
    BY DEF Record
<1>2. /\ square.sum \in Int /\ square.obj \in Square /\ square.n \in Squares /\ "Square" \in Kinds
    BY <1>1, SquareBusy, IntsAreInt DEF Results
<1>3. result \in Ints
    BY <1>2, WrapTyped
<1>4. Sound(square.n, new)
    BY <1>2, <1>3, ComputedSquare DEF Sound
<1>5. \/ Done("Square") /\ UNCHANGED <<api, behind, notices>>
      \/ Finish("Square", new)
    BY Zenon DEF Record, Computed
<1> HIDE DEF new
<1>6. CASE Done("Square") /\ UNCHANGED <<api, behind, notices>>
  <2>1. StoreInv' /\ w' = [w EXCEPT !["Square"] = Idle]
      BY <1>1, <1>6, StoreSame DEF Done, MInv, StoreInv
  <2> QED BY <1>2, <2>1, Returns
<1>7. CASE Finish("Square", new)
    BY <1>1, <1>2, <1>4, <1>7, FinishStep DEF square
<1> QED BY <1>5, <1>6, <1>7

-----------------------------------------------------------------------------
LEMMA SyncStep ==
    ASSUME MInv, NEW n \in Names, Sync(n)
    PROVE  MInv'
<1>1. /\ UNCHANGED <<api, w, seen, notices>> /\ cache' = [cache EXCEPT ![n] = api[n]]
      /\ behind' = behind \ {n} /\ queue' \subseteq Names
    BY DEF Sync, MInv, StoreInv
<1>2. StoreInv'
    BY <1>1 DEF MInv, StoreInv
<1> QED BY <1>1, <1>2 DEF MInv, WorkersInv

LEMMA NoticeStep ==
    ASSUME MInv, NEW n \in Names, Notice(n)
    PROVE  MInv'
<1>1. queue' \subseteq Names /\ notices' \subseteq Names
    BY DEF Notice, squaresOf, Names, MInv, StoreInv
<1> QED BY <1>1, QueueStep DEF Notice

LEMMA CrashStep ==
    ASSUME MInv, Crash
    PROVE  MInv'
<1>1. StoreInv'
    BY DEF Crash, MInv, StoreInv
<1>2. WorkersInv'
    BY IdleProper DEF Crash, WorkersInv
<1> QED BY <1>1, <1>2 DEF MInv

(* A worker that holds an old copy is as proper as before. *)
LEMMA ChangedStep ==
    ASSUME MInv, NEW n \in Names, NEW new, Sound(n, new), Changed(n, new)
    PROVE  MInv'
<1>1. StoreInv'
    BY StoreEffect DEF Changed, MInv, StoreInv
<1>2. ASSUME NEW k \in Kinds
      PROVE  w'[k] \in Call /\ Proper(k, w'[k])
  <2>1. w[k] \in Call /\ Proper(k, w[k])
      BY DEF MInv, WorkersInv
  <2>2. w'[k] = w[k] \/ w'[k] = [w[k] EXCEPT !.stale = TRUE]
      BY DEF Changed
  <2>3. CASE w'[k] = w[k]
      BY <2>1, <2>3
  <2>4. CASE w'[k] = [w[k] EXCEPT !.stale = TRUE]
    <3>1. w'[k] \in Call /\ w'[k].pc = w[k].pc /\ w'[k].n = w[k].n /\ w'[k].obj = w[k].obj
        BY <2>1, <2>4 DEF Call
    <3> QED BY <2>1, <3>1 DEF Proper
  <2> QED BY <2>2, <2>3, <2>4
<1>3. w' \in [Kinds -> Call]
    BY <1>2 DEF Changed
<1> QED BY <1>1, <1>2, <1>3 DEF MInv, WorkersInv

LEMMA EditSourceStep ==
    ASSUME MInv, NEW n \in Sources, NEW xy \in Operands, EditSource(n, xy)
    PROVE  MInv'
<1> DEFINE new == IF api[n] = None THEN NewSource(xy) ELSE [api[n] EXCEPT !.operands = xy]
<1>1. n \in Names /\ Changed(n, new)
    BY DEF EditSource, Names
<1>2. Sound(n, new)
  <2>1. CASE api[n] = None
      BY <2>1, NewObjects DEF Sound
  <2>2. CASE api[n] # None
    <3>1. api[n] \in Source
        BY <1>1, <2>2, LeftSource DEF MInv, StoreInv, Sound
    <3>2. new \in Source
        BY <2>2, <3>1 DEF Source
    <3> QED BY <3>2, LeftSource DEF Sound
  <2> QED BY <2>1, <2>2
<1> HIDE DEF new
<1> QED BY <1>1, <1>2, ChangedStep

LEMMA EditSquareStep ==
    ASSUME MInv, NEW q \in Squares, NEW r \in Refs, EditSquare(q, r)
    PROVE  MInv'
<1> DEFINE new == IF api[q] = None THEN NewSquare(r) ELSE [api[q] EXCEPT !.ref = r, !.gen = @ + 1]
<1>1. q \in Names /\ Changed(q, new)
    BY DEF EditSquare, Names
<1>2. Sound(q, new)
  <2>1. CASE api[q] = None
      BY <2>1, NewObjects DEF Sound
  <2>2. CASE api[q] # None
    <3>1. Left(q, api[q])
        BY <1>1, <2>2 DEF MInv, StoreInv, Sound
    <3> QED BY <2>2, <3>1, EditedSquare DEF Sound
  <2> QED BY <2>1, <2>2
<1> HIDE DEF new
<1> QED BY <1>1, <1>2, ChangedStep

LEMMA DeleteStep ==
    ASSUME MInv, NEW n \in Names, Delete(n)
    PROVE  MInv'
<1> DEFINE new == IF n \in Sources /\ api[n].fin THEN [api[n] EXCEPT !.deleting = TRUE] ELSE None
<1>1. api[n] # None /\ Changed(n, new)
    BY DEF Delete
<1>2. Sound(n, new)
  <2>1. CASE n \in Sources /\ api[n].fin
    <3>1. api[n] \in Source
        BY <1>1, <2>1, LeftSource DEF MInv, StoreInv, Sound
    <3>2. new \in Source
        BY <2>1, <3>1 DEF Source
    <3> QED BY <2>1, <3>2, LeftSource DEF Sound
  <2>2. CASE ~(n \in Sources /\ api[n].fin)
      BY <2>2 DEF Sound
  <2> QED BY <2>1, <2>2
<1> HIDE DEF new
<1> QED BY <1>1, <1>2, ChangedStep

-----------------------------------------------------------------------------
LEMMA MInvStep == MInv /\ [Next]_vars => MInv'
<1> SUFFICES ASSUME MInv, [Next]_vars PROVE MInv'
    OBVIOUS
<1>1. CASE \E n \in Names : Get(n)
    BY <1>1, GetNotFoundStep, GetDeletingStep, GetSourceStep, AddFinalizerStep, GetSquareStep,
       GetUnresolvableStep DEF Get
<1>2. CASE \E n \in Names : Sync(n) \/ Notice(n)
    BY <1>2, SyncStep, NoticeStep
<1>3. CASE \E k \in {"Add", "Subtract"} : Step(k)
    BY <1>3, RemoveFinalizerStep, ComputeStep DEF Step, Kinds
<1>4. CASE SquareStep \/ FetchFails
    BY <1>4, FetchStep, SourceNotFoundStep, WaitingOnSourceStep, RecordStep, FetchFailsStep DEF SquareStep
<1>5. CASE Crash
    BY <1>5, CrashStep
<1>6. CASE User
    BY <1>6, EditSourceStep, EditSquareStep, DeleteStep DEF User
<1>7. CASE UNCHANGED vars
    BY <1>7, QueueStep DEF vars, MInv, StoreInv
<1> QED BY <1>1, <1>2, <1>3, <1>4, <1>5, <1>6, <1>7 DEF Next

LEMMA MathOpsInv == Spec => []MInv
BY InitMInv, MInvStep, PTL DEF Spec

(***************************************************************************)
(* Objects, cache, queues and workers keep their types: in particular the  *)
(* sum, the difference and the square of any two results are stored as     *)
(* integers of the given width.                                            *)
(***************************************************************************)
THEOREM MathOpsTyped == Spec => []TypeOK
<1>1. MInv => TypeOK
  <2> SUFFICES ASSUME MInv PROVE TypeOK
      OBVIOUS
  <2>1. \A v \in {api, cache} : \A n \in Names :
           v[n] = None \/ v[n] \in IF n \in Squares THEN Square ELSE Source
      BY Zenon DEF MInv, StoreInv, Sound, Left
  <2>2. ASSUME NEW k \in Kinds
        PROVE  /\ w[k].pc \in {"idle", "remove", "compute", "fetch", "missing", "record"}
               /\ w[k].pc # "idle" => Kind(w[k].n) = k
               /\ w[k].sum \in Results
      BY DEF MInv, WorkersInv, Call, Proper
  <2> QED BY <2>1, <2>2, Zenon DEF TypeOK, MInv, StoreInv
<1> QED BY <1>1, MathOpsInv, PTL

(***************************************************************************)
(* A Square that is Ready for its current generation has the result of the *)
(* source its spec names, whatever is edited between the read of the       *)
(* source and the write, and wherever a worker is cut off.                 *)
(***************************************************************************)
THEOREM SquaresCurrent == Spec => []ReadyIsCurrent
<1>1. MInv => ReadyIsCurrent
    BY DEF MInv, StoreInv, Sound, Left, ReadyIsCurrent, Names
<1> QED BY <1>1, MathOpsInv, PTL
=============================================================================

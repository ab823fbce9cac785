--------------------------- MODULE JsonPathProofs ---------------------------
(***************************************************************************)
(* What setJSONField and a whole body come to, for all JSON texts, paths   *)
(* and lists of mappings.                                                  *)
(*                                                                         *)
(* In memory there are old maps, the first M, which hold the outputs and   *)
(* lead to later old maps only (Ordered), and new ones, each of which has  *)
(* one place in the body (Alone).  As long as a walk to a target meets new *)
(* maps only, writing there changes the body at the target and nowhere     *)
(* else, and no old map (SetPlaces).  It meets no old map if outputs are   *)
(* parsed anew, or if no mapping goes below what an earlier one has set    *)
(* (MergedAll).  A body of which this is true is no part of itself: on a   *)
(* way down no map comes twice (Acyclic).                                  *)
(*                                                                         *)
(* The loops of the code are folds.  FoldLaws, instantiated for each of    *)
(* them, takes the place of an induction theorem.                          *)
(***************************************************************************)
EXTENDS JsonPath, SequenceTheorems, FiniteSetTheorems, TLAPS

Path == Seq(Keys)

(* What is found at the end of a path that starts at d. *)
find(h, d, p) == getJSONField(h, d, p)

(* The folds of the model, with their contexts. *)
enterIn(c, at, p)     == enter(at, p)
downIn(h, maps, i)    == down(h, maps)
mergeIn(c, at, m)     == merge(c.shared, c.roots, at, m)
keepIn(c, mem, s)     == keep(mem, s)

Find  == INSTANCE FoldLaws WITH op <- entry
Enter == INSTANCE FoldLaws WITH op <- enterIn
Down  == INSTANCE FoldLaws WITH op <- downIn
Merge == INSTANCE FoldLaws WITH op <- mergeIn
Keep  == INSTANCE FoldLaws WITH op <- keepIn

(* getJSONField (jsonpath.go:5) folds the parts of the path ... *)
LEMMA FindIsFold == ASSUME NEW h, NEW d, NEW p PROVE find(h, d, p) = Find!fold(h, d, p)
  BY DEF find, getJSONField, FoldLeft, MapThenFoldSet, Max,
         Find!fold, Find!FoldLeft, Find!MapThenFoldSet, Find!Max

(* ... finds the value itself at the end of an empty path ... *)
LEMMA FindEmpty == \A h, d : find(h, d, <<>>) = d
  BY FindIsFold, Find!FoldEmpty

(* ... and with one part more an entry of what it found before. *)
LEMMA FindAppend ==
    \A h, d : \A p \in Path, key \in Keys :
        find(h, d, Append(p, key)) = entry(h, find(h, d, p), key)
  <1> SUFFICES ASSUME NEW h, NEW d, NEW p \in Path, NEW key \in Keys
               PROVE  find(h, d, Append(p, key)) = entry(h, find(h, d, p), key)
      OBVIOUS
  <1>1. Find!fold(h, d, Append(p, key)) = entry(h, Find!fold(h, d, p), key)
      BY Find!FoldAppend DEF Path
  <1> QED BY <1>1, FindIsFold

(* The loop of setJSONField (jsonpath.go:22) folds the parts, too ... *)
LEMMA WalkIsFold ==
    ASSUME NEW h, NEW d, NEW p PROVE walk(h, d, p) = Enter!fold(h, [h |-> h, cur |-> d], p)
  BY DEF walk, FoldLeft, MapThenFoldSet, Max, enterIn,
         Enter!fold, Enter!FoldLeft, Enter!MapThenFoldSet, Enter!Max

(* ... starts at the map it is given ... *)
LEMMA WalkEmpty == \A h, d : walk(h, d, <<>>) = [h |-> h, cur |-> d]
  BY WalkIsFold, Enter!FoldEmpty

(* ... and with one part more enters one map more. *)
LEMMA WalkAppend ==
    \A h, d : \A p \in Path, key \in Keys : walk(h, d, Append(p, key)) = enter(walk(h, d, p), key)
  <1> SUFFICES ASSUME NEW h, NEW d, NEW p \in Path, NEW key \in Keys
               PROVE  walk(h, d, Append(p, key)) = enter(walk(h, d, p), key)
      OBVIOUS
  <1> DEFINE base == [h |-> h, cur |-> d]
  <1>1. /\ walk(h, d, p) = Enter!fold(h, base, p)
        /\ walk(h, d, Append(p, key)) = Enter!fold(h, base, Append(p, key))
      BY WalkIsFold
  <1> HIDE DEF base
  <1>2. Enter!fold(h, base, Append(p, key)) = enter(Enter!fold(h, base, p), key)
      BY Enter!FoldAppend DEF Path, enterIn
  <1> QED BY <1>1, <1>2

-----------------------------------------------------------------------------
(* Paths and their prefixes. *)

(* The empty path is a path. *)
LEMMA EmptyPath == <<>> \in Path
  BY EmptySeq DEF Path

(* A path below a path is a path. *)
LEMMA ConcatPath == \A p, r \in Path : p \o r \in Path /\ p \o <<>> = p /\ <<>> \o p = p
  BY ConcatProperties, ConcatEmptySeq DEF Path

(* A path with a part more, which determines both. *)
LEMMA AppendPath ==
    \A p \in Path, key \in Keys :
        /\ Append(p, key) \in Path /\ Append(p, key) # <<>>
        /\ \A q \in Path, key2 \in Keys : Append(p, key) = Append(q, key2) => p = q /\ key = key2
  BY AppendProperties, AppendInjective DEF Path

(* The last part of the lower path is the last part of both together. *)
LEMMA ConcatAppend ==
    \A p, r \in Path, key \in Keys : p \o Append(r, key) = Append(p \o r, key)
  <1> SUFFICES ASSUME NEW p \in Path, NEW r \in Path, NEW key \in Keys
               PROVE  p \o Append(r, key) = Append(p \o r, key)
      OBVIOUS
  <1>1. <<key>> \in Seq(Keys)
      OBVIOUS
  <1>2. Append(r, key) = r \o <<key>> /\ Append(p \o r, key) = (p \o r) \o <<key>>
      BY ConcatPath, AppendIsConcat DEF Path
  <1> QED BY <1>1, <1>2, ConcatAssociative DEF Path

(* A path that is not empty has a last part. *)
LEMMA PathCases ==
    ASSUME NEW p \in Path, p # <<>>
    PROVE  \E r \in Path, key \in Keys : p = Append(r, key)
  BY SequenceEmptyOrAppend DEF Path

(* The rest of a path, after a path above it. *)
LEMMA RestIs ==
    ASSUME NEW p \in Path, NEW s \in Path
    PROVE  SubSeq(p \o s, Len(p) + 1, Len(p \o s)) = s /\ Len(p \o s) = Len(p) + Len(s)
  <1>1. /\ p \o s \in Seq(Keys) /\ Len(p \o s) = Len(p) + Len(s) /\ Len(p) \in Nat /\ Len(s) \in Nat
        /\ \A i \in 1..Len(p) + Len(s) : (p \o s)[i] = IF i <= Len(p) THEN p[i] ELSE s[i - Len(p)]
      BY ConcatProperties, LenProperties DEF Path
  <1> DEFINE t == SubSeq(p \o s, Len(p) + 1, Len(p \o s))
  <1>2. \A i \in Len(p) + 1 .. Len(p \o s) : (p \o s)[i] \in Keys
      BY <1>1, ElementOfSeq
  <1>3. /\ t \in Seq(Keys) /\ Len(t) = Len(s)
        /\ \A i \in 1..Len(s) : t[i] = (p \o s)[Len(p) + 1 + i - 1]
    <2> DEFINE m == Len(p) + 1
               n == Len(p \o s)
    <2>1. m \in Int /\ n \in Int
        BY <1>1
    <2>2. /\ t \in Seq(Keys) /\ Len(t) = IF m <= n THEN n - m + 1 ELSE 0
          /\ \A i \in 1..n - m + 1 : t[i] = (p \o s)[m + i - 1]
        BY <1>2, <2>1, SubSeqProperties
    <2>3. n - m + 1 = Len(s) /\ (~(m <= n) => Len(s) = 0)
        BY <1>1
    <2> QED BY <2>2, <2>3
  <1>4. \A i \in 1..Len(s) : t[i] = s[i]
      BY <1>1, <1>3
  <1> QED BY <1>1, <1>3, <1>4, SeqEqual DEF Path

(* A prefix is a path to which others were added. *)
LEMMA PrefixIs ==
    ASSUME NEW p \in Path, NEW r \in Path
    PROVE  IsPrefix(p, r) <=> \E s \in Path : r = p \o s
  <1>1. Len(p) \in Nat /\ Len(r) \in Nat
      BY LenProperties DEF Path
  <1>2. ASSUME NEW s \in Path, r = p \o s PROVE IsPrefix(p, r)
    <2>1. Len(p) <= Len(r)
        BY <1>1, <1>2, RestIs, LenProperties DEF Path
    <2>2. CASE p = <<>>
        BY <2>1, <2>2, SubSeqEmpty DEF IsPrefix
    <2>3. CASE p # <<>>
      <3>1. 1 \in 1..Len(p) /\ Len(p) \in 1..Len(p)
          BY <2>3, EmptySeq DEF Path
      <3>2. SubSeq(p \o s, 1, Len(p)) = SubSeq(p, 1, Len(p))
          BY <3>1, SubSeqOfConcat1 DEF Path
      <3> QED BY <1>2, <2>1, <3>2 DEF IsPrefix
    <2> QED BY <2>2, <2>3
  <1>3. ASSUME IsPrefix(p, r) PROVE \E s \in Path : r = p \o s
    <2> DEFINE s == SubSeq(r, Len(p) + 1, Len(r))
    <2>1. SubSeq(r, 1, Len(p)) \o s = SubSeq(r, 1, Len(r))
      <3>1. 1 \in 1..Len(r) + 1 /\ Len(p) \in 1 - 1 .. Len(r) /\ Len(r) \in Len(p)..Len(r)
          BY <1>1, <1>3 DEF IsPrefix
      <3> QED BY <3>1, ConcatAdjacentSubSeq DEF Path
    <2>2. SubSeq(r, 1, Len(r)) = r /\ SubSeq(r, 1, Len(p)) = p
        BY <1>3, SubSeqFull DEF Path, IsPrefix
    <2>3. s \in Path
      <3>1. \A i \in Len(p) + 1 .. Len(r) : r[i] \in Keys
          BY <1>1, ElementOfSeq DEF Path
      <3> QED BY <1>1, <3>1, SubSeqProperties DEF Path
    <2> QED BY <2>1, <2>2, <2>3
  <1> QED BY <1>2, <1>3

(* The prefixes of a path with a part more. *)
LEMMA PrefixAppend ==
    ASSUME NEW p \in Path, NEW r \in Path, NEW key \in Keys
    PROVE  IsPrefix(p, Append(r, key)) <=> IsPrefix(p, r) \/ p = Append(r, key)
  <1>1. Append(r, key) \in Path
      BY EmptyPath, ConcatPath, AppendPath, ConcatAppend
  <1>2. ASSUME IsPrefix(p, Append(r, key)), p # Append(r, key) PROVE IsPrefix(p, r)
    <2>1. PICK s \in Path : Append(r, key) = p \o s
        BY <1>1, <1>2, PrefixIs
    <2>2. s # <<>>
        BY <1>2, <2>1, EmptyPath, ConcatPath, AppendPath, ConcatAppend
    <2>3. PICK q \in Path, last \in Keys : s = Append(q, last)
        BY <2>2, PathCases
    <2>4. Append(r, key) = Append(p \o q, last) /\ p \o q \in Path
        BY <2>1, <2>3, ConcatPath, ConcatAppend
    <2>5. r = p \o q
        BY <2>4, AppendPath
    <2> QED BY <2>5, PrefixIs
  <1>3. ASSUME IsPrefix(p, r) PROVE IsPrefix(p, Append(r, key))
    <2>1. PICK s \in Path : r = p \o s
        BY <1>3, PrefixIs
    <2>2. Append(r, key) = p \o Append(s, key) /\ Append(s, key) \in Path
        BY <2>1, ConcatAppend, AppendPath
    <2> QED BY <1>1, <2>2, PrefixIs
  <1>4. IsPrefix(Append(r, key), Append(r, key))
      BY <1>1, EmptyPath, ConcatPath, AppendPath, ConcatAppend, PrefixIs
  <1> QED BY <1>2, <1>3, <1>4

(* Prefixes are ordered, from the empty path on. *)
LEMMA PrefixOrder ==
    ASSUME NEW p \in Path
    PROVE  /\ IsPrefix(p, p) /\ IsPrefix(<<>>, p) /\ (IsPrefix(p, <<>>) => p = <<>>)
           /\ \A q, r \in Path : IsPrefix(p, q) /\ IsPrefix(q, r) => IsPrefix(p, r)
           /\ \A q \in Path : IsPrefix(p, q) /\ IsPrefix(q, p) => p = q
           /\ \A key \in Keys : ~IsPrefix(Append(p, key), p)
  <1>1. IsPrefix(p, p) /\ IsPrefix(<<>>, p)
      BY EmptyPath, ConcatPath, PrefixIs
  <1>2. \A q, r \in Path : IsPrefix(p, q) /\ IsPrefix(q, r) => IsPrefix(p, r)
    <2> SUFFICES ASSUME NEW q \in Path, NEW r \in Path, IsPrefix(p, q), IsPrefix(q, r) PROVE IsPrefix(p, r)
        OBVIOUS
    <2>1. PICK s \in Path : q = p \o s
        BY PrefixIs
    <2>2. PICK t \in Path : r = q \o t
        BY PrefixIs
    <2>3. r = p \o (s \o t) /\ s \o t \in Path
        BY <2>1, <2>2, ConcatAssociative, EmptyPath, ConcatPath DEF Path
    <2> QED BY <2>3, PrefixIs
  <1>3. \A q \in Path : IsPrefix(p, q) /\ IsPrefix(q, p) => p = q
    <2> SUFFICES ASSUME NEW q \in Path, IsPrefix(p, q), IsPrefix(q, p) PROVE p = q
        OBVIOUS
    <2>1. Len(p) \in Nat /\ Len(q) \in Nat
        BY LenProperties DEF Path
    <2>2. SubSeq(p, 1, Len(p)) = p /\ SubSeq(q, 1, Len(q)) = q
        BY SubSeqFull DEF Path
    <2> QED BY <2>1, <2>2 DEF IsPrefix
  <1>4. \A key \in Keys : ~IsPrefix(Append(p, key), p)
    <2>1. \A key \in Keys : Len(Append(p, key)) = Len(p) + 1 /\ Len(p) \in Nat
        BY AppendProperties, LenProperties DEF Path
    <2> QED BY <2>1 DEF IsPrefix
  <1>5. IsPrefix(p, <<>>) => p = <<>>
      BY <1>1, <1>3, EmptyPath, ConcatPath, PrefixIs
  <1> QED BY <1>1, <1>2, <1>3, <1>4, <1>5

-----------------------------------------------------------------------------
(* Heaps, and what is found in them. *)

(* The entries that are maps are maps of the heap. *)
IsHeap(h) ==
    /\ h \in Seq([Keys -> Values])
    /\ \A i \in DOMAIN h, key \in Keys : h[i][key] \in Nat => h[i][key] \in DOMAIN h

(* v is a leaf, nothing, or a map of the heap. *)
IsRef(h, v) == v \in Values /\ (v \in Nat => v \in DOMAIN h)

(* Absent is a value and Object is none. *)
LEMMA ValueFacts ==
    /\ Absent \in Values /\ Absent \notin Nat /\ Object \notin Values
    /\ Nat \subseteq Values /\ Absent # Object
  BY JsonPathAssumption DEF Values

(* Every map of a heap has an entry for every key, which is in the heap if it is a map. *)
LEMMA HeapFacts ==
    ASSUME NEW h, IsHeap(h)
    PROVE  /\ Len(h) \in Nat /\ DOMAIN h = 1..Len(h) /\ DOMAIN h \subseteq Nat
           /\ \A i \in DOMAIN h, key \in Keys : h[i] \in [Keys -> Values] /\ IsRef(h, h[i][key])
           /\ \A v : \A key \in Keys : IsRef(h, entry(h, v, key))
  <1>1. Len(h) \in Nat /\ DOMAIN h = 1..Len(h) /\ DOMAIN h \subseteq Nat
      BY LenProperties DEF IsHeap
  <1>2. \A i \in DOMAIN h : h[i] \in [Keys -> Values]
      BY <1>1, ElementOfSeq DEF IsHeap
  <1>3. \A i \in DOMAIN h, key \in Keys : IsRef(h, h[i][key])
      BY <1>2 DEF IsHeap, IsRef
  <1>4. \A v : \A key \in Keys : IsRef(h, entry(h, v, key))
      BY <1>3, ValueFacts DEF entry, IsRef
  <1> QED BY <1>1, <1>2, <1>3, <1>4

(* What is found below a path is what is found below what the path finds. *)
LEMMA FindConcat ==
    ASSUME NEW h, NEW d, NEW p \in Path
    PROVE  \A r \in Path : find(h, d, p \o r) = find(h, find(h, d, p), r)
  <1> DEFINE S == {r \in Path : find(h, d, p \o r) = find(h, find(h, d, p), r)}
  <1>1. <<>> \in S
      BY FindEmpty, FindAppend, EmptyPath, ConcatPath
  <1>2. ASSUME NEW r \in Path, NEW key \in Keys, r \in S PROVE Append(r, key) \in S
    <2>1. p \o Append(r, key) = Append(p \o r, key) /\ p \o r \in Path /\ Append(r, key) \in Path
        BY ConcatPath, ConcatAppend, AppendPath
    <2>2. find(h, d, Append(p \o r, key)) = entry(h, find(h, d, p \o r), key)
        BY <2>1, FindEmpty, FindAppend
    <2>3. find(h, find(h, d, p), Append(r, key)) = entry(h, find(h, find(h, d, p), r), key)
        BY FindEmpty, FindAppend
    <2> QED BY <1>2, <2>1, <2>2, <2>3
  <1> HIDE DEF S
  <1>3. \A r \in Seq(Keys) : r \in S
      BY <1>1, <1>2, Find!InductiveSeqs DEF Path
  <1> QED BY <1>3 DEF S, Path

(* Below a value that is no map there is nothing. *)
LEMMA FindNothing ==
    ASSUME NEW h, IsHeap(h), NEW d, d \notin DOMAIN h
    PROVE  \A p \in Path : p # <<>> => find(h, d, p) = Absent
  <1> DEFINE S == {p \in Path : p # <<>> => find(h, d, p) = Absent}
  <1>1. <<>> \in S
      BY EmptyPath
  <1>2. ASSUME NEW p \in Path, NEW key \in Keys, p \in S PROVE Append(p, key) \in S
    <2>1. find(h, d, p) \notin DOMAIN h
      <3>1. CASE p = <<>>
          BY <3>1, FindEmpty, FindAppend
      <3>2. CASE p # <<>>
          BY <1>2, <3>2, HeapFacts, ValueFacts
      <3> QED BY <3>1, <3>2
    <2>2. find(h, d, Append(p, key)) = Absent
        BY <2>1, FindEmpty, FindAppend DEF entry
    <2> QED BY <2>2, AppendPath
  <1> HIDE DEF S
  <1>3. \A p \in Seq(Keys) : p \in S
      BY <1>1, <1>2, Find!InductiveSeqs DEF Path
  <1> QED BY <1>3 DEF S, Path

(* In a heap only its own maps are found. *)
LEMMA FindTyped ==
    ASSUME NEW h, IsHeap(h), NEW d, IsRef(h, d)
    PROVE  \A p \in Path : IsRef(h, find(h, d, p))
  <1> DEFINE S == {p \in Path : IsRef(h, find(h, d, p))}
  <1>1. <<>> \in S
      BY FindEmpty, FindAppend, EmptyPath
  <1>2. ASSUME NEW p \in Path, NEW key \in Keys, p \in S PROVE Append(p, key) \in S
    <2>1. find(h, d, Append(p, key)) = entry(h, find(h, d, p), key)
        BY FindAppend
    <2> QED BY <2>1, AppendPath, HeapFacts
  <1> HIDE DEF S
  <1>3. \A p \in Seq(Keys) : p \in S
      BY <1>1, <1>2, Find!InductiveSeqs DEF Path
  <1> QED BY <1>3 DEF S, Path

(* What is found was reached through maps. *)
LEMMA FindPrefix ==
    ASSUME NEW h, IsHeap(h), NEW d, NEW p \in Path, NEW r \in Path, IsPrefix(p, r), p # r,
           find(h, d, r) # Absent
    PROVE  find(h, d, p) \in DOMAIN h
  <1>1. PICK s \in Path : r = p \o s
      BY PrefixIs
  <1>2. s # <<>>
      BY <1>1, ConcatPath
  <1>3. find(h, d, r) = find(h, find(h, d, p), s)
      BY <1>1, FindConcat
  <1> QED BY <1>2, <1>3, FindNothing

(* The maps R are the same in both heaps, and lead to no others. *)
Same(h, h2, R) ==
    /\ R \subseteq DOMAIN h /\ R \subseteq DOMAIN h2
    /\ \A i \in R : h2[i] = h[i] /\ \A key \in Keys : h[i][key] \in Nat => h[i][key] \in R

(* Where two heaps have the same maps the same is found. *)
LEMMA FindSame ==
    ASSUME NEW h, IsHeap(h), NEW h2, IsHeap(h2), NEW R, Same(h, h2, R),
           NEW d \in Values, d \in Nat => d \in R
    PROVE  \A p \in Path : /\ find(h2, d, p) = find(h, d, p)
                           /\ find(h, d, p) \in Values /\ (find(h, d, p) \in Nat => find(h, d, p) \in R)
  <1> DEFINE ok(v) == v \in Values /\ (v \in Nat => v \in R)
             S == {p \in Path : find(h2, d, p) = find(h, d, p) /\ ok(find(h, d, p))}
  <1>1. <<>> \in S
      BY FindEmpty, FindAppend, EmptyPath
  <1>2. ASSUME NEW v, ok(v), NEW key \in Keys PROVE entry(h2, v, key) = entry(h, v, key) /\ ok(entry(h, v, key))
    <2>1. CASE v \in R
      <3>1. v \in DOMAIN h /\ v \in DOMAIN h2 /\ h2[v] = h[v]
          BY <2>1 DEF Same
      <3>2. ok(h[v][key])
          BY <2>1, <3>1, HeapFacts DEF Same, IsRef
      <3> QED BY <3>1, <3>2 DEF entry
    <2>2. CASE v \notin R
      <3>1. v \notin DOMAIN h /\ v \notin DOMAIN h2
          BY <1>2, <2>2, HeapFacts
      <3> QED BY <3>1, ValueFacts DEF entry
    <2> QED BY <2>1, <2>2
  <1> HIDE DEF ok
  <1>3. ASSUME NEW p \in Path, NEW key \in Keys, p \in S PROVE Append(p, key) \in S
      BY <1>2, <1>3, FindEmpty, FindAppend, AppendPath
  <1> HIDE DEF S
  <1>4. \A p \in Seq(Keys) : p \in S
      BY <1>1, <1>3, Find!InductiveSeqs DEF Path
  <1> QED BY <1>4 DEF S, Path, ok

-----------------------------------------------------------------------------
(* One entry is written. *)

put(h, cur, key, v) == [h EXCEPT ![cur][key] = v]

(* Writing one entry of one map gives a heap, and changes nothing else. *)
LEMMA HeapWrite ==
    ASSUME NEW h, IsHeap(h), NEW cur \in DOMAIN h, NEW key \in Keys, NEW v, IsRef(h, v),
           NEW h2, h2 = put(h, cur, key, v)
    PROVE  /\ IsHeap(h2) /\ Len(h2) = Len(h) /\ DOMAIN h2 = DOMAIN h
           /\ h2[cur][key] = v
           /\ \A other \in Keys : other # key => h2[cur][other] = h[cur][other]
           /\ \A i \in DOMAIN h : i # cur => h2[i] = h[i]
  <1> DEFINE m == [h[cur] EXCEPT ![key] = v]
  <1>1. h \in Seq([Keys -> Values]) /\ Len(h) \in Nat /\ DOMAIN h = 1..Len(h) /\ h[cur] \in [Keys -> Values]
      BY HeapFacts DEF IsHeap
  <1>2. m \in [Keys -> Values] /\ m[key] = v /\ \A other \in Keys : other # key => m[other] = h[cur][other]
      BY <1>1 DEF IsRef
  <1>3. h2 = [h EXCEPT ![cur] = m]
      BY DEF put
  <1> HIDE DEF m
  <1>4. h2 \in Seq([Keys -> Values]) /\ Len(h2) = Len(h)
      BY <1>1, <1>2, <1>3, ExceptSeq
  <1>5. DOMAIN h2 = DOMAIN h /\ h2[cur] = m /\ \A i \in DOMAIN h : i # cur => h2[i] = h[i]
      BY <1>3
  <1>6. ASSUME NEW i \in DOMAIN h2, NEW other \in Keys PROVE IsRef(h2, h2[i][other])
    <2>1. IsRef(h, h2[i][other])
      <3>1. CASE i = cur /\ other = key
          BY <1>2, <1>5, <3>1
      <3>2. CASE i = cur /\ other # key
          BY <1>2, <1>5, <3>2, HeapFacts
      <3>3. CASE i # cur
          BY <1>5, <3>3, HeapFacts
      <3> QED BY <3>1, <3>2, <3>3
    <2> QED BY <1>5, <2>1 DEF IsRef
  <1> QED BY <1>2, <1>4, <1>5, <1>6 DEF IsHeap, IsRef

(* Maps up to M are old, those above are new. *)
New(M) == {i \in Nat : i > M}

(* Old maps lead to old maps only, and to later ones. *)
Ordered(h, M) ==
    M \in 0..Len(h) /\ \A i \in 1..M, key \in Keys : h[i][key] \in Nat => h[i][key] \in (i + 1)..M

(* The new maps that v leads to have one place each. *)
Alone(h, v, M) ==
    \A p, q \in Path : find(h, v, p) \in New(M) /\ find(h, v, q) = find(h, v, p) => p = q

(* No new map that v leads to is one that b leads to. *)
Apart(h, b, v, M) ==
    \A p, q \in Path : find(h, v, p) \in New(M) => find(h, b, q) # find(h, v, p)

(* b is a body of which every map but the shared ones is its own. *)
Built(h, b, M) ==
    IsHeap(h) /\ b \in DOMAIN h /\ b \in New(M) /\ Ordered(h, M) /\ Alone(h, b, M)

(* v can be put into b: none of its new maps is in b already. *)
Value(h, v, b, M) == IsRef(h, v) /\ Alone(h, v, M) /\ Apart(h, b, v, M)

(* The old maps are as they were. *)
Still(h, h2, M) == \A i \in 1..M : h2[i] = h[i]

(* What is seen of a value. *)
show(v) == IF v \in Nat THEN Object ELSE v

(* A value that does not lead to the written map stays what it was. *)
LEMMA WriteElsewhere ==
    ASSUME NEW h, IsHeap(h), NEW cur \in DOMAIN h, NEW key \in Keys, NEW v, IsRef(h, v),
           NEW h2, h2 = put(h, cur, key, v),
           NEW u, \A s \in Path : find(h, u, s) # cur
    PROVE  \A s \in Path : find(h2, u, s) = find(h, u, s)
  <1> DEFINE S == {s \in Path : find(h2, u, s) = find(h, u, s)}
  <1>1. <<>> \in S
      BY FindEmpty, EmptyPath
  <1>2. ASSUME NEW s \in Path, NEW k2 \in Keys, s \in S PROVE Append(s, k2) \in S
    <2>1. find(h2, u, Append(s, k2)) = entry(h2, find(h, u, s), k2)
        BY <1>2, FindAppend
    <2>2. find(h, u, Append(s, k2)) = entry(h, find(h, u, s), k2)
        BY FindAppend
    <2>3. entry(h2, find(h, u, s), k2) = entry(h, find(h, u, s), k2)
        BY HeapWrite DEF entry
    <2> QED BY <2>1, <2>2, <2>3, AppendPath
  <1> HIDE DEF S
  <1>3. \A s \in Seq(Keys) : s \in S
      BY <1>1, <1>2, Find!InductiveSeqs DEF Path
  <1> QED BY <1>3 DEF S, Path

(* A body in which an entry is written has the value there, and all else as before. *)
LEMMA WriteFound ==
    ASSUME NEW M, NEW h, NEW b, Built(h, b, M), NEW p \in Path, NEW key \in Keys,
           find(h, b, p) \in DOMAIN h, find(h, b, p) \in New(M),
           NEW v, Value(h, v, b, M),
           NEW h2, h2 = put(h, find(h, b, p), key, v)
    PROVE  /\ \A r \in Path : ~IsPrefix(Append(p, key), r) => find(h2, b, r) = find(h, b, r)
           /\ \A s \in Path : find(h2, b, Append(p, key) \o s) = find(h, v, s)
  <1> DEFINE cur == find(h, b, p)
             t == Append(p, key)
             S == {r \in Path : ~IsPrefix(t, r) => find(h2, b, r) = find(h, b, r)}
  <1>1. IsHeap(h) /\ IsRef(h, v) /\ cur \in DOMAIN h /\ cur \in New(M) /\ h2 = put(h, cur, key, v)
      BY DEF Built, Value
  <1>11. \A r \in Path : find(h, b, r) = cur => r = p
      BY DEF Built, Alone
  <1>12. \A s \in Path : find(h, v, s) # cur
      BY DEF Value, Apart
  <1>13. find(h, b, p) = cur
      OBVIOUS
  <1> HIDE DEF cur
  <1>2. /\ DOMAIN h2 = DOMAIN h /\ h2[cur][key] = v
        /\ \A other \in Keys : other # key => h2[cur][other] = h[cur][other]
        /\ \A i \in DOMAIN h : i # cur => h2[i] = h[i]
      BY <1>1, HeapWrite
  <1>3. t \in Path
      BY AppendPath
  <1>4. <<>> \in S
      BY FindEmpty, EmptyPath
  <1>5. ASSUME NEW r \in Path, NEW k2 \in Keys, r \in S PROVE Append(r, k2) \in S
    <2> SUFFICES ASSUME ~IsPrefix(t, Append(r, k2))
                 PROVE  find(h2, b, Append(r, k2)) = find(h, b, Append(r, k2))
        BY AppendPath
    <2>1. ~IsPrefix(t, r) /\ t # Append(r, k2)
        BY <1>3, PrefixAppend
    <2>2. find(h2, b, r) = find(h, b, r)
        BY <1>5, <2>1
    <2>3. entry(h2, find(h, b, r), k2) = entry(h, find(h, b, r), k2)
      <3>1. CASE find(h, b, r) = cur
        <4>1. r = p
            BY <1>11, <3>1
        <4>2. k2 # key
            BY <2>1, <4>1
        <4> QED BY <1>2, <3>1, <4>2 DEF entry
      <3>2. CASE find(h, b, r) # cur
          BY <1>2, <3>2 DEF entry
      <3> QED BY <3>1, <3>2
    <2> QED BY <2>2, <2>3, FindAppend
  <1> HIDE DEF S
  <1>6. \A r \in Seq(Keys) : r \in S
      BY <1>4, <1>5, Find!InductiveSeqs DEF Path
  <1>7. \A r \in Path : ~IsPrefix(t, r) => find(h2, b, r) = find(h, b, r)
      BY <1>6 DEF S, Path
  <1>8. find(h2, b, t) = v
    <2>1. find(h2, b, p) = cur
        BY <1>7, <1>13, PrefixOrder
    <2>2. find(h2, b, t) = entry(h2, cur, key)
        BY <2>1, FindAppend
    <2> QED BY <1>1, <1>2, <2>2 DEF entry
  <1>9. \A s \in Path : find(h2, v, s) = find(h, v, s)
      BY <1>1, <1>12, WriteElsewhere
  <1>10. \A s \in Path : find(h2, b, t \o s) = find(h, v, s)
    <2> SUFFICES ASSUME NEW s \in Path PROVE find(h2, b, t \o s) = find(h, v, s)
        OBVIOUS
    <2>1. find(h2, b, t \o s) = find(h2, find(h2, b, t), s)
        BY <1>3, FindConcat
    <2> QED BY <1>8, <1>9, <2>1
  <1> QED BY <1>7, <1>10

(* So each path of it is one of the value or one of before. *)
LEMMA WriteCases ==
    ASSUME NEW M, NEW h, NEW b, Built(h, b, M), NEW p \in Path, NEW key \in Keys,
           find(h, b, p) \in DOMAIN h, find(h, b, p) \in New(M),
           NEW v, Value(h, v, b, M),
           NEW h2, h2 = put(h, find(h, b, p), key, v), NEW r \in Path
    PROVE  \/ ~IsPrefix(Append(p, key), r) /\ find(h2, b, r) = find(h, b, r)
           \/ \E s \in Path : r = Append(p, key) \o s /\ find(h2, b, r) = find(h, v, s)
  <1>1. CASE ~IsPrefix(Append(p, key), r)
      BY <1>1, WriteFound
  <1>2. CASE IsPrefix(Append(p, key), r)
    <2>1. PICK s \in Path : r = Append(p, key) \o s
        BY <1>2, AppendPath, PrefixIs
    <2>2. find(h2, b, Append(p, key) \o s) = find(h, v, s)
        BY WriteFound
    <2> QED BY <2>1, <2>2
  <1> QED BY <1>1, <1>2

(* Its new maps still have one place each. *)
LEMMA WriteBuilt ==
    ASSUME NEW M, NEW h, NEW b, Built(h, b, M), NEW p \in Path, NEW key \in Keys,
           find(h, b, p) \in DOMAIN h, find(h, b, p) \in New(M),
           NEW v, Value(h, v, b, M),
           NEW h2, h2 = put(h, find(h, b, p), key, v)
    PROVE  Built(h2, b, M) /\ Still(h, h2, M) /\ Len(h2) = Len(h)
  <1> DEFINE cur == find(h, b, p)
             t == Append(p, key)
  <1>1. IsHeap(h) /\ IsRef(h, v) /\ cur \in DOMAIN h /\ cur \in New(M) /\ h2 = put(h, cur, key, v)
      BY DEF Built, Value
  <1>2. /\ IsHeap(h2) /\ Len(h2) = Len(h) /\ DOMAIN h2 = DOMAIN h
        /\ \A i \in DOMAIN h : i # cur => h2[i] = h[i]
    <2> HIDE DEF cur
    <2> QED BY <1>1, HeapWrite
  <1>3. ASSUME NEW i \in 1..M PROVE h2[i] = h[i]
    <2>1. i \in DOMAIN h /\ i \notin New(M)
        BY HeapFacts DEF Built, Ordered, New
    <2> QED BY <1>1, <1>2, <2>1
  <1>4. Ordered(h2, M)
      BY <1>2, <1>3 DEF Built, Ordered
  <1>5. ASSUME NEW p1 \in Path, NEW q1 \in Path,
               find(h2, b, p1) \in New(M), find(h2, b, q1) = find(h2, b, p1)
        PROVE  p1 = q1
    <2>1. \/ ~IsPrefix(t, p1) /\ find(h2, b, p1) = find(h, b, p1)
          \/ \E s \in Path : p1 = t \o s /\ find(h2, b, p1) = find(h, v, s)
        BY WriteCases
    <2>2. \/ ~IsPrefix(t, q1) /\ find(h2, b, q1) = find(h, b, q1)
          \/ \E s \in Path : q1 = t \o s /\ find(h2, b, q1) = find(h, v, s)
        BY WriteCases
    <2>3. Alone(h, b, M) /\ Alone(h, v, M) /\ Apart(h, b, v, M)
        BY DEF Built, Value
    <2> HIDE DEF t
    <2> QED BY <1>5, <2>1, <2>2, <2>3 DEF Alone, Apart
  <1> QED BY <1>2, <1>3, <1>4, <1>5 DEF Built, Alone, Still

(* Another value, one that is in no way part of the one written. *)
LEMMA WriteOther ==
    ASSUME NEW M, NEW h, NEW b, Built(h, b, M), NEW p \in Path, NEW key \in Keys,
           find(h, b, p) \in DOMAIN h, find(h, b, p) \in New(M),
           NEW v, Value(h, v, b, M),
           NEW h2, h2 = put(h, find(h, b, p), key, v),
           NEW u, Value(h, u, b, M), Apart(h, v, u, M)
    PROVE  Value(h2, u, b, M) /\ \A s \in Path : find(h2, u, s) = find(h, u, s)
  <1> DEFINE cur == find(h, b, p)
             t == Append(p, key)
  <1>1. IsHeap(h) /\ IsRef(h, v) /\ cur \in DOMAIN h /\ cur \in New(M) /\ h2 = put(h, cur, key, v)
      BY DEF Built, Value
  <1>2. \A s \in Path : find(h, u, s) # cur
      BY <1>1 DEF Value, Apart
  <1>3. DOMAIN h2 = DOMAIN h
    <2> HIDE DEF cur
    <2> QED BY <1>1, HeapWrite
  <1>4. \A s \in Path : find(h2, u, s) = find(h, u, s)
    <2> HIDE DEF cur
    <2> QED BY <1>1, <1>2, WriteElsewhere
  <1>5. ASSUME NEW p1 \in Path, NEW q1 \in Path, find(h2, u, p1) \in New(M)
        PROVE  find(h2, b, q1) # find(h2, u, p1)
    <2>1. \/ ~IsPrefix(t, q1) /\ find(h2, b, q1) = find(h, b, q1)
          \/ \E s \in Path : q1 = t \o s /\ find(h2, b, q1) = find(h, v, s)
        BY WriteCases
    <2>2. find(h2, u, p1) = find(h, u, p1) /\ Apart(h, b, u, M)
        BY <1>4 DEF Value
    <2> HIDE DEF t
    <2> QED BY <1>5, <2>1, <2>2 DEF Apart
  <1>6. IsRef(h2, u)
      BY <1>3 DEF IsRef, Value
  <1>7. Alone(h2, u, M)
      BY <1>4 DEF Alone, Value
  <1> QED BY <1>4, <1>5, <1>6, <1>7 DEF Value, Apart

-----------------------------------------------------------------------------
(* Maps are added. *)

(* There are more maps, and the others are as they were. *)
Extends(h, h2) == Len(h) <= Len(h2) /\ \A i \in DOMAIN h : h2[i] = h[i]

(* In a heap with more maps a value stays what it was, *)
LEMMA GrownFind ==
    ASSUME NEW h, IsHeap(h), NEW h2, IsHeap(h2), Extends(h, h2), NEW d, IsRef(h, d)
    PROVE  IsRef(h2, d) /\ \A p \in Path : find(h2, d, p) = find(h, d, p)
  <1> DEFINE R == DOMAIN h
  <1>1. DOMAIN h = 1..Len(h) /\ Len(h) \in Nat /\ DOMAIN h2 = 1..Len(h2) /\ Len(h2) \in Nat
      BY HeapFacts
  <1>2. R \subseteq DOMAIN h2
      BY <1>1 DEF Extends
  <1>3. Same(h, h2, R)
      BY <1>2 DEF Same, Extends, IsHeap
  <1>4. d \in Values /\ (d \in Nat => d \in R)
      BY DEF IsRef
  <1>5. IsRef(h2, d)
      BY <1>2 DEF IsRef
  <1> HIDE DEF R
  <1> QED BY <1>3, <1>4, <1>5, FindSame

(* so does a body, *)
LEMMA GrownBuilt ==
    ASSUME NEW M, NEW h, NEW b, Built(h, b, M), NEW h2, IsHeap(h2), Extends(h, h2)
    PROVE  Built(h2, b, M) /\ Still(h, h2, M) /\ \A p \in Path : find(h2, b, p) = find(h, b, p)
  <1>1. DOMAIN h = 1..Len(h) /\ Len(h) \in Nat /\ DOMAIN h2 = 1..Len(h2) /\ Len(h2) \in Nat
      BY HeapFacts DEF Built
  <1>2. b \in DOMAIN h2 /\ IsHeap(h) /\ IsRef(h, b)
      BY <1>1, ValueFacts DEF Built, Extends, IsRef
  <1>3. \A i \in 1..M : h2[i] = h[i]
      BY <1>1 DEF Built, Ordered, Extends
  <1>4. Ordered(h2, M)
      BY <1>1, <1>3 DEF Built, Ordered, Extends
  <1>5. \A p \in Path : find(h2, b, p) = find(h, b, p)
      BY <1>2, GrownFind
  <1>6. Alone(h2, b, M)
      BY <1>5 DEF Built, Alone
  <1> QED BY <1>2, <1>3, <1>4, <1>5, <1>6 DEF Built, Still

(* and so does a value that is to be written. *)
LEMMA GrownValue ==
    ASSUME NEW M, NEW h, NEW b, Built(h, b, M), NEW h2, IsHeap(h2), Extends(h, h2),
           NEW v, Value(h, v, b, M)
    PROVE  Value(h2, v, b, M) /\ \A s \in Path : find(h2, v, s) = find(h, v, s)
  <1>1. IsHeap(h) /\ IsRef(h, v)
      BY DEF Built, Value
  <1>2. IsRef(h2, v) /\ \A s \in Path : find(h2, v, s) = find(h, v, s)
      BY <1>1, GrownFind
  <1>3. \A s \in Path : find(h2, b, s) = find(h, b, s)
      BY GrownBuilt
  <1> QED BY <1>2, <1>3 DEF Value, Alone, Apart

empty == [key \in Keys |-> Absent]

(* A map that is made (jsonpath.go:32) is empty ... *)
LEMMA NewMap ==
    ASSUME NEW h, IsHeap(h)
    PROVE  /\ IsHeap(Append(h, empty)) /\ Extends(h, Append(h, empty))
           /\ Len(Append(h, empty)) = Len(h) + 1
           /\ \A s \in Path : s # <<>> => find(Append(h, empty), Len(h) + 1, s) = Absent
  <1> DEFINE h2 == Append(h, empty)
             n == Len(h) + 1
  <1>1. h \in Seq([Keys -> Values]) /\ Len(h) \in Nat /\ DOMAIN h = 1..Len(h)
      BY HeapFacts DEF IsHeap
  <1>2. empty \in [Keys -> Values] /\ \A key \in Keys : empty[key] = Absent
      BY ValueFacts DEF empty
  <1>3. /\ h2 \in Seq([Keys -> Values]) /\ Len(h2) = n /\ h2[n] = empty
        /\ \A i \in 1..Len(h) : h2[i] = h[i]
      BY <1>1, <1>2, AppendProperties
  <1> HIDE DEF h2
  <1>4. DOMAIN h2 = 1..n /\ n \in 1..n
      BY <1>1, <1>3, LenProperties
  <1>5. ASSUME NEW i \in DOMAIN h2, NEW key \in Keys, h2[i][key] \in Nat PROVE h2[i][key] \in DOMAIN h2
    <2>1. CASE i = n
        BY <1>2, <1>3, <1>5, <2>1, ValueFacts
    <2>2. CASE i # n
      <3>1. i \in DOMAIN h
          BY <1>1, <1>4, <2>2
      <3>2. h[i][key] \in DOMAIN h
          BY <1>1, <1>3, <1>5, <3>1 DEF IsHeap
      <3> QED BY <1>1, <1>3, <1>4, <3>1, <3>2
    <2> QED BY <2>1, <2>2
  <1>6. IsHeap(h2)
      BY <1>3, <1>5 DEF IsHeap
  <1> DEFINE S == {s \in Path : s # <<>> => find(h2, n, s) = Absent}
  <1>7. <<>> \in S
      BY EmptyPath
  <1>8. ASSUME NEW s \in Path, NEW key \in Keys, s \in S PROVE Append(s, key) \in S
    <2>1. find(h2, n, Append(s, key)) = entry(h2, find(h2, n, s), key)
        BY FindAppend
    <2>2. CASE s = <<>>
      <3>1. find(h2, n, s) = n
          BY <2>2, FindEmpty
      <3> QED BY <1>2, <1>3, <1>4, <2>1, <3>1, AppendPath DEF entry
    <2>3. CASE s # <<>>
      <3>1. find(h2, n, s) = Absent /\ Absent \notin DOMAIN h2
          BY <1>4, <1>8, <2>3, ValueFacts
      <3> QED BY <2>1, <3>1, AppendPath DEF entry
    <2> QED BY <2>2, <2>3
  <1> HIDE DEF S
  <1>9. \A s \in Seq(Keys) : s \in S
      BY <1>7, <1>8, Find!InductiveSeqs DEF Path
  <1>10. \A s \in Path : s # <<>> => find(h2, n, s) = Absent
      BY <1>9 DEF S, Path
  <1> QED BY <1>1, <1>3, <1>6, <1>10 DEF h2, Extends

(* ... and nowhere in the body. *)
LEMMA NewMapValue ==
    ASSUME NEW M, NEW h, NEW b, Built(h, b, M)
    PROVE  LET h2 == Append(h, empty)
               n  == Len(h) + 1
           IN  Value(h2, n, b, M) /\ n \in DOMAIN h2 /\ n \in New(M) /\ \A p \in Path : find(h2, b, p) # n
  <1> DEFINE h2 == Append(h, empty)
             n == Len(h) + 1
  <1>1. /\ IsHeap(h) /\ IsHeap(h2) /\ Extends(h, h2) /\ Len(h2) = n
        /\ \A s \in Path : s # <<>> => find(h2, n, s) = Absent
      BY NewMap DEF Built
  <1>2. Len(h) \in Nat /\ DOMAIN h = 1..Len(h) /\ DOMAIN h2 = 1..Len(h2)
      BY <1>1, HeapFacts
  <1> HIDE DEF h2
  <1>3. IsRef(h2, n) /\ n \in DOMAIN h2
      BY <1>1, <1>2, ValueFacts DEF IsRef
  <1>4. n \in New(M)
      BY <1>2 DEF Built, Ordered, New
  <1>5. \A s \in Path : find(h2, n, s) \in New(M) => s = <<>>
      BY <1>1, ValueFacts DEF New
  <1>6. Alone(h2, n, M)
    <2>1. \A s \in Path : find(h2, n, s) = n => s = <<>>
        BY <1>4, <1>5
    <2> QED BY <1>5, <2>1, FindEmpty DEF Alone
  <1>7. ASSUME NEW p \in Path PROVE find(h2, b, p) # n
    <2>1. find(h2, b, p) = find(h, b, p)
        BY <1>1, GrownBuilt
    <2>2. IsRef(h, b)
        BY <1>2, ValueFacts DEF Built, IsRef
    <2>3. IsRef(h, find(h, b, p))
        BY <1>1, <2>2, FindTyped
    <2> QED BY <1>2, <2>1, <2>3 DEF IsRef
  <1>8. Apart(h2, b, n, M)
      BY <1>5, <1>7, FindEmpty DEF Apart
  <1> QED BY <1>3, <1>4, <1>6, <1>7, <1>8 DEF Value, h2

-----------------------------------------------------------------------------
(* One step of the walk. *)

(* To make a map and to link it can be exchanged. *)
LEMMA AppendPut ==
    ASSUME NEW h, IsHeap(h), NEW cur \in DOMAIN h, NEW key \in Keys, NEW n \in Nat
    PROVE  Append(put(h, cur, key, n), empty) = put(Append(h, empty), cur, key, n)
  <1> DEFINE X == [Keys -> Values]
             m == [h[cur] EXCEPT ![key] = n]
             h1 == Append(h, empty)
             g == [h EXCEPT ![cur] = m]
             g1 == [h1 EXCEPT ![cur] = m]
  <1>1. h \in Seq(X) /\ Len(h) \in Nat /\ DOMAIN h = 1..Len(h) /\ h[cur] \in X
      BY HeapFacts DEF IsHeap
  <1>2. m \in X
      BY <1>1, ValueFacts
  <1>3. empty \in X
      BY ValueFacts DEF empty
  <1>4. /\ h1 \in Seq(X) /\ Len(h1) = Len(h) + 1 /\ h1[Len(h) + 1] = empty
        /\ \A i \in 1..Len(h) : h1[i] = h[i]
      BY <1>1, <1>3, AppendProperties
  <1>5. DOMAIN h1 = 1..(Len(h) + 1)
      BY <1>4, LenProperties
  <1>6. put(h, cur, key, n) = g /\ put(h1, cur, key, n) = g1
    <2>1. h1[cur] = h[cur]
        BY <1>1, <1>4
    <2> QED BY <2>1 DEF put
  <1> HIDE DEF X, m
  <1>7. g \in Seq(X) /\ Len(g) = Len(h) /\ \A i \in 1..Len(h) : g[i] = IF i = cur THEN m ELSE h[i]
      BY <1>1, <1>2, ExceptSeq
  <1>8. g1 \in Seq(X) /\ Len(g1) = Len(h) + 1
        /\ \A i \in 1..(Len(h) + 1) : g1[i] = IF i = cur THEN m ELSE h1[i]
    <2> HIDE DEF h1
    <2>1. cur \in DOMAIN h1
        BY <1>1, <1>5
    <2> QED BY <1>2, <1>4, <1>5, <2>1, ExceptSeq
  <1> HIDE DEF g, g1
  <1>9. /\ Append(g, empty) \in Seq(X) /\ Len(Append(g, empty)) = Len(h) + 1
        /\ Append(g, empty)[Len(h) + 1] = empty
        /\ \A i \in 1..Len(h) : Append(g, empty)[i] = g[i]
      BY <1>3, <1>7, AppendProperties
  <1>10. \A i \in 1..(Len(h) + 1) : Append(g, empty)[i] = g1[i]
      BY <1>1, <1>4, <1>7, <1>8, <1>9
  <1>11. Append(g, empty) = g1
      BY <1>8, <1>9, <1>10, SeqEqual
  <1> QED BY <1>6, <1>11 DEF h1

(***************************************************************************)
(* One step of the loop: the entry on the way is entered if it is a map,   *)
(* and otherwise an empty map takes its place.                             *)
(***************************************************************************)
LEMMA EnterStep ==
    ASSUME NEW M, NEW h, NEW b, Built(h, b, M), NEW p \in Path, NEW key \in Keys,
           find(h, b, p) \in DOMAIN h, find(h, b, p) \in New(M),
           find(h, b, Append(p, key)) \notin 1..M,
           NEW a, a = enter([h |-> h, cur |-> find(h, b, p)], key),
           NEW u, Value(h, u, b, M)
    PROVE  /\ Built(a.h, b, M) /\ Still(h, a.h, M) /\ Len(h) <= Len(a.h)
           /\ a = [h |-> a.h, cur |-> find(a.h, b, Append(p, key))]
           /\ a.cur \in DOMAIN a.h /\ a.cur \in New(M)
           /\ Value(a.h, u, b, M) /\ \A s \in Path : find(a.h, u, s) = find(h, u, s)
           /\ \/ /\ find(h, b, Append(p, key)) \in DOMAIN h
                 /\ \A r \in Path : find(a.h, b, r) = find(h, b, r)
              \/ /\ find(h, b, Append(p, key)) \notin DOMAIN h
                 /\ \A r \in Path : r # Append(p, key) =>
                       find(a.h, b, r) = IF IsPrefix(Append(p, key), r) THEN Absent ELSE find(h, b, r)
  <1> DEFINE cur == find(h, b, p)
             t == Append(p, key)
             n == Len(h) + 1
             h1 == Append(h, empty)
             h2 == put(h1, find(h1, b, p), key, n)
  <1>1. IsHeap(h) /\ Len(h) \in Nat /\ DOMAIN h = 1..Len(h) /\ t \in Path
      BY HeapFacts, AppendPath DEF Built
  <1>2. find(h, b, t) = h[cur][key]
      BY FindAppend DEF entry
  <1>3. CASE find(h, b, t) \in DOMAIN h
    <2>1. a = [h |-> h, cur |-> find(h, b, t)]
        BY <1>2, <1>3 DEF enter
    <2>2. find(h, b, t) \in New(M)
        BY <1>1, <1>3 DEF New, Built, Ordered
    <2> HIDE DEF cur, t
    <2>3. a.h = h /\ a.cur = find(h, b, t)
        BY <2>1
    <2> QED BY <1>1, <1>3, <2>1, <2>2, <2>3 DEF Still, t
  <1>4. CASE find(h, b, t) \notin DOMAIN h
    <2>1. /\ IsHeap(h1) /\ Extends(h, h1) /\ Len(h1) = n
          /\ \A s \in Path : s # <<>> => find(h1, n, s) = Absent
        BY <1>1, NewMap
    <2>2. Value(h1, n, b, M) /\ n \in DOMAIN h1 /\ n \in New(M) /\ \A r \in Path : find(h1, b, r) # n
        BY NewMapValue
    <2>3. Built(h1, b, M) /\ Still(h, h1, M) /\ \A r \in Path : find(h1, b, r) = find(h, b, r)
        BY <2>1, GrownBuilt
    <2>4. Value(h1, u, b, M) /\ \A s \in Path : find(h1, u, s) = find(h, u, s)
        BY <2>1, GrownValue
    <2>5. find(h1, b, p) = cur
        BY <2>3
    <2>6. a = [h |-> h2, cur |-> n]
      <3>1. a = [h |-> Append(put(h, cur, key, n), empty), cur |-> n]
          BY <1>2, <1>4 DEF enter, put, empty
      <3>2. n \in Nat
          BY <1>1
      <3>3. cur \in DOMAIN h
          OBVIOUS
      <3> HIDE DEF cur, n
      <3>4. Append(put(h, cur, key, n), empty) = put(h1, cur, key, n)
          BY <1>1, <3>2, <3>3, AppendPut
      <3> QED BY <2>5, <3>1, <3>4
    <2>7. cur \in DOMAIN h1
        BY <1>1, <2>1, HeapFacts
    <2> HIDE DEF h1, n
    <2>8. Built(h2, b, M) /\ Still(h1, h2, M) /\ Len(h2) = Len(h1)
        BY <2>2, <2>3, <2>5, <2>7, WriteBuilt
    <2>9. /\ \A r \in Path : ~IsPrefix(t, r) => find(h2, b, r) = find(h1, b, r)
          /\ \A s \in Path : find(h2, b, t \o s) = find(h1, n, s)
        BY <2>2, <2>3, <2>5, <2>7, WriteFound
    <2>10. Apart(h1, n, u, M)
      <3> SUFFICES ASSUME NEW r \in Path, NEW q \in Path, find(h1, u, r) \in New(M)
                   PROVE  find(h1, n, q) # find(h1, u, r)
          BY DEF Apart
      <3>1. find(h1, u, r) # n
        <4>1. IsRef(h, find(h, u, r))
            BY <1>1, FindTyped DEF Value
        <4>2. find(h1, u, r) = find(h, u, r)
            BY <2>4
        <4> QED BY <1>1, <4>1, <4>2 DEF IsRef, n
      <3>2. CASE q = <<>>
          BY <3>1, <3>2, FindEmpty
      <3>3. CASE q # <<>>
          BY <2>1, <3>3, ValueFacts DEF New
      <3> QED BY <3>2, <3>3
    <2>11. Value(h2, u, b, M) /\ \A s \in Path : find(h2, u, s) = find(h1, u, s)
        BY <2>2, <2>3, <2>4, <2>5, <2>7, <2>10, WriteOther
    <2>12. find(h2, b, t) = n
      <3>1. t \o <<>> = t /\ <<>> \in Path
          BY <1>1, ConcatPath, EmptyPath
      <3> QED BY <2>9, <3>1, FindEmpty
    <2>13. ASSUME NEW r \in Path, r # t
           PROVE  find(h2, b, r) = IF IsPrefix(t, r) THEN Absent ELSE find(h, b, r)
      <3>1. CASE ~IsPrefix(t, r)
          BY <2>3, <2>9, <3>1
      <3>2. CASE IsPrefix(t, r)
        <4>1. PICK s \in Path : r = t \o s
            BY <1>1, <3>2, PrefixIs
        <4>2. s # <<>>
            BY <1>1, <2>13, <4>1, ConcatPath
        <4> QED BY <2>1, <2>9, <3>2, <4>1, <4>2
      <3> QED BY <3>1, <3>2
    <2>14. n \in DOMAIN h2 /\ Len(h) <= Len(h2)
      <3>1. IsHeap(h2)
          BY <2>8 DEF Built
      <3> QED BY <1>1, <2>1, <2>8, <3>1, HeapFacts DEF n
    <2>15. Still(h, h2, M)
        BY <2>3, <2>8 DEF Still
    <2> HIDE DEF h2, t
    <2>16. a.h = h2 /\ a.cur = n
        BY <2>6
    <2>17. \A s \in Path : find(h2, u, s) = find(h, u, s)
        BY <2>4, <2>11
    <2> QED BY <1>4, <2>2, <2>6, <2>8, <2>11, <2>12, <2>13, <2>14, <2>15, <2>16, <2>17 DEF t
  <1> QED BY <1>3, <1>4

-----------------------------------------------------------------------------
(* The whole walk. *)

(* On the way to q there is something above r, or in its place, that is no map. *)
Cleared(h, b, q, r) ==
    \E o \in Path : IsPrefix(o, q) /\ IsPrefix(o, r) /\ find(h, b, o) \notin DOMAIN h

(* a is where the walk to q ends, and u a value that it leaves alone. *)
Walked(h, b, u, M, q, a) ==
    /\ Built(a.h, b, M) /\ Still(h, a.h, M) /\ Len(h) <= Len(a.h)
    /\ a = [h |-> a.h, cur |-> find(a.h, b, q)]
    /\ a.cur \in DOMAIN a.h /\ a.cur \in New(M)
    /\ Value(a.h, u, b, M) /\ \A s \in Path : find(a.h, u, s) = find(h, u, s)
    /\ \A r \in Path : IsPrefix(r, q) => find(a.h, b, r) \in New(M)
    /\ \A r \in Path : ~IsPrefix(r, q) =>
          find(a.h, b, r) = IF Cleared(h, b, q, r) THEN Absent ELSE find(h, b, r)

(* What gives way on a path with a part more. *)
LEMMA ClearedAppend ==
    ASSUME NEW h, NEW b, NEW q \in Path, NEW key \in Keys, NEW r \in Path
    PROVE  Cleared(h, b, Append(q, key), r) <=>
              \/ Cleared(h, b, q, r)
              \/ IsPrefix(Append(q, key), r) /\ find(h, b, Append(q, key)) \notin DOMAIN h
  <1>1. \A o \in Path : IsPrefix(o, Append(q, key)) <=> IsPrefix(o, q) \/ o = Append(q, key)
      BY PrefixAppend
  <1>2. Append(q, key) \in Path
      BY AppendPath
  <1> DEFINE t == Append(q, key)
  <1> HIDE DEF t
  <1> QED BY <1>1, <1>2 DEF Cleared, t

(* What gives way by itself had nothing below it. *)
LEMMA ClearedNothing ==
    ASSUME NEW h, IsHeap(h), NEW b, NEW q \in Path, NEW r \in Path, Cleared(h, b, q, r), ~IsPrefix(r, q)
    PROVE  find(h, b, r) = Absent
  <1>1. PICK o \in Path : IsPrefix(o, q) /\ IsPrefix(o, r) /\ find(h, b, o) \notin DOMAIN h
      BY DEF Cleared
  <1>2. o # r
      BY <1>1
  <1> QED BY <1>1, <1>2, FindPrefix

(* No steps change nothing, *)
LEMMA WalkedEmpty ==
    ASSUME NEW M, NEW h, NEW b, Built(h, b, M), NEW u, Value(h, u, b, M)
    PROVE  Walked(h, b, u, M, <<>>, walk(h, b, <<>>))
  <1> DEFINE a == walk(h, b, <<>>)
  <1>1. a = [h |-> h, cur |-> b]
      BY WalkEmpty
  <1> HIDE DEF a
  <1>2. a.h = h /\ a.cur = b /\ find(h, b, <<>>) = b
      BY <1>1, FindEmpty
  <1>3. Len(h) \in Nat /\ b \in DOMAIN h /\ b \in New(M)
      BY HeapFacts DEF Built
  <1>4. \A r \in Path : IsPrefix(r, <<>>) => r = <<>>
      BY PrefixOrder
  <1>5. \A r \in Path : ~Cleared(h, b, <<>>, r)
      BY <1>2, <1>3, <1>4 DEF Cleared
  <1>6. Still(h, h, M)
      BY DEF Still
  <1>7. a = [h |-> a.h, cur |-> find(a.h, b, <<>>)]
      BY <1>1, <1>2
  <1>8. \A r \in Path : IsPrefix(r, <<>>) => find(h, b, r) \in New(M)
      BY <1>2, <1>3, <1>4
  <1> QED BY <1>2, <1>3, <1>5, <1>6, <1>7, <1>8 DEF Walked, a

(* a step more keeps it so, *)
LEMMA WalkedAppend ==
    ASSUME NEW M, NEW h, NEW b, Built(h, b, M), NEW u, NEW q \in Path, NEW key \in Keys,
           Walked(h, b, u, M, q, walk(h, b, q)), find(h, b, Append(q, key)) \notin 1..M
    PROVE  Walked(h, b, u, M, Append(q, key), walk(h, b, Append(q, key)))
  <1> DEFINE t == Append(q, key)
             a == walk(h, b, q)
             c == walk(h, b, t)
  <1>1. c = enter(a, key)
      BY WalkAppend
  <1>2. t \in Path /\ ~IsPrefix(t, q) /\ \A r \in Path : IsPrefix(r, t) <=> IsPrefix(r, q) \/ r = t
      BY AppendPath, PrefixOrder, PrefixAppend
  <1>3. /\ Built(a.h, b, M) /\ Still(h, a.h, M) /\ Len(h) <= Len(a.h)
        /\ a = [h |-> a.h, cur |-> find(a.h, b, q)]
        /\ find(a.h, b, q) \in DOMAIN a.h /\ find(a.h, b, q) \in New(M)
        /\ Value(a.h, u, b, M) /\ \A s \in Path : find(a.h, u, s) = find(h, u, s)
    <2> HIDE DEF a
    <2> QED BY DEF Walked, a
  <1>4. /\ \A r \in Path : IsPrefix(r, q) => find(a.h, b, r) \in New(M)
        /\ \A r \in Path : ~IsPrefix(r, q) =>
              find(a.h, b, r) = IF Cleared(h, b, q, r) THEN Absent ELSE find(h, b, r)
      BY DEF Walked
  <1>5. IsHeap(h) /\ IsHeap(a.h) /\ IsRef(h, b) /\ Len(h) \in Nat /\ Len(a.h) \in Nat
        /\ DOMAIN h = 1..Len(h) /\ DOMAIN a.h = 1..Len(a.h) /\ M \in Nat
      BY <1>3, HeapFacts, ValueFacts DEF Built, IsRef, Ordered
  <1> HIDE DEF t, a
  <1>6. find(a.h, b, t) = IF Cleared(h, b, q, t) THEN Absent ELSE find(h, b, t)
      BY <1>2, <1>4
  <1>7. find(a.h, b, t) \notin 1..M
      BY <1>5, <1>6, ValueFacts DEF t
  <1>8. find(a.h, b, t) \in DOMAIN a.h <=> find(h, b, t) \in DOMAIN h
    <2>1. IsRef(h, find(h, b, t))
        BY <1>2, <1>5, FindTyped
    <2>2. Cleared(h, b, q, t) => find(h, b, t) = Absent
      <3>1. ~IsPrefix(t, q)
          BY <1>2
      <3> QED BY <1>2, <1>5, <3>1, ClearedNothing
    <2> QED BY <1>3, <1>5, <1>6, <2>1, <2>2, ValueFacts DEF IsRef
  <1> HIDE DEF c
  <1>9. /\ Built(c.h, b, M) /\ Still(a.h, c.h, M) /\ Len(a.h) <= Len(c.h)
        /\ c = [h |-> c.h, cur |-> find(c.h, b, t)]
        /\ c.cur \in DOMAIN c.h /\ c.cur \in New(M)
        /\ Value(c.h, u, b, M) /\ \A s \in Path : find(c.h, u, s) = find(a.h, u, s)
        /\ \/ /\ find(a.h, b, t) \in DOMAIN a.h
              /\ \A r \in Path : find(c.h, b, r) = find(a.h, b, r)
           \/ /\ find(a.h, b, t) \notin DOMAIN a.h
              /\ \A r \in Path : r # t =>
                    find(c.h, b, r) = IF IsPrefix(t, r) THEN Absent ELSE find(a.h, b, r)
    <2>1. c = enter([h |-> a.h, cur |-> find(a.h, b, q)], key)
        BY <1>1, <1>3
    <2> QED BY <1>3, <1>7, <2>1, EnterStep DEF t
  <1>10. c.cur = find(c.h, b, t)
      BY <1>9
  <1>11. ASSUME NEW r \in Path, IsPrefix(r, t) PROVE find(c.h, b, r) \in New(M)
    <2>1. CASE r = t
        BY <1>9, <1>10, <2>1
    <2>2. CASE r # t
      <3>1. IsPrefix(r, q)
          BY <1>2, <1>11, <2>2
      <3>2. ~IsPrefix(t, r)
          BY <1>2, <3>1, PrefixOrder
      <3> QED BY <1>4, <1>9, <2>2, <3>1, <3>2
    <2> QED BY <2>1, <2>2
  <1>12. ASSUME NEW r \in Path, ~IsPrefix(r, t)
         PROVE  find(c.h, b, r) = IF Cleared(h, b, t, r) THEN Absent ELSE find(h, b, r)
    <2>1. r # t /\ ~IsPrefix(r, q)
        BY <1>2, <1>12
    <2>2. find(a.h, b, r) = IF Cleared(h, b, q, r) THEN Absent ELSE find(h, b, r)
        BY <1>4, <2>1
    <2>3. Cleared(h, b, t, r) <=> Cleared(h, b, q, r) \/ (IsPrefix(t, r) /\ find(h, b, t) \notin DOMAIN h)
        BY ClearedAppend DEF t
    <2> QED BY <1>8, <1>9, <2>1, <2>2, <2>3
  <1>13. Still(h, c.h, M) /\ Len(h) <= Len(c.h)
    <2>1. Len(c.h) \in Nat
        BY <1>9, HeapFacts DEF Built
    <2> QED BY <1>3, <1>5, <1>9, <2>1 DEF Still
  <1>14. \A s \in Path : find(c.h, u, s) = find(h, u, s)
      BY <1>3, <1>9
  <1> QED BY <1>9, <1>11, <1>12, <1>13, <1>14 DEF Walked, t, c

(* and thus every walk through new maps ends where it should. *)
LEMMA Walks ==
    ASSUME NEW M, NEW h, NEW b, Built(h, b, M), NEW u, Value(h, u, b, M)
    PROVE  \A q \in Path : (\A o \in Path : IsPrefix(o, q) => find(h, b, o) \notin 1..M)
                             => Walked(h, b, u, M, q, walk(h, b, q))
  <1> DEFINE free(q) == \A o \in Path : IsPrefix(o, q) => find(h, b, o) \notin 1..M
             S == {q \in Path : free(q) => Walked(h, b, u, M, q, walk(h, b, q))}
  <1>1. <<>> \in S
      BY EmptyPath, WalkedEmpty
  <1>2. ASSUME NEW q \in Path, NEW key \in Keys, q \in S PROVE Append(q, key) \in S
    <2> SUFFICES ASSUME free(Append(q, key))
                 PROVE  Walked(h, b, u, M, Append(q, key), walk(h, b, Append(q, key)))
        BY AppendPath
    <2>1. free(q) /\ find(h, b, Append(q, key)) \notin 1..M
        BY AppendPath, PrefixAppend
    <2> QED BY <1>2, <2>1, WalkedAppend
  <1> HIDE DEF S
  <1>3. \A q \in Seq(Keys) : q \in S
      BY <1>1, <1>2, Find!InductiveSeqs DEF Path
  <1> QED BY <1>3 DEF S, Path

-----------------------------------------------------------------------------
(* setJSONField *)

(* The strict prefixes of a path are the prefixes of its front. *)
LEMMA StrictPrefixAppend ==
    ASSUME NEW q \in Path, NEW key \in Keys
    PROVE  \A o \in Path : IsStrictPrefix(o, Append(q, key)) <=> IsPrefix(o, q)
  <1> SUFFICES ASSUME NEW o \in Path PROVE IsStrictPrefix(o, Append(q, key)) <=> IsPrefix(o, q)
      OBVIOUS
  <1>1. IsPrefix(o, Append(q, key)) <=> IsPrefix(o, q) \/ o = Append(q, key)
      BY PrefixAppend
  <1>2. ~IsPrefix(Append(q, key), q)
      BY PrefixOrder
  <1> QED BY <1>1, <1>2 DEF IsStrictPrefix

(* The front and the last part of a path. *)
LEMMA FrontLast ==
    ASSUME NEW q \in Path, NEW key \in Keys
    PROVE  Front(Append(q, key)) = q /\ Last(Append(q, key)) = key
  <1>1. /\ Append(q, key) \in Seq(Keys) /\ Len(Append(q, key)) = Len(q) + 1 /\ Append(q, key)[Len(q) + 1] = key
        /\ \A i \in 1..Len(q) : Append(q, key)[i] = q[i]
      BY AppendProperties DEF Path
  <1>2. Len(q) \in Nat
      BY LenProperties DEF Path
  <1> DEFINE t == Append(q, key)
  <1> HIDE DEF t
  <1>3. t \in Seq(Keys) /\ Len(t) = Len(q) + 1 /\ t[Len(q) + 1] = key /\ \A i \in 1..Len(q) : t[i] = q[i]
      BY <1>1 DEF t
  <1>4. /\ SubSeq(t, 1, Len(q)) \in Seq(Keys) /\ Len(SubSeq(t, 1, Len(q))) = Len(q)
        /\ \A i \in 1..Len(q) : SubSeq(t, 1, Len(q))[i] = t[i]
    <2> DEFINE n == Len(q)
    <2>1. \A i \in 1..n : t[i] \in Keys
        BY <1>2, <1>3, ElementOfSeq
    <2>2. 1 \in Int /\ n \in Int
        BY <1>2
    <2>3. /\ SubSeq(t, 1, n) \in Seq(Keys) /\ Len(SubSeq(t, 1, n)) = IF 1 <= n THEN n - 1 + 1 ELSE 0
          /\ \A i \in 1..n - 1 + 1 : SubSeq(t, 1, n)[i] = t[1 + i - 1]
        BY <2>1, <2>2, SubSeqProperties
    <2> QED BY <1>2, <2>3
  <1>5. SubSeq(t, 1, Len(q)) = q
      BY <1>3, <1>4, SeqEqual DEF Path
  <1>6. Front(t) = q
      BY <1>2, <1>3, <1>5 DEF Front
  <1> QED BY <1>3, <1>6 DEF Last, t

(* Something above r, or in its place, gives way to the path to t. *)
ClearedBy(h, b, t, r) ==
    \E o \in Path : IsStrictPrefix(o, t) /\ IsPrefix(o, r) /\ find(h, b, o) \notin DOMAIN h

(* h2 is h with v put at t into the body b. *)
Place(h, b, M, t, v, h2) ==
    /\ Built(h2, b, M) /\ Still(h, h2, M) /\ Len(h) <= Len(h2)
    /\ \A s \in Path : find(h2, b, t \o s) = find(h, v, s)
    /\ \A r \in Path : IsStrictPrefix(r, t) => find(h2, b, r) \in New(M)
    /\ \A r \in Path : ~IsPrefix(t, r) /\ ~IsStrictPrefix(r, t) =>
          find(h2, b, r) = IF ClearedBy(h, b, t, r) THEN Absent ELSE find(h, b, r)

(***************************************************************************)
(* setJSONField (jsonpath.go:22-37): what is found at the path is the      *)
(* value, above it are maps, and all else stays or, where something that   *)
(* is no map gave way, is gone.                                            *)
(***************************************************************************)
THEOREM SetPlaces ==
    ASSUME NEW M, NEW h, NEW b, Built(h, b, M), NEW v, Value(h, v, b, M),
           NEW t \in Path, t # <<>>,
           \A o \in Path : IsStrictPrefix(o, t) => find(h, b, o) \notin 1..M
    PROVE  Place(h, b, M, t, v, setJSONField(h, b, t, v))
  <1>1. PICK q \in Path, key \in Keys : t = Append(q, key)
      BY PathCases
  <1> DEFINE a == walk(h, b, q)
             h2 == setJSONField(h, b, t, v)
  <1>2. \A o \in Path : IsStrictPrefix(o, t) <=> IsPrefix(o, q)
      BY <1>1, StrictPrefixAppend
  <1>3. Walked(h, b, v, M, q, a)
      BY <1>2, Walks
  <1> HIDE DEF a
  <1>4. /\ Built(a.h, b, M) /\ Still(h, a.h, M) /\ Len(h) <= Len(a.h)
        /\ a.cur = find(a.h, b, q)
        /\ a.cur \in DOMAIN a.h /\ a.cur \in New(M)
        /\ Value(a.h, v, b, M) /\ \A s \in Path : find(a.h, v, s) = find(h, v, s)
        /\ \A r \in Path : IsPrefix(r, q) => find(a.h, b, r) \in New(M)
        /\ \A r \in Path : ~IsPrefix(r, q) =>
              find(a.h, b, r) = IF Cleared(h, b, q, r) THEN Absent ELSE find(h, b, r)
      BY <1>3 DEF Walked
  <1>5. h2 = put(a.h, find(a.h, b, q), key, v)
    <2>1. Front(t) = q /\ Last(t) = key
        BY <1>1, FrontLast
    <2> QED BY <1>4, <2>1 DEF setJSONField, put, a
  <1> HIDE DEF h2
  <1>6. Built(h2, b, M) /\ Still(a.h, h2, M) /\ Len(h2) = Len(a.h)
      BY <1>4, <1>5, WriteBuilt
  <1>7. /\ \A r \in Path : ~IsPrefix(t, r) => find(h2, b, r) = find(a.h, b, r)
        /\ \A s \in Path : find(h2, b, t \o s) = find(a.h, v, s)
      BY <1>1, <1>4, <1>5, WriteFound
  <1>8. Still(h, h2, M) /\ Len(h) <= Len(h2)
      BY <1>4, <1>6 DEF Still
  <1>9. \A s \in Path : find(h2, b, t \o s) = find(h, v, s)
      BY <1>4, <1>7
  <1>10. ASSUME NEW r \in Path, IsStrictPrefix(r, t) PROVE find(h2, b, r) \in New(M)
    <2>1. IsPrefix(r, q)
        BY <1>2, <1>10
    <2>2. ~IsPrefix(t, r)
        BY <1>10, PrefixOrder DEF IsStrictPrefix
    <2> QED BY <1>4, <1>7, <2>1, <2>2
  <1>11. ASSUME NEW r \in Path, ~IsPrefix(t, r), ~IsStrictPrefix(r, t)
         PROVE  find(h2, b, r) = IF ClearedBy(h, b, t, r) THEN Absent ELSE find(h, b, r)
    <2>1. ~IsPrefix(r, q)
        BY <1>2, <1>11
    <2>2. Cleared(h, b, q, r) <=> ClearedBy(h, b, t, r)
        BY <1>2 DEF Cleared, ClearedBy
    <2> QED BY <1>4, <1>7, <1>11, <2>1, <2>2
  <1> QED BY <1>6, <1>8, <1>9, <1>10, <1>11 DEF Place, h2

-----------------------------------------------------------------------------
(* JSON texts, and their maps in a heap. *)

(* The maps of a text are a heap, in order. *)
LEMMA JsonFacts ==
    ASSUME NEW json, IsJson(json)
    PROVE  /\ IsHeap(json) /\ Ordered(json, Len(json)) /\ IsRef(json, 1) /\ 1 \in DOMAIN json
           /\ Len(json) \in Nat /\ DOMAIN json = 1..Len(json)
  <1>1. /\ json \in Seq([Keys -> Values]) /\ json # <<>> /\ Len(json) \in Nat /\ DOMAIN json = 1..Len(json)
        /\ \A i \in DOMAIN json, key \in Keys :
              json[i][key] \in Nat => json[i][key] \in (i + 1)..Len(json)
      BY LenProperties DEF IsJson
  <1>2. 1 \in DOMAIN json
      BY <1>1, EmptySeq
  <1>3. IsHeap(json)
      BY <1>1 DEF IsHeap
  <1>4. Ordered(json, Len(json))
      BY <1>1 DEF Ordered
  <1> QED BY <1>1, <1>2, <1>3, <1>4, ValueFacts DEF IsRef

(* Old maps lead down through later ones. *)
LEMMA OrderedFind ==
    ASSUME NEW h, IsHeap(h), NEW M, Ordered(h, M), NEW v \in Values, v \in Nat => v \in 1..M
    PROVE  \A p \in Path : /\ find(h, v, p) \in Values
                           /\ find(h, v, p) \in Nat => find(h, v, p) \in 1..M
                           /\ find(h, v, p) \in Nat => v \in Nat /\ (p = <<>> \/ find(h, v, p) > v)
  <1> DEFINE good(p) == /\ find(h, v, p) \in Values
                        /\ find(h, v, p) \in Nat => find(h, v, p) \in 1..M
                        /\ find(h, v, p) \in Nat => v \in Nat /\ (p = <<>> \/ find(h, v, p) > v)
             S == {p \in Path : good(p)}
  <1>1. <<>> \in S
      BY FindEmpty, EmptyPath
  <1>2. ASSUME NEW p \in Path, NEW key \in Keys, p \in S PROVE Append(p, key) \in S
    <2> DEFINE f == find(h, v, p)
               e == find(h, v, Append(p, key))
    <2>1. e = entry(h, f, key)
        BY FindAppend
    <2>2. /\ f \in Values /\ (f \in Nat => f \in 1..M)
          /\ f \in Nat => v \in Nat /\ (p = <<>> \/ f > v)
        BY <1>2
    <2>3. p = <<>> => f = v
        BY FindEmpty
    <2>4. Len(h) \in Nat /\ DOMAIN h = 1..Len(h) /\ M \in 0..Len(h)
        BY HeapFacts DEF Ordered
    <2> HIDE DEF e, f
    <2>5. CASE f \in DOMAIN h
      <3>1. e = h[f][key] /\ e \in Values
          BY <2>1, <2>5, HeapFacts DEF entry, IsRef
      <3>2. f \in 1..M
          BY <2>2, <2>4, <2>5
      <3>3. e \in Nat => e \in (f + 1)..M
          BY <3>1, <3>2 DEF Ordered
      <3>4. f \in Nat /\ v \in Nat /\ v <= f
          BY <2>2, <2>3, <3>2
      <3>5. e \in Nat => e \in 1..M /\ e > v
          BY <2>4, <3>3, <3>4
      <3> QED BY <3>1, <3>4, <3>5, AppendPath DEF e
    <2>6. CASE f \notin DOMAIN h
      <3>1. e = Absent
          BY <2>1, <2>6 DEF entry
      <3> QED BY <3>1, ValueFacts, AppendPath DEF e
    <2> QED BY <2>5, <2>6
  <1> HIDE DEF S
  <1>3. \A p \in Seq(Keys) : p \in S
      BY <1>1, <1>2, Find!InductiveSeqs DEF Path
  <1> QED BY <1>3 DEF S, Path

(* No two paths of a text lead to the same map. *)
LEMMA JsonTree ==
    ASSUME NEW json, IsJson(json)
    PROVE  \A p, q \in Path : find(json, 1, p) \in Nat /\ find(json, 1, q) = find(json, 1, p) => p = q
  <1> DEFINE S == {p \in Path : \A q \in Path :
                      find(json, 1, p) \in Nat /\ find(json, 1, q) = find(json, 1, p) => p = q}
  <1>1. /\ IsHeap(json) /\ Ordered(json, Len(json)) /\ IsRef(json, 1) /\ 1 \in DOMAIN json
        /\ Len(json) \in Nat /\ DOMAIN json = 1..Len(json)
      BY JsonFacts
  <1>2. \A p \in Path : p # <<>> /\ find(json, 1, p) \in Nat => find(json, 1, p) > 1
    <2>1. 1 \in Values /\ 1 \in 1..Len(json)
        BY <1>1, ValueFacts
    <2> QED BY <1>1, <2>1, OrderedFind
  <1>3. <<>> \in S
    <2>1. \A q \in Path : find(json, 1, q) = 1 => q = <<>>
        BY <1>2
    <2> QED BY <2>1, EmptyPath, FindEmpty
  <1>4. ASSUME NEW p \in Path, NEW key \in Keys, p \in S PROVE Append(p, key) \in S
    <2> DEFINE t == Append(p, key)
    <2> SUFFICES ASSUME NEW q \in Path, find(json, 1, t) \in Nat, find(json, 1, q) = find(json, 1, t)
                 PROVE  t = q
        BY AppendPath
    <2>1. t \in Path /\ t # <<>>
        BY AppendPath
    <2>2. q # <<>>
      <3>1. find(json, 1, t) > 1 /\ find(json, 1, <<>>) = 1
          BY <1>2, <2>1, FindEmpty
      <3> QED BY <3>1
    <2>3. PICK r \in Path, last \in Keys : q = Append(r, last)
        BY <2>2, PathCases
    <2> DEFINE i == find(json, 1, p)
               j == find(json, 1, r)
    <2>4. find(json, 1, t) = entry(json, i, key) /\ find(json, 1, q) = entry(json, j, last)
        BY <2>3, FindAppend
    <2> HIDE DEF i, j
    <2>5. /\ i \in DOMAIN json /\ j \in DOMAIN json /\ json[i][key] \in Nat
          /\ json[i][key] = json[j][last]
      <3> HIDE DEF t
      <3> QED BY <2>4, ValueFacts DEF entry
    <2>6. i = j /\ key = last
        BY <2>5 DEF IsJson
    <2>7. i \in Nat
        BY <1>1, <2>5
    <2>8. p = r
        BY <1>4, <2>6, <2>7 DEF i, j
    <2> QED BY <2>3, <2>6, <2>8
  <1> HIDE DEF S
  <1>5. \A p \in Seq(Keys) : p \in S
      BY <1>3, <1>4, Find!InductiveSeqs DEF Path
  <1> QED BY <1>5 DEF S, Path

(* Where a map of a text is when the text has been loaded after n other maps. *)
moved(n, v) == IF v \in Nat THEN v + n ELSE v

(* json.Unmarshal adds the maps of the text, and leaves the others alone. *)
LEMMA LoadHeap ==
    ASSUME NEW h, IsHeap(h), NEW json, IsJson(json)
    PROVE  LET h2 == load(h, json)
           IN  /\ IsHeap(h2) /\ Extends(h, h2) /\ Len(h2) = Len(h) + Len(json)
               /\ \A i \in DOMAIN json, key \in Keys : h2[i + Len(h)][key] = moved(Len(h), json[i][key])
  <1> DEFINE h2 == load(h, json)
             n == Len(h)
             X == [Keys -> Values]
             js == [i \in DOMAIN json |-> [key \in Keys |->
                       IF json[i][key] \in DOMAIN json THEN json[i][key] + n ELSE json[i][key]]]
  <1>1. h \in Seq(X) /\ n \in Nat /\ DOMAIN h = 1..n
      BY HeapFacts DEF IsHeap
  <1>2. Len(json) \in Nat /\ DOMAIN json = 1..Len(json) /\ IsHeap(json)
      BY JsonFacts
  <1>3. \A i \in DOMAIN json, key \in Keys : IsRef(json, json[i][key])
      BY <1>2, HeapFacts
  <1>4. ASSUME NEW i \in DOMAIN json
        PROVE  js[i] \in X /\ \A key \in Keys : js[i][key] = moved(n, json[i][key])
    <2>1. \A key \in Keys : js[i][key] = moved(n, json[i][key])
        BY <1>2, <1>3 DEF moved, IsRef
    <2>2. \A key \in Keys : js[i][key] \in Values
        BY <1>1, <1>3, <2>1, ValueFacts DEF moved, IsRef
    <2> QED BY <2>1, <2>2
  <1>5. js \in Seq(X) /\ Len(js) = Len(json)
    <2>1. js \in [1..Len(json) -> X]
      <3>1. \A i \in 1..Len(json) : js[i] \in X
          BY <1>2, <1>4
      <3> HIDE DEF X
      <3> QED BY <1>2, <3>1
    <2> HIDE DEF js, X
    <2>2. js \in Seq(X) /\ DOMAIN js = 1..Len(json)
        BY <1>2, <2>1, SeqDef
    <2>3. DOMAIN js = 1..Len(js) /\ Len(js) \in Nat
        BY <2>2, LenProperties
    <2> QED BY <1>2, <2>2, <2>3
  <1>6. h2 = h \o js
      BY DEF load
  <1> HIDE DEF js, X, h2
  <1>7. /\ h2 \in Seq(X) /\ Len(h2) = n + Len(json)
        /\ \A i \in 1..(n + Len(json)) : h2[i] = IF i <= n THEN h[i] ELSE js[i - n]
    <2>1. /\ h \o js \in Seq(X) /\ Len(h \o js) = Len(h) + Len(js)
          /\ \A i \in 1..(Len(h) + Len(js)) : (h \o js)[i] = IF i <= Len(h) THEN h[i] ELSE js[i - Len(h)]
        BY <1>1, <1>5, ConcatProperties
    <2> QED BY <1>5, <1>6, <2>1
  <1>8. DOMAIN h2 = 1..(n + Len(json))
      BY <1>7, LenProperties
  <1>9. ASSUME NEW i \in DOMAIN json, NEW key \in Keys PROVE h2[i + n][key] = moved(n, json[i][key])
    <2>1. i + n \in 1..(n + Len(json)) /\ ~(i + n <= n) /\ (i + n) - n = i
        BY <1>1, <1>2
    <2> QED BY <1>4, <1>7, <2>1
  <1>10. ASSUME NEW i \in DOMAIN h2, NEW key \in Keys, h2[i][key] \in Nat PROVE h2[i][key] \in DOMAIN h2
    <2>1. CASE i <= n
      <3>1. i \in DOMAIN h /\ h2[i] = h[i]
          BY <1>1, <1>7, <1>8, <2>1
      <3>2. h[i][key] \in DOMAIN h
          BY <1>10, <3>1 DEF IsHeap
      <3> QED BY <1>1, <1>2, <1>8, <3>1, <3>2
    <2>2. CASE ~(i <= n)
      <3> DEFINE o == i - n
      <3>1. o \in DOMAIN json /\ i = o + n
          BY <1>1, <1>2, <1>8, <2>2
      <3> HIDE DEF o
      <3>2. h2[i][key] = moved(n, json[o][key]) /\ IsRef(json, json[o][key])
          BY <1>3, <1>9, <3>1
      <3> QED BY <1>1, <1>2, <1>8, <1>10, <3>2 DEF moved, IsRef
    <2> QED BY <2>1, <2>2
  <1>11. IsHeap(h2)
      BY <1>7, <1>10 DEF IsHeap, X
  <1>12. Extends(h, h2)
      BY <1>1, <1>2, <1>7 DEF Extends
  <1> QED BY <1>7, <1>9, <1>11, <1>12 DEF h2

(* What is found in a text is found in the maps it was loaded into. *)
LEMMA LoadFind ==
    ASSUME NEW h, IsHeap(h), NEW json, IsJson(json)
    PROVE  \A p \in Path : find(load(h, json), Len(h) + 1, p) = moved(Len(h), find(json, 1, p))
  <1> DEFINE h2 == load(h, json)
             n == Len(h)
             S == {p \in Path : find(h2, n + 1, p) = moved(n, find(json, 1, p))}
  <1>1. /\ IsHeap(h2) /\ Len(h2) = n + Len(json)
        /\ \A i \in DOMAIN json, key \in Keys : h2[i + n][key] = moved(n, json[i][key])
      BY LoadHeap
  <1> HIDE DEF h2
  <1>2. n \in Nat /\ DOMAIN h2 = 1..(n + Len(json))
      BY <1>1, HeapFacts
  <1> HIDE DEF n
  <1>3. /\ IsHeap(json) /\ IsRef(json, 1) /\ Len(json) \in Nat /\ DOMAIN json = 1..Len(json)
      BY JsonFacts
  <1>4. <<>> \in S
    <2>1. find(h2, n + 1, <<>>) = n + 1 /\ find(json, 1, <<>>) = 1
        BY FindEmpty
    <2> QED BY <1>2, <2>1, EmptyPath DEF moved
  <1>5. ASSUME NEW p \in Path, NEW key \in Keys, p \in S PROVE Append(p, key) \in S
    <2> DEFINE v == find(json, 1, p)
    <2>1. find(h2, n + 1, Append(p, key)) = entry(h2, moved(n, v), key)
        BY <1>5, FindAppend
    <2>2. find(json, 1, Append(p, key)) = entry(json, v, key)
        BY FindAppend
    <2>3. IsRef(json, v)
        BY <1>3, FindTyped
    <2> HIDE DEF v
    <2>4. CASE v \in DOMAIN json
      <3>1. moved(n, v) = v + n /\ v + n \in DOMAIN h2
          BY <1>2, <1>3, <2>4 DEF moved
      <3> QED BY <1>1, <2>1, <2>2, <2>4, <3>1, AppendPath DEF entry
    <2>5. CASE v \notin DOMAIN json
      <3>1. moved(n, v) = v /\ v \notin DOMAIN h2
          BY <1>2, <2>3, <2>5 DEF moved, IsRef
      <3>2. moved(n, Absent) = Absent
          BY ValueFacts DEF moved
      <3> QED BY <2>1, <2>2, <2>5, <3>1, <3>2, AppendPath DEF entry
    <2> QED BY <2>4, <2>5
  <1> HIDE DEF S
  <1>6. \A p \in Seq(Keys) : p \in S
      BY <1>4, <1>5, Find!InductiveSeqs DEF Path
  <1> QED BY <1>6 DEF S, Path, h2, n

(* It looks the same there. *)
LEMMA MovedFacts ==
    ASSUME NEW n \in Nat, NEW u \in Values
    PROVE  /\ show(moved(n, u)) = show(u)
           /\ moved(n, u) \in Nat <=> u \in Nat
           /\ u \in Nat => moved(n, u) = u + n
  BY DEF show, moved

-----------------------------------------------------------------------------
(* Views. *)

(* The paths of a view. *)
LEMMA PathsAre == Paths = {p \in Path : Len(p) <= Depth}
  <1>1. Depth \in Nat
      BY JsonPathAssumption
  <1>2. ASSUME NEW p \in Paths PROVE p \in Path /\ Len(p) <= Depth
    <2>1. PICK n \in 0..Depth : p \in [1..n -> Keys]
        BY DEF Paths
    <2>2. n \in Nat /\ n <= Depth
        BY <1>1, <2>1
    <2>3. p \in Seq(Keys) /\ DOMAIN p = 1..n
        BY <2>1, <2>2, SeqDef
    <2>4. DOMAIN p = 1..Len(p) /\ Len(p) \in Nat
        BY <2>3, LenProperties
    <2>5. Len(p) = n
        BY <2>2, <2>3, <2>4
    <2> QED BY <2>2, <2>3, <2>5 DEF Path
  <1>3. ASSUME NEW p \in Path, Len(p) <= Depth PROVE p \in Paths
    <2>1. Len(p) \in 0..Depth /\ p \in [1..Len(p) -> Keys]
        BY <1>1, <1>3, LenProperties DEF Path
    <2> QED BY <2>1 DEF Paths
  <1> QED BY <1>2, <1>3

(* Maps are seen as objects, leaves as themselves. *)
LEMMA ShowFacts ==
    /\ \A u \in Nat : show(u) = Object
    /\ \A u \in Values : /\ u \notin Nat <=> show(u) # Object
                         /\ show(u) = Absent <=> u = Absent
    /\ show(Absent) = Absent
  BY ValueFacts DEF show

(* A view is what is seen of all that is found. *)
LEMMA ViewIs ==
    ASSUME NEW h, IsHeap(h), NEW d, IsRef(h, d)
    PROVE  view(h, d) = [p \in Paths |-> show(find(h, d, p))]
  <1>1. ASSUME NEW p \in Paths
        PROVE  show(find(h, d, p)) =
               LET v == getJSONField(h, d, p) IN IF v \in DOMAIN h THEN Object ELSE v
    <2>1. IsRef(h, find(h, d, p))
        BY PathsAre, FindTyped
    <2>2. find(h, d, p) \in DOMAIN h <=> find(h, d, p) \in Nat
        BY <2>1, HeapFacts DEF IsRef
    <2> QED BY <2>2 DEF show, find
  <1> QED BY <1>1 DEF view

(* Outputs end where the views do. *)
LEMMA TooDeep ==
    ASSUME NEW s \in Sources
    PROVE  \A p \in Path : Len(p) > Depth => find(Output[s], 1, p) = Absent
  <1> DEFINE S == {p \in Path : Len(p) > Depth => find(Output[s], 1, p) = Absent}
  <1>1. Depth \in Nat /\ \A p \in [1..(Depth + 1) -> Keys] : find(Output[s], 1, p) = Absent
      BY JsonPathAssumption DEF find
  <1>2. <<>> \in S
      BY <1>1, EmptyPath, EmptySeq
  <1>3. ASSUME NEW p \in Path, NEW key \in Keys, p \in S PROVE Append(p, key) \in S
    <2> SUFFICES ASSUME Len(Append(p, key)) > Depth PROVE find(Output[s], 1, Append(p, key)) = Absent
        BY AppendPath
    <2>1. Len(Append(p, key)) = Len(p) + 1 /\ Len(p) \in Nat
        BY AppendProperties, LenProperties DEF Path
    <2>2. CASE Len(p) = Depth
      <3>1. Append(p, key) \in [1..Len(Append(p, key)) -> Keys]
          BY AppendPath, LenProperties DEF Path
      <3> QED BY <1>1, <2>1, <2>2, <3>1
    <2>3. CASE Len(p) > Depth
      <3>1. find(Output[s], 1, p) = Absent
          BY <1>3, <2>3
      <3>2. IsHeap(Output[s])
          BY JsonPathAssumption, JsonFacts
      <3>3. Absent \notin DOMAIN Output[s]
          BY <3>2, HeapFacts, ValueFacts
      <3> QED BY <3>1, <3>3, FindAppend DEF entry
    <2> QED BY <1>1, <2>1, <2>2, <2>3
  <1> HIDE DEF S
  <1>4. \A p \in Seq(Keys) : p \in S
      BY <1>2, <1>3, Find!InductiveSeqs DEF Path
  <1> QED BY <1>4 DEF S, Path

(* What Below says of an output's view. *)
LEMMA BelowIs ==
    ASSUME NEW s \in Sources, NEW f \in Path
    PROVE  \A r \in Paths : Below(view(Output[s], 1), f)[r] = show(find(Output[s], 1, f \o r))
  <1> SUFFICES ASSUME NEW r \in Paths
               PROVE  Below(view(Output[s], 1), f)[r] = show(find(Output[s], 1, f \o r))
      OBVIOUS
  <1>1. IsHeap(Output[s]) /\ IsRef(Output[s], 1)
      BY JsonPathAssumption, JsonFacts
  <1>2. f \o r \in Path /\ Len(f \o r) \in Nat /\ Depth \in Nat
      BY PathsAre, ConcatPath, LenProperties, JsonPathAssumption DEF Path
  <1>3. CASE f \o r \in Paths
      BY <1>1, <1>3, ViewIs DEF Below
  <1>4. CASE f \o r \notin Paths
    <2>1. find(Output[s], 1, f \o r) = Absent
      <3>1. Len(f \o r) > Depth
          BY <1>2, <1>4, PathsAre
      <3> QED BY <1>2, <3>1, TooDeep
    <2> QED BY <1>4, <2>1, ShowFacts DEF Below
  <1> QED BY <1>3, <1>4

-----------------------------------------------------------------------------
(* The value that a mapping takes. *)

(* The lower parts of equal paths. *)
LEMMA ConcatInjective ==
    ASSUME NEW f \in Path, NEW p \in Path, NEW q \in Path, f \o p = f \o q
    PROVE  p = q
  <1>1. SubSeq(f \o p, Len(f) + 1, Len(f \o p)) = p
      BY RestIs
  <1>2. SubSeq(f \o q, Len(f) + 1, Len(f \o q)) = q
      BY RestIs
  <1> QED BY <1>1, <1>2

(* A source's output has been loaded among the old maps, with the root r. *)
Loaded(h, M, r, json) ==
    r \in 1..M /\ \A p \in Path : show(find(h, r, p)) = show(find(json, 1, p))

(* v is what the field f of the output of s is. *)
FieldValue(h, v, b, M, s, f) ==
    Value(h, v, b, M) /\ \A p \in Path : show(find(h, v, p)) = show(find(Output[s], 1, f \o p))

(* What is found in an output. *)
LEMMA OutputFind ==
    ASSUME NEW s \in Sources
    PROVE  /\ IsJson(Output[s]) /\ IsHeap(Output[s]) /\ Len(Output[s]) \in Nat
           /\ \A p \in Path : /\ find(Output[s], 1, p) \in Values
                              /\ find(Output[s], 1, p) \in Nat => find(Output[s], 1, p) \in 1..Len(Output[s])
  <1>1. IsJson(Output[s])
      BY JsonPathAssumption
  <1>2. /\ IsHeap(Output[s]) /\ IsRef(Output[s], 1) /\ Len(Output[s]) \in Nat
        /\ DOMAIN Output[s] = 1..Len(Output[s])
      BY <1>1, JsonFacts
  <1>3. \A p \in Path : IsRef(Output[s], find(Output[s], 1, p))
      BY <1>2, FindTyped
  <1> QED BY <1>1, <1>2, <1>3 DEF IsRef

(***************************************************************************)
(* httptask_controller.go:95-101: a value from an output that has just     *)
(* been parsed shares nothing with the body.                               *)
(***************************************************************************)
LEMMA FreshValue ==
    ASSUME NEW M, NEW h, NEW b, Built(h, b, M), NEW s \in Sources, NEW f \in Path,
           NEW h2, h2 = load(h, Output[s]), NEW v, v = find(h2, Len(h) + 1, f)
    PROVE  /\ Built(h2, b, M) /\ Still(h, h2, M) /\ Len(h) <= Len(h2)
           /\ \A p \in Path : find(h2, b, p) = find(h, b, p)
           /\ FieldValue(h2, v, b, M, s, f)
           /\ \A p \in Path : find(h2, v, p) \notin 1..M
  <1> DEFINE n == Len(h)
             u(p) == find(Output[s], 1, f \o p)
  <1>1. IsHeap(h) /\ Len(h) \in Nat /\ DOMAIN h = 1..Len(h) /\ IsRef(h, b) /\ M \in 0..n
      BY HeapFacts, ValueFacts DEF Built, Ordered, IsRef
  <1>2. /\ IsJson(Output[s]) /\ Len(Output[s]) \in Nat
        /\ \A p \in Path : u(p) \in Values /\ (u(p) \in Nat => u(p) \in 1..Len(Output[s]))
      BY OutputFind, ConcatPath
  <1>3. IsHeap(h2) /\ Extends(h, h2) /\ Len(h2) = n + Len(Output[s])
      BY <1>1, <1>2, LoadHeap
  <1>4. DOMAIN h2 = 1..(n + Len(Output[s]))
      BY <1>3, HeapFacts
  <1>5. Built(h2, b, M) /\ Still(h, h2, M) /\ \A p \in Path : find(h2, b, p) = find(h, b, p)
      BY <1>3, GrownBuilt
  <1>6. ASSUME NEW p \in Path PROVE find(h2, v, p) = moved(n, u(p))
    <2>1. f \o p \in Path
        BY ConcatPath
    <2>2. find(h2, v, p) = find(h2, n + 1, f \o p)
        BY FindConcat
    <2> QED BY <1>1, <1>2, <2>1, <2>2, LoadFind
  <1>7. ASSUME NEW p \in Path
        PROVE  /\ show(find(h2, v, p)) = show(u(p))
               /\ find(h2, v, p) \in Nat <=> u(p) \in Nat
               /\ u(p) \in Nat => find(h2, v, p) = u(p) + n /\ find(h2, v, p) > n
    <2>1. u(p) \in Values /\ (u(p) \in Nat => u(p) \in 1..Len(Output[s]))
        BY <1>2
    <2>2. find(h2, v, p) = moved(n, u(p))
        BY <1>6
    <2> HIDE DEF u
    <2>3. n \in Nat
        BY <1>1
    <2>4. /\ show(moved(n, u(p))) = show(u(p)) /\ (moved(n, u(p)) \in Nat <=> u(p) \in Nat)
          /\ u(p) \in Nat => moved(n, u(p)) = u(p) + n
        BY <2>1, <2>3, MovedFacts
    <2>5. u(p) \in Nat => u(p) + n > n
        BY <2>1, <2>3
    <2> QED BY <2>2, <2>4, <2>5
  <1> HIDE DEF n
  <1>8. v = find(h2, v, <<>>)
      BY FindEmpty
  <1>9. IsRef(h2, v)
    <2>1. u(<<>>) \in Values /\ (u(<<>>) \in Nat => u(<<>>) \in 1..Len(Output[s])) /\ v = moved(n, u(<<>>))
        BY <1>2, <1>6, <1>8, EmptyPath
    <2> HIDE DEF u
    <2> QED BY <1>1, <1>4, <2>1, ValueFacts DEF IsRef, moved, n
  <1>10. Alone(h2, v, M)
    <2> SUFFICES ASSUME NEW p \in Path, NEW q \in Path,
                        find(h2, v, p) \in New(M), find(h2, v, q) = find(h2, v, p)
                 PROVE  p = q
        BY DEF Alone
    <2>1. u(p) \in Nat /\ u(q) \in Nat
        BY <1>7 DEF New
    <2>2. u(p) = u(q)
      <3>1. find(h2, v, p) = u(p) + n /\ find(h2, v, q) = u(q) + n
          BY <1>7, <2>1
      <3> HIDE DEF u
      <3> QED BY <1>1, <2>1, <3>1 DEF n
    <2>3. f \o p \in Path /\ f \o q \in Path
        BY ConcatPath
    <2>4. f \o p = f \o q
        BY <1>2, <2>1, <2>2, <2>3, JsonTree
    <2> QED BY <2>4, ConcatInjective
  <1>11. Apart(h2, b, v, M)
    <2> SUFFICES ASSUME NEW p \in Path, NEW q \in Path, find(h2, v, p) \in New(M)
                 PROVE  find(h2, b, q) # find(h2, v, p)
        BY DEF Apart
    <2>1. find(h2, v, p) \in Nat /\ find(h2, v, p) > n
        BY <1>7 DEF New
    <2>2. find(h2, b, q) = find(h, b, q) /\ IsRef(h, find(h, b, q))
        BY <1>1, <1>5, FindTyped
    <2> QED BY <1>1, <2>1, <2>2 DEF IsRef, n
  <1>12. ASSUME NEW p \in Path PROVE find(h2, v, p) \notin 1..M
      BY <1>1, <1>7 DEF n
  <1>13. Len(h) <= Len(h2)
      BY <1>1, <1>2, <1>3 DEF n
  <1> QED BY <1>5, <1>7, <1>9, <1>10, <1>11, <1>12, <1>13 DEF FieldValue, Value

(* fn.go:219-226: a value from an output that is kept is one of the old maps. *)
LEMMA SharedValue ==
    ASSUME NEW M, NEW h, NEW b, Built(h, b, M), NEW s \in Sources, NEW f \in Path,
           NEW r, Loaded(h, M, r, Output[s])
    PROVE  FieldValue(h, find(h, r, f), b, M, s, f)
  <1> DEFINE v == find(h, r, f)
  <1>1. IsHeap(h) /\ Ordered(h, M) /\ Len(h) \in Nat /\ DOMAIN h = 1..Len(h)
      BY HeapFacts DEF Built
  <1>2. r \in Values /\ r \in 1..M
      BY ValueFacts DEF Loaded
  <1>3. \A p \in Path : find(h, r, p) \in Values /\ (find(h, r, p) \in Nat => find(h, r, p) \in 1..M)
      BY <1>1, <1>2, OrderedFind
  <1>4. \A p \in Path : find(h, v, p) = find(h, r, f \o p) /\ f \o p \in Path
      BY FindConcat, ConcatPath
  <1>5. \A p \in Path : find(h, v, p) \notin New(M)
      BY <1>1, <1>3, <1>4 DEF New, Ordered
  <1>6. IsRef(h, v)
      BY <1>1, <1>3 DEF IsRef, Ordered
  <1>7. Value(h, v, b, M)
      BY <1>5, <1>6 DEF Value, Alone, Apart
  <1>8. \A p \in Path : show(find(h, v, p)) = show(find(Output[s], 1, f \o p))
      BY <1>4 DEF Loaded
  <1> QED BY <1>7, <1>8 DEF FieldValue

(* h is the heap in which v is the value that m takes. *)
Taken(shared, roots, M, at, m, h, v) ==
    /\ Built(h, at.body, M) /\ Still(at.h, h, M) /\ Len(at.h) <= Len(h)
    /\ \A p \in Path : find(h, at.body, p) = find(at.h, at.body, p)
    /\ FieldValue(h, v, at.body, M, m.source, m.field)
    /\ \A p \in Path : find(h, v, p) \in 1..M => shared
    /\ merge(shared, roots, at, m) =
          IF ~at.ok \/ v = Absent THEN [h |-> at.h, body |-> at.body, ok |-> FALSE]
          ELSE [h |-> setJSONField(h, at.body, m.target, v), body |-> at.body, ok |-> TRUE]

(* Each builder sets what it takes, or fails if there is no such field. *)
LEMMA MergeValue ==
    ASSUME NEW M, NEW at, Built(at.h, at.body, M), NEW m \in Mapping, NEW shared \in BOOLEAN, NEW roots,
           shared => Loaded(at.h, M, roots[m.source], Output[m.source])
    PROVE  \E h, v : Taken(shared, roots, M, at, m, h, v)
  <1>1. m.source \in Sources /\ m.field \in Path
      BY DEF Mapping, Path
  <1>2. CASE shared
    <2> DEFINE v == find(at.h, roots[m.source], m.field)
    <2>1. FieldValue(at.h, v, at.body, M, m.source, m.field)
        BY <1>1, <1>2, SharedValue
    <2>2. Len(at.h) \in Nat
        BY HeapFacts DEF Built
    <2>3. merge(shared, roots, at, m) =
                      IF ~at.ok \/ v = Absent THEN [h |-> at.h, body |-> at.body, ok |-> FALSE]
                      ELSE [h |-> setJSONField(at.h, at.body, m.target, v), body |-> at.body, ok |-> TRUE]
        BY <1>2 DEF merge, find
    <2> HIDE DEF v
    <2>4. Still(at.h, at.h, M) /\ Len(at.h) <= Len(at.h)
        BY <2>2 DEF Still
    <2>5. Taken(shared, roots, M, at, m, at.h, v)
        BY <1>2, <2>1, <2>3, <2>4 DEF Taken
    <2> QED BY <2>5
  <1>3. CASE ~shared
    <2> DEFINE h == load(at.h, Output[m.source])
               v == find(h, Len(at.h) + 1, m.field)
    <2>1. merge(shared, roots, at, m) =
                      IF ~at.ok \/ v = Absent THEN [h |-> at.h, body |-> at.body, ok |-> FALSE]
                      ELSE [h |-> setJSONField(h, at.body, m.target, v), body |-> at.body, ok |-> TRUE]
        BY <1>3 DEF merge, find
    <2> HIDE DEF h
    <2>2. h = load(at.h, Output[m.source])
        BY DEF h
    <2> HIDE DEF v
    <2>3. v = find(h, Len(at.h) + 1, m.field)
        BY DEF v
    <2>4. /\ Built(h, at.body, M) /\ Still(at.h, h, M) /\ Len(at.h) <= Len(h)
          /\ \A p \in Path : find(h, at.body, p) = find(at.h, at.body, p)
          /\ FieldValue(h, v, at.body, M, m.source, m.field)
          /\ \A p \in Path : find(h, v, p) \notin 1..M
        BY <1>1, <2>2, <2>3, FreshValue
    <2>5. Taken(shared, roots, M, at, m, h, v)
        BY <2>1, <2>4 DEF Taken
    <2> QED BY <2>5
  <1> QED BY <1>2, <1>3

-----------------------------------------------------------------------------
(* A body with a field in its place. *)

(* A body with a value in its place reads as the reference says. *)
LEMMA SplicedView ==
    ASSUME NEW M, NEW h, NEW b, Built(h, b, M), NEW t \in Path, NEW v, NEW h2, Place(h, b, M, t, v, h2),
           NEW s \in Sources, NEW f \in Path, FieldValue(h, v, b, M, s, f),
           NEW w, \A p \in Paths : w[p] = show(find(h, b, p))
    PROVE  \A p \in Paths : Spliced(w, t, Below(view(Output[s], 1), f))[p] = show(find(h2, b, p))
  <1> DEFINE val == Below(view(Output[s], 1), f)
             gone(p) == \E q \in Paths : IsStrictPrefix(q, t) /\ w[q] # Object /\ IsPrefix(q, p)
  <1> SUFFICES ASSUME NEW p \in Paths PROVE Spliced(w, t, val)[p] = show(find(h2, b, p))
      OBVIOUS
  <1>1. Spliced(w, t, val)[p] =
           IF IsPrefix(t, p) THEN val[SubSeq(p, Len(t) + 1, Len(p))]
           ELSE IF IsStrictPrefix(p, t) THEN Object
           ELSE IF gone(p) THEN Absent ELSE w[p]
    <2> HIDE DEF val
    <2> QED BY DEF Spliced
  <1>2. p \in Path /\ Len(p) \in Nat /\ Len(p) <= Depth /\ Depth \in Nat
      BY PathsAre, LenProperties, JsonPathAssumption DEF Path
  <1>3. CASE IsPrefix(t, p)
    <2>1. PICK r \in Path : p = t \o r
        BY <1>2, <1>3, PrefixIs
    <2>2. SubSeq(p, Len(t) + 1, Len(p)) = r /\ Len(p) = Len(t) + Len(r)
        BY <2>1, RestIs
    <2>3. r \in Paths
      <3>1. Len(t) \in Nat /\ Len(r) \in Nat
          BY LenProperties DEF Path
      <3> QED BY <1>2, <2>2, <3>1, PathsAre
    <2>4. val[r] = show(find(Output[s], 1, f \o r))
        BY <2>3, BelowIs
    <2>5. find(h2, b, p) = find(h, v, r)
        BY <2>1 DEF Place
    <2>6. show(find(h, v, r)) = show(find(Output[s], 1, f \o r))
        BY DEF FieldValue
    <2> HIDE DEF val
    <2> QED BY <1>1, <1>3, <2>2, <2>4, <2>5, <2>6
  <1> HIDE DEF val
  <1>4. CASE ~IsPrefix(t, p) /\ IsStrictPrefix(p, t)
    <2>1. find(h2, b, p) \in Nat
        BY <1>2, <1>4 DEF Place, New
    <2> QED BY <1>1, <1>4, <2>1, ShowFacts
  <1>5. CASE ~IsPrefix(t, p) /\ ~IsStrictPrefix(p, t)
    <2>1. find(h2, b, p) = IF ClearedBy(h, b, t, p) THEN Absent ELSE find(h, b, p)
        BY <1>2, <1>5 DEF Place
    <2>2. \A q \in Path : find(h, b, q) \notin DOMAIN h <=> show(find(h, b, q)) # Object
      <3>1. IsHeap(h) /\ IsRef(h, b)
          BY ValueFacts DEF Built, New, IsRef
      <3>2. DOMAIN h \subseteq Nat
          BY <3>1, HeapFacts
      <3>3. \A q \in Path : IsRef(h, find(h, b, q))
          BY <3>1, FindTyped
      <3> QED BY <3>2, <3>3, ShowFacts DEF IsRef
    <2>3. \A q \in Path : IsPrefix(q, p) => q \in Paths
      <3> SUFFICES ASSUME NEW q \in Path, IsPrefix(q, p) PROVE q \in Paths
          OBVIOUS
      <3>1. Len(q) \in Nat /\ Len(q) <= Len(p)
          BY LenProperties DEF Path, IsPrefix
      <3> QED BY <1>2, <3>1, PathsAre
    <2>4. Paths \subseteq Path
        BY PathsAre
    <2>5. ClearedBy(h, b, t, p) <=> gone(p)
        BY <2>2, <2>3, <2>4 DEF ClearedBy
    <2> QED BY <1>1, <1>5, <2>1, <2>5, ShowFacts
  <1> QED BY <1>3, <1>4, <1>5

-----------------------------------------------------------------------------
(* All mappings of a task. *)

merges(c, base, ms) == FoldLeft(LAMBDA at, m : merge(c.shared, c.roots, at, m), base, ms)

spliceIn(c, v, m) == Spliced(v, m.target, Below(view(Output[m.source], 1), m.field))

splices(w, ms) ==
    FoldLeft(LAMBDA v, m : Spliced(v, m.target, Below(view(Output[m.source], 1), m.field)), w, ms)

Splice == INSTANCE FoldLaws WITH op <- spliceIn

(* The loop over the mappings folds them ... *)
LEMMA MergesIsFold == ASSUME NEW c, NEW base, NEW ms PROVE merges(c, base, ms) = Merge!fold(c, base, ms)
  BY DEF merges, FoldLeft, MapThenFoldSet, Max, mergeIn,
         Merge!fold, Merge!FoldLeft, Merge!MapThenFoldSet, Merge!Max

(* ... from the input ... *)
LEMMA MergesEmpty == \A c, base : merges(c, base, <<>>) = base
  BY MergesIsFold, Merge!FoldEmpty

(* ... and so that the last one is merged last. *)
LEMMA MergesAppend ==
    ASSUME NEW c, NEW base, NEW ms \in Seq(Mapping), NEW m \in Mapping
    PROVE  merges(c, base, Append(ms, m)) = merge(c.shared, c.roots, merges(c, base, ms), m)
  <1>1. Merge!fold(c, base, Append(ms, m)) = mergeIn(c, Merge!fold(c, base, ms), m)
      BY Merge!FoldAppend
  <1> QED BY <1>1, MergesIsFold DEF mergeIn

(* The reference folds them, too ... *)
LEMMA SplicesIsFold == ASSUME NEW w, NEW ms PROVE splices(w, ms) = Splice!fold(0, w, ms)
  BY DEF splices, FoldLeft, MapThenFoldSet, Max, spliceIn,
         Splice!fold, Splice!FoldLeft, Splice!MapThenFoldSet, Splice!Max

(* ... from the input ... *)
LEMMA SplicesEmpty == \A w : splices(w, <<>>) = w
  BY SplicesIsFold, Splice!FoldEmpty

(* ... and so that the last one is spliced last. *)
LEMMA SplicesAppend ==
    ASSUME NEW w, NEW ms \in Seq(Mapping), NEW m \in Mapping
    PROVE  splices(w, Append(ms, m)) =
           Spliced(splices(w, ms), m.target, Below(view(Output[m.source], 1), m.field))
  <1>1. Splice!fold(0, w, Append(ms, m)) = spliceIn(0, Splice!fold(0, w, ms), m)
      BY Splice!FoldAppend
  <1> QED BY <1>1, SplicesIsFold DEF spliceIn

(* Outputs stay what they are as long as the old maps stand still. *)
LEMMA LoadedStill ==
    ASSUME NEW M, NEW h, IsHeap(h), Ordered(h, M), NEW h2, IsHeap(h2), Ordered(h2, M), Still(h, h2, M),
           NEW r, NEW json, Loaded(h, M, r, json)
    PROVE  Loaded(h2, M, r, json)
  <1> DEFINE R == 1..M
  <1>1. R \subseteq DOMAIN h /\ R \subseteq DOMAIN h2 /\ M \in Nat
      BY HeapFacts DEF Ordered
  <1>2. Same(h, h2, R)
    <2>1. ASSUME NEW i \in R, NEW key \in Keys, h[i][key] \in Nat PROVE h[i][key] \in R
      <3>1. h[i][key] \in (i + 1)..M
          BY <2>1 DEF Ordered
      <3> QED BY <1>1, <3>1
    <2> QED BY <1>1, <2>1 DEF Same, Still
  <1>3. r \in Values /\ r \in R
      BY <1>1, ValueFacts DEF Loaded
  <1> HIDE DEF R
  <1>4. \A p \in Path : find(h2, r, p) = find(h, r, p)
      BY <1>2, <1>3, FindSame
  <1> QED BY <1>4 DEF Loaded

(* What a mapping's field is in its source's output. *)
fieldOf(m) == find(Output[m.source], 1, m.field)

(* at is what ms make of a body that says w. *)
Merged(shared, M, h, w, ms, at) ==
    /\ at = [h |-> at.h, body |-> at.body, ok |-> at.ok] /\ at.ok \in BOOLEAN
    /\ Built(at.h, at.body, M) /\ Still(h, at.h, M)
    /\ \A r \in Path : find(at.h, at.body, r) \in 1..M =>
          shared /\ \E i \in DOMAIN ms : IsPrefix(ms[i].target, r)
    /\ at.ok <=> \A i \in DOMAIN ms : fieldOf(ms[i]) # Absent
    /\ at.ok => \A p \in Paths : splices(w, ms)[p] = show(find(at.h, at.body, p))

(* Above what is strictly above is strictly above. *)
LEMMA StrictTransit ==
    ASSUME NEW p \in Path, NEW q \in Path, NEW r \in Path, IsPrefix(p, q), IsStrictPrefix(q, r)
    PROVE  IsStrictPrefix(p, r)
  BY PrefixOrder DEF IsStrictPrefix

(* The mappings of a longer list. *)
LEMMA MappingAppend ==
    ASSUME NEW ms \in Seq(Mapping), NEW m \in Mapping
    PROVE  /\ Append(ms, m) \in Seq(Mapping) /\ Len(ms) \in Nat
           /\ DOMAIN ms = 1..Len(ms) /\ DOMAIN Append(ms, m) = 1..(Len(ms) + 1)
           /\ Append(ms, m)[Len(ms) + 1] = m
           /\ \A i \in 1..Len(ms) : Append(ms, m)[i] = ms[i]
           /\ \A i \in DOMAIN ms : ms[i] \in Mapping
  <1>1. Append(ms, m) \in Seq(Mapping) /\ Len(Append(ms, m)) = Len(ms) + 1
      BY AppendProperties
  <1> QED BY <1>1, AppendProperties, LenProperties, ElementOfSeq

(* at becomes new: m puts v in its place. *)
Put(shared, roots, M, at, m, h1, v, h2) ==
    /\ merge(shared, roots, at, m) = [h |-> h2, body |-> at.body, ok |-> TRUE]
    /\ Built(h1, at.body, M) /\ Still(at.h, h1, M) /\ Place(h1, at.body, M, m.target, v, h2)
    /\ \A p \in Path : find(h1, at.body, p) = find(at.h, at.body, p)
    /\ FieldValue(h1, v, at.body, M, m.source, m.field)
    /\ \A p \in Path : find(h1, v, p) \in 1..M => shared

(***************************************************************************)
(* A mapping more fails for lack of its field, or puts that field in its   *)
(* place: on the way there are new maps only, as no earlier mapping has    *)
(* put an old one there.                                                   *)
(***************************************************************************)
LEMMA MergedAppend ==
    ASSUME NEW shared \in BOOLEAN, NEW roots, NEW M, NEW h, IsHeap(h), Ordered(h, M), NEW w,
           NEW ms \in Seq(Mapping), NEW at, Merged(shared, M, h, w, ms, at), NEW m \in Mapping,
           shared => /\ Loaded(h, M, roots[m.source], Output[m.source])
                       /\ \A i \in DOMAIN ms : ~IsStrictPrefix(ms[i].target, m.target)
    PROVE  \/ /\ ~(at.ok /\ fieldOf(m) # Absent)
              /\ merge(shared, roots, at, m) = [h |-> at.h, body |-> at.body, ok |-> FALSE]
           \/ /\ at.ok /\ fieldOf(m) # Absent
              /\ \E h1, v, h2 : Put(shared, roots, M, at, m, h1, v, h2)
  <1> DEFINE b == at.body
             t == m.target
  <1>1. m.source \in Sources /\ m.field \in Path /\ t \in Path /\ t # <<>>
      BY DEF Mapping, Path
  <1>2. /\ at = [h |-> at.h, body |-> b, ok |-> at.ok] /\ at.ok \in BOOLEAN
        /\ Built(at.h, b, M) /\ Still(h, at.h, M)
        /\ \A r \in Path : find(at.h, b, r) \in 1..M =>
              shared /\ \E i \in DOMAIN ms : IsPrefix(ms[i].target, r)
      BY DEF Merged
  <1>3. shared => Loaded(at.h, M, roots[m.source], Output[m.source])
      BY <1>2, LoadedStill DEF Built
  <1>20. PICK h1, v : Taken(shared, roots, M, at, m, h1, v)
      BY <1>2, <1>3, MergeValue
  <1>4. /\ Built(h1, b, M) /\ Still(at.h, h1, M) /\ Len(at.h) <= Len(h1)
        /\ \A p \in Path : find(h1, b, p) = find(at.h, b, p)
        /\ FieldValue(h1, v, b, M, m.source, m.field)
        /\ \A p \in Path : find(h1, v, p) \in 1..M => shared
        /\ merge(shared, roots, at, m) =
              IF ~at.ok \/ v = Absent THEN [h |-> at.h, body |-> at.body, ok |-> FALSE]
              ELSE [h |-> setJSONField(h1, b, t, v), body |-> at.body, ok |-> TRUE]
      BY <1>20 DEF Taken
  <1>5. v = Absent <=> fieldOf(m) = Absent
    <2>1. m.field \o <<>> = m.field /\ <<>> \in Path
        BY <1>1, ConcatPath, EmptyPath
    <2>2. show(find(h1, v, <<>>)) = show(fieldOf(m))
        BY <1>4, <2>1 DEF FieldValue, fieldOf
    <2>3. show(v) = show(fieldOf(m))
        BY <2>2, FindEmpty
    <2>4. fieldOf(m) \in Values /\ v \in Values
        BY <1>1, <1>4, OutputFind DEF fieldOf, FieldValue, Value, IsRef
    <2> QED BY <2>3, <2>4, ShowFacts
  <1>6. CASE ~(at.ok /\ fieldOf(m) # Absent)
      BY <1>4, <1>5, <1>6
  <1>7. CASE at.ok /\ fieldOf(m) # Absent
    <2> DEFINE h2 == setJSONField(h1, b, t, v)
    <2>1. merge(shared, roots, at, m) = [h |-> h2, body |-> at.body, ok |-> TRUE]
        BY <1>2, <1>4, <1>5, <1>7
    <2> HIDE DEF h2
    <2>3. ASSUME NEW o \in Path, IsStrictPrefix(o, t) PROVE find(h1, b, o) \notin 1..M
      <3> SUFFICES ASSUME find(at.h, b, o) \in 1..M PROVE FALSE
          BY <1>4
      <3>1. PICK i \in DOMAIN ms : shared /\ IsPrefix(ms[i].target, o)
          BY <1>2
      <3>2. ms[i].target \in Path
          BY MappingAppend DEF Mapping, Path
      <3>3. IsStrictPrefix(ms[i].target, t)
          BY <1>1, <2>3, <3>1, <3>2, StrictTransit
      <3> QED BY <3>1, <3>3
    <2>4. Place(h1, b, M, t, v, h2)
        BY <1>1, <1>4, <2>3, SetPlaces DEF h2, FieldValue
    <2>5. Put(shared, roots, M, at, m, h1, v, h2)
        BY <1>4, <2>1, <2>4 DEF Put
    <2> QED BY <1>7, <2>5
  <1> QED BY <1>6, <1>7

(* Either way the body is then what the longer list makes of it. *)
LEMMA MergedStep ==
    ASSUME NEW shared \in BOOLEAN, NEW roots, NEW M, NEW h, IsHeap(h), Ordered(h, M), NEW w,
           NEW ms \in Seq(Mapping), NEW at, Merged(shared, M, h, w, ms, at), NEW m \in Mapping,
           shared => /\ Loaded(h, M, roots[m.source], Output[m.source])
                       /\ \A i \in DOMAIN ms : ~IsStrictPrefix(ms[i].target, m.target)
    PROVE  Merged(shared, M, h, w, Append(ms, m), merge(shared, roots, at, m))
  <1> DEFINE b == at.body
             t == m.target
             ms2 == Append(ms, m)
             new == merge(shared, roots, at, m)
  <1>1. m.source \in Sources /\ m.field \in Path /\ t \in Path
      BY DEF Mapping, Path
  <1>2. /\ Built(at.h, b, M) /\ Still(h, at.h, M)
        /\ \A r \in Path : find(at.h, b, r) \in 1..M =>
              shared /\ \E i \in DOMAIN ms : IsPrefix(ms[i].target, r)
        /\ at.ok <=> \A i \in DOMAIN ms : fieldOf(ms[i]) # Absent
        /\ at.ok => \A p \in Paths : splices(w, ms)[p] = show(find(at.h, b, p))
      BY DEF Merged
  <1>3. /\ ms2 \in Seq(Mapping) /\ Len(ms) \in Nat /\ DOMAIN ms = 1..Len(ms) /\ DOMAIN ms2 = 1..(Len(ms) + 1)
        /\ ms2[Len(ms) + 1] = m /\ \A i \in DOMAIN ms : ms2[i] = ms[i] /\ i \in DOMAIN ms2
        /\ Len(ms) + 1 \in DOMAIN ms2
        /\ \A i \in DOMAIN ms2 : i \in DOMAIN ms \/ i = Len(ms) + 1
    <2>1. /\ ms2 \in Seq(Mapping) /\ Len(ms) \in Nat /\ DOMAIN ms = 1..Len(ms) /\ DOMAIN ms2 = 1..(Len(ms) + 1)
          /\ ms2[Len(ms) + 1] = m /\ \A i \in 1..Len(ms) : ms2[i] = ms[i]
        BY MappingAppend
    <2> HIDE DEF ms2
    <2> QED BY <2>1
  <1>4. (\A i \in DOMAIN ms2 : fieldOf(ms2[i]) # Absent)
          <=> fieldOf(m) # Absent /\ \A i \in DOMAIN ms : fieldOf(ms[i]) # Absent
    <2> HIDE DEF ms2
    <2> QED BY <1>3
  <1>5. CASE ~(at.ok /\ fieldOf(m) # Absent)
    <2>1. new = [h |-> at.h, body |-> b, ok |-> FALSE]
        BY <1>5, MergedAppend
    <2>2. \A r \in Path : find(at.h, b, r) \in 1..M =>
              shared /\ \E i \in DOMAIN ms2 : IsPrefix(ms2[i].target, r)
      <3> HIDE DEF ms2
      <3> QED BY <1>2, <1>3
    <2> HIDE DEF new, ms2
    <2>3. new.h = at.h /\ new.body = b /\ new.ok = FALSE
        BY <2>1
    <2>4. new = [h |-> new.h, body |-> new.body, ok |-> new.ok]
        BY <2>1
    <2>5. ~(\A i \in DOMAIN ms2 : fieldOf(ms2[i]) # Absent)
        BY <1>2, <1>4, <1>5
    <2>6. Merged(shared, M, h, w, ms2, new)
        BY <1>2, <2>2, <2>3, <2>4, <2>5 DEF Merged
    <2> QED BY <2>6 DEF new, ms2
  <1>6. CASE at.ok /\ fieldOf(m) # Absent
    <2>20. PICK h1, v, h2 : Put(shared, roots, M, at, m, h1, v, h2)
        BY <1>6, MergedAppend
    <2>1. /\ new = [h |-> h2, body |-> b, ok |-> TRUE]
          /\ Built(h1, b, M) /\ Still(at.h, h1, M) /\ Place(h1, b, M, t, v, h2)
          /\ \A p \in Path : find(h1, b, p) = find(at.h, b, p)
          /\ FieldValue(h1, v, b, M, m.source, m.field)
          /\ \A p \in Path : find(h1, v, p) \in 1..M => shared
        BY <2>20 DEF Put
    <2> HIDE DEF new
    <2>2. new.h = h2 /\ new.body = b /\ new.ok = TRUE /\ new = [h |-> new.h, body |-> new.body, ok |-> new.ok]
        BY <2>1
    <2>3. Built(h2, b, M) /\ Still(h, h2, M)
        BY <1>2, <2>1 DEF Place, Still
    <2>4. ASSUME NEW r \in Path, find(h2, b, r) \in 1..M
          PROVE  shared /\ \E i \in DOMAIN ms2 : IsPrefix(ms2[i].target, r)
      <3> HIDE DEF ms2
      <3>1. CASE IsPrefix(t, r)
        <4>1. PICK s \in Path : r = t \o s
            BY <1>1, <3>1, PrefixIs
        <4>2. find(h1, v, s) \in 1..M
            BY <2>1, <2>4, <4>1 DEF Place
        <4> QED BY <1>3, <2>1, <3>1, <4>2
      <3>2. CASE IsStrictPrefix(r, t)
        <4>1. find(h2, b, r) \in New(M)
            BY <2>1, <3>2 DEF Place
        <4>2. M \in Nat
            BY <1>2, HeapFacts DEF Built, Ordered
        <4> QED BY <2>4, <4>1, <4>2 DEF New
      <3>3. CASE ~IsPrefix(t, r) /\ ~IsStrictPrefix(r, t)
        <4>1. find(h2, b, r) = IF ClearedBy(h1, b, t, r) THEN Absent ELSE find(h1, b, r)
            BY <2>1, <3>3 DEF Place
        <4>2. Absent \notin 1..M
          <5>1. M \in Nat
              BY <1>2, HeapFacts DEF Built, Ordered
          <5> QED BY <5>1, ValueFacts
        <4>3. find(at.h, b, r) \in 1..M
            BY <2>1, <2>4, <4>1, <4>2
        <4> QED BY <1>2, <1>3, <4>3
      <3> QED BY <3>1, <3>2, <3>3
    <2>5. \A p \in Paths : splices(w, ms2)[p] = show(find(h2, b, p))
      <3>1. \A p \in Paths : splices(w, ms)[p] = show(find(h1, b, p))
          BY <1>2, <1>6, <2>1, PathsAre
      <3> DEFINE w1 == splices(w, ms)
      <3>2. splices(w, ms2) = Spliced(w1, t, Below(view(Output[m.source], 1), m.field))
          BY SplicesAppend
      <3> HIDE DEF w1
      <3>3. \A p \in Paths : w1[p] = show(find(h1, b, p))
          BY <3>1 DEF w1
      <3>4. \A p \in Paths : Spliced(w1, t, Below(view(Output[m.source], 1), m.field))[p] = show(find(h2, b, p))
          BY <1>1, <2>1, <3>3, SplicedView
      <3> QED BY <3>2, <3>4
    <2> HIDE DEF ms2
    <2>6. \A i \in DOMAIN ms2 : fieldOf(ms2[i]) # Absent
        BY <1>2, <1>4, <1>6
    <2>7. Merged(shared, M, h, w, ms2, new)
        BY <1>6, <2>2, <2>3, <2>4, <2>5, <2>6 DEF Merged
    <2> QED BY <2>7 DEF new, ms2
  <1> QED BY <1>5, <1>6

(* A text that has just been loaded is a tree of its own. *)
LEMMA LoadTree ==
    ASSUME NEW h, IsHeap(h), NEW json, IsJson(json)
    PROVE  LET h2 == load(h, json)
               d  == Len(h) + 1
           IN  /\ IsHeap(h2) /\ Extends(h, h2) /\ d \in DOMAIN h2 /\ Len(h) <= Len(h2)
               /\ \A p \in Path : /\ show(find(h2, d, p)) = show(find(json, 1, p))
                                  /\ find(h2, d, p) \in Nat => find(h2, d, p) > Len(h)
               /\ \A p, q \in Path : find(h2, d, p) \in Nat /\ find(h2, d, q) = find(h2, d, p) => p = q
  <1> DEFINE h2 == load(h, json)
             d == Len(h) + 1
             n == Len(h)
             u(p) == find(json, 1, p)
  <1>1. IsHeap(h2) /\ Extends(h, h2) /\ Len(h2) = n + Len(json)
      BY LoadHeap
  <1>2. n \in Nat
      BY HeapFacts
  <1>3. /\ IsHeap(json) /\ IsRef(json, 1) /\ 1 \in DOMAIN json
        /\ Len(json) \in Nat /\ DOMAIN json = 1..Len(json)
      BY JsonFacts
  <1>4. \A p \in Path : u(p) \in Values /\ (u(p) \in Nat => u(p) \in 1..Len(json))
    <2>1. \A p \in Path : IsRef(json, u(p))
        BY <1>3, FindTyped
    <2> HIDE DEF u
    <2> QED BY <1>3, <2>1 DEF IsRef
  <1>5. \A p \in Path : find(h2, d, p) = moved(n, u(p))
      BY LoadFind
  <1>6. DOMAIN h2 = 1..Len(h2)
      BY <1>1, HeapFacts
  <1> HIDE DEF h2, u
  <1>7. d \in DOMAIN h2 /\ Len(h) <= Len(h2)
      BY <1>1, <1>2, <1>3, <1>6
  <1> HIDE DEF d, n
  <1>8. ASSUME NEW p \in Path
        PROVE  /\ show(find(h2, d, p)) = show(u(p))
               /\ find(h2, d, p) \in Nat => u(p) \in Nat /\ find(h2, d, p) = u(p) + n /\ find(h2, d, p) > n
    <2>1. /\ show(moved(n, u(p))) = show(u(p)) /\ (moved(n, u(p)) \in Nat <=> u(p) \in Nat)
          /\ u(p) \in Nat => moved(n, u(p)) = u(p) + n
        BY <1>2, <1>4, MovedFacts
    <2> QED BY <1>2, <1>4, <1>5, <2>1
  <1>9. ASSUME NEW p \in Path, NEW q \in Path, find(h2, d, p) \in Nat, find(h2, d, q) = find(h2, d, p)
        PROVE  p = q
    <2>1. u(p) \in Nat /\ u(q) \in Nat /\ u(p) + n = u(q) + n
        BY <1>8, <1>9
    <2>2. u(p) = u(q)
        BY <1>2, <2>1
    <2> QED BY <2>1, <2>2, JsonTree DEF u
  <1> QED BY <1>1, <1>7, <1>8, <1>9 DEF h2, d, n, u

(* The input, just parsed, is what no mappings make of it. *)
LEMMA MergedEmpty ==
    ASSUME NEW M, NEW h, IsHeap(h), Ordered(h, M), NEW input, IsJson(input), NEW shared
    PROVE  Merged(shared, M, h, view(input, 1), <<>>,
                  [h |-> load(h, input), body |-> Len(h) + 1, ok |-> TRUE])
  <1> DEFINE h2 == load(h, input)
             d == Len(h) + 1
             w == view(input, 1)
  <1>1. /\ IsHeap(h2) /\ Extends(h, h2) /\ d \in DOMAIN h2 /\ Len(h) <= Len(h2)
        /\ \A p \in Path : /\ show(find(h2, d, p)) = show(find(input, 1, p))
                           /\ find(h2, d, p) \in Nat => find(h2, d, p) > Len(h)
        /\ \A p, q \in Path : find(h2, d, p) \in Nat /\ find(h2, d, q) = find(h2, d, p) => p = q
      BY LoadTree
  <1>2. Len(h) \in Nat /\ DOMAIN h = 1..Len(h) /\ M \in Nat /\ M <= Len(h)
      BY HeapFacts DEF Ordered
  <1> HIDE DEF h2
  <1>3. d \in New(M)
      BY <1>2 DEF New
  <1>4. Still(h, h2, M)
      BY <1>1, <1>2 DEF Still, Extends
  <1>5. Ordered(h2, M)
    <2>1. DOMAIN h2 = 1..Len(h2) /\ Len(h2) \in Nat
        BY <1>1, HeapFacts
    <2>2. M \in 0..Len(h2)
        BY <1>1, <1>2, <2>1
    <2> QED BY <1>4, <2>2 DEF Ordered, Still
  <1> HIDE DEF d
  <1>6. Built(h2, d, M)
      BY <1>1, <1>3, <1>5 DEF Built, Alone, New
  <1>7. \A r \in Path : find(h2, d, r) \notin 1..M
      BY <1>1, <1>2
  <1>8. \A p \in Paths : splices(w, <<>>)[p] = show(find(h2, d, p))
    <2>1. IsHeap(input) /\ IsRef(input, 1)
        BY JsonFacts
    <2>2. splices(w, <<>>) = [p \in Paths |-> show(find(input, 1, p))]
        BY <2>1, ViewIs, SplicesEmpty
    <2> QED BY <1>1, <2>2, PathsAre
  <1> DEFINE at == [h |-> h2, body |-> d, ok |-> TRUE]
  <1>9. at.h = h2 /\ at.body = d /\ at.ok = TRUE /\ at = [h |-> at.h, body |-> at.body, ok |-> at.ok]
      OBVIOUS
  <1> HIDE DEF at, w
  <1>10. Merged(shared, M, h, w, <<>>, at)
    <2>1. at.ok \in BOOLEAN
        BY <1>9
    <2>2. at.ok <=> \A i \in DOMAIN <<>> : fieldOf(<<>>[i]) # Absent
        BY <1>9
    <2>3. \A p \in Paths : splices(w, <<>>)[p] = show(find(at.h, at.body, p))
        BY <1>8, <1>9
    <2>4. Built(at.h, at.body, M) /\ Still(h, at.h, M) /\ \A r \in Path : find(at.h, at.body, r) \notin 1..M
        BY <1>4, <1>6, <1>7, <1>9
    <2>5. at = [h |-> at.h, body |-> at.body, ok |-> at.ok]
        BY <1>9
    <2> QED BY <2>1, <2>2, <2>3, <2>4, <2>5 DEF Merged
  <1> QED BY <1>10 DEF at, w, h2, d

flat(ms) == \A i, j \in DOMAIN ms : i < j => ~IsStrictPrefix(ms[i].target, ms[j].target)

(* No mapping of ms writes into what a map that is shared has put there. *)
Apt(shared, roots, M, h, ms) ==
    shared => /\ flat(ms)
              /\ \A i \in DOMAIN ms : Loaded(h, M, roots[ms[i].source], Output[ms[i].source])

(* A body is what its mappings make of its input, however many there are. *)
LEMMA MergedAll ==
    ASSUME NEW shared \in BOOLEAN, NEW roots, NEW c, c = [shared |-> shared, roots |-> roots],
           NEW M, NEW h, IsHeap(h), Ordered(h, M), NEW w,
           NEW base, Merged(shared, M, h, w, <<>>, base)
    PROVE  \A ms \in Seq(Mapping) :
              Apt(shared, roots, M, h, ms) => Merged(shared, M, h, w, ms, merges(c, base, ms))
  <1> DEFINE tame(ms) == Apt(shared, roots, M, h, ms)
             S == {ms \in Seq(Mapping) : tame(ms) => Merged(shared, M, h, w, ms, merges(c, base, ms))}
  <1>1. <<>> \in S
      BY MergesEmpty, EmptySeq
  <1>2. ASSUME NEW ms \in Seq(Mapping), NEW m \in Mapping, ms \in S PROVE Append(ms, m) \in S
    <2> DEFINE ms2 == Append(ms, m)
               at == merges(c, base, ms)
    <2>1. /\ ms2 \in Seq(Mapping) /\ Len(ms) \in Nat
          /\ DOMAIN ms = 1..Len(ms) /\ DOMAIN ms2 = 1..(Len(ms) + 1)
          /\ ms2[Len(ms) + 1] = m /\ \A i \in 1..Len(ms) : ms2[i] = ms[i]
        BY MappingAppend
    <2> SUFFICES ASSUME tame(ms2) PROVE Merged(shared, M, h, w, ms2, merges(c, base, ms2))
        BY <2>1
    <2>2. merges(c, base, ms2) = merge(shared, roots, at, m)
      <3>1. merges(c, base, ms2) = merge(c.shared, c.roots, at, m)
          BY MergesAppend
      <3> HIDE DEF at, ms2
      <3> QED BY <3>1
    <2> HIDE DEF ms2, at
    <2>3. tame(ms)
      <3>1. \A i \in DOMAIN ms : i \in DOMAIN ms2 /\ ms2[i] = ms[i]
          BY <2>1
      <3> QED BY <3>1 DEF flat, Apt
    <2>4. shared => /\ Loaded(h, M, roots[m.source], Output[m.source])
                    /\ \A i \in DOMAIN ms : ~IsStrictPrefix(ms[i].target, m.target)
      <3>1. Len(ms) + 1 \in DOMAIN ms2 /\ \A i \in DOMAIN ms : i \in DOMAIN ms2 /\ ms2[i] = ms[i] /\ i < Len(ms) + 1
          BY <2>1
      <3> QED BY <2>1, <3>1 DEF flat, Apt
    <2>5. Merged(shared, M, h, w, ms, at)
        BY <1>2, <2>3 DEF at
    <2>6. Merged(shared, M, h, w, ms2, merge(shared, roots, at, m))
        BY <2>4, <2>5, MergedStep DEF ms2
    <2> QED BY <2>2, <2>6
  <1> HIDE DEF S
  <1>3. \A ms \in Seq(Mapping) : ms \in S
      BY <1>1, <1>2, Find!InductiveSeqs
  <1> QED BY <1>3 DEF S

-----------------------------------------------------------------------------
(* json.Marshal never goes round in circles. *)

downs(h, base, s) == FoldLeft(LAMBDA maps, i : down(h, maps), base, s)

(* The ways down fold one step after another ... *)
LEMMA DownsIsFold == ASSUME NEW h, NEW base, NEW s PROVE downs(h, base, s) = Down!fold(h, base, s)
  BY DEF downs, FoldLeft, MapThenFoldSet, Max, downIn,
         Down!fold, Down!FoldLeft, Down!MapThenFoldSet, Down!Max

(* ... from the body ... *)
LEMMA DownsEmpty == \A h, base : downs(h, base, <<>>) = base
  BY DownsIsFold, Down!FoldEmpty

(* ... and with one step more go down once more. *)
LEMMA DownsAppend ==
    ASSUME NEW h, NEW base, NEW s \in Seq(Nat), NEW i \in Nat
    PROVE  downs(h, base, Append(s, i)) = down(h, downs(h, base, s))
  <1>1. Down!fold(h, base, Append(s, i)) = downIn(h, Down!fold(h, base, s), i)
      BY Down!FoldAppend
  <1> QED BY <1>1, DownsIsFold DEF downIn

(* The maps that are n steps down are at the ends of paths of length n. *)
LEMMA DownsFound ==
    ASSUME NEW h, IsHeap(h), NEW b \in DOMAIN h
    PROVE  \A s \in Seq(Nat) : \A j \in downs(h, {b}, s) :
              j \in DOMAIN h /\ \E p \in Path : Len(p) = Len(s) /\ find(h, b, p) = j
  <1> DEFINE S == {s \in Seq(Nat) : \A j \in downs(h, {b}, s) :
                      j \in DOMAIN h /\ \E p \in Path : Len(p) = Len(s) /\ find(h, b, p) = j}
  <1>1. <<>> \in S
    <2>1. downs(h, {b}, <<>>) = {b} /\ find(h, b, <<>>) = b /\ <<>> \in Path /\ <<>> \in Seq(Nat)
        BY DownsEmpty, FindEmpty, EmptyPath, EmptySeq
    <2> QED BY <2>1
  <1>2. ASSUME NEW s \in Seq(Nat), NEW i \in Nat, s \in S PROVE Append(s, i) \in S
    <2>1. Append(s, i) \in Seq(Nat) /\ Len(Append(s, i)) = Len(s) + 1 /\ Len(s) \in Nat
        BY AppendProperties, LenProperties
    <2> SUFFICES ASSUME NEW j \in downs(h, {b}, Append(s, i))
                 PROVE  j \in DOMAIN h /\ \E p \in Path : Len(p) = Len(s) + 1 /\ find(h, b, p) = j
        BY <2>1
    <2> DEFINE maps == downs(h, {b}, s)
    <2>2. j \in down(h, maps)
        BY DownsAppend
    <2>3. PICK o \in maps, key \in Keys : j = h[o][key] /\ j \in DOMAIN h
      <3> HIDE DEF maps
      <3> QED BY <2>2 DEF down
    <2>4. PICK p \in Path : Len(p) = Len(s) /\ find(h, b, p) = o /\ o \in DOMAIN h
        BY <1>2, <2>3
    <2>5. find(h, b, Append(p, key)) = j
        BY <2>3, <2>4, FindAppend DEF entry
    <2>6. Append(p, key) \in Path /\ Len(Append(p, key)) = Len(s) + 1
        BY <2>4, AppendPath, AppendProperties DEF Path
    <2> QED BY <2>3, <2>5, <2>6
  <1> HIDE DEF S
  <1>3. \A s \in Seq(Nat) : s \in S
      BY <1>1, <1>2, Find!InductiveSeqs
  <1> QED BY <1>3 DEF S

(* The maps on the path to p. *)
trail(h, b, p) == {find(h, b, q) : q \in {o \in Path : IsPrefix(o, p)}}

(* A way down does not come back to a map it went through. *)
LEMMA NoReturn ==
    ASSUME NEW M, NEW h, NEW b, Built(h, b, M), NEW p \in Path, NEW key \in Keys,
           find(h, b, Append(p, key)) \in DOMAIN h
    PROVE  find(h, b, Append(p, key)) \notin trail(h, b, p)
  <1> DEFINE t == Append(p, key)
  <1> SUFFICES ASSUME NEW q \in Path, IsPrefix(q, p), find(h, b, q) = find(h, b, t) PROVE FALSE
      BY DEF trail
  <1>1. /\ IsHeap(h) /\ Ordered(h, M) /\ Alone(h, b, M) /\ Len(h) \in Nat /\ DOMAIN h = 1..Len(h) /\ M \in Nat
        /\ t \in Path /\ ~IsPrefix(t, p) /\ IsPrefix(p, t)
      BY HeapFacts, AppendPath, PrefixOrder, PrefixAppend DEF Built, Ordered
  <1> HIDE DEF t
  <1>2. q # t
      BY <1>1
  <1>3. find(h, b, t) \notin New(M)
      BY <1>1, <1>2 DEF Alone
  <1>4. find(h, b, t) \in 1..M /\ find(h, b, t) \in Nat
      BY <1>1, <1>3 DEF New, t
  <1>5. PICK s \in Path : t = q \o s
    <2>1. IsPrefix(q, t)
        BY <1>1, PrefixOrder
    <2> QED BY <1>1, <2>1, PrefixIs
  <1>6. s # <<>>
      BY <1>1, <1>2, <1>5, ConcatPath
  <1> DEFINE v == find(h, b, q)
  <1>7. find(h, v, s) = v
      BY <1>5, FindConcat
  <1>8. v \in 1..M /\ v \in Nat /\ v \in Values
      BY <1>4, ValueFacts
  <1> HIDE DEF v
  <1>9. find(h, v, s) > v
      BY <1>1, <1>6, <1>7, <1>8, OrderedFind
  <1> QED BY <1>7, <1>8, <1>9

(* A path to a map leads through as many maps as it has parts, and one more. *)
LEMMA TrailGrows ==
    ASSUME NEW M, NEW h, NEW b, Built(h, b, M)
    PROVE  \A p \in Path : find(h, b, p) \in DOMAIN h =>
              /\ IsFiniteSet(trail(h, b, p)) /\ Cardinality(trail(h, b, p)) = Len(p) + 1
              /\ trail(h, b, p) \subseteq DOMAIN h
  <1> DEFINE good(p) == /\ IsFiniteSet(trail(h, b, p)) /\ Cardinality(trail(h, b, p)) = Len(p) + 1
                        /\ trail(h, b, p) \subseteq DOMAIN h
             S == {p \in Path : find(h, b, p) \in DOMAIN h => good(p)}
  <1>1. IsHeap(h) /\ b \in DOMAIN h
      BY DEF Built
  <1>2. <<>> \in S
    <2>1. {o \in Path : IsPrefix(o, <<>>)} = {<<>>}
        BY EmptyPath, PrefixOrder
    <2>2. trail(h, b, <<>>) = {b}
        BY <2>1, FindEmpty DEF trail
    <2>3. Len(<<>>) = 0
        BY EmptySeq
    <2>4. IsFiniteSet({b}) /\ Cardinality({b}) = 1
        BY FS_Singleton
    <2>6. /\ IsFiniteSet(trail(h, b, <<>>)) /\ Cardinality(trail(h, b, <<>>)) = 1
          /\ trail(h, b, <<>>) \subseteq DOMAIN h
        BY <1>1, <2>2, <2>4
    <2>7. Len(<<>>) + 1 = 1
        BY <2>3
    <2>5. good(<<>>)
        BY <2>6, <2>7
    <2> QED BY <2>5, EmptyPath
  <1>3. ASSUME NEW p \in Path, NEW key \in Keys, p \in S PROVE Append(p, key) \in S
    <2> DEFINE t == Append(p, key)
               x == find(h, b, t)
    <2>1. t \in Path /\ Len(t) = Len(p) + 1 /\ Len(p) \in Nat
        BY AppendPath, AppendProperties, LenProperties DEF Path
    <2> SUFFICES ASSUME x \in DOMAIN h PROVE good(t)
        BY <2>1
    <2>2. find(h, b, p) \in DOMAIN h
      <3>1. x = entry(h, find(h, b, p), key)
          BY FindAppend
      <3>2. x # Absent
          BY <1>1, HeapFacts, ValueFacts
      <3> HIDE DEF x
      <3> QED BY <3>1, <3>2 DEF entry
    <2>3. good(p)
        BY <1>3, <2>2
    <2>4. x \notin trail(h, b, p)
        BY NoReturn
    <2>5. {o \in Path : IsPrefix(o, t)} = {o \in Path : IsPrefix(o, p)} \cup {t}
        BY <2>1, PrefixAppend
    <2>6. trail(h, b, t) = trail(h, b, p) \cup {x}
      <3> HIDE DEF t
      <3> QED BY <2>5 DEF trail
    <2> HIDE DEF x, t
    <2>7. IsFiniteSet(trail(h, b, t)) /\ Cardinality(trail(h, b, t)) = Cardinality(trail(h, b, p)) + 1
        BY <2>3, <2>4, <2>6, FS_AddElement
    <2> QED BY <2>1, <2>3, <2>6, <2>7
  <1> HIDE DEF S
  <1>4. \A p \in Seq(Keys) : p \in S
      BY <1>2, <1>3, Find!InductiveSeqs DEF Path
  <1> QED BY <1>4 DEF S, Path

(* No body contains itself: json.Marshal (fn.go:229, httptask_controller.go:110) ends. *)
THEOREM Acyclic ==
    ASSUME NEW M, NEW h, NEW b, Built(h, b, M)
    PROVE  ~cyclic(h, b)
  <1> DEFINE s == [i \in DOMAIN h |-> i]
  <1>1. IsHeap(h) /\ b \in DOMAIN h /\ Len(h) \in Nat /\ DOMAIN h = 1..Len(h)
      BY HeapFacts DEF Built
  <1>2. s \in Seq(Nat) /\ Len(s) = Len(h)
    <2>1. s \in [1..Len(h) -> Nat]
        BY <1>1
    <2> HIDE DEF s
    <2>2. s \in Seq(Nat) /\ DOMAIN s = 1..Len(h)
        BY <1>1, <2>1, SeqDef
    <2>3. DOMAIN s = 1..Len(s) /\ Len(s) \in Nat
        BY <2>2, LenProperties
    <2> QED BY <1>1, <2>2, <2>3
  <1>3. cyclic(h, b) <=> downs(h, {b}, s) # {}
      BY DEF cyclic, downs
  <1> HIDE DEF s
  <1> SUFFICES ASSUME NEW j \in downs(h, {b}, s) PROVE FALSE
      BY <1>3
  <1>4. PICK p \in Path : Len(p) = Len(h) /\ find(h, b, p) \in DOMAIN h
    <2>1. \A s2 \in Seq(Nat) : \A i \in downs(h, {b}, s2) :
              i \in DOMAIN h /\ \E p \in Path : Len(p) = Len(s2) /\ find(h, b, p) = i
        BY <1>1, DownsFound
    <2> QED BY <1>2, <2>1
  <1>5. /\ IsFiniteSet(trail(h, b, p)) /\ Cardinality(trail(h, b, p)) = Len(h) + 1
        /\ trail(h, b, p) \subseteq DOMAIN h
      BY <1>4, TrailGrows
  <1>6. IsFiniteSet(DOMAIN h) /\ Cardinality(DOMAIN h) = Len(h)
    <2>1. 1 \in Int /\ Len(h) \in Int
        BY <1>1
    <2>2. IsFiniteSet(1..Len(h)) /\ Cardinality(1..Len(h)) = IF 1 > Len(h) THEN 0 ELSE Len(h) - 1 + 1
        BY <2>1, FS_Interval
    <2> QED BY <1>1, <2>2
  <1>7. Cardinality(trail(h, b, p)) <= Cardinality(DOMAIN h)
      BY <1>5, <1>6, FS_Subset
  <1> QED BY <1>1, <1>5, <1>6, <1>7

-----------------------------------------------------------------------------
(* A body that has been built. *)

(* The body of a task, as its input and its sources' outputs have it. *)
Specified(task) == IF Missing(task) THEN Absent ELSE Reference(task)

(* The reference is a view. *)
LEMMA SplicesAreViews ==
    ASSUME NEW w, w = [p \in Paths |-> w[p]], NEW ms \in Seq(Mapping)
    PROVE  splices(w, ms) = [p \in Paths |-> splices(w, ms)[p]]
  <1>1. CASE ms = <<>>
      BY <1>1, SplicesEmpty
  <1>2. CASE ms # <<>>
    <2>1. PICK front \in Seq(Mapping), m \in Mapping : ms = Append(front, m)
        BY <1>2, SequenceEmptyOrAppend
    <2> DEFINE v == splices(w, front)
               val == Below(view(Output[m.source], 1), m.field)
    <2>2. splices(w, ms) = Spliced(v, m.target, val)
        BY <2>1, SplicesAppend
    <2> HIDE DEF v, val
    <2>3. DOMAIN Spliced(v, m.target, val) = Paths /\ Spliced(v, m.target, val) =
             [p \in DOMAIN Spliced(v, m.target, val) |-> Spliced(v, m.target, val)[p]]
        BY DEF Spliced
    <2> QED BY <2>2, <2>3
  <1> QED BY <1>1, <1>2

(* A field is missing if one mapping finds none. *)
LEMMA MissingIs ==
    ASSUME NEW task
    PROVE  Missing(task) <=> \E i \in DOMAIN task.inputFrom : fieldOf(task.inputFrom[i]) = Absent
  BY DEF Missing, Range, fieldOf, find

(* The tasks of a plan. *)
LEMMA TaskTyped ==
    ASSUME NEW pl \in Plans, NEW i \in DOMAIN pl.tasks
    PROVE  /\ pl.shared \in BOOLEAN /\ pl.tasks \in Seq(Task)
           /\ IsJson(pl.tasks[i].input) /\ pl.tasks[i].inputFrom \in Seq(Mapping)
           /\ \A j \in DOMAIN pl.tasks[i].inputFrom : pl.tasks[i].inputFrom[j] \in Mapping
  <1>1. pl.shared \in BOOLEAN /\ pl.tasks \in Seq(Task) /\ IsJson(pl.tasks[i].input)
      BY JsonPathAssumption
  <1>2. pl.tasks[i] \in Task
      BY <1>1, LenProperties, ElementOfSeq
  <1>3. pl.tasks[i].inputFrom \in Seq(Mapping)
      BY <1>2 DEF Task
  <1> QED BY <1>1, <1>3, LenProperties, ElementOfSeq

(* A body is as specified, and building it leaves the old maps as they were. *)
LEMMA Builds ==
    ASSUME NEW pl \in Plans, NEW i \in DOMAIN pl.tasks, NEW task, task = pl.tasks[i],
           NEW roots, NEW M, NEW h, IsHeap(h), Ordered(h, M),
           pl.shared => /\ Flat(task)
                        /\ \A j \in DOMAIN task.inputFrom :
                              Loaded(h, M, roots[task.inputFrom[j].source], Output[task.inputFrom[j].source]),
           NEW b, b = build(pl.shared, roots, h, task)
    PROVE  /\ IsHeap(b.h) /\ Ordered(b.h, M) /\ Still(h, b.h, M)
           /\ (IF ~b.ok \/ cyclic(b.h, b.body) THEN Absent ELSE view(b.h, b.body)) = Specified(task)
  <1> DEFINE shared == pl.shared
             ms == task.inputFrom
             c == [shared |-> shared, roots |-> roots]
             base == [h |-> load(h, task.input), body |-> Len(h) + 1, ok |-> TRUE]
             w == view(task.input, 1)
  <1>1. shared \in BOOLEAN /\ IsJson(task.input) /\ ms \in Seq(Mapping)
      BY TaskTyped
  <1>2. c.shared = shared /\ c.roots = roots /\ c = [shared |-> shared, roots |-> roots]
      OBVIOUS
  <1>3. build(c.shared, c.roots, h, task) = merges(c, base, ms)
    <2> HIDE DEF c
    <2> QED BY DEF build, merges
  <1>4. b = merges(c, base, ms)
      BY <1>2, <1>3
  <1>5. Merged(shared, M, h, w, <<>>, base)
      BY <1>1, MergedEmpty
  <1>6. Apt(shared, roots, M, h, ms)
      BY DEF Flat, flat, Apt
  <1> HIDE DEF c, base, w, shared, ms
  <1>8. Merged(shared, M, h, w, ms, b)
      BY <1>1, <1>2, <1>4, <1>5, <1>6, MergedAll
  <1>9. /\ b.ok \in BOOLEAN /\ Built(b.h, b.body, M) /\ Still(h, b.h, M)
        /\ b.ok <=> \A j \in DOMAIN ms : fieldOf(ms[j]) # Absent
        /\ b.ok => \A p \in Paths : splices(w, ms)[p] = show(find(b.h, b.body, p))
      BY <1>8 DEF Merged
  <1>10. b.ok <=> ~Missing(task)
      BY <1>9, MissingIs DEF ms
  <1>11. ~cyclic(b.h, b.body)
      BY <1>9, Acyclic
  <1>12. ASSUME b.ok PROVE view(b.h, b.body) = Reference(task)
    <2>1. IsHeap(b.h) /\ IsRef(b.h, b.body)
        BY <1>9, ValueFacts DEF Built, IsRef, New
    <2>2. view(b.h, b.body) = [p \in Paths |-> show(find(b.h, b.body, p))]
        BY <2>1, ViewIs
    <2>3. Reference(task) = splices(w, ms)
        BY DEF Reference, splices, w, ms
    <2>4. w = [p \in Paths |-> w[p]]
      <3>1. IsHeap(task.input) /\ IsRef(task.input, 1)
          BY <1>1, JsonFacts
      <3>2. w = [p \in Paths |-> show(find(task.input, 1, p))]
          BY <3>1, ViewIs DEF w
      <3> QED BY <3>2
    <2>5. splices(w, ms) = [p \in Paths |-> splices(w, ms)[p]]
        BY <1>1, <2>4, SplicesAreViews
    <2> QED BY <1>9, <1>12, <2>2, <2>3, <2>5
  <1>13. IsHeap(b.h) /\ Ordered(b.h, M)
      BY <1>9 DEF Built
  <1> QED BY <1>9, <1>10, <1>11, <1>12, <1>13 DEF Specified

-----------------------------------------------------------------------------
(* The outputs that a call holds. *)

memories(base, ss) == FoldLeft(LAMBDA mem, s : keep(mem, s), base, ss)

(* The outputs are kept one by one ... *)
LEMMA MemoriesIsFold == ASSUME NEW base, NEW ss PROVE memories(base, ss) = Keep!fold(0, base, ss)
  BY DEF memories, FoldLeft, MapThenFoldSet, Max, keepIn,
         Keep!fold, Keep!FoldLeft, Keep!MapThenFoldSet, Keep!Max

(* ... from none ... *)
LEMMA MemoriesEmpty == \A base : memories(base, <<>>) = base
  BY MemoriesIsFold, Keep!FoldEmpty

(* ... and the last one last. *)
LEMMA MemoriesAppend ==
    ASSUME NEW base, NEW ss \in Seq(Sources), NEW s \in Sources
    PROVE  memories(base, Append(ss, s)) = keep(memories(base, ss), s)
  <1>1. Keep!fold(0, base, Append(ss, s)) = keepIn(0, Keep!fold(0, base, ss), s)
      BY Keep!FoldAppend
  <1> QED BY <1>1, MemoriesIsFold DEF keepIn

(* A text loaded into an orderly heap leaves it orderly. *)
LEMMA LoadOrdered ==
    ASSUME NEW h, IsHeap(h), Ordered(h, Len(h)), NEW json, IsJson(json)
    PROVE  Ordered(load(h, json), Len(load(h, json)))
  <1> DEFINE h2 == load(h, json)
             n == Len(h)
  <1>1. /\ IsHeap(h2) /\ Extends(h, h2) /\ Len(h2) = n + Len(json)
        /\ \A i \in DOMAIN json, key \in Keys : h2[i + n][key] = moved(n, json[i][key])
      BY LoadHeap
  <1>2. n \in Nat /\ DOMAIN h = 1..n
      BY HeapFacts
  <1>3. Len(json) \in Nat /\ DOMAIN json = 1..Len(json)
      BY JsonFacts
  <1> HIDE DEF h2
  <1>4. ASSUME NEW i \in 1..Len(h2), NEW key \in Keys, h2[i][key] \in Nat
        PROVE  h2[i][key] \in (i + 1)..Len(h2)
    <2>1. CASE i <= n
      <3>1. i \in 1..n /\ h2[i] = h[i]
          BY <1>1, <1>2, <1>3, <2>1 DEF Extends
      <3>2. h[i][key] \in (i + 1)..n
          BY <1>4, <3>1 DEF Ordered
      <3> QED BY <1>1, <1>2, <1>3, <3>1, <3>2
    <2>2. CASE ~(i <= n)
      <3> DEFINE o == i - n
      <3>1. o \in DOMAIN json /\ o \in Nat /\ i = o + n
          BY <1>1, <1>2, <1>3, <2>2
      <3> HIDE DEF o
      <3> DEFINE e == json[o][key]
      <3>2. h2[i][key] = moved(n, e)
          BY <1>1, <3>1
      <3>3. e \in Nat => e \in (o + 1)..Len(json)
          BY <3>1 DEF IsJson
      <3> HIDE DEF e
      <3>4. e \in Nat /\ h2[i][key] = e + n
          BY <1>2, <1>4, <3>2 DEF moved
      <3> QED BY <1>1, <1>2, <1>3, <3>1, <3>3, <3>4
    <2> QED BY <2>1, <2>2
  <1>5. Len(h2) \in 0..Len(h2)
      BY <1>1, <1>2, <1>3
  <1> QED BY <1>4, <1>5 DEF Ordered, h2

(* The heap of mem holds nothing but JSON texts, among them the outputs of known. *)
Remembers(mem, known) ==
    /\ IsHeap(mem.h) /\ Ordered(mem.h, Len(mem.h)) /\ DOMAIN mem.root = Sources
    /\ \A s \in known : Loaded(mem.h, Len(mem.h), mem.root[s], Output[s])

(* One output more is remembered along with the others. *)
LEMMA Keeps ==
    ASSUME NEW mem, NEW known \in SUBSET Sources, Remembers(mem, known), NEW s \in Sources
    PROVE  Remembers(keep(mem, s), known \cup {s})
  <1> DEFINE h == mem.h
             h2 == load(h, Output[s])
             d == Len(h) + 1
             new == keep(mem, s)
  <1>1. IsHeap(h) /\ IsJson(Output[s]) /\ Ordered(h, Len(h)) /\ DOMAIN mem.root = Sources
      BY OutputFind DEF Remembers
  <1>2. /\ IsHeap(h2) /\ Extends(h, h2) /\ d \in DOMAIN h2 /\ Len(h) <= Len(h2)
        /\ \A p \in Path : show(find(h2, d, p)) = show(find(Output[s], 1, p))
      BY <1>1, LoadTree
  <1>3. Ordered(h2, Len(h2))
      BY <1>1, LoadOrdered
  <1>4. DOMAIN h = 1..Len(h) /\ Len(h) \in Nat /\ DOMAIN h2 = 1..Len(h2) /\ Len(h2) \in Nat
      BY <1>1, <1>2, HeapFacts
  <1>5. new.h = h2 /\ new.root = [mem.root EXCEPT ![s] = d]
      BY DEF keep
  <1>6. Loaded(h2, Len(h2), d, Output[s])
      BY <1>2, <1>4 DEF Loaded
  <1> HIDE DEF h2, d, h, new
  <1>7. ASSUME NEW t \in known, t # s PROVE Loaded(h2, Len(h2), mem.root[t], Output[t])
    <2> DEFINE r == mem.root[t]
    <2>1. Loaded(h, Len(h), r, Output[t])
        BY DEF Remembers, h
    <2> HIDE DEF r
    <2>2. r \in 1..Len(h) /\ r \in 1..Len(h2) /\ IsRef(h, r)
        BY <1>2, <1>4, <2>1, ValueFacts DEF Loaded, IsRef
    <2>3. \A p \in Path : find(h2, r, p) = find(h, r, p)
        BY <1>1, <1>2, <2>2, GrownFind
    <2>4. Loaded(h2, Len(h2), r, Output[t])
        BY <2>1, <2>2, <2>3 DEF Loaded
    <2> QED BY <2>4 DEF r
  <1>8. DOMAIN new.root = Sources /\ new.root[s] = d /\ \A t \in Sources : t # s => new.root[t] = mem.root[t]
      BY <1>1, <1>5
  <1>9. \A t \in known \cup {s} : Loaded(new.h, Len(new.h), new.root[t], Output[t])
      BY <1>5, <1>6, <1>7, <1>8
  <1>10. Remembers(new, known \cup {s})
      BY <1>2, <1>3, <1>5, <1>8, <1>9 DEF Remembers
  <1> QED BY <1>10 DEF new

(* A set of sources has an enumeration. *)
LEMMA SeqOfSet ==
    ASSUME NEW known \in SUBSET Sources
    PROVE  SetToSeq(known) \in Seq(Sources) /\ Range(SetToSeq(known)) = known
  <1> DEFINE n == Cardinality(known)
             f == SetToSeq(known)
  <1>1. IsFiniteSet(known)
      BY JsonPathAssumption, FS_Subset
  <1>2. n \in Nat /\ ExistsBijection(1..n, known)
      BY <1>1, FS_CardinalityType
  <1>3. \E g \in [1..n -> known] : IsInjective(g)
      BY <1>2 DEF ExistsBijection, Bijection, Injection
  <1>4. f \in [1..n -> known] /\ IsInjective(f)
      BY <1>3 DEF SetToSeq
  <1> HIDE DEF f
  <1>5. IsFiniteSet(1..n) /\ Cardinality(1..n) = n
    <2>1. 1 \in Int /\ n \in Int
        BY <1>2
    <2>2. IsFiniteSet(1..n) /\ Cardinality(1..n) = IF 1 > n THEN 0 ELSE n - 1 + 1
        BY <2>1, FS_Interval
    <2> QED BY <1>2, <2>2
  <1>6. f \in Injection(1..n, known)
      BY <1>4 DEF Injection
  <1>7. f \in Surjection(1..n, known)
      BY <1>1, <1>5, <1>6, FS_Injection
  <1>8. Range(f) = known
      BY <1>4, <1>7 DEF Surjection, Range
  <1>9. f \in Seq(Sources)
    <2>1. f \in [1..n -> Sources]
        BY <1>4
    <2> HIDE DEF n
    <2> QED BY <1>2, <2>1, SeqDef
  <1> QED BY <1>8, <1>9 DEF f

(* A call remembers all outputs there are. *)
LEMMA MemoryRemembers ==
    ASSUME NEW known \in SUBSET Sources
    PROVE  Remembers(memory(known), known)
  <1> DEFINE base == [h |-> <<>>, root |-> [s \in Sources |-> None]]
             S == {ss \in Seq(Sources) : Remembers(memories(base, ss), Range(ss))}
  <1>1. <<>> \in S
    <2>1. IsHeap(<<>>) /\ Len(<<>>) = 0
        BY EmptySeq DEF IsHeap
    <2>2. Ordered(<<>>, 0)
        BY <2>1 DEF Ordered
    <2>3. base.h = <<>> /\ DOMAIN base.root = Sources
        OBVIOUS
    <2>4. Range(<<>>) = {}
        BY DEF Range
    <2> HIDE DEF base
    <2>5. Remembers(base, {})
        BY <2>1, <2>2, <2>3 DEF Remembers
    <2> QED BY <2>4, <2>5, MemoriesEmpty, EmptySeq
  <1> HIDE DEF base
  <1>2. ASSUME NEW ss \in Seq(Sources), NEW s \in Sources, ss \in S PROVE Append(ss, s) \in S
    <2>1. Append(ss, s) \in Seq(Sources)
        BY AppendProperties
    <2>2. Range(Append(ss, s)) = Range(ss) \cup {s} /\ Range(ss) \in SUBSET Sources
      <3>1. /\ Len(ss) \in Nat /\ DOMAIN ss = 1..Len(ss) /\ DOMAIN Append(ss, s) = 1..(Len(ss) + 1)
            /\ Append(ss, s)[Len(ss) + 1] = s /\ \A i \in 1..Len(ss) : Append(ss, s)[i] = ss[i] /\ ss[i] \in Sources
          BY <2>1, AppendProperties, LenProperties, ElementOfSeq
      <3> DEFINE t == Append(ss, s)
      <3> HIDE DEF t
      <3>2. /\ Len(ss) \in Nat /\ DOMAIN ss = 1..Len(ss) /\ DOMAIN t = 1..(Len(ss) + 1)
            /\ t[Len(ss) + 1] = s /\ \A i \in 1..Len(ss) : t[i] = ss[i] /\ ss[i] \in Sources
          BY <3>1 DEF t
      <3>3. \A i \in DOMAIN t : i \in DOMAIN ss \/ i = Len(ss) + 1
          BY <3>2
      <3>4. \A i \in DOMAIN ss : i \in DOMAIN t
          BY <3>2
      <3>5. Len(ss) + 1 \in DOMAIN t
          BY <3>2
      <3>6. Range(t) = Range(ss) \cup {s}
          BY <3>2, <3>3, <3>4, <3>5 DEF Range
      <3> QED BY <3>2, <3>6 DEF Range, t
    <2>3. Remembers(keep(memories(base, ss), s), Range(ss) \cup {s})
        BY <1>2, <2>2, Keeps
    <2> QED BY <2>1, <2>2, <2>3, MemoriesAppend
  <1> HIDE DEF S
  <1>3. \A ss \in Seq(Sources) : ss \in S
      BY <1>1, <1>2, Find!InductiveSeqs
  <1>4. memory(known) = memories(base, SetToSeq(known))
      BY DEF memory, memories, base
  <1>5. Remembers(memories(base, SetToSeq(known)), known)
      BY <1>3, SeqOfSet DEF S
  <1> QED BY <1>4, <1>5

-----------------------------------------------------------------------------
(* Every body. *)

(* The plans of which the bodies are as specified. *)
Tame == ~plan.shared \/ \A i \in DOMAIN plan.tasks : Flat(plan.tasks[i])

(* The outputs of known are in h, below any body that has been built in it. *)
Held(h, roots, known) ==
    /\ IsHeap(h)
    /\ \E M \in 0..Len(h) : Ordered(h, M) /\ \A s \in known : Loaded(h, M, roots[s], Output[s])

(* Outputs in memory are unspoilt, and what was built is as specified. *)
BodyInv ==
    /\ plan \in Plans /\ done \in SUBSET Sources /\ k \in 1..(Len(plan.tasks) + 1)
    /\ body = [i \in DOMAIN plan.tasks |-> body[i]] /\ sent = [i \in DOMAIN plan.tasks |-> sent[i]]
    /\ Tame => Held(heap, root, done)
    /\ Tame => \A i \in DOMAIN plan.tasks :
                  \/ body[i] = None /\ sent[i] = None
                  \/ body[i] = Specified(plan.tasks[i]) /\ sent[i] = body[i]

(* Nothing has been built at first. *)
LEMMA BodyInit == Init => BodyInv
  <1> SUFFICES ASSUME Init PROVE BodyInv
      OBVIOUS
  <1>1. plan \in Plans /\ plan.tasks \in Seq(Task)
      BY JsonPathAssumption DEF Init
  <1>2. Len(plan.tasks) \in Nat
      BY <1>1, LenProperties
  <1>3. IsHeap(<<>>) /\ Len(<<>>) = 0
      BY EmptySeq DEF IsHeap
  <1>4. Held(heap, root, done)
    <2>1. Ordered(<<>>, 0) /\ 0 \in 0..Len(<<>>)
        BY <1>3 DEF Ordered
    <2> QED BY <1>3, <2>1 DEF Held, Init
  <1> QED BY <1>1, <1>2, <1>4 DEF Init, BodyInv

(* A call begins with outputs as they were answered. *)
LEMMA BodyCall == BodyInv /\ Call => BodyInv'
  <1> SUFFICES ASSUME BodyInv, Call PROVE BodyInv'
      OBVIOUS
  <1>1. PICK more \in SUBSET (Sources \ done) :
           done' = done \cup more /\ heap' = memory(done \cup more).h /\ root' = memory(done \cup more).root
      BY DEF Call
  <1>2. done' \in SUBSET Sources
      BY <1>1 DEF BodyInv
  <1>3. Remembers(memory(done'), done')
      BY <1>2, MemoryRemembers
  <1>4. Held(heap', root', done')
    <2>1. heap' = memory(done').h /\ root' = memory(done').root
        BY <1>1
    <2>2. IsHeap(heap') /\ Ordered(heap', Len(heap')) /\ \A s \in done' : Loaded(heap', Len(heap'), root'[s], Output[s])
        BY <1>3, <2>1 DEF Remembers
    <2>3. Len(heap') \in 0..Len(heap')
        BY <2>2, HeapFacts
    <2> QED BY <2>2, <2>3 DEF Held
  <1>5. plan' = plan /\ body' = body /\ sent' = sent /\ k' = 1
      BY DEF Call
  <1>6. k' \in 1..(Len(plan.tasks) + 1)
    <2>1. plan.tasks \in Seq(Task)
        BY JsonPathAssumption DEF BodyInv
    <2>2. Len(plan.tasks) \in Nat
        BY <2>1, LenProperties
    <2> QED BY <1>5, <2>2
  <1> QED BY <1>2, <1>4, <1>5, <1>6 DEF BodyInv, Tame

(* A body that is built, or built again, is as specified. *)
LEMMA BodyBuild == BodyInv /\ Build => BodyInv'
  <1> SUFFICES ASSUME BodyInv, Build PROVE BodyInv'
      OBVIOUS
  <1> DEFINE task == plan.tasks[k]
             b == build(plan.shared, root, heap, task)
             new == IF ~b.ok \/ cyclic(b.h, b.body) THEN Absent ELSE view(b.h, b.body)
  <1>1. /\ plan' = plan /\ done' = done /\ root' = root /\ k' = k + 1 /\ k <= Len(plan.tasks)
        /\ \A m \in Range(task.inputFrom) : m.source \in done
        /\ heap' = b.h /\ body' = [body EXCEPT ![k] = new]
        /\ sent' = [sent EXCEPT ![k] = IF sent[k] = None THEN new ELSE sent[k]]
      BY DEF Build
  <1>2. /\ plan \in Plans /\ plan.tasks \in Seq(Task) /\ Len(plan.tasks) \in Nat
        /\ DOMAIN plan.tasks = 1..Len(plan.tasks)
      BY JsonPathAssumption, LenProperties DEF BodyInv
  <1>3. k \in DOMAIN plan.tasks /\ k' \in 1..(Len(plan.tasks) + 1)
      BY <1>1, <1>2 DEF BodyInv
  <1> HIDE DEF b, new
  <1>4. DOMAIN body = DOMAIN plan.tasks /\ DOMAIN sent = DOMAIN plan.tasks
      BY DEF BodyInv
  <1>5. /\ body' = [i \in DOMAIN plan.tasks |-> body'[i]] /\ sent' = [i \in DOMAIN plan.tasks |-> sent'[i]]
        /\ body'[k] = new /\ sent'[k] = IF sent[k] = None THEN new ELSE sent[k]
        /\ \A i \in DOMAIN plan.tasks : i # k => body'[i] = body[i] /\ sent'[i] = sent[i]
      BY <1>1, <1>3, <1>4
  <1>6. ASSUME Tame PROVE Held(heap', root', done') /\ new = Specified(task)
    <2>1. IsHeap(heap)
        BY <1>6 DEF BodyInv, Held
    <2>2. PICK M \in 0..Len(heap) : Ordered(heap, M) /\ \A s \in done : Loaded(heap, M, root[s], Output[s])
        BY <1>6 DEF BodyInv, Held
    <2>3. \A j \in DOMAIN task.inputFrom :
              Loaded(heap, M, root[task.inputFrom[j].source], Output[task.inputFrom[j].source])
        BY <1>1, <2>2 DEF Range
    <2>4. plan.shared => Flat(task)
        BY <1>3, <1>6 DEF Tame
    <2>5. /\ IsHeap(b.h) /\ Ordered(b.h, M) /\ Still(heap, b.h, M) /\ new = Specified(task)
      <3> DEFINE t == plan.tasks[k]
      <3>1. t = plan.tasks[k] /\ b = build(plan.shared, root, heap, t)
          BY DEF b
      <3>2. plan.shared => Flat(t) /\ \A j \in DOMAIN t.inputFrom :
                                Loaded(heap, M, root[t.inputFrom[j].source], Output[t.inputFrom[j].source])
          BY <2>3, <2>4
      <3> HIDE DEF t
      <3>3. /\ IsHeap(b.h) /\ Ordered(b.h, M) /\ Still(heap, b.h, M) /\ new = Specified(t)
          BY <1>2, <1>3, <2>1, <2>2, <3>1, <3>2, Builds DEF new
      <3> QED BY <3>1, <3>3
    <2>6. M \in 0..Len(b.h)
        BY <2>5 DEF Ordered
    <2>7. \A s \in done : Loaded(b.h, M, root[s], Output[s])
        BY <2>1, <2>2, <2>5, LoadedStill
    <2> QED BY <1>1, <2>5, <2>6, <2>7 DEF Held
  <1>7. ASSUME Tame, NEW i \in DOMAIN plan.tasks
        PROVE  \/ body'[i] = None /\ sent'[i] = None
               \/ body'[i] = Specified(plan.tasks[i]) /\ sent'[i] = body'[i]
    <2>1. \/ body[i] = None /\ sent[i] = None
          \/ body[i] = Specified(plan.tasks[i]) /\ sent[i] = body[i]
        BY <1>7 DEF BodyInv
    <2>2. CASE i # k
        BY <1>5, <2>1, <2>2
    <2>3. CASE i = k
      <3>1. new = Specified(plan.tasks[i])
          BY <1>6, <1>7, <2>3
      <3> QED BY <1>5, <2>1, <2>3, <3>1
    <2> QED BY <2>2, <2>3
  <1> QED BY <1>1, <1>2, <1>3, <1>5, <1>6, <1>7 DEF BodyInv, Tame

(* A task that is not ready changes nothing. *)
LEMMA BodyNotReady == BodyInv /\ NotReady => BodyInv'
  <1> SUFFICES ASSUME BodyInv, NotReady PROVE BodyInv'
      OBVIOUS
  <1>1. plan.tasks \in Seq(Task)
      BY JsonPathAssumption DEF BodyInv
  <1>2. Len(plan.tasks) \in Nat
      BY <1>1, LenProperties
  <1>3. /\ k' = k + 1 /\ k <= Len(plan.tasks) /\ plan' = plan /\ done' = done /\ heap' = heap /\ root' = root
        /\ sent' = sent /\ body' = body
      BY DEF NotReady
  <1>4. k' \in 1..(Len(plan.tasks) + 1)
      BY <1>2, <1>3 DEF BodyInv
  <1> QED BY <1>3, <1>4 DEF BodyInv, Tame

(***************************************************************************)
(* In every reachable state the outputs in memory are unspoilt and every   *)
(* body that was built, when first and when last, is as specified,         *)
(* provided no mapping writes into an object another one put there or      *)
(* outputs are parsed anew (httptask_controller.go:84-108, fn.go:214-229). *)
(***************************************************************************)
THEOREM BodyInvariant == Spec => []BodyInv
  <1>1. BodyInv /\ [Next]_vars => BodyInv'
    <2> SUFFICES ASSUME BodyInv, [Next]_vars PROVE BodyInv'
        OBVIOUS
    <2>1. CASE Call
        BY <2>1, BodyCall
    <2>2. CASE Build
        BY <2>2, BodyBuild
    <2>3. CASE NotReady
        BY <2>3, BodyNotReady
    <2>4. CASE UNCHANGED vars
        BY <2>4 DEF vars, BodyInv, Tame
    <2> QED BY <2>1, <2>2, <2>3, <2>4 DEF Next
  <1> QED BY <1>1, BodyInit, PTL DEF Spec

(***************************************************************************)
(* The body of a task is its input with the mapped fields in their places, *)
(* whatever was built before: in the HTTPTask controller always, in the    *)
(* function when no mapping writes into what an earlier one put there. For *)
(* any outputs, inputs, paths and lists of mappings.                       *)
(***************************************************************************)
THEOREM BodiesAsSpecified == Spec => []BodyAsSpecified
  <1>1. BodyInv => BodyAsSpecified
      BY DEF BodyInv, BodyAsSpecified, Tame, Specified
  <1> QED BY <1>1, BodyInvariant, PTL

(***************************************************************************)
(* fn.go:133 "rebuild deterministically" holds, and for both builders,     *)
(* when no mapping writes into what an earlier one has put there: a body   *)
(* that is built again is the body that was built first.                   *)
(***************************************************************************)
THEOREM RebuildsAreDeterministic == Spec => [](Tame => RebuildDeterministic)
  <1>1. BodyInv => (Tame => RebuildDeterministic)
      BY DEF BodyInv, RebuildDeterministic
  <1> QED BY <1>1, BodyInvariant, PTL
=============================================================================

-------------------------- MODULE TransformProofs ---------------------------
(***************************************************************************)
(* An update through a profile makes exactly the changes its body asks     *)
(* for, it is refused only for a field of the wrong type and before any of *)
(* it is stored, and an answer shows the row where the profile puts it:    *)
(* for any texts and attribute keys, any profiles with the data that       *)
(* Transform assumes, templates of any depth, and whatever order both      *)
(* loops take the entries of field_map in.                                 *)
(***************************************************************************)
EXTENDS Transform, TLAPS, FiniteSetTheorems, SequenceTheorems, WellFoundedInduction

\* Induction over the natural numbers, for a set of them.
LEMMA AllNumbers ==
  ASSUME NEW T \in SUBSET Nat, 0 \in T, \A n \in T : n + 1 \in T
  PROVE  T = Nat
<1>1. ASSUME Nat \ T # {} PROVE FALSE
  <2> DEFINE R == OpToRel(<, Nat)
  <2>1. IsWellFoundedOn(R, Nat)
    BY NatLessThanWellFounded
  <2>2. PICK x \in Nat \ T : \A y \in Nat \ T : <<y, x>> \notin R
    BY <1>1, <2>1, WFMin
  <2>3. x # 0 /\ x - 1 \in Nat /\ x - 1 < x
    OBVIOUS
  <2>4. <<x - 1, x>> \in R
    BY <2>3 DEF OpToRel
  <2> HIDE DEF R
  <2> QED BY <2>1, <2>2, <2>3, <2>4
<1> QED BY <1>1

\* One key of the path.
Reaches(m, path, at, n) ==
    /\ at[0] = m
    /\ \A k \in 1..n : at[k] = IF (k = 1 \/ IsObject(at[k - 1])) /\ path[k] \in DOMAIN at[k - 1]
                               THEN at[k - 1][path[k]] ELSE Missing

\* A path leads somewhere: the recursion of getNestedValue has a result.
LEMMA PathEnds ==
  ASSUME NEW S, NEW m, NEW path \in Seq(S)
  PROVE  \E at : Reaches(m, path, at, Len(path)) /\ getNestedValue(m, path) = at[Len(path)]
<1> DEFINE N == Len(path)
           T == {n \in Nat : \E f : DOMAIN f = 0..n /\ Reaches(m, path, f, n)}
           Key(f, k) == IF k = 0 THEN m
                        ELSE LET up == f[k - 1]
                             IN  IF (k = 1 \/ IsObject(up)) /\ path[k] \in DOMAIN up
                                 THEN up[path[k]] ELSE Missing
<1>1. 0 \in T
  <2> DEFINE f == [k \in 0..0 |-> m]
  <2>1. DOMAIN f = 0..0 /\ Reaches(m, path, f, 0)
    BY DEF Reaches
  <2> QED BY <2>1
<1>2. ASSUME NEW n \in T PROVE n + 1 \in T
  <2>1. PICK f : DOMAIN f = 0..n /\ Reaches(m, path, f, n)
    OBVIOUS
  <2> DEFINE g == [k \in 0..(n + 1) |-> IF k = n + 1 THEN Key(f, n + 1) ELSE f[k]]
  <2>2. n \in Nat
    OBVIOUS
  <2>3. \A k \in 0..n : g[k] = f[k]
    BY <2>2
  <2>4. g[n + 1] = Key(f, n + 1) /\ g[0] = m /\ g[n] = f[n]
    BY <2>1, <2>2, <2>3 DEF Reaches
  <2> HIDE DEF g
  <2>5. ASSUME NEW k \in 1..(n + 1) PROVE g[k] = Key(g, k)
    <3>1. CASE k = n + 1
      BY <2>2, <2>4, <3>1
    <3>2. CASE k # n + 1
      <4>1. k \in 1..n /\ k - 1 \in 0..n /\ k \in 0..n
        BY <2>2, <3>2
      <4>2. f[k] = Key(f, k)
        BY <2>1, <4>1 DEF Reaches
      <4>3. f[k - 1] = g[k - 1] /\ g[k] = f[k]
        BY <2>3, <4>1
      <4> QED BY <4>1, <4>2, <4>3
    <3> QED BY <3>1, <3>2
  <2>6. Reaches(m, path, g, n + 1)
    BY <2>2, <2>4, <2>5 DEF Reaches
  <2>7. DOMAIN g = 0..(n + 1)
    BY DEF g
  <2> QED BY <2>2, <2>6, <2>7
<1>3. N \in Nat /\ N \in T
  <2> HIDE DEF T
  <2>1. T \in SUBSET Nat
    BY DEF T
  <2> QED BY <1>1, <1>2, <2>1, AllNumbers
<1>4. PICK f : DOMAIN f = 0..N /\ Reaches(m, path, f, N)
  BY <1>3
<1>5. \E r : r = [k \in 0..N |-> Key(r, k)]
  <2> DEFINE g == [k \in 0..N |-> f[k]]
  <2>1. ASSUME NEW k \in 0..N PROVE f[k] = Key(g, k)
    <3>1. CASE k = 0
      BY <1>4, <3>1 DEF Reaches
    <3>2. CASE k # 0
      <4>1. k \in 1..N /\ k - 1 \in 0..N
        BY <1>3, <3>2
      <4>2. f[k] = Key(f, k)
        BY <1>4, <4>1 DEF Reaches
      <4>3. g[k - 1] = f[k - 1]
        BY <4>1
      <4> QED BY <3>2, <4>2, <4>3
    <3> QED BY <3>1, <3>2
  <2>2. g = [k \in 0..N |-> Key(g, k)]
    BY <2>1
  <2> QED BY <2>2
<1>6. \E at : at = [k \in 0..N |-> Key(at, k)] /\ getNestedValue(m, path) = at[N]
  BY <1>5, Zenon DEF getNestedValue
<1>7. PICK at : at = [k \in 0..N |-> Key(at, k)] /\ getNestedValue(m, path) = at[N]
  BY <1>6
<1>8. \A k \in 0..N : at[k] = Key(at, k)
  BY <1>7, Zenon
<1>9. Reaches(m, path, at, N)
  BY <1>3, <1>8 DEF Reaches
<1> QED BY <1>7, <1>9

\* getNestedValue for a path of one key.
LEMMA GetOne ==
  ASSUME NEW m, NEW key
  PROVE  getNestedValue(m, <<key>>) = IF key \in DOMAIN m THEN m[key] ELSE Missing
<1>1. <<key>> \in Seq({key}) /\ Len(<<key>>) = 1 /\ <<key>>[1] = key
  OBVIOUS
<1>2. PICK at : Reaches(m, <<key>>, at, 1) /\ getNestedValue(m, <<key>>) = at[1]
  BY <1>1, PathEnds
<1>3. at[0] = m /\ at[1] = IF key \in DOMAIN at[0] THEN at[0][key] ELSE Missing
  BY <1>1, <1>2 DEF Reaches
<1> QED BY <1>2, <1>3

\* getNestedValue for a path of two keys, with an object on the way or without.
LEMMA GetTwo ==
  ASSUME NEW m, NEW key, NEW sub
  PROVE  getNestedValue(m, <<key, sub>>) =
            IF key \in DOMAIN m /\ IsObject(m[key]) /\ sub \in DOMAIN m[key] THEN m[key][sub] ELSE Missing
<1> DEFINE p == <<key, sub>>
<1>1. p \in Seq({key, sub}) /\ Len(p) = 2 /\ p[1] = key /\ p[2] = sub
  OBVIOUS
<1> HIDE DEF p
<1>2. PICK at : Reaches(m, p, at, 2) /\ getNestedValue(m, p) = at[2]
  BY <1>1, PathEnds
<1>3. at[0] = m /\ at[1] = IF key \in DOMAIN at[0] THEN at[0][key] ELSE Missing
  BY <1>1, <1>2 DEF Reaches
<1>4. at[2] = IF IsObject(at[1]) /\ sub \in DOMAIN at[1] THEN at[1][sub] ELSE Missing
  BY <1>1, <1>2 DEF Reaches
<1>5. ~IsObject(Missing)
  BY DEF IsObject, Scalars
<1>6. getNestedValue(m, p) = at[2]
  BY <1>2
<1> QED BY <1>3, <1>4, <1>5, <1>6 DEF p

\* setNestedValue for a path of one key.
LEMMA SetOne ==
  ASSUME NEW m, NEW key, NEW v
  PROVE  setNestedValue(m, <<key>>, v) = Assign(m, key, v)
<1> DEFINE p == <<key>>
           Holder(n) == IF n = 0 THEN m
                        ELSE IF IsObject(getNestedValue(m, SubSeq(p, 1, n)))
                             THEN getNestedValue(m, SubSeq(p, 1, n)) ELSE NoFields
           Make(r, n) == Assign(Holder(n - 1), p[n], IF n = Len(p) THEN v ELSE r[n + 1])
<1>1. Len(p) = 1 /\ p[1] = key
  OBVIOUS
<1>2. \E r : r = [n \in 1..Len(p) |-> Make(r, n)]
  <2> DEFINE r == [n \in 1..1 |-> Assign(m, key, v)]
  <2> HIDE DEF p
  <2>1. \A n \in 1..1 : Make(r, n) = Assign(m, key, v)
    BY <1>1
  <2>2. r = [n \in 1..Len(p) |-> Make(r, n)]
    BY <1>1, <2>1
  <2> QED BY <2>2
<1>3. \E r : r = [n \in 1..Len(p) |-> Make(r, n)] /\ setNestedValue(m, p, v) = r[1]
  <2> HIDE DEF p
  <2> QED BY <1>2, Zenon DEF setNestedValue
<1>4. PICK r : r = [n \in 1..Len(p) |-> Make(r, n)] /\ setNestedValue(m, p, v) = r[1]
  BY <1>3
<1>5. r[1] = Make(r, 1)
  <2> HIDE DEF p, Make
  <2>1. 1 \in 1..Len(p)
    BY <1>1
  <2> QED BY <1>4, <2>1, Zenon
<1> QED
  <2> HIDE DEF p
  <2>1. r[1] = Assign(m, key, v)
    BY <1>1, <1>5
  <2> QED BY <1>4, <2>1 DEF p

\* setNestedValue for a path of two keys: what else the object on the way holds stays.
LEMMA SetTwo ==
  ASSUME NEW m, NEW key, NEW sub, NEW v
  PROVE  setNestedValue(m, <<key, sub>>, v) =
            Assign(m, key, Assign(IF key \in DOMAIN m /\ IsObject(m[key]) THEN m[key] ELSE NoFields,
                                  sub, v))
<1> DEFINE p == <<key, sub>>
           Holder(n) == IF n = 0 THEN m
                        ELSE IF IsObject(getNestedValue(m, SubSeq(p, 1, n)))
                             THEN getNestedValue(m, SubSeq(p, 1, n)) ELSE NoFields
           Make(r, n) == Assign(Holder(n - 1), p[n], IF n = Len(p) THEN v ELSE r[n + 1])
           inner == IF key \in DOMAIN m /\ IsObject(m[key]) THEN m[key] ELSE NoFields
           whole == Assign(m, key, Assign(inner, sub, v))
<1>1. Len(p) = 2 /\ p[1] = key /\ p[2] = sub
  OBVIOUS
<1>2. Holder(1) = inner
  <2> HIDE DEF Holder, Make, inner, whole
  <2>1. SubSeq(p, 1, 1) = <<key>>
    <3> DEFINE s == SubSeq(p, 1, 1)
               t == <<key>>
    <3>1. p \in Seq({key, sub})
      OBVIOUS
    <3> HIDE DEF p
    <3>2. s \in Seq({key, sub}) /\ Len(s) = 1 /\ s[1] = p[1]
      BY <1>1, <3>1
    <3>3. t \in Seq({key, sub}) /\ Len(t) = 1 /\ t[1] = key
      OBVIOUS
    <3> HIDE DEF s, t
    <3>4. s = t
      BY <1>1, <3>2, <3>3, SeqEqual
    <3> QED BY <3>4 DEF s, t
  <2>2. ~IsObject(Missing)
    BY DEF IsObject, Scalars
  <2>3. getNestedValue(m, SubSeq(p, 1, 1)) = IF key \in DOMAIN m THEN m[key] ELSE Missing
    BY <2>1, GetOne
  <2> HIDE DEF p
  <2> QED BY <2>2, <2>3 DEF Holder, inner
<1>3. \E r : r = [n \in 1..Len(p) |-> Make(r, n)]
  <2> DEFINE r == [n \in 1..2 |-> IF n = 1 THEN whole ELSE Assign(inner, sub, v)]
  <2> HIDE DEF p
  <2>1. r[1] = whole /\ r[2] = Assign(inner, sub, v)
    OBVIOUS
  <2>2. Make(r, 2) = Assign(Holder(1), sub, v)
    BY <1>1
  <2>3. Make(r, 1) = Assign(m, key, r[2])
    BY <1>1
  <2>4. \A n \in 1..2 : r[n] = Make(r, n)
    <3> HIDE DEF Holder, inner, r, Make
    <3>1. r[1] = Make(r, 1) /\ r[2] = Make(r, 2)
      BY <1>2, <2>1, <2>2, <2>3
    <3>2. 1..2 = {1, 2}
      OBVIOUS
    <3> QED BY <3>1, <3>2
  <2>5. DOMAIN r = 1..2 /\ r = [n \in 1..2 |-> r[n]]
    OBVIOUS
  <2> HIDE DEF r, Make
  <2>6. r = [n \in 1..2 |-> Make(r, n)]
    BY <2>4, <2>5
  <2> QED BY <1>1, <2>6
<1>4. \E r : r = [n \in 1..Len(p) |-> Make(r, n)] /\ setNestedValue(m, p, v) = r[1]
  <2> HIDE DEF p
  <2> QED BY <1>3, Zenon DEF setNestedValue
<1>5. PICK r : r = [n \in 1..Len(p) |-> Make(r, n)] /\ setNestedValue(m, p, v) = r[1]
  BY <1>4
<1>6. r[1] = Make(r, 1) /\ r[2] = Make(r, 2)
  <2> HIDE DEF p, Make
  <2>1. 1 \in 1..Len(p) /\ 2 \in 1..Len(p)
    BY <1>1
  <2> QED BY <1>5, <2>1, Zenon
<1>7. r[2] = Assign(inner, sub, v)
  <2> HIDE DEF p, inner
  <2> QED BY <1>1, <1>2, <1>6
<1>8. r[1] = Assign(m, key, r[2])
  <2> HIDE DEF p
  <2> QED BY <1>1, <1>6
<1> QED BY <1>5, <1>7, <1>8

-----------------------------------------------------------------------------
(* Templates.                                                              *)

\* What a template becomes, given what its parts become.
Fill(f, v, t) == IF t = Dollar THEN v
                 ELSE IF IsObject(t) THEN [k \in DOMAIN t |-> f[t[k]]]
                 ELSE t

\* applyValueTemplate has a result, by induction over the depth of the templates.
LEMMA TemplatesFill ==
  ASSUME NEW v
  PROVE  \E filled : \A t \in Templates : /\ applyValueTemplate(t, v) = filled[t]
                                          /\ filled[t] = Fill(filled, v, t)
<1>1. PICK depth \in [Templates -> 0..Cardinality(Templates)] :
         \A t \in Templates : IsObject(t) =>
            \A k \in DOMAIN t : t[k] \in Templates /\ depth[t[k]] < depth[t]
  BY TemplatesEnd
<1>2. Cardinality(Templates) \in Nat
  BY TemplatesEnd, FS_CardinalityType
<1>3. \A t \in Templates : depth[t] \in Nat /\ depth[t] < Cardinality(Templates) + 1
  BY <1>1, <1>2
<1> DEFINE Low(n) == {t \in Templates : depth[t] < n}
           T == {n \in Nat : \E f : DOMAIN f = Low(n) /\ \A t \in Low(n) : f[t] = Fill(f, v, t)}
<1>4. 0 \in T
  <2> DEFINE f == [t \in {} |-> v]
  <2>1. Low(0) = {}
    BY <1>3
  <2>2. DOMAIN f = Low(0) /\ \A t \in Low(0) : f[t] = Fill(f, v, t)
    BY <2>1
  <2> HIDE DEF f, Low
  <2> QED BY <2>2
<1>5. ASSUME NEW n \in T PROVE n + 1 \in T
  <2>1. PICK f : DOMAIN f = Low(n) /\ \A t \in Low(n) : f[t] = Fill(f, v, t)
    OBVIOUS
  <2> DEFINE g == [t \in Low(n + 1) |-> IF t \in Low(n) THEN f[t] ELSE Fill(f, v, t)]
  <2>2. n \in Nat
    OBVIOUS
  <2>3. Low(n) \subseteq Low(n + 1)
    BY <1>3, <2>2
  <2>4. \A t \in Low(n) : g[t] = f[t]
    BY <2>3
  <2>5. \A t \in Low(n + 1) : g[t] = Fill(f, v, t)
    BY <2>1, <2>4
  <2>6. DOMAIN g = Low(n + 1)
    OBVIOUS
  <2> HIDE DEF g
  <2>7. ASSUME NEW t \in Low(n + 1) PROVE Fill(f, v, t) = Fill(g, v, t)
    <3>1. CASE IsObject(t)
      <4>1. \A k \in DOMAIN t : t[k] \in Low(n)
        BY <1>1, <1>3, <2>2, <3>1
      <4>2. \A k \in DOMAIN t : g[t[k]] = f[t[k]]
        BY <2>4, <4>1
      <4>3. [k \in DOMAIN t |-> f[t[k]]] = [k \in DOMAIN t |-> g[t[k]]]
        BY <4>2
      <4> QED BY <4>3 DEF Fill
    <3>2. CASE ~IsObject(t)
      BY <3>2 DEF Fill
    <3> QED BY <3>1, <3>2
  <2>8. \A t \in Low(n + 1) : g[t] = Fill(g, v, t)
    BY <2>5, <2>7
  <2> HIDE DEF Low
  <2> QED BY <2>2, <2>6, <2>8
<1>6. Cardinality(Templates) + 1 \in T
  <2> HIDE DEF T
  <2>1. T \in SUBSET Nat
    BY DEF T
  <2>2. T = Nat
    BY <1>4, <1>5, <2>1, AllNumbers
  <2> QED BY <1>2, <2>2
<1>7. Low(Cardinality(Templates) + 1) = Templates
  BY <1>3
<1>8. PICK f : DOMAIN f = Templates /\ \A t \in Templates : f[t] = Fill(f, v, t)
  <2> HIDE DEF Low
  <2> QED BY <1>6, <1>7
<1> DEFINE Whole(g) == [t \in Templates |-> IF t = Dollar THEN v
                                            ELSE IF IsObject(t) THEN [k \in DOMAIN t |-> g[t[k]]]
                                            ELSE t]
<1>9. \E g : g = Whole(g)
  <2> DEFINE h == [t \in Templates |-> f[t]]
  <2>1. \A t \in Templates : h[t] = f[t]
    OBVIOUS
  <2>2. ASSUME NEW t \in Templates PROVE Fill(f, v, t) = Fill(h, v, t)
    <3>1. CASE IsObject(t)
      <4>1. \A k \in DOMAIN t : h[t[k]] = f[t[k]]
        BY <1>1, <2>1, <3>1
      <4> HIDE DEF h
      <4>3. [k \in DOMAIN t |-> f[t[k]]] = [k \in DOMAIN t |-> h[t[k]]]
        BY <4>1
      <4> QED BY <4>3 DEF Fill
    <3>2. CASE ~IsObject(t)
      BY <3>2 DEF Fill
    <3> QED BY <3>1, <3>2
  <2>3. \A t \in Templates : h[t] = Fill(h, v, t)
    BY <1>8, <2>1, <2>2
  <2>4. h = [t \in Templates |-> h[t]]
    OBVIOUS
  <2> HIDE DEF h
  <2>5. h = [t \in Templates |-> Fill(h, v, t)]
    BY <2>3, <2>4
  <2>6. h = Whole(h)
    BY <2>5, Zenon DEF Fill
  <2> QED BY <2>6
<1> DEFINE G == CHOOSE g : g = Whole(g)
<1>10. \A t \in Templates : applyValueTemplate(t, v) = G[t]
  BY Zenon DEF applyValueTemplate
<1>11. G = Whole(G)
  <2> HIDE DEF Whole
  <2> QED BY <1>9, Zenon
<1>12. \A t \in Templates : G[t] = Fill(G, v, t)
  <2> HIDE DEF G
  <2> QED BY <1>11, Zenon DEF Fill
<1> QED BY <1>10, <1>12

\* A template becomes an object of its own keys, each with what its part becomes.
LEMMA TemplateParts ==
  ASSUME NEW t \in Templates, NEW v \in Scalars
  PROVE  /\ t = Dollar => applyValueTemplate(t, v) = v
         /\ IsObject(t) => /\ IsObject(applyValueTemplate(t, v))
                           /\ DOMAIN applyValueTemplate(t, v) = DOMAIN t
                           /\ \A k \in DOMAIN t :
                                 /\ t[k] \in Templates
                                 /\ applyValueTemplate(t, v)[k] = applyValueTemplate(t[k], v)
<1>1. PICK filled : \A u \in Templates : /\ applyValueTemplate(u, v) = filled[u]
                                         /\ filled[u] = Fill(filled, v, u)
  BY TemplatesFill
<1>2. t = Dollar => applyValueTemplate(t, v) = v
  BY <1>1 DEF Fill
<1>3. ASSUME IsObject(t)
      PROVE  /\ DOMAIN applyValueTemplate(t, v) = DOMAIN t
             /\ \A k \in DOMAIN t : /\ t[k] \in Templates
                                    /\ applyValueTemplate(t, v)[k] = applyValueTemplate(t[k], v)
  <2>1. \A k \in DOMAIN t : t[k] \in Templates
    BY <1>3, TemplatesEnd
  <2>2. t # Dollar
    BY <1>3 DEF IsObject, Scalars
  <2>3. applyValueTemplate(t, v) = [k \in DOMAIN t |-> filled[t[k]]]
    BY <1>1, <1>3, <2>2 DEF Fill
  <2> QED BY <1>1, <2>1, <2>3
<1>4. IsObject(t) => IsObject(applyValueTemplate(t, v))
  BY ObjectsAreNoScalars
<1> QED BY <1>2, <1>3, <1>4

\* The path to the "$" of a template leads, in what the template becomes, to the value.
LEMMA TemplateReadBack ==
  ASSUME NEW S, NEW t \in Templates, NEW path \in Seq(S), IsObject(t),
         getNestedValue(t, path) = Dollar, NEW v \in Scalars
  PROVE  getNestedValue(applyValueTemplate(t, v), path) = v
<1> DEFINE N == Len(path)
<1>1. PICK at : Reaches(t, path, at, N) /\ getNestedValue(t, path) = at[N]
  BY PathEnds
<1>2. PICK of : /\ Reaches(applyValueTemplate(t, v), path, of, N)
                /\ getNestedValue(applyValueTemplate(t, v), path) = of[N]
  BY PathEnds
<1> DEFINE Same(n) == at[n] \in Templates /\ of[n] = applyValueTemplate(at[n], v)
           T == {n \in Nat : n <= N => (n > 0 /\ at[n] = Missing) \/ Same(n)}
<1>3. N \in Nat
  OBVIOUS
<1>4. ~IsObject(Missing) /\ Missing # Dollar
  BY ScalarData DEF IsObject, Scalars
<1>5. 0 \in T
  BY <1>1, <1>2 DEF Reaches
<1>6. ASSUME NEW n \in T PROVE n + 1 \in T
  <2>1. n \in Nat
    OBVIOUS
  <2>2. CASE n + 1 <= N
    <3>1. n + 1 \in 1..N /\ (n + 1) - 1 = n /\ n <= N
      BY <1>3, <2>1, <2>2
    <3> DEFINE key == path[n + 1]
    <3>2. at[n + 1] = IF (n + 1 = 1 \/ IsObject(at[n])) /\ key \in DOMAIN at[n] THEN at[n][key] ELSE Missing
      BY <1>1, <3>1 DEF Reaches
    <3>3. of[n + 1] = IF (n + 1 = 1 \/ IsObject(of[n])) /\ key \in DOMAIN of[n] THEN of[n][key] ELSE Missing
      BY <1>2, <3>1 DEF Reaches
    <3>4. n = 0 => IsObject(at[n])
      BY <1>1 DEF Reaches
    <3> HIDE DEF key
    <3>5. CASE ~IsObject(at[n])
      <4>1. at[n + 1] = Missing
        BY <2>1, <3>2, <3>4, <3>5
      <4> QED BY <2>1, <4>1
    <3>6. CASE IsObject(at[n])
      <4>1. Same(n)
        BY <1>4, <3>1, <3>6
      <4>2. /\ IsObject(of[n]) /\ DOMAIN of[n] = DOMAIN at[n]
            /\ \A k \in DOMAIN at[n] : /\ at[n][k] \in Templates
                                       /\ of[n][k] = applyValueTemplate(at[n][k], v)
        BY <3>6, <4>1, TemplateParts
      <4>3. CASE key \in DOMAIN at[n]
        <5>1. at[n + 1] = at[n][key] /\ of[n + 1] = of[n][key]
          BY <3>2, <3>3, <3>6, <4>2, <4>3
        <5>2. Same(n + 1)
          BY <4>2, <4>3, <5>1
        <5> QED BY <2>1, <5>2
      <4>4. CASE key \notin DOMAIN at[n]
        <5>1. at[n + 1] = Missing
          BY <3>2, <4>4
        <5> QED BY <2>1, <5>1
      <4> QED BY <4>3, <4>4
    <3> QED BY <3>5, <3>6
  <2> QED BY <2>1, <2>2
<1>7. N \in T
  <2> HIDE DEF T
  <2>1. T \in SUBSET Nat
    BY DEF T
  <2> QED BY <1>3, <1>5, <1>6, <2>1, AllNumbers
<1>8. Same(N)
  BY <1>1, <1>4, <1>7
<1> QED BY <1>1, <1>2, <1>8, TemplateParts

-----------------------------------------------------------------------------
(* The invariant.                                                          *)

\* What structToMap shows of a row at a path.
RowValue(r, k) == getNestedValue(structToMap(r), k)

\* The form of a value in an answer, and the fields and the item of an answer
\* that shows the values in sh.
FieldOf(ext, v) == IF Labeled THEN Label(Wrapped(ext, v)) ELSE v

FieldsOf(sh) == [ext \in DOMAIN sh |-> FieldOf(ext, sh[ext])]

ItemOf(sh) == Copy(profile.itemExtra, IF profile.itemKey = NoKey THEN FieldsOf(sh)
                                      ELSE Assign(NoFields, profile.itemKey, FieldsOf(sh)))

\* Values by external key, each of the type of its fields or null.
Typed(values) ==
    /\ DOMAIN values \subseteq Externals
    /\ \A k \in DOMAIN FieldMap : FieldMap[k] \in DOMAIN values => values[FieldMap[k]] \in Candidates(k)

\* sh has what the row has at the paths of D.
Shows(sh, D) ==
    LET seen == {k \in D : RowValue(row, k) # Missing}
    IN  /\ DOMAIN sh = {FieldMap[k] : k \in seen}
        /\ \A ext \in DOMAIN sh : \E k \in seen : FieldMap[k] = ext /\ sh[ext] = RowValue(row, k)

\* The body has the field, and what is read there.
Has(k) == FieldMap[k] \in DOMAIN src
Given(k) == Read(FieldMap[k], src[FieldMap[k]])

\* A body s, read field by field, says a; b when it has templates without labels.
Says(s, a, b) ==
    /\ Typed(a)
    /\ \A k \in DOMAIN FieldMap :
          LET ext == FieldMap[k]
          IN  /\ ext \in DOMAIN s <=> ext \in DOMAIN a
              /\ ext \in DOMAIN s => Read(ext, s[ext]) = a[ext] \/ (b /\ Read(ext, s[ext]) = Null)

\* The map that reverseTransform has built from the entries in D.
AttrsOf(D) == [j \in {j \in AttrKeys : <<"attributes", j>> \in D /\ Has(<<"attributes", j>>)}
                  |-> Given(<<"attributes", j>>)]

InternalOf(D) == [key \in {Head(k) : k \in {k \in D : Has(k)}}
                     |-> IF key = "attributes" THEN AttrsOf(D) ELSE Given(<<key>>)]

PatchTyped == /\ Patch.username \in Strings
              /\ Patch.enabled \in Booleans
              /\ IsObject(Patch.attributes)

\* The row after Update, and after all of it.
Merged == [before EXCEPT !.username = IF Patch.username = EmptyText THEN @ ELSE Patch.username,
                         !.attributes = Copy(@, Patch.attributes)]

Changed == IF Present THEN [Merged EXCEPT !.enabled = Patch.enabled] ELSE Merged

AnswerInv == /\ pc = "forward" => /\ item = Missing
                                  /\ fields = FieldsOf(shown)
                                  /\ Shows(shown, DOMAIN FieldMap \ todo)
             /\ pc = "replied" => /\ item = ItemOf(shown)
                                  /\ Shows(shown, DOMAIN FieldMap)
             /\ item # Missing => /\ item = ItemOf(shown)
                                  /\ Typed(shown)

Reading == {"reverse", "update", "enable", "updated", "refused"}

RequestInv == /\ pc \in Reading => Says(src, asked, bare)
              /\ pc \in Reading \ {"refused"} => internal = InternalOf(DOMAIN FieldMap \ todo)
              /\ pc \in {"reverse", "update", "refused"} => row = before
              /\ pc \in {"update", "enable", "updated"} => /\ todo = {}
                                                           /\ PatchTyped
                                                           /\ bare \/ ~IllTyped
              /\ pc = "enable" => Present /\ row = Merged
              /\ pc = "updated" => row = Changed
              /\ pc = "refused" => IllTyped \/ bare

TransformInv == TypeOK /\ AnswerInv /\ RequestInv

-----------------------------------------------------------------------------
(* Values, rows and bodies.                                                *)

\* No scalar is an object.
LEMMA ScalarsAre ==
  /\ Text \subseteq Scalars /\ Strings \subseteq Scalars /\ Booleans \subseteq Scalars
  /\ {EmptyText, Yes, No, Null, Dollar, Missing} \subseteq Scalars
  /\ \A v \in Scalars : ~IsObject(v)
BY DEF Scalars, Strings, Booleans, IsObject

\* The types of the fields; a value of a field is a scalar, and null is one of any.
LEMMA CandidatesAre ==
  /\ Candidates(<<"username">>) = Strings \cup {Null, Yes}
  /\ Candidates(<<"enabled">>) = Booleans \cup {Null, EmptyText}
  /\ \A j : Candidates(<<"attributes", j>>) = Text \cup {Null}
  /\ \A path : Candidates(path) \subseteq Scalars \ {Dollar, Missing} /\ Null \in Candidates(path)
<1>1. <<"username">> # <<"enabled">>
  OBVIOUS
<1>2. \A j : <<"attributes", j>> # <<"username">> /\ <<"attributes", j>> # <<"enabled">>
  OBVIOUS
<1>3. /\ Candidates(<<"username">>) = Strings \cup {Null, Yes}
      /\ Candidates(<<"enabled">>) = Booleans \cup {Null, EmptyText}
      /\ \A j : Candidates(<<"attributes", j>>) = Text \cup {Null}
  BY <1>1, <1>2 DEF Candidates
<1>4. ASSUME NEW path
      PROVE  Candidates(path) \subseteq Scalars \ {Dollar, Missing} /\ Null \in Candidates(path)
  <2>1. \/ Candidates(path) = Strings \cup {Null, Yes}
        \/ Candidates(path) = Booleans \cup {Null, EmptyText}
        \/ Candidates(path) = Text \cup {Null}
    BY DEF Candidates
  <2>2. /\ Text \cap {Dollar, Missing} = {}
        /\ {EmptyText, Yes, No, Null} \cap {Dollar, Missing} = {}
    BY ScalarData
  <2> QED BY <2>1, <2>2, ScalarsAre DEF Strings, Booleans
<1> QED BY <1>3, <1>4

\* Attributes are an object.
LEMMA AttributesAreObjects ==
  ASSUME NEW ks \in SUBSET AttrKeys, NEW m \in [ks -> Scalars]
  PROVE  IsObject(m)
BY ObjectsAreNoScalars DEF IsObject

\* The fields of a row.
LEMMA RowsAre ==
  ASSUME NEW r \in UserRows
  PROVE  /\ r.username \in Text /\ r.enabled \in Booleans
         /\ DOMAIN r = {"username", "enabled", "attributes"}
         /\ DOMAIN r.attributes \in SUBSET AttrKeys
         /\ r.attributes \in [DOMAIN r.attributes -> Text \cup {Null}]
         /\ IsObject(r.attributes)
<1>1. PICK ks \in SUBSET AttrKeys :
         r \in [username : Text, enabled : Booleans, attributes : [ks -> Text \cup {Null}]]
  BY DEF UserRows
<1>2. r.attributes \in [ks -> Text \cup {Null}]
  BY <1>1
<1>3. r.attributes \in [ks -> Scalars]
  BY <1>2, ScalarsAre
<1>4. IsObject(r.attributes)
  BY <1>3, AttributesAreObjects
<1> QED BY <1>1, <1>2, <1>4

\* The JSON of a row has at every path what the row has, and no empty attributes.
LEMMA RowShows ==
  ASSUME NEW r \in UserRows
  PROVE  /\ RowValue(r, <<"username">>) = r.username
         /\ RowValue(r, <<"enabled">>) = r.enabled
         /\ \A j : RowValue(r, <<"attributes", j>>) =
                      IF j \in DOMAIN r.attributes THEN r.attributes[j] ELSE Missing
<1> DEFINE m == structToMap(r)
<1>1. /\ "username" \in DOMAIN m /\ m["username"] = r.username
      /\ "enabled" \in DOMAIN m /\ m["enabled"] = r.enabled
  BY RowsAre DEF structToMap
<1>2. ASSUME NEW j
      PROVE  (IF "attributes" \in DOMAIN m /\ IsObject(m["attributes"]) /\ j \in DOMAIN m["attributes"]
              THEN m["attributes"][j] ELSE Missing)
             = IF j \in DOMAIN r.attributes THEN r.attributes[j] ELSE Missing
  <2>1. CASE r.attributes = NoFields
    <3>1. "attributes" \notin DOMAIN m
      BY <2>1 DEF structToMap
    <3>2. DOMAIN r.attributes = {}
      BY <2>1 DEF NoFields
    <3> QED BY <3>1, <3>2
  <2>2. CASE r.attributes # NoFields
    <3>1. m = r
      BY <2>2 DEF structToMap
    <3> QED BY <3>1, RowsAre
  <2> QED BY <2>1, <2>2
<1> HIDE DEF m
<1>3. RowValue(r, <<"username">>) = r.username
  BY <1>1, GetOne DEF RowValue, m
<1>4. RowValue(r, <<"enabled">>) = r.enabled
  BY <1>1, GetOne DEF RowValue, m
<1>5. ASSUME NEW j
      PROVE  RowValue(r, <<"attributes", j>>) = IF j \in DOMAIN r.attributes THEN r.attributes[j] ELSE Missing
  BY <1>2, GetTwo DEF RowValue, m
<1> QED BY <1>3, <1>4, <1>5

\* It has the type of the field.
LEMMA RowTyped ==
  ASSUME NEW r \in UserRows, NEW k \in UserPaths
  PROVE  RowValue(r, k) \in Candidates(k) \cup {Missing}
<1>1. CASE k = <<"username">>
  BY <1>1, RowShows, RowsAre, CandidatesAre DEF Strings
<1>2. CASE k = <<"enabled">>
  BY <1>2, RowShows, RowsAre, CandidatesAre
<1>3. ASSUME NEW j \in AttrKeys, k = <<"attributes", j>>
      PROVE  RowValue(r, k) \in Candidates(k) \cup {Missing}
  <2>1. RowValue(r, k) = IF j \in DOMAIN r.attributes THEN r.attributes[j] ELSE Missing
    BY <1>3, RowShows
  <2>2. Candidates(k) = Text \cup {Null}
    BY <1>3, CandidatesAre
  <2> QED BY <2>1, <2>2, RowsAre
<1> QED BY <1>1, <1>2, <1>3 DEF UserPaths

\* What a template without its label is read as, and every other shape.
LEMMA ReadBack ==
  ASSUME profile \in Profiles, NEW ext, NEW v \in Scalars, v # Missing
  PROVE  /\ Read(ext, v) = v
         /\ Labeled => Read(ext, Label(v)) = v
         /\ Labeled => Read(ext, Label(Wrapped(ext, v))) = v
         /\ Labeled /\ ext \notin DOMAIN profile.valueObjects => Read(ext, Wrapped(ext, v)) = v
         /\ Labeled /\ ext \in DOMAIN profile.valueObjects => Read(ext, Wrapped(ext, v)) = Null
<1>1. Read(ext, v) = v
  BY ScalarsAre DEF Read
<1>2. \A w : "value" \in DOMAIN Label(w) /\ Label(w)["value"] = w
  BY DEF Label
<1>3. \A w \in Values : IsObject(Label(w))
  BY ObjectsAreNoScalars
<1>4. v \in Values
  BY DEF Values
<1>5. ASSUME Labeled PROVE Read(ext, Label(v)) = v
  BY <1>2, <1>3, <1>4, <1>5, ScalarsAre DEF Read
<1>6. ASSUME Labeled, ext \notin DOMAIN profile.valueObjects
      PROVE  Wrapped(ext, v) = v
  BY <1>6 DEF Wrapped
<1>7. ASSUME Labeled, ext \in DOMAIN profile.valueObjects
      PROVE  /\ Read(ext, Label(Wrapped(ext, v))) = v
             /\ Read(ext, Wrapped(ext, v)) = Null
  <2> DEFINE t == profile.valueObjects[ext]
             path == profile.valuePaths[ext]
  <2>1. /\ t \in Templates /\ IsObject(t) /\ "value" \notin DOMAIN t
        /\ ext \in DOMAIN profile.valuePaths
        /\ path \in Seq(TemplateKeys)
        /\ getNestedValue(t, path) = Dollar
    BY <1>7, ProfileData
  <2>2. Wrapped(ext, v) = applyValueTemplate(t, v)
    BY <1>7 DEF Wrapped
  <2> HIDE DEF t, path
  <2>3. IsObject(Wrapped(ext, v)) /\ DOMAIN Wrapped(ext, v) = DOMAIN t
    BY <2>1, <2>2, TemplateParts
  <2>4. getNestedValue(Wrapped(ext, v), path) = v
    BY <2>1, <2>2, TemplateReadBack
  <2>5. Wrapped(ext, v) \in Values
    BY <2>1, <2>2 DEF Values
  <2>6. IsObject(Label(Wrapped(ext, v)))
    BY <1>3, <2>5
  <2> DEFINE w == Wrapped(ext, v)
  <2> HIDE DEF w
  <2>7. Read(ext, Label(w)) = v
    <3>1. getNestedValue(w, profile.valuePaths[ext]) = v
      BY <2>4 DEF w, path
    <3> QED BY <1>2, <1>7, <2>1, <2>3, <2>6, <3>1 DEF Read, w
  <2>8. Read(ext, w) = Null
    BY <1>7, <2>1, <2>3, ScalarsAre DEF Read, w
  <2> QED BY <2>7, <2>8 DEF w
<1> QED BY <1>1, <1>5, <1>6, <1>7

-----------------------------------------------------------------------------
(* Bodies and items.                                                       *)

\* Whatever shape a client gives a value, it is one of FieldValues.
LEMMA WireValues ==
  ASSUME profile \in Profiles, NEW ext, NEW v \in Scalars
  PROVE  /\ v \in FieldValues /\ Label(v) \in FieldValues
         /\ Wrapped(ext, v) \in FieldValues /\ Label(Wrapped(ext, v)) \in FieldValues
<1>1. v \in Values
  BY DEF Values
<1>2. Wrapped(ext, v) \in Values
  <2>1. CASE ext \in DOMAIN profile.valueObjects
    <3>1. profile.valueObjects[ext] \in Templates
      BY <2>1, ProfileData
    <3> QED BY <2>1, <3>1 DEF Wrapped, Values
  <2>2. CASE ext \notin DOMAIN profile.valueObjects
    BY <1>1, <2>2 DEF Wrapped
  <2> QED BY <2>1, <2>2
<1> QED BY <1>1, <1>2 DEF FieldValues

\* A body is an object, so it is found below the item's key.
LEMMA BodiesAreObjects ==
  ASSUME profile \in Profiles, NEW exts \in SUBSET Externals, NEW f \in [exts -> FieldValues]
  PROVE  IsObject(f)
<1>1. Externals = {profile.fieldMap[k] : k \in DOMAIN profile.fieldMap}
  BY DEF Externals, FieldMap
<1>2. \A v \in Scalars : v \notin [exts -> FieldValues]
  BY <1>1, ObjectsAreNoScalars
<1> QED BY <1>2 DEF IsObject

\* Values of fields are scalars.
LEMMA TypedValues ==
  ASSUME profile \in Profiles, NEW sh, Typed(sh)
  PROVE  \A ext \in DOMAIN sh : sh[ext] \in Scalars \ {Dollar, Missing}
<1> SUFFICES ASSUME NEW ext \in DOMAIN sh PROVE sh[ext] \in Scalars \ {Dollar, Missing}
  OBVIOUS
<1>1. PICK k \in DOMAIN FieldMap : FieldMap[k] = ext
  BY DEF Typed, Externals
<1>2. sh[ext] \in Candidates(k)
  BY <1>1 DEF Typed
<1> QED BY <1>2, CandidatesAre

\* The fields of an answer can be read back one by one.
LEMMA FieldsAre ==
  ASSUME profile \in Profiles, NEW sh, Typed(sh)
  PROVE  /\ DOMAIN FieldsOf(sh) = DOMAIN sh
         /\ DOMAIN sh \subseteq Externals
         /\ IsObject(FieldsOf(sh))
         /\ \A ext \in DOMAIN sh : Read(ext, FieldsOf(sh)[ext]) = sh[ext]
<1>1. \A ext \in DOMAIN sh : sh[ext] \in Scalars /\ sh[ext] # Missing
  BY TypedValues
<1>2. DOMAIN sh \in SUBSET Externals
  BY DEF Typed
<1>3. \A ext \in DOMAIN sh : FieldOf(ext, sh[ext]) \in FieldValues
  BY <1>1, WireValues DEF FieldOf
<1>4. FieldsOf(sh) \in [DOMAIN sh -> FieldValues]
  BY <1>3 DEF FieldsOf
<1>5. IsObject(FieldsOf(sh))
  BY <1>2, <1>4, BodiesAreObjects
<1>6. \A ext \in DOMAIN sh : Read(ext, FieldOf(ext, sh[ext])) = sh[ext]
  BY <1>1, ReadBack DEF FieldOf
<1> QED BY <1>2, <1>5, <1>6 DEF FieldsOf

\* A body is unwrapped from the key of the item, and only from there.
LEMMA Unwraps ==
  ASSUME profile \in Profiles, NEW flat, DOMAIN flat \subseteq Externals, IsObject(flat)
  PROVE  /\ Unwrapped(flat) = flat
         /\ Unwrapped(Assign(NoFields, profile.itemKey, flat)) = flat
<1>1. profile.itemKey \notin Externals
  BY ProfileData DEF Externals, FieldMap
<1>2. Unwrapped(flat) = flat
  BY <1>1 DEF Unwrapped
<1>3. Unwrapped(Assign(NoFields, profile.itemKey, flat)) = flat
  <2> DEFINE body == Assign(NoFields, profile.itemKey, flat)
  <2>1. profile.itemKey \in DOMAIN body /\ body[profile.itemKey] = flat
    BY DEF Assign
  <2> HIDE DEF body
  <2>2. Unwrapped(body) = flat
    BY <2>1 DEF Unwrapped
  <2> QED BY <2>2 DEF body
<1> QED BY <1>2, <1>3

\* A client's fields in any form, below the item's key or not.
LEMMA SendSays ==
  ASSUME profile \in Profiles, NEW a \in Requests, NEW form \in Forms,
         NEW flat, flat = [ext \in DOMAIN a |-> Wire(form, ext, a[ext])]
  PROVE  LET b == form = "bare" /\ DOMAIN a \cap DOMAIN profile.valueObjects # {}
         IN  /\ Says(Unwrapped(flat), a, b)
             /\ Says(Unwrapped(Assign(NoFields, profile.itemKey, flat)), a, b)
<1> DEFINE b == form = "bare" /\ DOMAIN a \cap DOMAIN profile.valueObjects # {}
<1>1. PICK exts \in SUBSET Externals :
         /\ a \in [exts -> Scalars \ {Dollar, Missing}]
         /\ \A k \in DOMAIN FieldMap : FieldMap[k] \in exts => a[FieldMap[k]] \in Candidates(k)
  BY DEF Requests
<1>2. Typed(a)
  BY <1>1 DEF Typed
<1>3. \A ext \in DOMAIN a : a[ext] \in Scalars /\ a[ext] # Missing
  BY <1>1
<1>4. form \in {"plain", "labeled", "templated", "bare"} /\ (form # "plain" => Labeled)
  BY DEF Forms
<1>5. \A ext \in DOMAIN a : Wire(form, ext, a[ext]) \in FieldValues
  BY <1>3, <1>4, WireValues DEF Wire
<1>6. DOMAIN flat = DOMAIN a /\ DOMAIN a = exts
  BY <1>1
<1>7. flat \in [exts -> FieldValues]
  BY <1>5, <1>6
<1>8. IsObject(flat)
  BY <1>7, BodiesAreObjects
<1>9. /\ Unwrapped(flat) = flat
      /\ Unwrapped(Assign(NoFields, profile.itemKey, flat)) = flat
  BY <1>6, <1>8, Unwraps
<1>10. ASSUME NEW ext \in DOMAIN a
       PROVE  Read(ext, flat[ext]) = a[ext] \/ (b /\ Read(ext, flat[ext]) = Null)
  <2>1. flat[ext] = Wire(form, ext, a[ext])
    OBVIOUS
  <2>2. CASE form = "plain"
    BY <1>3, <2>1, <2>2, ReadBack DEF Wire
  <2>3. CASE form = "labeled"
    BY <1>3, <1>4, <2>1, <2>3, ReadBack DEF Wire
  <2>4. CASE form = "templated"
    BY <1>3, <1>4, <2>1, <2>4, ReadBack DEF Wire
  <2>5. CASE form = "bare"
    <3>1. flat[ext] = Wrapped(ext, a[ext])
      BY <2>1, <2>5 DEF Wire
    <3>2. Labeled
      BY <1>4, <2>5
    <3>3. CASE ext \in DOMAIN profile.valueObjects
      BY <1>3, <2>5, <3>1, <3>2, <3>3, ReadBack
    <3>4. CASE ext \notin DOMAIN profile.valueObjects
      BY <1>3, <3>1, <3>2, <3>4, ReadBack
    <3> QED BY <3>3, <3>4
  <2> QED BY <1>4, <2>2, <2>3, <2>4, <2>5
<1> HIDE DEF b
<1>11. Says(flat, a, b)
  BY <1>2, <1>6, <1>10 DEF Says
<1> QED BY <1>9, <1>11 DEF b

\* An item, sent back, says what it showed, and the defaults among it.
LEMMA ItemSays ==
  ASSUME profile \in Profiles, NEW sh, Typed(sh), NEW b
  PROVE  Says(Unwrapped(ItemOf(sh)), Copy(Defaults, sh), b)
<1> DEFINE fs == FieldsOf(sh)
           a == Copy(Defaults, sh)
<1>1. /\ DOMAIN fs = DOMAIN sh /\ DOMAIN sh \subseteq Externals /\ IsObject(fs)
      /\ \A ext \in DOMAIN sh : Read(ext, fs[ext]) = sh[ext]
  BY FieldsAre
<1>2. profile.itemKey \notin Externals
  BY ProfileData DEF Externals, FieldMap
<1>3. /\ DOMAIN a = DOMAIN Defaults \cup DOMAIN sh
      /\ \A ext \in DOMAIN sh : a[ext] = sh[ext]
      /\ \A ext \in DOMAIN Defaults \ DOMAIN sh : a[ext] = Defaults[ext]
  BY DEF Copy
<1> HIDE DEF fs, a
<1>4. CASE profile.itemKey = NoKey
  <2>1. ItemOf(sh) = Copy(profile.itemExtra, fs)
    BY <1>4 DEF ItemOf, fs
  <2>2. DOMAIN ItemOf(sh) = DOMAIN profile.itemExtra \cup DOMAIN sh
    BY <1>1, <2>1 DEF Copy
  <2>3. NoKey \notin DOMAIN profile.itemExtra
    BY <1>4, ProfileData
  <2>4. Unwrapped(ItemOf(sh)) = ItemOf(sh)
    BY <1>1, <1>2, <1>4, <2>2, <2>3 DEF Unwrapped
  <2>5. /\ DOMAIN Defaults = DOMAIN profile.itemExtra \cap Externals
        /\ \A ext \in DOMAIN Defaults : Defaults[ext] = profile.itemExtra[ext]
    BY <1>4 DEF Defaults
  <2>6. \A k \in DOMAIN FieldMap : FieldMap[k] \in DOMAIN Defaults => Defaults[FieldMap[k]] \in Candidates(k)
    BY <1>4, <2>5, ProfileData DEF FieldMap
  <2>7. Typed(a)
    BY <1>1, <1>3, <2>5, <2>6 DEF Typed
  <2>8. ASSUME NEW ext \in Externals, ext \in DOMAIN a
        PROVE  Read(ext, ItemOf(sh)[ext]) = a[ext]
    <3>1. CASE ext \in DOMAIN sh
      <4>1. ItemOf(sh)[ext] = fs[ext]
        BY <1>1, <2>1, <3>1 DEF Copy
      <4> QED BY <1>1, <1>3, <3>1, <4>1
    <3>2. CASE ext \notin DOMAIN sh
      <4>1. ext \in DOMAIN Defaults /\ a[ext] = profile.itemExtra[ext]
        BY <1>3, <2>5, <2>8, <3>2
      <4>2. ItemOf(sh)[ext] = profile.itemExtra[ext]
        BY <1>1, <2>1, <2>5, <3>2, <4>1 DEF Copy
      <4>3. a[ext] \in Scalars /\ a[ext] # Missing
        BY <2>7, <2>8, TypedValues
      <4> QED BY <4>1, <4>2, <4>3, ReadBack
    <3> QED BY <3>1, <3>2
  <2>9. \A k \in DOMAIN FieldMap : FieldMap[k] \in Externals
    BY DEF Externals
  <2>10. \A ext \in Externals : ext \in DOMAIN ItemOf(sh) <=> ext \in DOMAIN a
    BY <1>3, <2>2, <2>5
  <2>11. Says(ItemOf(sh), a, b)
    BY <2>7, <2>8, <2>9, <2>10 DEF Says
  <2> QED BY <2>4, <2>11 DEF a
<1>5. CASE profile.itemKey # NoKey
  <2>1. ItemOf(sh) = Copy(profile.itemExtra, Assign(NoFields, profile.itemKey, fs))
    BY <1>5 DEF ItemOf, fs
  <2>2. profile.itemKey \in DOMAIN ItemOf(sh) /\ ItemOf(sh)[profile.itemKey] = fs
    BY <2>1 DEF Assign, Copy
  <2>3. Unwrapped(ItemOf(sh)) = fs
    BY <1>1, <2>2 DEF Unwrapped
  <2>4. DOMAIN Defaults = {}
    BY <1>5 DEF Defaults, NoFields
  <2>5. Typed(a)
    BY <1>1, <1>3, <2>4 DEF Typed
  <2>6. Says(fs, a, b)
    BY <1>1, <1>3, <2>4, <2>5 DEF Says
  <2> QED BY <2>3, <2>6 DEF a
<1> QED BY <1>4, <1>5

-----------------------------------------------------------------------------
(* forwardTransform.                                                       *)

\* One more value, one more field.
LEMMA FieldsAssigned ==
  ASSUME NEW sh, NEW ext, NEW v
  PROVE  FieldsOf(Assign(sh, ext, v)) = Assign(FieldsOf(sh), ext, FieldOf(ext, v))
<1> DEFINE new == Assign(sh, ext, v)
<1>1. /\ DOMAIN new = DOMAIN sh \cup {ext} /\ new[ext] = v
      /\ \A e \in DOMAIN sh \ {ext} : new[e] = sh[e]
  BY DEF Assign
<1> HIDE DEF new
<1>2. FieldsOf(new) = [e \in DOMAIN new |-> FieldOf(e, new[e])]
  BY DEF FieldsOf
<1>3. Assign(FieldsOf(sh), ext, FieldOf(ext, v)) =
         [e \in DOMAIN sh \cup {ext} |-> IF e = ext THEN FieldOf(ext, v) ELSE FieldOf(e, sh[e])]
  BY DEF Assign, FieldsOf
<1>4. \A e \in DOMAIN sh \cup {ext} :
         FieldOf(e, new[e]) = IF e = ext THEN FieldOf(ext, v) ELSE FieldOf(e, sh[e])
  BY <1>1
<1> HIDE DEF FieldsOf
<1>5. FieldsOf(new) = Assign(FieldsOf(sh), ext, FieldOf(ext, v))
  BY <1>1, <1>2, <1>3, <1>4
<1> QED BY <1>5 DEF new

\* Before the loop.
LEMMA ShowsNothing ==
  FieldsOf(NoFields) = NoFields /\ Shows(NoFields, {})
BY DEF FieldsOf, Shows, NoFields

\* One turn of the loop, for an entry that the user has, and for one that it has not.
LEMMA ShowsMore ==
  ASSUME NEW sh, NEW D, Shows(sh, D), NEW k
  PROVE  /\ RowValue(row, k) # Missing => Shows(Assign(sh, FieldMap[k], RowValue(row, k)), D \cup {k})
         /\ RowValue(row, k) = Missing => Shows(sh, D \cup {k})
<1> DEFINE seen == {j \in D : RowValue(row, j) # Missing}
           more == {j \in D \cup {k} : RowValue(row, j) # Missing}
           ext == FieldMap[k]
           v == RowValue(row, k)
           new == Assign(sh, ext, v)
<1>1. /\ DOMAIN sh = {FieldMap[j] : j \in seen}
      /\ \A e \in DOMAIN sh : \E j \in seen : FieldMap[j] = e /\ sh[e] = RowValue(row, j)
  BY DEF Shows
<1>2. /\ DOMAIN new = DOMAIN sh \cup {ext} /\ new[ext] = v
      /\ \A e \in DOMAIN sh \ {ext} : new[e] = sh[e]
  BY DEF Assign
<1>3. ASSUME v # Missing PROVE Shows(new, D \cup {k})
  <2>1. more = seen \cup {k}
    BY <1>3
  <2>2. k \in more /\ seen \subseteq more
    BY <2>1
  <2> HIDE DEF seen, more, new, v, ext
  <2>3. DOMAIN new = {FieldMap[j] : j \in more}
    BY <1>1, <1>2, <2>1 DEF ext
  <2>4. ASSUME NEW e \in DOMAIN new
        PROVE  \E j \in more : FieldMap[j] = e /\ new[e] = RowValue(row, j)
    <3>1. CASE e = ext
      BY <1>2, <2>2, <3>1 DEF ext, v
    <3>2. CASE e # ext
      <4>1. e \in DOMAIN sh /\ new[e] = sh[e]
        BY <1>2, <3>2
      <4>2. PICK j \in seen : FieldMap[j] = e /\ sh[e] = RowValue(row, j)
        BY <1>1, <4>1
      <4> QED BY <2>2, <4>1, <4>2
    <3> QED BY <3>1, <3>2
  <2> QED BY <2>3, <2>4 DEF Shows, more
<1>4. ASSUME v = Missing PROVE Shows(sh, D \cup {k})
  <2>1. more = seen
    BY <1>4
  <2> QED BY <1>1, <2>1 DEF Shows
<1> QED BY <1>3, <1>4

\* What was read from a row has the types of the fields.
LEMMA ShownIsTyped ==
  ASSUME profile \in Profiles, row \in UserRows, NEW sh, NEW D \in SUBSET DOMAIN FieldMap, Shows(sh, D)
  PROVE  Typed(sh)
<1>1. /\ DOMAIN sh \subseteq {FieldMap[j] : j \in D}
      /\ \A e \in DOMAIN sh : \E j \in D : /\ FieldMap[j] = e /\ sh[e] = RowValue(row, j)
                                           /\ RowValue(row, j) # Missing
  BY DEF Shows
<1>2. DOMAIN sh \subseteq Externals
  BY <1>1 DEF Externals
<1>3. /\ DOMAIN FieldMap \subseteq UserPaths
      /\ \A j, k \in DOMAIN FieldMap : FieldMap[j] = FieldMap[k] => Candidates(j) = Candidates(k)
  BY ProfileData DEF FieldMap
<1>4. ASSUME NEW k \in DOMAIN FieldMap, FieldMap[k] \in DOMAIN sh
      PROVE  sh[FieldMap[k]] \in Candidates(k)
  <2>1. PICK j \in D : /\ FieldMap[j] = FieldMap[k] /\ sh[FieldMap[k]] = RowValue(row, j)
                       /\ RowValue(row, j) # Missing
    BY <1>1, <1>4
  <2>2. j \in DOMAIN FieldMap /\ j \in UserPaths
    BY <1>3
  <2>3. RowValue(row, j) \in Candidates(j)
    BY <2>1, <2>2, RowTyped
  <2> QED BY <1>3, <2>1, <2>2, <2>3
<1> QED BY <1>2, <1>4 DEF Typed

\* The form of the answer depends on the profile and the values only.
LEMMA FieldsStay ==
  ASSUME profile' = profile
  PROVE  /\ FieldsOf(shown)' = FieldsOf(shown')
         /\ ItemOf(shown)' = ItemOf(shown')
         /\ Typed(shown)' <=> Typed(shown')
         /\ (DOMAIN FieldMap)' = DOMAIN FieldMap
BY DEF FieldsOf, ItemOf, FieldOf, Typed, Wrapped, Labeled, FieldMap, Externals

\* What an answer has to show depends on the profile and the row only.
LEMMA ShownStays ==
  ASSUME profile' = profile, row' = row
  PROVE  \A D : Shows(shown, D)' <=> Shows(shown', D)
BY DEF Shows, FieldMap

\* The row is sent as the client gets it.
LEMMA ForwardKeeps ==
  ASSUME TransformInv, Forward, profile' = profile, row' = row
  PROVE  AnswerInv'
<1>1. pc' = "forward" /\ item' = Missing
  BY DEF Forward
<1>2. fields' = NoFields /\ shown' = NoFields
  BY DEF Forward
<1>3. FieldsOf(shown') = NoFields /\ Shows(shown', {})
  BY <1>2, ShowsNothing
<1>4. (DOMAIN FieldMap \ todo)' = {}
  BY DEF Forward, FieldMap
<1>5. Shows(shown, DOMAIN FieldMap \ todo)'
  BY <1>3, <1>4, ShownStays DEF Shows, FieldMap
<1> QED BY <1>1, <1>2, <1>3, <1>5, FieldsStay DEF AnswerInv

\* A turn of the loop of forwardTransform.
LEMMA ForwardFieldKeeps ==
  ASSUME TransformInv, ForwardField
  PROVE  AnswerInv' /\ DOMAIN fields' \subseteq Externals /\ todo' \subseteq DOMAIN FieldMap
<1> USE DEF TransformInv
<1>1. PICK k \in todo :
         LET v == RowValue(row, k)
             ext == FieldMap[k]
         IN  /\ todo' = todo \ {k}
             /\ IF v = Missing
                THEN UNCHANGED <<fields, shown>>
                ELSE /\ fields' = Assign(fields, ext, FieldOf(ext, v))
                     /\ shown' = Assign(shown, ext, v)
  BY DEF ForwardField, RowValue, FieldOf
<1>2. /\ pc = "forward" /\ profile' = profile /\ row' = row /\ pc' = pc /\ item' = item
  BY DEF ForwardField
<1>3. item = Missing /\ fields = FieldsOf(shown) /\ Shows(shown, DOMAIN FieldMap \ todo)
  BY <1>2 DEF AnswerInv
<1>4. todo \subseteq DOMAIN FieldMap
  BY DEF TypeOK
<1> DEFINE D == DOMAIN FieldMap \ todo
           E == DOMAIN FieldMap \ todo'
<1>5. E = D \cup {k}
  BY <1>1, <1>4
<1>6. fields' = FieldsOf(shown') /\ Shows(shown', E)
  <2> HIDE DEF D, E
  <2>1. Shows(shown, D)
    BY <1>3 DEF D
  <2>2. CASE RowValue(row, k) = Missing
    <3>1. Shows(shown, E)
      BY <1>5, <2>1, <2>2, ShowsMore
    <3> QED BY <1>1, <1>3, <2>2, <3>1
  <2>3. CASE RowValue(row, k) # Missing
    <3>1. Shows(Assign(shown, FieldMap[k], RowValue(row, k)), E)
      BY <1>5, <2>1, <2>3, ShowsMore
    <3>2. shown' = Assign(shown, FieldMap[k], RowValue(row, k))
      BY <1>1, <2>3
    <3>3. fields' = Assign(FieldsOf(shown), FieldMap[k], FieldOf(FieldMap[k], RowValue(row, k)))
      BY <1>1, <1>3, <2>3
    <3> QED BY <3>1, <3>2, <3>3, FieldsAssigned
  <2> QED BY <2>2, <2>3
<1>7. (DOMAIN FieldMap \ todo)' = E
  BY <1>2, FieldsStay
<1>8. Shows(shown, DOMAIN FieldMap \ todo)'
  <2> HIDE DEF E
  <2> QED BY <1>2, <1>6, <1>7 DEF Shows, FieldMap
<1>9. AnswerInv'
  BY <1>2, <1>3, <1>6, <1>8, FieldsStay DEF AnswerInv
<1>10. DOMAIN fields' \subseteq Externals
  <2>1. E \in SUBSET DOMAIN FieldMap
    OBVIOUS
  <2> HIDE DEF E
  <2>2. Typed(shown')
    BY <1>6, <2>1, ShownIsTyped DEF TypeOK
  <2>3. DOMAIN FieldsOf(shown') = DOMAIN shown'
    BY DEF FieldsOf
  <2> QED BY <1>6, <2>2, <2>3 DEF Typed
<1> QED BY <1>1, <1>4, <1>9, <1>10

\* The fields get their envelope.
LEMMA ReplyKeeps ==
  ASSUME TransformInv, Reply
  PROVE  AnswerInv'
<1> USE DEF TransformInv
<1>1. /\ pc = "forward" /\ todo = {} /\ pc' = "replied" /\ item' = Shaped
      /\ profile' = profile /\ row' = row /\ shown' = shown
  BY DEF Reply
<1>2. fields = FieldsOf(shown) /\ Shows(shown, DOMAIN FieldMap)
  BY <1>1 DEF AnswerInv
<1>3. Shaped = ItemOf(shown)
  BY <1>2 DEF Shaped, Mapped, ItemOf
<1>4. Typed(shown)
  BY <1>2, ShownIsTyped DEF TypeOK
<1>5. Shows(shown, DOMAIN FieldMap)'
  BY <1>1, <1>2 DEF Shows, FieldMap
<1> QED BY <1>1, <1>3, <1>4, <1>5, FieldsStay DEF AnswerInv

\* What the client finds is what the loop put there.
LEMMA AnswerFound ==
  ASSUME TransformInv, pc = "replied", NEW ext \in Externals
  PROVE  Found(ext) = IF ext \in DOMAIN shown THEN shown[ext]
                      ELSE IF profile.itemKey = NoKey /\ ext \in DOMAIN profile.itemExtra
                           THEN profile.itemExtra[ext] ELSE Missing
<1> USE DEF TransformInv
<1>1. profile \in Profiles /\ row \in UserRows
  BY DEF TypeOK
<1>2. item = ItemOf(shown) /\ Shows(shown, DOMAIN FieldMap)
  BY DEF AnswerInv
<1>3. Typed(shown)
  BY <1>1, <1>2, ShownIsTyped
<1> DEFINE fs == IF profile.itemKey = NoKey THEN item ELSE item[profile.itemKey]
<1>4. Found(ext) = IF ext \notin DOMAIN fs THEN Missing
                   ELSE IF ~Labeled \/ ~IsObject(fs[ext]) THEN fs[ext]
                   ELSE IF ext \in DOMAIN profile.valuePaths
                        THEN getNestedValue(fs[ext].value, profile.valuePaths[ext])
                        ELSE fs[ext].value
  BY DEF Found
<1>5. /\ ext \in DOMAIN shown => ext \in DOMAIN fs /\ fs[ext] = FieldOf(ext, shown[ext])
      /\ ext \notin DOMAIN shown =>
            IF profile.itemKey = NoKey /\ ext \in DOMAIN profile.itemExtra
            THEN ext \in DOMAIN fs /\ fs[ext] = profile.itemExtra[ext]
            ELSE ext \notin DOMAIN fs
  BY <1>2 DEF ItemOf, FieldsOf, Copy, Assign
<1> HIDE DEF fs
<1>6. CASE ext \in DOMAIN shown
  <2> DEFINE v == shown[ext]
  <2>1. v \in Scalars /\ v # Missing
    BY <1>1, <1>3, <1>6, TypedValues
  <2> HIDE DEF v
  <2>2. CASE ~Labeled
    BY <1>4, <1>5, <1>6, <2>2 DEF FieldOf
  <2>3. CASE Labeled
    <3>1. fs[ext] = Label(Wrapped(ext, v))
      BY <1>5, <1>6, <2>3 DEF FieldOf, v
    <3>2. Wrapped(ext, v) \in Values
      BY <1>1, <2>1, ProfileData DEF Wrapped, Values
    <3>3. IsObject(fs[ext]) /\ fs[ext].value = Wrapped(ext, v)
      BY <3>1, <3>2, ObjectsAreNoScalars DEF Label
    <3>4. DOMAIN profile.valuePaths = DOMAIN profile.valueObjects
      BY <1>1, ProfileData
    <3>5. CASE ext \in DOMAIN profile.valueObjects
      <4> DEFINE t == profile.valueObjects[ext]
                 path == profile.valuePaths[ext]
      <4>1. /\ t \in Templates /\ IsObject(t) /\ path \in Seq(TemplateKeys)
            /\ getNestedValue(t, path) = Dollar
        BY <1>1, <3>5, ProfileData
      <4>2. Wrapped(ext, v) = applyValueTemplate(t, v)
        BY <3>5 DEF Wrapped
      <4> HIDE DEF t, path
      <4>3. getNestedValue(Wrapped(ext, v), path) = v
        BY <2>1, <4>1, <4>2, TemplateReadBack
      <4> QED BY <1>4, <1>5, <1>6, <2>3, <3>3, <3>4, <3>5, <4>3 DEF path, v
    <3>6. CASE ext \notin DOMAIN profile.valueObjects
      <4>1. Wrapped(ext, v) = v
        BY <3>6 DEF Wrapped
      <4> QED BY <1>4, <1>5, <1>6, <2>3, <3>3, <3>4, <3>6, <4>1 DEF v
    <3> QED BY <3>5, <3>6
  <2> QED BY <2>2, <2>3
<1>7. CASE ext \notin DOMAIN shown
  <2>1. CASE profile.itemKey = NoKey /\ ext \in DOMAIN profile.itemExtra
    <3>1. PICK k \in DOMAIN FieldMap : FieldMap[k] = ext
      BY DEF Externals
    <3>2. profile.itemExtra[ext] \in Candidates(k)
      BY <1>1, <2>1, <3>1, ProfileData DEF FieldMap
    <3>3. ~IsObject(profile.itemExtra[ext])
      BY <3>2, CandidatesAre, ScalarsAre
    <3> QED BY <1>4, <1>5, <1>7, <2>1, <3>3
  <2>2. CASE ~(profile.itemKey = NoKey /\ ext \in DOMAIN profile.itemExtra)
    BY <1>4, <1>5, <1>7, <2>2
  <2> QED BY <2>1, <2>2
<1> QED BY <1>6, <1>7

\* A complete answer shows the row.
LEMMA InvShowsRow == TransformInv => AnswerShowsRow
<1> SUFFICES ASSUME TransformInv, pc = "replied", NEW ext \in Externals
             PROVE  LET values == Behind(ext) \ {Missing}
                    IN  IF values # {} THEN Found(ext) \in values
                        ELSE Found(ext) = IF profile.itemKey = NoKey /\ ext \in DOMAIN profile.itemExtra
                                          THEN profile.itemExtra[ext] ELSE Missing
  BY DEF AnswerShowsRow
<1>1. Shows(shown, DOMAIN FieldMap)
  BY DEF TransformInv, AnswerInv
<1> DEFINE values == Behind(ext) \ {Missing}
<1>2. values = {RowValue(row, k) : k \in {k \in DOMAIN FieldMap : FieldMap[k] = ext}} \ {Missing}
  BY DEF Behind, RowValue
<1>3. CASE values # {}
  <2>1. PICK k \in DOMAIN FieldMap : FieldMap[k] = ext /\ RowValue(row, k) # Missing
    BY <1>2, <1>3
  <2>2. ext \in DOMAIN shown
    BY <1>1, <2>1 DEF Shows
  <2>3. PICK j \in DOMAIN FieldMap : /\ FieldMap[j] = ext /\ shown[ext] = RowValue(row, j)
                                     /\ RowValue(row, j) # Missing
    BY <1>1, <2>2 DEF Shows
  <2>4. shown[ext] \in values
    BY <1>2, <2>3
  <2> QED BY <1>3, <2>2, <2>4, AnswerFound
<1>4. CASE values = {}
  <2>1. \A k \in DOMAIN FieldMap : FieldMap[k] = ext => RowValue(row, k) = Missing
    BY <1>2, <1>4
  <2>2. ext \notin DOMAIN shown
    BY <1>1, <2>1 DEF Shows
  <2> QED BY <1>4, <2>2, AnswerFound
<1> QED BY <1>3, <1>4

-----------------------------------------------------------------------------
(* reverseTransform.                                                       *)

\* What is read from the body for a path is what was asked, or null for a bare template.
LEMMA GivenIs ==
  ASSUME profile \in Profiles, Says(src, asked, bare), NEW k \in DOMAIN FieldMap, Has(k)
  PROVE  /\ Given(k) \in Candidates(k)
         /\ FieldMap[k] \in DOMAIN asked
         /\ Given(k) = asked[FieldMap[k]] \/ (bare /\ Given(k) = Null)
<1>1. /\ FieldMap[k] \in DOMAIN asked
      /\ Given(k) = asked[FieldMap[k]] \/ (bare /\ Given(k) = Null)
  BY DEF Says, Has, Given
<1>2. asked[FieldMap[k]] \in Candidates(k)
  BY <1>1 DEF Says, Typed
<1> QED BY <1>1, <1>2, CandidatesAre

\* The paths of a field_map, and that they differ.
LEMMA PathsAre ==
  ASSUME profile \in Profiles
  PROVE  /\ DOMAIN FieldMap \subseteq UserPaths
         /\ Head(<<"username">>) = "username" /\ Head(<<"enabled">>) = "enabled"
         /\ \A j : Head(<<"attributes", j>>) = "attributes"
         /\ <<"username">> # <<"enabled">>
         /\ \A i, j : /\ <<"attributes", j>> # <<"username">> /\ <<"attributes", j>> # <<"enabled">>
                      /\ <<"attributes", i>> = <<"attributes", j>> => i = j
<1>1. DOMAIN FieldMap \subseteq UserPaths
  BY ProfileData DEF FieldMap
<1>2. Head(<<"username">>) = "username" /\ Head(<<"enabled">>) = "enabled"
  OBVIOUS
<1>3. \A j : Head(<<"attributes", j>>) = "attributes"
  OBVIOUS
<1>4. <<"username">> # <<"enabled">>
  OBVIOUS
<1>5. \A i, j : /\ <<"attributes", j>> # <<"username">> /\ <<"attributes", j>> # <<"enabled">>
                /\ <<"attributes", i>> = <<"attributes", j>> => i = j
  OBVIOUS
<1> QED BY <1>1, <1>2, <1>3, <1>4, <1>5

\* The attributes built from some entries.
LEMMA AttrsAre ==
  ASSUME profile \in Profiles, Says(src, asked, bare), NEW D \in SUBSET DOMAIN FieldMap
  PROVE  /\ DOMAIN AttrsOf(D) \in SUBSET AttrKeys
         /\ AttrsOf(D) \in [DOMAIN AttrsOf(D) -> Text \cup {Null}]
         /\ IsObject(AttrsOf(D))
         /\ \A j \in AttrKeys : j \in DOMAIN AttrsOf(D) <=>
                                   <<"attributes", j>> \in D /\ Has(<<"attributes", j>>)
         /\ \A j \in DOMAIN AttrsOf(D) : AttrsOf(D)[j] = Given(<<"attributes", j>>)
<1>1. /\ DOMAIN AttrsOf(D) \in SUBSET AttrKeys
      /\ \A j \in AttrKeys : j \in DOMAIN AttrsOf(D) <=>
                                <<"attributes", j>> \in D /\ Has(<<"attributes", j>>)
      /\ \A j \in DOMAIN AttrsOf(D) : AttrsOf(D)[j] = Given(<<"attributes", j>>)
  BY DEF AttrsOf
<1>2. \A j \in DOMAIN AttrsOf(D) : AttrsOf(D)[j] \in Text \cup {Null}
  BY <1>1, GivenIs, CandidatesAre
<1>3. AttrsOf(D) \in [DOMAIN AttrsOf(D) -> Text \cup {Null}]
  BY <1>2 DEF AttrsOf
<1>4. AttrsOf(D) \in [DOMAIN AttrsOf(D) -> Scalars]
  BY <1>3, ScalarsAre
<1>5. IsObject(AttrsOf(D))
  BY <1>1, <1>4, AttributesAreObjects
<1> QED BY <1>1, <1>3, <1>5

\* The map built from some entries, key by key.
LEMMA InternalIs ==
  ASSUME profile \in Profiles, NEW D \in SUBSET DOMAIN FieldMap
  PROVE  LET m == InternalOf(D)
         IN  /\ DOMAIN m \subseteq {"username", "enabled", "attributes"}
             /\ \A key \in {"username", "enabled"} :
                   /\ key \in DOMAIN m <=> <<key>> \in D /\ Has(<<key>>)
                   /\ key \in DOMAIN m => m[key] = Given(<<key>>)
             /\ "attributes" \in DOMAIN m <=>
                   \E j \in AttrKeys : <<"attributes", j>> \in D /\ Has(<<"attributes", j>>)
             /\ "attributes" \in DOMAIN m => m["attributes"] = AttrsOf(D)
<1> DEFINE m == InternalOf(D)
           got == {k \in D : Has(k)}
<1>1. DOMAIN m = {Head(k) : k \in got}
  BY DEF InternalOf
<1>2. \A k \in got : k = <<"username">> \/ k = <<"enabled">> \/ \E j \in AttrKeys : k = <<"attributes", j>>
  BY PathsAre DEF UserPaths
<1>3. \A key \in DOMAIN m : m[key] = IF key = "attributes" THEN AttrsOf(D) ELSE Given(<<key>>)
  BY DEF InternalOf
<1>4. \A k : k \in got <=> k \in D /\ Has(k)
  OBVIOUS
<1> HIDE DEF m, got
<1>5. DOMAIN m \subseteq {"username", "enabled", "attributes"}
  BY <1>1, <1>2, PathsAre
<1>6. "username" \in DOMAIN m <=> <<"username">> \in got
  <2>1. \A k \in got : Head(k) = "username" => k = <<"username">>
    BY <1>2, PathsAre
  <2> QED BY <1>1, <2>1, PathsAre
<1>7. "enabled" \in DOMAIN m <=> <<"enabled">> \in got
  <2>1. \A k \in got : Head(k) = "enabled" => k = <<"enabled">>
    BY <1>2, PathsAre
  <2> QED BY <1>1, <2>1, PathsAre
<1>8. "attributes" \in DOMAIN m <=> \E j \in AttrKeys : <<"attributes", j>> \in got
  <2>1. \A k \in got : Head(k) = "attributes" => \E j \in AttrKeys : k = <<"attributes", j>>
    BY <1>2, PathsAre
  <2> QED BY <1>1, <2>1, PathsAre
<1> QED BY <1>3, <1>4, <1>5, <1>6, <1>7, <1>8 DEF m

\* One turn of the loop adds one entry to what it has built.
LEMMA BuiltMore ==
  ASSUME profile \in Profiles, Says(src, asked, bare),
         NEW D \in SUBSET DOMAIN FieldMap, NEW k \in DOMAIN FieldMap
  PROVE  /\ Has(k) => setNestedValue(InternalOf(D), k, Given(k)) = InternalOf(D \cup {k})
         /\ ~Has(k) => InternalOf(D \cup {k}) = InternalOf(D)
<1> DEFINE E == D \cup {k}
           m == InternalOf(D)
           new == InternalOf(E)
<1>1. E \in SUBSET DOMAIN FieldMap
  OBVIOUS
<1>2. ASSUME ~Has(k) PROVE new = m
  <2>1. {j \in E : Has(j)} = {j \in D : Has(j)}
    BY <1>2
  <2>2. AttrsOf(E) = AttrsOf(D)
    <3>1. \A j \in AttrKeys : <<"attributes", j>> \in E /\ Has(<<"attributes", j>>)
                                 <=> <<"attributes", j>> \in D /\ Has(<<"attributes", j>>)
      BY <1>2
    <3>2. {j \in AttrKeys : <<"attributes", j>> \in E /\ Has(<<"attributes", j>>)} =
          {j \in AttrKeys : <<"attributes", j>> \in D /\ Has(<<"attributes", j>>)}
      BY <3>1
    <3> HIDE DEF E
    <3> QED BY <3>2 DEF AttrsOf
  <2> HIDE DEF E
  <2> QED BY <2>1, <2>2 DEF InternalOf
<1>3. {j \in E : Has(j)} = {j \in D : Has(j)} \cup (IF Has(k) THEN {k} ELSE {})
  OBVIOUS
<1>4. DOMAIN m = {Head(j) : j \in {j \in D : Has(j)}}
  BY DEF InternalOf
<1>5. Has(k) => DOMAIN new = DOMAIN m \cup {Head(k)}
  <2> HIDE DEF E
  <2>1. DOMAIN new = {Head(j) : j \in {j \in E : Has(j)}}
    BY DEF InternalOf
  <2> QED BY <1>3, <1>4, <2>1
<1>6. /\ \A key \in DOMAIN m : m[key] = IF key = "attributes" THEN AttrsOf(D) ELSE Given(<<key>>)
      /\ \A key \in DOMAIN new : new[key] = IF key = "attributes" THEN AttrsOf(E) ELSE Given(<<key>>)
  BY DEF InternalOf
<1>7. new = [key \in DOMAIN new |-> new[key]]
  BY DEF InternalOf
<1>8. ASSUME Has(k), NEW key \in {"username", "enabled"}, k = <<key>>
      PROVE  setNestedValue(m, k, Given(k)) = new
  <2>1. AttrsOf(E) = AttrsOf(D)
    <3>1. \A j \in AttrKeys : <<"attributes", j>> \in E <=> <<"attributes", j>> \in D
      BY <1>8, PathsAre
    <3>2. {j \in AttrKeys : <<"attributes", j>> \in E /\ Has(<<"attributes", j>>)} =
          {j \in AttrKeys : <<"attributes", j>> \in D /\ Has(<<"attributes", j>>)}
      BY <3>1
    <3> HIDE DEF E
    <3> QED BY <3>2 DEF AttrsOf
  <2>2. Head(k) = key /\ key # "attributes"
    BY <1>8
  <2>3. setNestedValue(m, k, Given(k)) = Assign(m, key, Given(<<key>>))
    BY <1>8, SetOne
  <2> HIDE DEF m, new, E
  <2>4. \A x \in DOMAIN m \cup {key} : new[x] = IF x = key THEN Given(<<key>>) ELSE m[x]
    BY <1>5, <1>6, <1>8, <2>1, <2>2
  <2>5. new = [x \in DOMAIN m \cup {key} |-> new[x]]
    BY <1>5, <1>7, <1>8, <2>2
  <2>6. new = Assign(m, key, Given(<<key>>))
    BY <2>4, <2>5 DEF Assign
  <2> QED BY <2>3, <2>6
<1>9. ASSUME Has(k), NEW j \in AttrKeys, k = <<"attributes", j>>
      PROVE  setNestedValue(m, k, Given(k)) = new
  <2> DEFINE inner == IF "attributes" \in DOMAIN m /\ IsObject(m["attributes"])
                      THEN m["attributes"] ELSE NoFields
  <2>1. inner = AttrsOf(D)
    <3>1. CASE "attributes" \in DOMAIN m
      <4>1. m["attributes"] = AttrsOf(D)
        BY <1>6, <3>1
      <4> QED BY <3>1, <4>1, AttrsAre
    <3>2. CASE "attributes" \notin DOMAIN m
      <4>1. DOMAIN AttrsOf(D) = {}
        BY <3>2, InternalIs, AttrsAre
      <4>2. AttrsOf(D) = [x \in {} |-> Null]
        BY <4>1 DEF AttrsOf
      <4> QED BY <3>2, <4>2 DEF NoFields
    <3> QED BY <3>1, <3>2
  <2>2. AttrsOf(E) = Assign(AttrsOf(D), j, Given(k))
    <3>1. /\ DOMAIN AttrsOf(E) = DOMAIN AttrsOf(D) \cup {j}
          /\ \A i \in DOMAIN AttrsOf(D) \cup {j} :
                AttrsOf(E)[i] = IF i = j THEN Given(k) ELSE AttrsOf(D)[i]
      <4>1. \A i \in AttrKeys : <<"attributes", i>> \in E <=> <<"attributes", i>> \in D \/ i = j
        BY <1>9, PathsAre
      <4> HIDE DEF E
      <4>2. \A i \in AttrKeys : i \in DOMAIN AttrsOf(E) <=> i \in DOMAIN AttrsOf(D) \/ i = j
        BY <1>1, <1>9, <4>1, AttrsAre
      <4>3. DOMAIN AttrsOf(E) \subseteq AttrKeys /\ DOMAIN AttrsOf(D) \subseteq AttrKeys
        BY <1>1, AttrsAre
      <4>4. DOMAIN AttrsOf(E) = DOMAIN AttrsOf(D) \cup {j}
        BY <1>9, <4>2, <4>3
      <4>5. \A i \in DOMAIN AttrsOf(E) : AttrsOf(E)[i] = Given(<<"attributes", i>>)
        BY <1>1, AttrsAre
      <4>6. \A i \in DOMAIN AttrsOf(D) : AttrsOf(D)[i] = Given(<<"attributes", i>>)
        BY AttrsAre
      <4> QED BY <1>9, <4>4, <4>5, <4>6
    <3>2. AttrsOf(E) = [i \in DOMAIN AttrsOf(E) |-> AttrsOf(E)[i]]
      BY DEF AttrsOf
    <3> HIDE DEF E
    <3> QED BY <3>1, <3>2 DEF Assign
  <2>3. setNestedValue(m, k, Given(k)) = Assign(m, "attributes", Assign(inner, j, Given(k)))
    BY <1>9, SetTwo
  <2>4. Head(k) = "attributes"
    BY <1>9
  <2> HIDE DEF m, new, E, inner
  <2>5. \A x \in DOMAIN m \cup {"attributes"} : new[x] = IF x = "attributes" THEN AttrsOf(E) ELSE m[x]
    BY <1>5, <1>6, <1>9, <2>4
  <2>6. new = [x \in DOMAIN m \cup {"attributes"} |-> new[x]]
    BY <1>5, <1>7, <1>9, <2>4
  <2>7. new = Assign(m, "attributes", AttrsOf(E))
    BY <2>5, <2>6 DEF Assign
  <2> QED BY <2>1, <2>2, <2>3, <2>7
<1>10. \/ \E key \in {"username", "enabled"} : k = <<key>>
       \/ \E j \in AttrKeys : k = <<"attributes", j>>
  BY PathsAre DEF UserPaths
<1> QED BY <1>2, <1>8, <1>9, <1>10

-----------------------------------------------------------------------------
(* The update.                                                             *)

\* What the loop built, when it is done.
Built == /\ profile \in Profiles /\ before \in UserRows
         /\ Says(src, asked, bare)
         /\ internal = InternalOf(DOMAIN FieldMap)

\* What json.Unmarshal reads from the map that was built.
LEMMA PatchIs ==
  ASSUME Built
  PROVE  /\ Patch.username = (LET k == <<"username">>
                              IN  IF k \in DOMAIN FieldMap /\ Has(k) /\ Given(k) # Null
                                  THEN Given(k) ELSE EmptyText)
         /\ Patch.enabled = (LET k == <<"enabled">>
                             IN  IF k \in DOMAIN FieldMap /\ Has(k) /\ Given(k) # Null
                                 THEN Given(k) ELSE No)
         /\ Patch.attributes = AttrsOf(DOMAIN FieldMap)
<1> USE DEF Built
<1> DEFINE D == DOMAIN FieldMap
<1>1. /\ \A key \in {"username", "enabled"} :
            /\ key \in DOMAIN internal <=> <<key>> \in D /\ Has(<<key>>)
            /\ key \in DOMAIN internal => internal[key] = Given(<<key>>)
      /\ "attributes" \in DOMAIN internal <=>
            \E j \in AttrKeys : <<"attributes", j>> \in D /\ Has(<<"attributes", j>>)
      /\ "attributes" \in DOMAIN internal => internal["attributes"] = AttrsOf(D)
  BY InternalIs
<1>2. ASSUME NEW key \in {"username", "enabled"}, NEW zero
      PROVE  Decoded(key, zero) = IF <<key>> \in D /\ Has(<<key>>) /\ Given(<<key>>) # Null
                                  THEN Given(<<key>>) ELSE zero
  <2>1. getNestedValue(internal, <<key>>) = IF key \in DOMAIN internal THEN internal[key] ELSE Missing
    BY GetOne
  <2>2. CASE <<key>> \in D /\ Has(<<key>>)
    <3>1. Given(<<key>>) # Missing
      BY <2>2, GivenIs, CandidatesAre
    <3> QED BY <1>1, <2>1, <2>2, <3>1 DEF Decoded
  <2>3. CASE ~(<<key>> \in D /\ Has(<<key>>))
    BY <1>1, <2>1, <2>3 DEF Decoded
  <2> QED BY <2>2, <2>3
<1>3. Decoded("attributes", NoFields) = AttrsOf(D)
  <2>1. getNestedValue(internal, <<"attributes">>) =
           IF "attributes" \in DOMAIN internal THEN internal["attributes"] ELSE Missing
    BY GetOne
  <2>2. CASE "attributes" \in DOMAIN internal
    <3>1. AttrsOf(D) \notin {Missing, Null}
      BY AttrsAre, ScalarsAre
    <3> QED BY <1>1, <2>1, <2>2, <3>1 DEF Decoded
  <2>3. CASE "attributes" \notin DOMAIN internal
    <3>1. DOMAIN AttrsOf(D) = {}
      BY <1>1, <2>3, AttrsAre
    <3>2. AttrsOf(D) = [x \in {} |-> Null]
      BY <3>1 DEF AttrsOf
    <3> QED BY <2>1, <2>3, <3>2 DEF Decoded, NoFields
  <2> QED BY <2>2, <2>3
<1>4. /\ Patch.username = Decoded("username", EmptyText)
      /\ Patch.enabled = Decoded("enabled", No)
      /\ Patch.attributes = Decoded("attributes", NoFields)
  BY DEF Patch
<1> QED BY <1>2, <1>3, <1>4

\* What is asked for at a path, and what is given there.
LEMMA GivenAsAsked ==
  ASSUME Built, NEW k
  PROVE  LET there == k \in DOMAIN FieldMap /\ Has(k)
         IN  /\ AskedFor(k) = Missing <=> ~there
             /\ there => /\ AskedFor(k) \in Candidates(k) /\ Given(k) \in Candidates(k)
                         /\ Given(k) = AskedFor(k) \/ (bare /\ Given(k) = Null)
<1> USE DEF Built
<1>1. CASE k \in DOMAIN FieldMap /\ Has(k)
  <2>1. /\ Given(k) \in Candidates(k) /\ FieldMap[k] \in DOMAIN asked
        /\ Given(k) = asked[FieldMap[k]] \/ (bare /\ Given(k) = Null)
    BY <1>1, GivenIs
  <2>2. asked[FieldMap[k]] \in Candidates(k)
    BY <1>1, <2>1 DEF Says, Typed
  <2>3. AskedFor(k) = asked[FieldMap[k]]
    BY <1>1, <2>1 DEF AskedFor
  <2> QED BY <1>1, <2>1, <2>2, <2>3, CandidatesAre
<1>2. CASE ~(k \in DOMAIN FieldMap /\ Has(k))
  BY <1>2 DEF AskedFor, Says, Has
<1> QED BY <1>1, <1>2

\* json.Unmarshal refuses the patch only for a field that was asked to have
\* another type, and takes no such field.
LEMMA TypesDecide ==
  ASSUME Built
  PROVE  /\ ~PatchTyped => IllTyped
         /\ PatchTyped => bare \/ ~IllTyped
<1> DEFINE u == <<"username">>
           e == <<"enabled">>
<1>1. Patch.username = IF u \in DOMAIN FieldMap /\ Has(u) /\ Given(u) # Null THEN Given(u) ELSE EmptyText
  BY PatchIs
<1>2. Patch.enabled = IF e \in DOMAIN FieldMap /\ Has(e) /\ Given(e) # Null THEN Given(e) ELSE No
  BY PatchIs
<1>3. IsObject(Patch.attributes)
  BY PatchIs, AttrsAre DEF Built
<1>4. LET there == u \in DOMAIN FieldMap /\ Has(u)
      IN  /\ AskedFor(u) = Missing <=> ~there
          /\ there => /\ AskedFor(u) \in Candidates(u) /\ Given(u) \in Candidates(u)
                      /\ Given(u) = AskedFor(u) \/ (bare /\ Given(u) = Null)
  BY GivenAsAsked
<1>5. LET there == e \in DOMAIN FieldMap /\ Has(e)
      IN  /\ AskedFor(e) = Missing <=> ~there
          /\ there => /\ AskedFor(e) \in Candidates(e) /\ Given(e) \in Candidates(e)
                      /\ Given(e) = AskedFor(e) \/ (bare /\ Given(e) = Null)
  BY GivenAsAsked
<1>6. Candidates(u) = Strings \cup {Null, Yes} /\ Candidates(e) = Booleans \cup {Null, EmptyText}
  BY CandidatesAre
<1>7. IllTyped <=> AskedFor(u) \in Booleans \/ AskedFor(e) \in Strings
  BY DEF IllTyped
<1> HIDE DEF u, e
<1>8. /\ Strings \cap Booleans = {} /\ Missing \notin Strings \cup Booleans
      /\ Null \notin Strings \cup Booleans
      /\ EmptyText \in Strings /\ Yes \in Booleans /\ No \in Booleans
  BY ScalarData DEF Strings, Booleans
<1>9. Patch.username \notin Strings => AskedFor(u) \in Booleans
  BY <1>1, <1>4, <1>6, <1>8
<1>10. Patch.enabled \notin Booleans => AskedFor(e) \in Strings
  BY <1>2, <1>5, <1>6, <1>8
<1>11. AskedFor(u) \in Booleans /\ ~bare => Patch.username \notin Strings
  BY <1>1, <1>4, <1>8
<1>12. AskedFor(e) \in Strings /\ ~bare => Patch.enabled \notin Booleans
  BY <1>2, <1>5, <1>8
<1> QED BY <1>3, <1>7, <1>9, <1>10, <1>11, <1>12 DEF PatchTyped

\* An update leaves a row with a username.
LEMMA ChangedIsRow ==
  ASSUME Built, PatchTyped
  PROVE  Merged \in UserRows /\ Changed \in UserRows
<1>1. /\ before.username \in Text /\ before.enabled \in Booleans
      /\ DOMAIN before.attributes \in SUBSET AttrKeys
      /\ before.attributes \in [DOMAIN before.attributes -> Text \cup {Null}]
  BY RowsAre DEF Built
<1>2. PICK ks \in SUBSET AttrKeys :
         before \in [username : Text, enabled : Booleans, attributes : [ks -> Text \cup {Null}]]
  BY DEF Built, UserRows
<1> DEFINE p == Patch.attributes
           as == Copy(before.attributes, p)
           ds == DOMAIN before.attributes \cup DOMAIN p
           name == IF Patch.username = EmptyText THEN before.username ELSE Patch.username
<1>3. DOMAIN p \in SUBSET AttrKeys /\ p \in [DOMAIN p -> Text \cup {Null}]
  BY PatchIs, AttrsAre DEF Built
<1> HIDE DEF p
<1>4. as \in [ds -> Text \cup {Null}] /\ ds \in SUBSET AttrKeys
  BY <1>1, <1>3 DEF Copy
<1>5. name \in Text
  BY <1>1 DEF PatchTyped, Strings
<1>6. Merged = [before EXCEPT !.username = name, !.attributes = as]
  BY DEF Merged, p
<1> HIDE DEF as, ds, name
<1>7. Merged \in [username : Text, enabled : Booleans, attributes : [ds -> Text \cup {Null}]]
  BY <1>2, <1>4, <1>5, <1>6
<1>8. Changed \in [username : Text, enabled : Booleans, attributes : [ds -> Text \cup {Null}]]
  BY <1>7 DEF Changed, PatchTyped
<1> QED BY <1>4, <1>7, <1>8 DEF UserRows

\* The row after the update is the one that was asked for.
LEMMA ChangedIsWanted ==
  ASSUME Built, PatchTyped, ~bare, ~IllTyped
  PROVE  Changed = Wanted
<1> DEFINE u == <<"username">>
           e == <<"enabled">>
           at(j) == <<"attributes", j>>
<1>1. /\ Patch.username = IF u \in DOMAIN FieldMap /\ Has(u) /\ Given(u) # Null THEN Given(u) ELSE EmptyText
      /\ Patch.enabled = IF e \in DOMAIN FieldMap /\ Has(e) /\ Given(e) # Null THEN Given(e) ELSE No
      /\ Patch.attributes = AttrsOf(DOMAIN FieldMap)
  BY PatchIs
<1>2. \A k : /\ AskedFor(k) = Missing <=> ~(k \in DOMAIN FieldMap /\ Has(k))
             /\ k \in DOMAIN FieldMap /\ Has(k) => Given(k) = AskedFor(k) /\ AskedFor(k) \in Candidates(k)
  BY GivenAsAsked
<1>3. Candidates(u) = Strings \cup {Null, Yes} /\ Candidates(e) = Booleans \cup {Null, EmptyText}
  BY CandidatesAre
<1>4. /\ EmptyText \notin Text /\ Yes \notin Strings /\ Null \notin Strings \cup Booleans
      /\ Missing \notin Text /\ Null # Missing /\ EmptyText # Missing /\ Yes # No /\ Null # Yes
      /\ EmptyText \in Strings /\ Yes \in Booleans /\ Missing # Yes
  BY ScalarData DEF Strings, Booleans
<1>5. AskedFor(u) \notin Booleans /\ AskedFor(e) \notin Strings
  BY DEF IllTyped
<1>6. Present <=> AskedFor(e) # Missing
  BY <1>2 DEF Present, Has
<1>7. DOMAIN before = {"username", "enabled", "attributes"} /\ before.username \in Text
  BY RowsAre DEF Built
<1>8. before = [username |-> before.username, enabled |-> before.enabled, attributes |-> before.attributes]
  <2>1. PICK ks \in SUBSET AttrKeys :
           before \in [username : Text, enabled : Booleans, attributes : [ks -> Text \cup {Null}]]
    BY DEF Built, UserRows
  <2> QED BY <2>1
<1> DEFINE name == IF Patch.username = EmptyText THEN before.username ELSE Patch.username
           wantedName == IF AskedFor(u) \in Text THEN AskedFor(u) ELSE before.username
           flag == IF Present THEN Patch.enabled ELSE before.enabled
           wantedFlag == IF AskedFor(e) = Missing THEN before.enabled
                         ELSE IF AskedFor(e) = Yes THEN Yes ELSE No
           as == Copy(before.attributes, Patch.attributes)
           wantedAs == [k \in DOMAIN before.attributes \cup {j \in AttrKeys : Attribute(j) # Missing}
                           |-> IF Attribute(k) = Missing THEN before.attributes[k] ELSE Attribute(k)]
<1>9. name = wantedName
  <2>1. CASE AskedFor(u) = Missing
    BY <1>1, <1>2, <1>4, <2>1
  <2>2. CASE AskedFor(u) # Missing
    <3>1. AskedFor(u) \in Text \cup {EmptyText, Null}
      BY <1>2, <1>3, <1>4, <1>5, <2>2 DEF Strings
    <3>2. Patch.username = IF AskedFor(u) = Null THEN EmptyText ELSE AskedFor(u)
      BY <1>1, <1>2, <2>2
    <3>3. Null \notin Text /\ Null # EmptyText
      BY ScalarData
    <3> QED BY <1>4, <3>1, <3>2, <3>3
  <2> QED BY <2>1, <2>2
<1>10. flag = wantedFlag
  <2>1. CASE AskedFor(e) = Missing
    BY <1>6, <2>1
  <2>2. CASE AskedFor(e) # Missing
    <3>1. AskedFor(e) \in {Yes, No, Null}
      BY <1>2, <1>3, <1>4, <1>5, <2>2 DEF Booleans
    <3>2. Patch.enabled = IF AskedFor(e) = Null THEN No ELSE AskedFor(e)
      BY <1>1, <1>2, <2>2
    <3> QED BY <1>4, <1>6, <2>2, <3>1, <3>2
  <2> QED BY <2>1, <2>2
<1>11. as = wantedAs
  <2> DEFINE p == AttrsOf(DOMAIN FieldMap)
  <2>1. /\ DOMAIN p \in SUBSET AttrKeys
        /\ \A j \in AttrKeys : j \in DOMAIN p <=> at(j) \in DOMAIN FieldMap /\ Has(at(j))
        /\ \A j \in DOMAIN p : p[j] = Given(at(j))
    BY AttrsAre DEF Built
  <2>2. \A j : Attribute(j) = AskedFor(at(j))
    BY DEF Attribute
  <2>3. \A j : at(j) \in DOMAIN FieldMap => j \in AttrKeys
    BY PathsAre DEF UserPaths, Built
  <2>4. \A j : j \in DOMAIN p <=> Attribute(j) # Missing
    BY <1>2, <2>1, <2>2, <2>3
  <2>5. \A j \in DOMAIN p : p[j] = Attribute(j)
    BY <1>2, <2>1, <2>2
  <2> HIDE DEF p, at
  <2>6. DOMAIN p = {j \in AttrKeys : Attribute(j) # Missing}
    BY <2>1, <2>4
  <2>7. \A k \in DOMAIN before.attributes \cup DOMAIN p :
           (IF k \in DOMAIN p THEN p[k] ELSE before.attributes[k]) =
           (IF Attribute(k) = Missing THEN before.attributes[k] ELSE Attribute(k))
    BY <2>4, <2>5
  <2>8. Copy(before.attributes, p) =
           [k \in DOMAIN before.attributes \cup DOMAIN p |->
               IF k \in DOMAIN p THEN p[k] ELSE before.attributes[k]]
    BY DEF Copy
  <2>9. as = Copy(before.attributes, p)
    BY <1>1 DEF p
  <2> QED BY <2>6, <2>7, <2>8, <2>9
<1>12. Wanted = [username |-> wantedName, enabled |-> wantedFlag, attributes |-> wantedAs]
  BY DEF Wanted
<1>13. Changed = [username |-> name, enabled |-> flag, attributes |-> as]
  <2>1. Merged = [before EXCEPT !.username = name, !.attributes = as]
    BY DEF Merged
  <2> HIDE DEF name, as
  <2>2. Merged = [username |-> name, enabled |-> before.enabled, attributes |-> as]
    BY <1>8, <2>1
  <2> QED BY <2>2 DEF Changed
<1> HIDE DEF name, flag, as, wantedName, wantedFlag, wantedAs
<1> QED BY <1>9, <1>10, <1>11, <1>12, <1>13

-----------------------------------------------------------------------------
(* Every step keeps the invariant.                                         *)

\* What is said of a request depends on these variables only.
LEMMA RequestStays ==
  ASSUME UNCHANGED <<profile, src, asked, bare, before, internal>>
  PROVE  /\ Says(src, asked, bare)' <=> Says(src, asked, bare)
         /\ \A D : InternalOf(D)' = InternalOf(D)
         /\ (DOMAIN FieldMap)' = DOMAIN FieldMap
         /\ PatchTyped' <=> PatchTyped
         /\ Merged' = Merged /\ Changed' = Changed
         /\ Present' <=> Present
         /\ IllTyped' <=> IllTyped
<1>1. (DOMAIN FieldMap)' = DOMAIN FieldMap
  BY DEF FieldMap
<1>2. Says(src, asked, bare)' <=> Says(src, asked, bare)
  BY DEF Says, Typed, Read, Labeled, FieldMap, Externals
<1>3. \A D : InternalOf(D)' = InternalOf(D)
  BY DEF InternalOf, AttrsOf, Given, Has, Read, Labeled, FieldMap
<1>4. Patch' = Patch
  BY DEF Patch, Decoded
<1>5. Present' <=> Present
  BY DEF Present, FieldMap
<1>6. IllTyped' <=> IllTyped
  BY DEF IllTyped, AskedFor, FieldMap
<1>7. PatchTyped' <=> PatchTyped
  BY <1>4 DEF PatchTyped
<1>8. Merged' = Merged
  BY <1>4 DEF Merged
<1>9. Changed' = Changed
  BY <1>4, <1>5, <1>8 DEF Changed
<1> QED BY <1>1, <1>2, <1>3, <1>5, <1>6, <1>7, <1>8, <1>9

\* A step that leaves the last answer alone.
LEMMA AnswerStays ==
  ASSUME AnswerInv, UNCHANGED <<profile, item, shown>>, pc' \notin {"forward", "replied"}
  PROVE  AnswerInv'
BY FieldsStay DEF AnswerInv

\* A body arrives; the loop has built nothing yet.
LEMMA ReceiveKeeps ==
  ASSUME TransformInv, NEW body, NEW a, NEW b, Receive(body, a, b), Says(Unwrapped(body), a, b),
         UNCHANGED forwardVars
  PROVE  TransformInv'
<1>1. /\ pc' = "reverse" /\ src' = Unwrapped(body) /\ todo' = DOMAIN FieldMap
      /\ internal' = NoFields /\ asked' = a /\ bare' = b /\ before' = row
      /\ profile' = profile /\ row' = row
      /\ fields' = fields /\ item' = item /\ shown' = shown
  BY DEF Receive, forwardVars
<1>2. TypeOK'
  BY <1>1 DEF TransformInv, TypeOK, FieldMap, Externals, NoFields
<1>3. AnswerInv'
  BY <1>1, AnswerStays DEF TransformInv
<1>4. Says(src, asked, bare)'
  BY <1>1 DEF Says, Typed, Read, Labeled, FieldMap, Externals
<1>5. (DOMAIN FieldMap \ todo)' = {}
  BY <1>1 DEF FieldMap
<1>6. InternalOf({})' = NoFields
  BY DEF InternalOf, NoFields
<1>7. RequestInv'
  BY <1>1, <1>4, <1>5, <1>6 DEF RequestInv, Reading
<1> QED BY <1>2, <1>3, <1>7 DEF TransformInv

\* A client sends fields of its own.
LEMMA SendKeeps ==
  ASSUME TransformInv, Send
  PROVE  TransformInv'
<1>1. PICK a \in Requests, form \in Forms, wrap \in BOOLEAN :
         LET flat == [ext \in DOMAIN a |-> Wire(form, ext, a[ext])]
         IN  Receive(IF wrap THEN Assign(NoFields, profile.itemKey, flat) ELSE flat, a,
                     form = "bare" /\ DOMAIN a \cap DOMAIN profile.valueObjects # {})
  BY DEF Send
<1> DEFINE flat == [ext \in DOMAIN a |-> Wire(form, ext, a[ext])]
           b == form = "bare" /\ DOMAIN a \cap DOMAIN profile.valueObjects # {}
           body == IF wrap THEN Assign(NoFields, profile.itemKey, flat) ELSE flat
<1>2. profile \in Profiles
  BY DEF TransformInv, TypeOK
<1>3. Says(Unwrapped(flat), a, b) /\ Says(Unwrapped(Assign(NoFields, profile.itemKey, flat)), a, b)
  BY <1>2, SendSays
<1>4. Receive(body, a, b)
  BY <1>1
<1>5. UNCHANGED forwardVars
  BY DEF Send
<1> HIDE DEF flat, b
<1>6. Says(Unwrapped(body), a, b)
  BY <1>3
<1> HIDE DEF body
<1> QED BY <1>4, <1>5, <1>6, ReceiveKeeps

\* A client sends back the item it was shown.
LEMMA SendBackKeeps ==
  ASSUME TransformInv, SendBack
  PROVE  TransformInv'
<1>1. /\ item # Missing /\ UNCHANGED forwardVars
      /\ Receive(item, Copy(Defaults, shown), FALSE)
  BY DEF SendBack
<1>2. item = ItemOf(shown) /\ Typed(shown) /\ profile \in Profiles
  BY <1>1 DEF TransformInv, AnswerInv, TypeOK
<1>3. Says(Unwrapped(item), Copy(Defaults, shown), FALSE)
  BY <1>2, ItemSays
<1> QED BY <1>1, <1>3, ReceiveKeeps

\* A turn of the loop of reverseTransform.
LEMMA ReverseFieldKeeps ==
  ASSUME TransformInv, ReverseField
  PROVE  TransformInv'
<1> USE DEF TransformInv
<1>1. PICK k \in todo : /\ todo' = todo \ {k}
                        /\ internal' = IF Has(k) THEN setNestedValue(internal, k, Given(k)) ELSE internal
  BY DEF ReverseField, Has, Given
<1>2. /\ pc = "reverse" /\ pc' = pc
      /\ UNCHANGED <<profile, row, fields, item, shown, src, asked, bare, before>>
  BY DEF ReverseField, forwardVars
<1> DEFINE D == DOMAIN FieldMap \ todo
<1>3. /\ profile \in Profiles /\ todo \subseteq DOMAIN FieldMap
      /\ Says(src, asked, bare) /\ internal = InternalOf(D) /\ row = before
  BY <1>2 DEF TypeOK, RequestInv, Reading
<1>4. DOMAIN FieldMap \ todo' = D \cup {k} /\ k \in DOMAIN FieldMap /\ D \in SUBSET DOMAIN FieldMap
  BY <1>1, <1>3
<1> HIDE DEF D
<1>5. internal' = InternalOf(D \cup {k})
  BY <1>1, <1>3, <1>4, BuiltMore
<1>6. Says(src, asked, bare)' /\ (DOMAIN FieldMap)' = DOMAIN FieldMap
  BY <1>2, <1>3 DEF Says, Typed, Read, Labeled, FieldMap, Externals
<1>7. InternalOf(DOMAIN FieldMap \ todo)' = InternalOf(DOMAIN FieldMap \ todo')
  BY <1>2 DEF InternalOf, AttrsOf, Given, Has, Read, Labeled, FieldMap
<1>8. internal' = InternalOf(DOMAIN FieldMap \ todo')
  BY <1>4, <1>5
<1>9. (internal = InternalOf(DOMAIN FieldMap \ todo))'
  BY <1>7, <1>8
<1>10. RequestInv'
  BY <1>2, <1>3, <1>6, <1>9 DEF RequestInv, Reading
<1>11. AnswerInv'
  BY <1>2, AnswerStays
<1>12. DOMAIN internal' \subseteq {Head(j) : j \in DOMAIN FieldMap}
  BY <1>4, <1>5 DEF InternalOf
<1>13. TypeOK'
  BY <1>1, <1>2, <1>6, <1>12 DEF TypeOK, FieldMap, Externals
<1> QED BY <1>10, <1>11, <1>13

\* The steps after the loop.
LEMMA UpdateKeeps ==
  ASSUME TransformInv, mapToStruct \/ Update \/ SetEnabled
  PROVE  TransformInv'
<1> USE DEF TransformInv
<1>1. /\ pc \in {"reverse", "update", "enable"} /\ todo = {} /\ todo' = todo
      /\ pc' \in {"update", "enable", "updated", "refused"}
      /\ UNCHANGED <<profile, fields, item, shown, src, asked, bare, before, internal>>
  BY DEF mapToStruct, Update, SetEnabled, RequestInv, forwardVars, reverseVars
<1>2. /\ Says(src, asked, bare)
      /\ internal = InternalOf(DOMAIN FieldMap \ todo)
      /\ pc \in {"reverse", "update"} => row = before
  BY <1>1 DEF RequestInv, Reading
<1>3. DOMAIN FieldMap \ todo = DOMAIN FieldMap
  BY <1>1
<1>4. Built
  BY <1>2, <1>3 DEF Built, TypeOK
<1>5. /\ Says(src, asked, bare)' /\ (DOMAIN FieldMap)' = DOMAIN FieldMap
      /\ PatchTyped' <=> PatchTyped
      /\ Merged' = Merged /\ Changed' = Changed
      /\ Present' <=> Present
      /\ IllTyped' <=> IllTyped
  BY <1>1, <1>2, RequestStays
<1>6. (internal = InternalOf(DOMAIN FieldMap \ todo))'
  <2>1. (DOMAIN FieldMap \ todo)' = DOMAIN FieldMap \ todo
    BY <1>1, <1>5
  <2>2. InternalOf(DOMAIN FieldMap \ todo)' = InternalOf(DOMAIN FieldMap \ todo)
    BY <1>1, <2>1 DEF InternalOf, AttrsOf, Given, Has, Read, Labeled, FieldMap
  <2> QED BY <1>1, <1>2, <2>2
<1>7. AnswerInv'
  BY <1>1, AnswerStays
<1>8. ASSUME row' \in UserRows PROVE TypeOK'
  BY <1>1, <1>8 DEF TypeOK, FieldMap, Externals
<1>9. PatchTyped => Merged \in UserRows /\ Changed \in UserRows
  BY <1>4, ChangedIsRow
<1>10. /\ ~PatchTyped => IllTyped
       /\ PatchTyped => bare \/ ~IllTyped
  BY <1>4, TypesDecide
<1>11. CASE mapToStruct
  <2>1. pc' = (IF PatchTyped THEN "update" ELSE "refused") /\ row' = row /\ row = before
    BY <1>2, <1>11 DEF mapToStruct, PatchTyped
  <2>2. RequestInv'
    BY <1>1, <1>5, <1>6, <1>10, <2>1 DEF RequestInv, Reading
  <2>3. TypeOK'
    BY <1>8, <2>1 DEF TypeOK
  <2> QED BY <1>7, <2>2, <2>3
<1>12. CASE Update
  <2>1. pc = "update" /\ row = before
    BY <1>2, <1>12 DEF Update
  <2>2. PatchTyped /\ (bare \/ ~IllTyped)
    BY <2>1 DEF RequestInv
  <2>3. row' = Merged /\ pc' = IF Present THEN "enable" ELSE "updated"
    BY <1>12, <2>1 DEF Update, Merged
  <2>4. ~Present => Merged = Changed
    BY DEF Changed
  <2>5. RequestInv'
    BY <1>1, <1>5, <1>6, <2>2, <2>3, <2>4 DEF RequestInv, Reading
  <2>6. TypeOK'
    BY <1>8, <1>9, <2>2, <2>3
  <2> QED BY <1>7, <2>5, <2>6
<1>13. CASE SetEnabled
  <2>1. pc = "enable"
    BY <1>13 DEF SetEnabled
  <2>2. PatchTyped /\ (bare \/ ~IllTyped) /\ Present /\ row = Merged
    BY <2>1 DEF RequestInv
  <2>3. row' = Changed /\ pc' = "updated"
    BY <1>13, <2>2 DEF SetEnabled, Changed
  <2>4. RequestInv'
    BY <1>1, <1>5, <1>6, <2>2, <2>3 DEF RequestInv, Reading
  <2>5. TypeOK'
    BY <1>8, <1>9, <2>2, <2>3
  <2> QED BY <1>7, <2>4, <2>5
<1> QED BY <1>11, <1>12, <1>13

\* At the start.
LEMMA InvInit == Init => TransformInv
<1> SUFFICES ASSUME Init PROVE TransformInv
  OBVIOUS
<1>1. TypeOK
  BY DEF Init, TypeOK, NoFields
<1>2. AnswerInv
  BY DEF Init, AnswerInv
<1>3. RequestInv
  BY DEF Init, RequestInv, Reading
<1> QED BY <1>1, <1>2, <1>3 DEF TransformInv

\* Action by action.
LEMMA InvStep == TransformInv /\ [Next]_vars => TransformInv'
<1> SUFFICES ASSUME TransformInv, [Next]_vars PROVE TransformInv'
  OBVIOUS
<1>1. CASE Get \/ Answer
  <2>1. Forward /\ profile' = profile /\ row' = row
    BY <1>1 DEF Get, Answer
  <2>2. AnswerInv'
    BY <2>1, ForwardKeeps
  <2>3. RequestInv'
    BY <2>1 DEF Forward, RequestInv, Reading
  <2>4. before' \in UserRows /\ DOMAIN internal' \subseteq {Head(k) : k \in DOMAIN FieldMap}
    <3>1. \/ before' = before /\ internal' = internal
          \/ before' = row /\ internal' = NoFields
      BY <1>1 DEF Get, Answer, Forget, reverseVars
    <3> QED BY <3>1 DEF TransformInv, TypeOK, NoFields
  <2>5. TypeOK'
    <3>1. DOMAIN fields' = {}
      BY <2>1 DEF Forward, NoFields
    <3> QED BY <2>1, <2>4, <3>1 DEF TransformInv, TypeOK, Forward, FieldMap, Externals
  <2> QED BY <2>2, <2>3, <2>5 DEF TransformInv
<1>2. CASE Send
  BY <1>2, SendKeeps
<1>3. CASE SendBack
  BY <1>3, SendBackKeeps
<1>4. CASE Touch
  <2>1. /\ pc = "idle" /\ pc' = pc /\ row' \in UserRows
        /\ UNCHANGED <<profile, todo, fields, item, shown, before, internal>>
    BY <1>4 DEF Touch, Idle, forwardVars, reverseVars
  <2>2. AnswerInv'
    BY <2>1, AnswerStays DEF TransformInv
  <2>3. RequestInv'
    BY <2>1 DEF RequestInv, Reading
  <2>4. TypeOK'
    BY <2>1 DEF TransformInv, TypeOK, FieldMap, Externals
  <2> QED BY <2>2, <2>3, <2>4 DEF TransformInv
<1>5. CASE ReverseField
  BY <1>5, ReverseFieldKeeps
<1>6. CASE mapToStruct \/ Update \/ SetEnabled
  BY <1>6, UpdateKeeps
<1>7. CASE ForwardField
  <2>1. /\ pc = "forward" /\ pc' = pc
        /\ UNCHANGED <<profile, row, before, internal>>
    BY <1>7 DEF ForwardField, reverseVars
  <2>2. AnswerInv' /\ DOMAIN fields' \subseteq Externals /\ todo' \subseteq DOMAIN FieldMap
    BY <1>7, ForwardFieldKeeps
  <2>3. RequestInv'
    BY <2>1 DEF RequestInv, Reading
  <2>4. TypeOK'
    BY <2>1, <2>2 DEF TransformInv, TypeOK, FieldMap, Externals
  <2> QED BY <2>2, <2>3, <2>4 DEF TransformInv
<1>8. CASE Reply
  <2>1. /\ pc' = "replied" /\ fields' = NoFields
        /\ UNCHANGED <<profile, row, todo, before, internal>>
    BY <1>8 DEF Reply, reverseVars
  <2>2. AnswerInv'
    BY <1>8, ReplyKeeps
  <2>3. RequestInv'
    BY <2>1 DEF RequestInv, Reading
  <2>4. TypeOK'
    BY <2>1 DEF TransformInv, TypeOK, FieldMap, Externals, NoFields
  <2> QED BY <2>2, <2>3, <2>4 DEF TransformInv
<1>9. CASE Done
  <2>1. /\ pc' = "idle" /\ item' \in {Missing, item}
        /\ before' = row /\ internal' = NoFields
        /\ UNCHANGED <<profile, row, todo, fields, shown>>
    BY <1>9 DEF Done, Forget
  <2>2. AnswerInv'
    <3>1. item' # Missing => item' = item
      BY <2>1
    <3>2. item' # Missing => item' = ItemOf(shown)' /\ Typed(shown)'
      BY <2>1, <3>1, FieldsStay DEF TransformInv, AnswerInv
    <3> QED BY <2>1, <3>2 DEF AnswerInv
  <2>3. RequestInv'
    BY <2>1 DEF RequestInv, Reading
  <2>4. TypeOK'
    BY <2>1 DEF TransformInv, TypeOK, FieldMap, Externals, NoFields
  <2> QED BY <2>2, <2>3, <2>4 DEF TransformInv
<1>10. CASE UNCHANGED vars
  <2>1. UNCHANGED <<profile, pc, row, todo, fields, item, src, internal, asked, bare, shown, before>>
    BY <1>10 DEF vars
  <2>2. TypeOK'
    BY <2>1 DEF TransformInv, TypeOK, FieldMap, Externals
  <2>3. AnswerInv'
    <3>1. \A D : Shows(shown, D)' <=> Shows(shown, D)
      BY <2>1 DEF Shows, FieldMap
    <3>2. Shows(shown, DOMAIN FieldMap \ todo)' <=> Shows(shown, DOMAIN FieldMap \ todo)
      BY <2>1 DEF Shows, FieldMap
    <3>3. Shows(shown, DOMAIN FieldMap)' <=> Shows(shown, DOMAIN FieldMap)
      BY <2>1 DEF Shows, FieldMap
    <3> QED BY <2>1, <3>2, <3>3, FieldsStay DEF TransformInv, AnswerInv
  <2>4. RequestInv'
    <3>1. InternalOf(DOMAIN FieldMap \ todo)' = InternalOf(DOMAIN FieldMap \ todo)
      BY <2>1 DEF InternalOf, AttrsOf, Given, Has, Read, Labeled, FieldMap
    <3> QED BY <2>1, <3>1, RequestStays DEF TransformInv, RequestInv
  <2> QED BY <2>2, <2>3, <2>4 DEF TransformInv
<1> QED BY <1>1, <1>2, <1>3, <1>4, <1>5, <1>6, <1>7, <1>8, <1>9, <1>10 DEF Next

\* In every reachable state the answer is built from the row and the update
\* from the body, entry by entry of field_map.
THEOREM TransformInvariant == Spec => []TransformInv
<1>1. Init => TransformInv
  BY InvInit
<1>2. TransformInv /\ [Next]_vars => TransformInv'
  BY InvStep
<1> QED BY <1>1, <1>2, PTL DEF Spec

\* Rows stay rows, whatever a body sets, and both loops use keys of the profile.
THEOREM TypeCorrect == Spec => []TypeOK
<1>1. TransformInv => TypeOK
  BY DEF TransformInv
<1> QED BY <1>1, TransformInvariant, PTL

\* For any profile with the data assumed, any shape of body and any order of
\* the loops, an update makes exactly the changes its body asks for.
THEOREM UpdatesAsAsked == Spec => []AsAsked
<1>1. TransformInv => AsAsked
  <2> SUFFICES ASSUME TransformInv, pc = "updated", ~bare PROVE row = Wanted
    BY DEF AsAsked
  <2>1. /\ Says(src, asked, bare) /\ internal = InternalOf(DOMAIN FieldMap \ todo)
        /\ todo = {} /\ PatchTyped /\ ~IllTyped /\ row = Changed
        /\ profile \in Profiles /\ before \in UserRows
    BY DEF TransformInv, RequestInv, Reading, TypeOK
  <2>2. DOMAIN FieldMap \ todo = DOMAIN FieldMap
    BY <2>1
  <2>3. Built
    BY <2>1, <2>2 DEF Built
  <2> QED BY <2>1, <2>3, ChangedIsWanted
<1> QED BY <1>1, TransformInvariant, PTL

\* A body is refused only for the type of a field, before any of it is stored.
THEOREM RefusedBeforeStored == Spec => []RefusedForTypes
<1>1. TransformInv => RefusedForTypes
  BY DEF TransformInv, RequestInv, RefusedForTypes
<1> QED BY <1>1, TransformInvariant, PTL

\* An answer shows what the row has, at the keys the profile gives it.
THEOREM AnswersShowRows == Spec => []AnswerShowsRow
BY InvShowsRow, TransformInvariant, PTL
=============================================================================

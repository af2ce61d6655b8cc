---------------------------- MODULE TemplatesProofs ----------------------------
(***************************************************************************)
(* The promises of TemplatesApi, for every library, marketplace and set of *)
(* workspaces.                                                             *)
(***************************************************************************)
EXTENDS TemplatesApi, WellFoundedInduction, TLAPS

(* A non-empty set of naturals has a least element: the form of induction the
   proofs below use, since it takes a set and no formula as its parameter. *)
LEMMA LeastNatural ==
    ASSUME NEW T, T \subseteq Nat, T # {}
    PROVE  \E n \in T : \A m \in T : n <= m
<1> DEFINE R == {ss \in Nat \X Nat : ss[1] < ss[2]}
<1>1. IsWellFoundedOn(R, Nat)
  BY Zenon, NatLessThanWellFounded DEF OpToRel
<1>2. PICK n \in T : \A m \in T : ~(<<m, n>> \in R)
  <2> HIDE DEF R
  <2> QED BY Zenon, <1>1, WFMin
<1>3. \A m \in T : ~(m < n)
  BY Zenon, <1>2
<1> QED
  BY <1>3

(* A set that holds zero and with every number its successor holds all of them. *)
LEMMA SetInduction ==
    ASSUME NEW S, 0 \in S, \A n \in Nat : n \in S => n + 1 \in S
    PROVE  Nat \subseteq S
<1> SUFFICES ASSUME Nat \ S # {} PROVE FALSE
  BY Zenon
<1>1. PICK n \in Nat \ S : \A m \in Nat \ S : n <= m
  BY Zenon, LeastNatural
<1>2. n # 0 /\ n - 1 \in Nat
  BY <1>1
<1>3. n - 1 \in S
  BY <1>1, <1>2
<1> QED
  BY <1>1, <1>2, <1>3

(* Min picks the least of a set of naturals. *)
LEMMA MinIsLeast ==
    ASSUME NEW T, T \subseteq Nat, T # {}
    PROVE  Min(T) \in T /\ \A m \in T : Min(T) <= m
BY Zenon, LeastNatural DEF Min

(* What a function takes on a finite set has a bound. *)
LEMMA FiniteIsBounded ==
    ASSUME NEW T, IsFiniteSet(T), NEW h, \A t \in T : h[t] \in Nat
    PROVE  \E b \in Nat : \A t \in T : h[t] <= b
<1> DEFINE Bounded(n) == \A f \in [1..n -> T] : \E b \in Nat : \A i \in 1..n : h[f[i]] <= b
           N == {n \in Nat : Bounded(n)}
<1>1. 0 \in N
  OBVIOUS
<1>2. ASSUME NEW n \in Nat, n \in N PROVE n + 1 \in N
  <2> SUFFICES Bounded(n + 1)
    <3> HIDE DEF Bounded
    <3> QED OBVIOUS
  <2> TAKE f \in [1..(n + 1) -> T]
  <2> DEFINE g == [i \in 1..n |-> f[i]]
  <2>1. g \in [1..n -> T]
    OBVIOUS
  <2>2. PICK b \in Nat : \A i \in 1..n : h[g[i]] <= b
    BY Zenon, <1>2, <2>1
  <2>3. h[f[n + 1]] \in Nat
    OBVIOUS
  <2> DEFINE d == IF h[f[n + 1]] <= b THEN b ELSE h[f[n + 1]]
  <2>4. d \in Nat /\ b <= d /\ h[f[n + 1]] <= d
    BY <2>3
  <2>5. ASSUME NEW i \in 1..(n + 1) PROVE h[f[i]] <= d
    <3>1. CASE i = n + 1
      BY Zenon, <3>1, <2>4
    <3>2. CASE i # n + 1
      <4>1. i \in 1..n
        BY <3>2
      <4>2. g[i] = f[i] /\ h[f[i]] \in Nat
        BY Zenon, <4>1
      <4> HIDE DEF d, g
      <4> QED BY <4>1, <4>2, <2>2, <2>4
    <3> QED BY Zenon, <3>1, <3>2
  <2> QED BY Zenon, <2>4, <2>5
<1>3. Nat \subseteq N
  <2> HIDE DEF N
  <2> QED BY Zenon, <1>1, <1>2, SetInduction
<1>4. PICK f \in Seq(T) : \A t \in T : \E i \in 1..Len(f) : f[i] = t
  BY Zenon DEF IsFiniteSet
<1> DEFINE n == Len(f)
<1>5. n \in Nat /\ f \in [1..n -> T] /\ \A t \in T : \E i \in 1..n : f[i] = t
  BY <1>4
<1> HIDE DEF n
<1>6. PICK b \in Nat : \A i \in 1..n : h[f[i]] <= b
  BY Zenon, <1>3, <1>5
<1> QED
  BY Zenon, <1>5, <1>6

(* A bounded set of naturals has a greatest element, which Max picks. *)
LEMMA MaxIsGreatest ==
    ASSUME NEW T, T \subseteq Nat, T # {}, NEW b \in Nat, \A m \in T : m <= b
    PROVE  Max(T) \in T /\ \A m \in T : m <= Max(T)
<1> DEFINE U == {n \in Nat : \A m \in T : m <= n}
<1>1. PICK u \in U : \A n \in U : u <= n
  BY Zenon, LeastNatural
<1>2. u \in T
  <2> SUFFICES ASSUME u \notin T PROVE FALSE
    BY Zenon
  <2>1. \A m \in T : m < u
    BY <1>1
  <2>2. u # 0 /\ u - 1 \in Nat
    <3>1. PICK m \in T : m \in Nat /\ m < u
      BY Zenon, <2>1
    <3> QED BY <3>1, <1>1
  <2>3. \A m \in T : m <= u - 1
    BY <2>1, <1>1
  <2>4. u - 1 \in U
    BY Zenon, <2>2, <2>3
  <2> QED BY <1>1, <2>2, <2>4
<1>3. \E x \in T : \A m \in T : x >= m
  BY Zenon, <1>1, <1>2
<1> QED
  BY Zenon, <1>3 DEF Max

-----------------------------------------------------------------------------
(* The definition a merge leads to. *)

(* What a stored definition is, to an operation that merges it. *)
Defined(d) == {"name", "types", "relations"} \subseteq DOMAIN d

(* A part is all that a field map holds under one name. *)
LEMMA PartIs ==
    ASSUME NEW d, NEW t, NEW n
    PROVE  /\ t \notin DOMAIN d.types => Part(d, <<t, n>>) = Absent
           /\ t \in DOMAIN d.types =>
                Part(d, <<t, n>>) = [p \in {p \in DOMAIN d.types[t] : p[1] = n} |-> d.types[t][p]]
<1> DEFINE f == <<t, n>>
<1>1. f[1] = t /\ f[2] = n
  OBVIOUS
<1> HIDE DEF f
<1>2. /\ t \notin DOMAIN d.types => Part(d, f) = Absent
      /\ t \in DOMAIN d.types =>
           Part(d, f) = [p \in {p \in DOMAIN d.types[t] : p[1] = n} |-> d.types[t][p]]
  BY Zenon, <1>1 DEF Part
<1> QED BY Zenon, <1>2 DEF f

LEMMA MissingPart ==
    ASSUME NEW d, NEW t, NEW n, t \notin DOMAIN d.types
    PROVE  Part(d, <<t, n>>) = Absent
<1> DEFINE f == <<t, n>>
<1>1. f[1] = t
  OBVIOUS
<1> HIDE DEF f
<1>2. Part(d, f) = Absent
  BY Zenon, <1>1 DEF Part
<1> QED BY Zenon, <1>2 DEF f

(* A part with nothing in it is the absent one. *)
LEMMA EmptyPart ==
    ASSUME NEW d, NEW t, NEW n, t \in DOMAIN d.types, {p \in DOMAIN d.types[t] : p[1] = n} = {}
    PROVE  Part(d, <<t, n>>) = Absent
<1>1. Part(d, <<t, n>>) = [p \in {p \in DOMAIN d.types[t] : p[1] = n} |-> d.types[t][p]]
  BY PartIs
<1>2. Part(d, <<t, n>>) = [p \in {} |-> d.types[t][p]]
  BY Zenon, <1>1
<1> QED BY Zenon, <1>2 DEF Absent

(* The part of a field that a definition does not have is empty. *)
LEMMA AbsentParts ==
    ASSUME NEW d, NEW t, NEW n, <<t, n>> \notin FieldNames(d)
    PROVE  Part(d, <<t, n>>) = Absent
<1>1. CASE t \notin DOMAIN d.types
  BY Zenon, <1>1, MissingPart
<1>2. CASE t \in DOMAIN d.types
  <2>1. {p \in DOMAIN d.types[t] : p[1] = n} = {}
    BY <1>2 DEF FieldNames
  <2> QED BY Zenon, <2>1, <1>2, EmptyPart
<1> QED BY Zenon, <1>1, <1>2

(* A field is a type and a name. *)
LEMMA FieldsArePairs ==
    ASSUME NEW d, NEW f \in FieldNames(d)
    PROVE  \E t, n : f = <<t, n>>
BY Zenon DEF FieldNames

(* What the comparison says of a field: it is taken over exactly when only
   the template moved. *)
LEMMA TakenOver ==
    ASSUME NEW base, NEW upstream, NEW local, NEW f
    PROVE  f \in Judged(three_way(base, upstream, local), {"auto_add", "auto_update"})
             <=> /\ f \in FieldNames(base) \cup FieldNames(upstream) \cup FieldNames(local)
                 /\ Part(upstream, f) # Part(base, f) /\ Part(local, f) = Part(base, f)
<1> DEFINE verdict(g) == classify(Part(base, g), Part(upstream, g), Part(local, g))
           fields == FieldNames(base) \cup FieldNames(upstream) \cup FieldNames(local)
           plan == three_way(base, upstream, local)
<1>1. DOMAIN plan = {g \in fields : verdict(g) # None} /\ \A g \in DOMAIN plan : plan[g] = verdict(g)
  BY Zenon DEF three_way
<1>2. verdict(f) \in {"auto_add", "auto_update"}
        <=> Part(upstream, f) # Part(base, f) /\ Part(local, f) = Part(base, f)
  <2> DEFINE b == Part(base, f)
             u == Part(upstream, f)
             l == Part(local, f)
  <2> HIDE DEF b, u, l
  <2>1. CASE u # b /\ l = b
    BY Zenon, <2>1 DEF classify, b, u, l
  <2>2. CASE u = b /\ l # b
    <3>1. verdict(f) = "keep_local"
      BY Zenon, <2>2 DEF classify, b, u, l
    <3> QED BY <3>1, <2>2 DEF b, u, l
  <2>3. CASE u # b /\ l # b /\ u # l
    <3>1. verdict(f) = "conflict"
      BY Zenon, <2>3 DEF classify, b, u, l
    <3> QED BY <3>1, <2>3 DEF b, u, l
  <2>4. CASE ~(u # b /\ l = b) /\ ~(u = b /\ l # b) /\ ~(u # b /\ l # b /\ u # l)
    <3>1. verdict(f) = None
      BY Zenon, <2>4 DEF classify, b, u, l
    <3> QED BY Zenon, <3>1, <2>4, TemplatesApiAssumption DEF Verdicts, b, u, l
  <2> QED BY Zenon, <2>1, <2>2, <2>3, <2>4
<1>3. f \in DOMAIN plan <=> f \in fields /\ verdict(f) # None
  BY Zenon, <1>1
<1> HIDE DEF verdict, fields, plan
<1>4. f \in Judged(plan, {"auto_add", "auto_update"})
        <=> f \in fields /\ verdict(f) \in {"auto_add", "auto_update"}
  BY Zenon, <1>1, <1>3, TemplatesApiAssumption DEF Verdicts, Judged
<1> QED BY Zenon, <1>2, <1>4 DEF plan, fields

(* apply_plan: every field the workspace changed stays as it made it, every
   other one becomes the template's; the name and relation types stay. *)
LEMMA PlanApplied ==
    ASSUME NEW base, NEW upstream, NEW local, Defined(local)
    PROVE  LET d == apply_plan(three_way(base, upstream, local), upstream, local)
           IN /\ Defined(d) /\ d.name = local.name /\ d.relations = local.relations
              /\ \A f \in FieldNames(d) \cup FieldNames(local) \cup FieldNames(upstream) :
                   Part(d, f) = IF Part(local, f) # Part(base, f) THEN Part(local, f) ELSE Part(upstream, f)
<1> DEFINE plan == three_way(base, upstream, local)
           d == apply_plan(plan, upstream, local)
           taken == Judged(plan, {"auto_add", "auto_update"})
           new == {f[1] : f \in {f \in taken : Part(upstream, f) # Absent}}
           from(e, t) == IF t \in DOMAIN e.types THEN e.types[t] ELSE Absent
           came(t) == {p \in DOMAIN from(upstream, t) : <<t, p[1]>> \in taken}
           kept(t) == {p \in DOMAIN from(local, t) : <<t, p[1]>> \notin taken}
           types == [t \in DOMAIN local.types \cup new |->
                      [p \in came(t) \cup kept(t) |->
                         IF p \in came(t) THEN upstream.types[t][p] ELSE local.types[t][p]]]
<1>1. d = [local EXCEPT !.types = types]
  BY Zenon DEF apply_plan
<1>2. \A f : f \in taken
        <=> /\ f \in FieldNames(base) \cup FieldNames(upstream) \cup FieldNames(local)
            /\ Part(upstream, f) # Part(base, f) /\ Part(local, f) = Part(base, f)
  BY TakenOver
<1> HIDE DEF plan, taken
<1>3. Defined(d) /\ d.name = local.name /\ d.relations = local.relations /\ d.types = types
  <2> HIDE DEF types, d
  <2> QED BY <1>1 DEF Defined
<1>4. ASSUME NEW t, NEW n
      PROVE  Part(d, <<t, n>>) = IF Part(local, <<t, n>>) # Part(base, <<t, n>>)
                                 THEN Part(local, <<t, n>>) ELSE Part(upstream, <<t, n>>)
  <2> DEFINE f == <<t, n>>
  <2>1. t \in DOMAIN d.types <=> t \in DOMAIN local.types \cup new
    BY Zenon, <1>3
  <2>2. t \in DOMAIN d.types =>
          d.types[t] = [p \in came(t) \cup kept(t) |->
                         IF p \in came(t) THEN upstream.types[t][p] ELSE local.types[t][p]]
    BY Zenon, <1>3
  <2>3. f[1] = t
    OBVIOUS
  <2>4. f \in taken /\ Part(upstream, f) # Absent => t \in new
    BY Zenon, <2>3
  <2> HIDE DEF d, new, types
  <2>5. DOMAIN Absent = {}
    BY Zenon DEF Absent
  <2>6. CASE f \in taken
    <3>1. Part(local, f) = Part(base, f)
      BY Zenon, <2>6, <1>2
    <3>2. {p \in came(t) \cup kept(t) : p[1] = n} = {p \in DOMAIN from(upstream, t) : p[1] = n}
      BY Zenon, <2>6
    <3>3. Part(d, f) = Part(upstream, f)
      <4>1. CASE t \in DOMAIN d.types /\ t \in DOMAIN upstream.types
        <5>1. \A p \in came(t) \cup kept(t) : p[1] = n => p \in came(t)
          BY Zenon, <2>6
        <5>2. {p \in DOMAIN d.types[t] : p[1] = n} = {p \in DOMAIN upstream.types[t] : p[1] = n}
          BY Zenon, <2>2, <3>2, <4>1
        <5>3. \A p \in {p \in DOMAIN upstream.types[t] : p[1] = n} : d.types[t][p] = upstream.types[t][p]
          BY Zenon, <2>2, <3>2, <4>1, <5>1
        <5>4. Part(d, f) = [p \in {p \in DOMAIN d.types[t] : p[1] = n} |-> d.types[t][p]]
          BY <4>1, PartIs
        <5>5. Part(upstream, f) = [p \in {p \in DOMAIN upstream.types[t] : p[1] = n} |-> upstream.types[t][p]]
          BY <4>1, PartIs
        <5> HIDE DEF came, kept, from
        <5> QED BY Zenon, <5>2, <5>3, <5>4, <5>5
      <4>2. CASE t \in DOMAIN d.types /\ t \notin DOMAIN upstream.types
        <5>1. {p \in DOMAIN d.types[t] : p[1] = n} = {}
          BY Zenon, <2>2, <2>5, <3>2, <4>2
        <5>2. Part(d, f) = Absent
          BY Zenon, <5>1, <4>2, EmptyPart
        <5> QED BY Zenon, <5>2, <4>2, MissingPart
      <4>3. CASE t \notin DOMAIN d.types
        BY Zenon, <4>3, <2>1, <2>4, <2>6, MissingPart
      <4> QED BY Zenon, <4>1, <4>2, <4>3
    <3> QED BY Zenon, <3>1, <3>3
  <2>7. CASE f \notin taken
    <3>1. {p \in came(t) \cup kept(t) : p[1] = n} = {p \in DOMAIN from(local, t) : p[1] = n}
      BY Zenon, <2>7
    <3>2. Part(d, f) = Part(local, f)
      <4>1. CASE t \in DOMAIN local.types
        <5>0. t \in DOMAIN d.types
          BY Zenon, <4>1, <2>1
        <5>1. \A p \in came(t) \cup kept(t) : p[1] = n => p \notin came(t)
          BY Zenon, <2>7
        <5>2. {p \in DOMAIN d.types[t] : p[1] = n} = {p \in DOMAIN local.types[t] : p[1] = n}
          BY Zenon, <2>2, <3>1, <4>1, <5>0
        <5>3. \A p \in {p \in DOMAIN local.types[t] : p[1] = n} : d.types[t][p] = local.types[t][p]
          BY Zenon, <2>2, <3>1, <4>1, <5>0, <5>1
        <5>4. Part(d, f) = [p \in {p \in DOMAIN d.types[t] : p[1] = n} |-> d.types[t][p]]
          BY <5>0, PartIs
        <5>5. Part(local, f) = [p \in {p \in DOMAIN local.types[t] : p[1] = n} |-> local.types[t][p]]
          BY <4>1, PartIs
        <5> HIDE DEF came, kept, from
        <5> QED BY Zenon, <5>2, <5>3, <5>4, <5>5
      <4>2. CASE t \notin DOMAIN local.types /\ t \in DOMAIN d.types
        <5>1. {p \in DOMAIN d.types[t] : p[1] = n} = {}
          BY Zenon, <2>2, <2>5, <3>1, <4>2
        <5>2. Part(d, f) = Absent
          BY Zenon, <5>1, <4>2, EmptyPart
        <5> QED BY Zenon, <5>2, <4>2, MissingPart
      <4>3. CASE t \notin DOMAIN local.types /\ t \notin DOMAIN d.types
        BY Zenon, <4>3, MissingPart
      <4> QED BY Zenon, <4>1, <4>2, <4>3
    <3>3. Part(local, f) = Part(base, f) => Part(local, f) = Part(upstream, f)
      <4>1. CASE f \in FieldNames(base) \cup FieldNames(upstream) \cup FieldNames(local)
        BY Zenon, <4>1, <2>7, <1>2
      <4>2. CASE f \notin FieldNames(base) \cup FieldNames(upstream) \cup FieldNames(local)
        BY Zenon, <4>2, AbsentParts
      <4> QED BY Zenon, <4>1, <4>2
    <3> QED BY Zenon, <3>2, <3>3
  <2> QED BY Zenon, <2>6, <2>7
<1> HIDE DEF d
<1>5. ASSUME NEW f \in FieldNames(d) \cup FieldNames(local) \cup FieldNames(upstream)
      PROVE  Part(d, f) = IF Part(local, f) # Part(base, f) THEN Part(local, f) ELSE Part(upstream, f)
  <2>1. PICK t, n : f = <<t, n>>
    BY Zenon, FieldsArePairs
  <2> QED BY Zenon, <2>1, <1>4
<1> QED BY Zenon, <1>3, <1>5 DEF d, plan

-----------------------------------------------------------------------------
(* The schema table. *)

SchemaFields == {"ws", "name", "version", "def", "status", "origin", "snapshot", "noted", "linked"}

AllDefs == Defs \cup BuiltIns

Kept == {"active", "archived"}

(* A stored version: it has a base exactly when it follows a template. *)
RowOK(r) ==
    /\ DOMAIN r = SchemaFields
    /\ r.status \in Kept
    /\ r.ws \in Workspaces /\ Defined(r.def) /\ r.name = r.def.name /\ r.version \in Nat
    /\ r.origin \in TemplateIds \cup {None} /\ r.snapshot \in AllDefs \cup {None}
    /\ r.linked <=> r.origin # None
    /\ r.linked => r.snapshot # None

(* A name of a workspace has at most one active version, and its versions
   have different numbers. *)
Apart(S, s, t) ==
    Stored(S, s) /\ Stored(S, t) /\ S[s].ws = S[t].ws /\ S[s].name = S[t].name =>
      /\ S[s].version = S[t].version => s = t
      /\ S[s].status = "active" /\ S[t].status = "active" => s = t

TableOK(S) ==
    /\ S = [s \in SchemaIds |-> S[s]]
    /\ \A s \in SchemaIds : S[s] = FreshSchema \/ S[s] = GoneSchema \/ RowOK(S[s])
    /\ \A s, t \in SchemaIds : Apart(S, s, t)

(* What may become of a stored version: it is told of a change, it loses its
   template, it is retired. *)
Varies(r, q) ==
    \/ q = [r EXCEPT !.noted = FALSE]
    \/ q = [r EXCEPT !.origin = None, !.linked = FALSE]
    \/ q = [r EXCEPT !.status = "archived"]

(* What it keeps through all of that. *)
Same(r, q) ==
    /\ q.ws = r.ws /\ q.name = r.name /\ q.version = r.version
    /\ q.def = r.def /\ q.snapshot = r.snapshot
    /\ q.status = "active" => r.status = "active"

(* A version is inserted with a number above all others of its name; if it is
   active it leaves no other that is. *)
Inserted(S, T, s) ==
    /\ S[s] = FreshSchema /\ RowOK(T[s])
    /\ \A t \in SchemaIds : Stored(S, t) /\ S[t].ws = T[s].ws /\ S[t].name = T[s].name =>
         S[t].version < T[s].version /\ (T[s].status = "active" => T[t].status # "active")

(* What may become of a row in one step. *)
RowMoves(S, T, s) ==
    \/ T[s] = S[s]
    \/ RowOK(S[s]) /\ Varies(S[s], T[s])
    \/ S[s] # FreshSchema /\ T[s] = GoneSchema
    \/ Inserted(S, T, s)

(* Ids are not used twice, and a version stays what it was made. *)
Lasts(S, T, s) ==
    /\ S[s] # FreshSchema => T[s] # FreshSchema
    /\ S[s] # FreshSchema /\ RowOK(T[s]) => RowOK(S[s]) /\ Same(S[s], T[s])

TableLasts(S, T) == \A s \in SchemaIds : Lasts(S, T, s)

(* No version goes. *)
NoneLost(S, T) == \A s \in SchemaIds : RowOK(S[s]) => RowOK(T[s])

LEMMA RowsAreStored ==
    ASSUME NEW S, TableOK(S), NEW s \in SchemaIds
    PROVE  /\ Stored(S, s) <=> RowOK(S[s])
           /\ S[s].status = "fresh" <=> S[s] = FreshSchema
           /\ ~RowOK(FreshSchema) /\ ~RowOK(GoneSchema) /\ FreshSchema # GoneSchema
<1>1. ~RowOK(FreshSchema) /\ ~RowOK(GoneSchema) /\ FreshSchema # GoneSchema
      /\ FreshSchema.status = "fresh" /\ GoneSchema.status = "gone"
  <2>1. FreshSchema.status = "fresh" /\ GoneSchema.status = "gone"
    BY DEF FreshSchema, GoneSchema
  <2> QED BY <2>1 DEF RowOK, Kept
<1>2. CASE S[s] = FreshSchema \/ S[s] = GoneSchema
  BY <1>1, <1>2 DEF Stored
<1>3. CASE RowOK(S[s])
  <2>1. S[s].status \in Kept
    BY Zenon, <1>3 DEF RowOK
  <2>2. S[s].status # "fresh"
    BY <2>1 DEF Kept
  <2> QED BY Zenon, <1>1, <1>3, <2>1, <2>2 DEF Stored, Kept
<1> QED BY Zenon, <1>1, <1>2, <1>3 DEF TableOK

LEMMA VariantKeeps ==
    ASSUME NEW r, NEW q, RowOK(r), Varies(r, q)
    PROVE  RowOK(q) /\ Same(r, q)
<1>1. CASE q = [r EXCEPT !.noted = FALSE]
  BY <1>1 DEF RowOK, Same, SchemaFields, Kept
<1>2. CASE q = [r EXCEPT !.origin = None, !.linked = FALSE]
  BY <1>2 DEF RowOK, Same, SchemaFields, Kept
<1>3. CASE q = [r EXCEPT !.status = "archived"]
  BY <1>3 DEF RowOK, Same, SchemaFields, Kept
<1> QED BY Zenon, <1>1, <1>2, <1>3 DEF Varies

(* A step of the table that moves every row in one of these ways, and inserts
   at most one, leaves a table that is right. *)
LEMMA TableMoves ==
    ASSUME NEW S, NEW T, TableOK(S), T = [s \in SchemaIds |-> T[s]],
           \A s \in SchemaIds : RowMoves(S, T, s),
           \A s, t \in SchemaIds : Inserted(S, T, s) /\ Inserted(S, T, t) => s = t
    PROVE  TableOK(T) /\ TableLasts(S, T)
<1>1. ASSUME NEW s \in SchemaIds
      PROVE  /\ T[s] = FreshSchema \/ T[s] = GoneSchema \/ RowOK(T[s])
             /\ Lasts(S, T, s)
             /\ RowOK(T[s]) /\ ~Inserted(S, T, s) => RowOK(S[s]) /\ Same(S[s], T[s])
  <2>0. ~RowOK(FreshSchema) /\ ~RowOK(GoneSchema) /\ FreshSchema # GoneSchema
    BY Zenon, RowsAreStored
  <2>1. CASE T[s] = S[s]
    BY Zenon, <2>0, <2>1 DEF TableOK, Lasts, Same
  <2>2. CASE RowOK(S[s]) /\ Varies(S[s], T[s])
    BY Zenon, <2>0, <2>2, VariantKeeps DEF Lasts
  <2>3. CASE S[s] # FreshSchema /\ T[s] = GoneSchema
    BY Zenon, <2>0, <2>3 DEF Lasts
  <2>4. CASE Inserted(S, T, s)
    BY Zenon, <2>0, <2>4 DEF Lasts, Inserted
  <2> QED BY Zenon, <2>1, <2>2, <2>3, <2>4 DEF RowMoves
<1>2. ASSUME NEW s \in SchemaIds PROVE Stored(T, s) <=> RowOK(T[s])
  <2>1. FreshSchema.status = "fresh" /\ GoneSchema.status = "gone"
    BY DEF FreshSchema, GoneSchema
  <2>2. CASE T[s] = FreshSchema \/ T[s] = GoneSchema
    BY <2>1, <2>2, RowsAreStored DEF Stored
  <2>3. CASE RowOK(T[s])
    BY Zenon, <2>3 DEF RowOK, Kept, Stored
  <2> QED BY Zenon, <1>1, <2>2, <2>3
<1>3. \A s \in SchemaIds : Stored(S, s) <=> RowOK(S[s])
  BY Zenon, RowsAreStored
<1>4. ASSUME NEW s \in SchemaIds, NEW t \in SchemaIds, Inserted(S, T, s), s # t, RowOK(T[t]),
             T[s].ws = T[t].ws, T[s].name = T[t].name
      PROVE  T[s].version # T[t].version /\ ~(T[s].status = "active" /\ T[t].status = "active")
  <2>1. RowOK(S[t]) /\ Same(S[t], T[t])
    BY Zenon, <1>1, <1>4
  <2>2. S[t].version < T[s].version /\ (T[s].status = "active" => T[t].status # "active")
    BY Zenon, <2>1, <1>3, <1>4 DEF Inserted, Same
  <2>3. S[t].version \in Nat /\ T[s].version \in Nat /\ T[t].version = S[t].version
    BY Zenon, <2>1, <1>4 DEF RowOK, Inserted, Same
  <2> QED BY <2>2, <2>3
<1>5. ASSUME NEW s \in SchemaIds, NEW t \in SchemaIds PROVE Apart(T, s, t)
  <2> SUFFICES ASSUME RowOK(T[s]), RowOK(T[t]), T[s].ws = T[t].ws, T[s].name = T[t].name, s # t
               PROVE  T[s].version # T[t].version /\ ~(T[s].status = "active" /\ T[t].status = "active")
    BY Zenon, <1>2 DEF Apart
  <2>1. CASE Inserted(S, T, s)
    BY Zenon, <2>1, <1>4
  <2>2. CASE Inserted(S, T, t)
    BY Zenon, <2>2, <1>4
  <2>3. CASE ~Inserted(S, T, s) /\ ~Inserted(S, T, t)
    <3>1. RowOK(S[s]) /\ Same(S[s], T[s]) /\ RowOK(S[t]) /\ Same(S[t], T[t])
      BY Zenon, <2>3, <1>1
    <3>2. Apart(S, s, t) /\ Stored(S, s) /\ Stored(S, t)
      BY Zenon, <3>1, <1>3 DEF TableOK
    <3> QED BY Zenon, <3>1, <3>2 DEF Apart, Same
  <2> QED BY Zenon, <2>1, <2>2, <2>3
<1> QED BY Zenon, <1>1, <1>5 DEF TableOK, TableLasts

(* The active version of a name is the one that is stored as such. *)
LEMMA ActiveSchemaIsActive ==
    ASSUME NEW S, TableOK(S), NEW ws, NEW name, get_active_schema(S, ws, name) # None
    PROVE  LET s == get_active_schema(S, ws, name)
           IN s \in SchemaIds /\ RowOK(S[s]) /\ S[s].status = "active" /\ S[s].ws = ws /\ S[s].name = name
<1> DEFINE A == Active(S, ws, name)
<1>1. A # {}
  BY Zenon DEF get_active_schema
<1>2. PICK s \in A : TRUE
  BY Zenon, <1>1
<1>3. s \in SchemaIds /\ Stored(S, s) /\ S[s].ws = ws /\ S[s].name = name /\ S[s].status = "active"
  BY Zenon, <1>2 DEF Active, Versions
<1>4. \A t \in A : t = s
  BY Zenon, <1>3 DEF Active, Versions, TableOK, Apart
<1>5. S[s].version \in Nat /\ RowOK(S[s])
  BY Zenon, <1>3, RowsAreStored DEF RowOK
<1>6. \A t \in A : S[t].version <= S[s].version
  BY <1>4, <1>5
<1>7. Newest(S, A) \in A
  <2> HIDE DEF A
  <2> QED BY Zenon, <1>2, <1>6 DEF Newest
<1>8. get_active_schema(S, ws, name) = Newest(S, A)
  BY Zenon, <1>1 DEF get_active_schema
<1> QED BY Zenon, <1>3, <1>4, <1>5, <1>7, <1>8

(* No version of a name has a number above the latest. *)
LEMMA LatestVersion ==
    ASSUME NEW S, TableOK(S), NEW ws, NEW name
    PROVE  /\ latest_version(S, ws, name) \in Nat
           /\ \A s \in SchemaIds : Stored(S, s) /\ S[s].ws = ws /\ S[s].name = name =>
                S[s].version < latest_version(S, ws, name) + 1
<1> DEFINE V == Versions(S, ws, name)
           N == {0} \cup {S[s].version : s \in V}
           h == [s \in SchemaIds |-> IF s \in V THEN S[s].version ELSE 0]
<1>1. IsFiniteSet(SchemaIds) /\ V \subseteq SchemaIds
  BY Zenon, SchemaIdsAssumption DEF Versions
<1>2. \A s \in V : S[s].version \in Nat
  BY Zenon, RowsAreStored DEF RowOK, Versions
<1>3. (\A s \in SchemaIds : h[s] \in Nat) /\ \A s \in V : h[s] = S[s].version
  <2> HIDE DEF V
  <2> QED BY <1>1, <1>2
<1>4. PICK b \in Nat : \A s \in SchemaIds : h[s] <= b
  <2> HIDE DEF V, h
  <2> QED BY Zenon, <1>1, <1>3, FiniteIsBounded
<1>5. N \subseteq Nat /\ N # {} /\ \A m \in N : m <= b
  <2> HIDE DEF V, h
  <2> QED BY <1>1, <1>2, <1>3, <1>4
<1>6. Max(N) \in N /\ \A m \in N : m <= Max(N)
  <2> HIDE DEF N
  <2> QED BY Zenon, <1>5, MaxIsGreatest
<1>7. latest_version(S, ws, name) = Max(N)
  BY Zenon DEF latest_version
<1>8. Max(N) \in Nat /\ \A s \in V : S[s].version <= Max(N)
  BY Zenon, <1>5, <1>6
<1>9. \A s \in SchemaIds : Stored(S, s) /\ S[s].ws = ws /\ S[s].name = name => s \in V
  BY Zenon DEF Versions
<1> HIDE DEF V, N
<1> QED BY <1>2, <1>7, <1>8, <1>9

(* There is a row to insert. *)
LEMMA NextIsFresh ==
    ASSUME NEW S, TableOK(S), HasRoom(S)
    PROVE  NextSchema(S) \in SchemaIds /\ S[NextSchema(S)] = FreshSchema
<1> DEFINE F == {s \in SchemaIds : S[s].status = "fresh"}
<1>1. F # {} /\ F \subseteq Nat
  BY Zenon, SchemaIdsAssumption DEF HasRoom
<1>2. NextSchema(S) = Min(F)
  BY Zenon DEF NextSchema
<1>3. Min(F) \in F
  <2> HIDE DEF F
  <2> QED BY Zenon, <1>1, MinIsLeast
<1> QED BY Zenon, <1>2, <1>3, RowsAreStored

(* A new row, as the code inserts it. *)
LEMMA NewRow ==
    ASSUME NEW ws \in Workspaces, NEW def, Defined(def), NEW version \in Nat, NEW status \in Kept,
           NEW origin \in TemplateIds \cup {None}, NEW snapshot \in AllDefs \cup {None}, NEW noted,
           origin # None => snapshot # None
    PROVE  LET r == SchemaRow(ws, def, version, status, origin, snapshot, noted)
           IN /\ RowOK(r) /\ r.ws = ws /\ r.name = def.name /\ r.version = version /\ r.status = status
              /\ r.def = def /\ r.origin = origin /\ r.snapshot = snapshot /\ r.noted = noted
              /\ r.linked <=> origin # None
<1> DEFINE r == SchemaRow(ws, def, version, status, origin, snapshot, noted)
<1>1. /\ DOMAIN r = SchemaFields
      /\ r.ws = ws /\ r.name = def.name /\ r.version = version /\ r.status = status
      /\ r.def = def /\ r.origin = origin /\ r.snapshot = snapshot /\ r.noted = noted
      /\ r.linked <=> origin # None
  BY DEF SchemaRow, SchemaFields
<1> HIDE DEF r
<1>2. RowOK(r)
  BY Zenon, <1>1 DEF RowOK
<1> QED BY Zenon, <1>1, <1>2 DEF r

(* create_schema: the new version, the one it retires, and the others. *)
VersionAdded(S, T, n, def, o) ==
    /\ TableOK(T) /\ TableLasts(S, T)
    /\ RowOK(T[n]) /\ T[n].def = def /\ T[n].origin = o.template
    /\ T[n].snapshot = o.snapshot /\ T[n].noted = o.noted
    /\ \A s \in SchemaIds \ {n} :
         T[s] = S[s] \/ (RowOK(S[s]) /\ T[s] = [S[s] EXCEPT !.status = "archived"])

LEMMA VersionInserted ==
    ASSUME NEW S, TableOK(S), HasRoom(S), NEW ws \in Workspaces, NEW def, Defined(def), NEW o,
           o.template \in TemplateIds \cup {None}, o.snapshot \in AllDefs \cup {None},
           o.template # None => o.snapshot # None
    PROVE  VersionAdded(S, InsertVersion(S, ws, def, o), NextSchema(S), def, o)
<1> DEFINE n == NextSchema(S)
           v == latest_version(S, ws, def.name) + 1
           A == Active(S, ws, def.name)
           T == InsertVersion(S, ws, def, o)
           r == SchemaRow(ws, def, v, "active", o.template, o.snapshot, o.noted)
<1>1. n \in SchemaIds /\ S[n] = FreshSchema
  BY Zenon, NextIsFresh
<1>2. T = [s \in SchemaIds |-> CASE s = n -> r
                                 [] s # n /\ s \in A -> [S[s] EXCEPT !.status = "archived"]
                                 [] OTHER -> S[s]]
  BY Zenon DEF InsertVersion
<1>3. v \in Nat /\ \A s \in SchemaIds : Stored(S, s) /\ S[s].ws = ws /\ S[s].name = def.name => S[s].version < v
  <2>1. latest_version(S, ws, def.name) \in Nat
    BY Zenon, LatestVersion
  <2>2. v \in Nat
    BY <2>1
  <2> QED BY Zenon, <2>2, LatestVersion
<1>4. /\ RowOK(r) /\ r.ws = ws /\ r.name = def.name /\ r.version = v /\ r.status = "active"
      /\ r.def = def /\ r.origin = o.template /\ r.snapshot = o.snapshot /\ r.noted = o.noted
  <2>1. v \in Nat /\ "active" \in Kept
    BY Zenon, <1>3 DEF Kept
  <2> HIDE DEF v
  <2> QED BY <2>1, NewRow
<1> HIDE DEF n, v, T, r
<1>5. T[n] = r
  BY Zenon, <1>1, <1>2
<1>6. ASSUME NEW s \in SchemaIds, s # n
      PROVE  /\ s \in A => RowOK(S[s]) /\ T[s] = [S[s] EXCEPT !.status = "archived"]
             /\ s \notin A => T[s] = S[s]
  <2>1. s \in A => RowOK(S[s])
    BY Zenon, RowsAreStored DEF Active, Versions
  <2> HIDE DEF A
  <2> QED BY Zenon, <2>1, <1>2, <1>6
<1>7. ASSUME NEW t \in SchemaIds, Stored(S, t), S[t].ws = ws, S[t].name = def.name
      PROVE  T[t].status # "active"
  <2>1. t # n
    BY Zenon, <1>1, <1>7, RowsAreStored
  <2>2. CASE t \in A
    <3>1. T[t] = [S[t] EXCEPT !.status = "archived"] /\ "status" \in DOMAIN S[t]
      BY Zenon, <2>1, <2>2, <1>6 DEF RowOK, SchemaFields
    <3> QED BY <3>1
  <2>3. CASE t \notin A
    BY Zenon, <2>1, <2>3, <1>6, <1>7 DEF Active, Versions
  <2> QED BY Zenon, <2>2, <2>3
<1>8. Inserted(S, T, n)
  BY Zenon, <1>1, <1>3, <1>4, <1>5, <1>7 DEF Inserted
<1>9. ASSUME NEW s \in SchemaIds, s # n
      PROVE  T[s] = S[s] \/ (RowOK(S[s]) /\ T[s] = [S[s] EXCEPT !.status = "archived"])
  BY Zenon, <1>6, <1>9
<1>10. \A s \in SchemaIds : RowMoves(S, T, s)
  BY Zenon, <1>8, <1>9 DEF RowMoves, Varies
<1>11. ASSUME NEW s \in SchemaIds, s # n PROVE ~Inserted(S, T, s)
  <2>1. ~RowOK(FreshSchema)
    BY Zenon, <1>1, RowsAreStored
  <2> QED BY Zenon, <2>1, <1>9, <1>11 DEF Inserted
<1>12. T = [s \in SchemaIds |-> T[s]]
  BY Zenon, <1>2
<1>13. TableOK(T) /\ TableLasts(S, T)
  BY Zenon, <1>10, <1>11, <1>12, TableMoves
<1>14. VersionAdded(S, T, n, def, o)
  BY Zenon, <1>4, <1>5, <1>9, <1>13 DEF VersionAdded
<1> QED BY Zenon, <1>14 DEF n, T

(* insert_fork_head. *)
HeadAdded(S, T, n, ws, name) ==
    /\ TableOK(T) /\ TableLasts(S, T)
    /\ RowOK(T[n]) /\ ~T[n].linked /\ T[n].ws = ws /\ T[n].name = name /\ T[n].status = "archived"
    /\ \A s \in SchemaIds : Stored(S, s) /\ S[s].ws = ws /\ S[s].name = name => S[s].version < T[n].version
    /\ \A s \in SchemaIds \ {n} : T[s] = S[s]

LEMMA HeadInserted ==
    ASSUME NEW S, TableOK(S), HasRoom(S), NEW ws \in Workspaces, NEW def, Defined(def), NEW T,
           T = [S EXCEPT ![NextSchema(S)] =
                  SchemaRow(ws, def, latest_version(S, ws, def.name) + 1, "archived", None, None, FALSE)]
    PROVE  HeadAdded(S, T, NextSchema(S), ws, def.name)
<1> DEFINE n == NextSchema(S)
           v == latest_version(S, ws, def.name) + 1
           r == SchemaRow(ws, def, v, "archived", None, None, FALSE)
<1>1. n \in SchemaIds /\ S[n] = FreshSchema
  BY Zenon, NextIsFresh
<1>2. v \in Nat /\ \A s \in SchemaIds : Stored(S, s) /\ S[s].ws = ws /\ S[s].name = def.name => S[s].version < v
  <2>1. latest_version(S, ws, def.name) \in Nat
    BY Zenon, LatestVersion
  <2>2. v \in Nat
    BY <2>1
  <2> QED BY Zenon, <2>2, LatestVersion
<1>3. RowOK(r) /\ r.ws = ws /\ r.name = def.name /\ r.version = v /\ r.status = "archived" /\ ~r.linked
  <2>1. v \in Nat /\ "archived" \in Kept
    BY Zenon, <1>2 DEF Kept
  <2> HIDE DEF v
  <2>2. /\ DOMAIN r = SchemaFields
        /\ r.ws = ws /\ r.name = def.name /\ r.version = v /\ r.status = "archived"
        /\ r.def = def /\ r.origin = None /\ r.snapshot = None /\ ~r.linked
    BY DEF SchemaRow, SchemaFields
  <2> HIDE DEF r
  <2> QED BY Zenon, <2>1, <2>2 DEF RowOK
<1> HIDE DEF n, v, r
<1>4. T = [S EXCEPT ![n] = r]
  BY Zenon DEF n, v, r
<1>5. T[n] = r /\ \A s \in SchemaIds \ {n} : T[s] = S[s]
  BY Zenon, <1>1, <1>4 DEF TableOK
<1>6. T = [s \in SchemaIds |-> T[s]]
  BY Zenon, <1>4 DEF TableOK
<1>7. Inserted(S, T, n)
  <2>1. "archived" # "active"
    OBVIOUS
  <2> QED BY Zenon, <2>1, <1>1, <1>2, <1>3, <1>5 DEF Inserted
<1>8. \A s \in SchemaIds : RowMoves(S, T, s)
  BY Zenon, <1>5, <1>7 DEF RowMoves
<1>9. ASSUME NEW s \in SchemaIds, s # n PROVE ~Inserted(S, T, s)
  <2>1. ~RowOK(FreshSchema)
    BY Zenon, <1>1, RowsAreStored
  <2> QED BY Zenon, <2>1, <1>5, <1>9 DEF Inserted
<1>10. TableOK(T) /\ TableLasts(S, T)
  BY Zenon, <1>6, <1>8, <1>9, TableMoves
<1>11. HeadAdded(S, T, n, ws, def.name)
  BY Zenon, <1>2, <1>3, <1>5, <1>10 DEF HeadAdded
<1> QED BY Zenon, <1>11 DEF n

(* The steps that insert nothing. *)
LEMMA TableVaries ==
    ASSUME NEW S, NEW T, TableOK(S), T = [s \in SchemaIds |-> T[s]],
           \A s \in SchemaIds : \/ T[s] = S[s]
                                \/ RowOK(S[s]) /\ Varies(S[s], T[s])
                                \/ S[s] # FreshSchema /\ T[s] = GoneSchema
    PROVE  TableOK(T) /\ TableLasts(S, T)
<1>1. \A s \in SchemaIds : RowMoves(S, T, s)
  BY Zenon DEF RowMoves
<1>2. ASSUME NEW s \in SchemaIds PROVE ~Inserted(S, T, s)
  BY Zenon, RowsAreStored DEF Inserted
<1> QED BY Zenon, <1>1, <1>2, TableMoves

-----------------------------------------------------------------------------
(* The invariant. *)

Names == TemplateNames \cup {BuiltInName}

TemplateRows == [state: {"stored"}, tenant: Tenants, name: Names, def: AllDefs,
                 visibility: {"tenant", "community"}, fork_of: TemplateIds \cup {None}, rev: Nat]

VersionRows == [def: AllDefs, status: Statuses]

(* What the official tenant published is stable: only the seeding task
   publishes for it. *)
LibraryOK ==
    /\ templates = [t \in TemplateIds |-> templates[t]]
    /\ \A t \in TemplateIds : templates[t] \in {FreshTemplate, GoneTemplate} \cup TemplateRows
    /\ published \in [TemplateIds -> Seq(VersionRows)]
    /\ \A t \in TemplateIds : templates[t] = FreshTemplate => published[t] = <<>>
    /\ \A t \in TemplateIds : Owned(Official, t) =>
         \A i \in 1..Len(published[t]) : published[t][i].status = "stable"

SeedOK ==
    seed # None => /\ seed.template \in TemplateIds /\ seed.def \in BuiltIns
                   /\ Owned(Official, seed.template)

(* A version that follows a template follows one that is there, and has all of
   it when nothing is pending. *)
OriginOK(s) ==
    schemas[s].linked =>
      /\ InLibrary(schemas[s].origin)
      /\ s \notin late /\ schemas[s].noted /\ templates[schemas[s].origin].tenant # Official
           => schemas[s].snapshot = templates[schemas[s].origin].def

OriginsOK == \A s \in SchemaIds : RowOK(schemas[s]) => OriginOK(s)

Issued(t) == t \in TemplateIds /\ templates[t] # FreshTemplate

(* What a merge is about to write combines the version it read, as long as
   that is stored, with the template. *)
Merges(s, def, snapshot) ==
    /\ s \in SchemaIds /\ schemas[s] # FreshSchema
    /\ RowOK(schemas[s]) =>
         def = apply_plan(three_way(schemas[s].snapshot, snapshot, schemas[s].def), snapshot, schemas[s].def)

(* What a request that makes a version knows of the template it follows.  A
   merge holds the template's lock; any other has seen a revision of it. *)
Follows(call, from, snapshot, whole) ==
    /\ from \in TemplateIds \cup {None} /\ snapshot \in AllDefs \cup {None}
    /\ from # None => Issued(from) /\ snapshot # None
    /\ call.merges = None /\ InLibrary(from) =>
         /\ call.seen \in Nat /\ call.seen <= templates[from].rev
         /\ whole /\ call.seen = templates[from].rev /\ templates[from].tenant # Official
              => snapshot = templates[from].def
    /\ call.merges # None =>
         /\ from # None /\ call.template = from
         /\ InLibrary(from) /\ templates[from].tenant # Official => snapshot = templates[from].def
         /\ Merges(call.merges, call.def, snapshot)

ForkingOK(call) ==
    /\ call.tenant \in Tenants \ {Official} /\ call.name \in Names /\ Issued(call.template)
    /\ call.at = "forking" => call.def \in AllDefs

ReadOK(call) ==
    /\ call.ws \in Workspaces /\ Issued(call.template)
    /\ call.schema \in SchemaIds /\ schemas[call.schema] # FreshSchema
    /\ Defined(call.local)
    /\ RowOK(schemas[call.schema]) =>
         call.base = schemas[call.schema].snapshot /\ call.local = schemas[call.schema].def

MakingOK(call) ==
    /\ call.ws \in Workspaces /\ Defined(call.def)
    /\ call.at = "resolved" => Follows(call, call.template, call.snapshot, TRUE)
    /\ call.at = "writing" =>
         Follows(call, call.origin.template, call.origin.snapshot, ~call.late /\ call.origin.noted)

CallOK(call) ==
    /\ call.at \in {"idle", "sourced", "forking", "read", "resolved", "writing"}
    /\ call.at \in {"sourced", "forking"} => ForkingOK(call)
    /\ call.at = "read" => ReadOK(call)
    /\ call.at \in {"resolved", "writing"} => MakingOK(call)

CallsOK ==
    /\ calls = [c \in Callers |-> calls[c]]
    /\ \A call \in {calls[c] : c \in Callers} : CallOK(call)

ForkFields == {"state", "ws", "source_ws", "source", "source_version", "source_name", "head", "customized"}

(* A head of a fork: retired, and no newer than the present one. *)
HeadOK(f, s) ==
    /\ RowOK(schemas[s]) /\ schemas[s].status = "archived"
    /\ schemas[s].ws = forks[f].ws /\ schemas[s].name = forks[f].source_name
    /\ schemas[s].version <= schemas[forks[f].head].version

ForkOK(f) ==
    /\ DOMAIN forks[f] = ForkFields
    /\ forks[f].ws \in Workspaces /\ forks[f].source_ws \in Workspaces
    /\ TenantOf[forks[f].source_ws] = TenantOf[forks[f].ws]
    /\ forks[f].source \in SchemaIds /\ RowOK(schemas[forks[f].source])
    /\ schemas[forks[f].source].ws = forks[f].source_ws
    /\ schemas[forks[f].source].name = forks[f].source_name
    /\ schemas[forks[f].source].version = forks[f].source_version
    /\ <<f, forks[f].head>> \in heads
    /\ \A s \in SchemaIds : <<f, s>> \in heads => HeadOK(f, s)

ForksOK ==
    /\ forks = [f \in ForkIds |-> forks[f]]
    /\ heads \subseteq ForkIds \X SchemaIds
    /\ \A f \in ForkIds : forks[f].state \in {"fresh", "gone", "stored"}
    /\ \A f \in ForkIds, s \in SchemaIds : <<f, s>> \in heads => forks[f].state = "stored"
    /\ \A f \in StoredForks : ForkOK(f)

StoreOK ==
    /\ LibraryOK /\ SeedOK
    /\ TableOK(schemas) /\ OriginsOK /\ CallsOK
    /\ ForksOK /\ ForksAcyclic

TemplatesInv == StoreOK /\ SeedPublishesChanges

-----------------------------------------------------------------------------
(* The library. *)

(* What may become of a template: it is not inserted twice, a new definition
   is a new revision, and none comes while a merge holds the lock, unless the
   seeding task brings it. *)
TemplateLasts(t) ==
    /\ templates[t] # FreshTemplate => templates'[t] # FreshTemplate
    /\ templates[t] # FreshTemplate /\ templates'[t] \in TemplateRows =>
         /\ templates[t] \in TemplateRows
         /\ templates'[t].tenant = templates[t].tenant
         /\ templates[t].rev <= templates'[t].rev
         /\ templates'[t].rev = templates[t].rev => templates'[t].def = templates[t].def
         /\ template_origin_locked(t) /\ templates[t].tenant # Official
              => templates'[t].def = templates[t].def

LibraryLasts == \A t \in TemplateIds : TemplateLasts(t)

LEMMA TemplateStates ==
    ASSUME NEW r \in {FreshTemplate, GoneTemplate} \cup TemplateRows
    PROVE  /\ r.state = "stored" <=> r \in TemplateRows
           /\ r.state = "fresh" <=> r = FreshTemplate
           /\ FreshTemplate # GoneTemplate
           /\ FreshTemplate \notin TemplateRows /\ GoneTemplate \notin TemplateRows
<1>1. FreshTemplate.state = "fresh" /\ GoneTemplate.state = "gone"
  BY DEF FreshTemplate, GoneTemplate
<1>2. \A q \in TemplateRows : q.state = "stored"
  BY DEF TemplateRows
<1> HIDE DEF FreshTemplate, GoneTemplate, TemplateRows
<1> QED BY <1>1, <1>2

LEMMA TemplatesAreStored ==
    ASSUME LibraryOK, NEW t \in TemplateIds
    PROVE  /\ InLibrary(t) <=> templates[t] \in TemplateRows
           /\ templates[t].state = "fresh" <=> templates[t] = FreshTemplate
           /\ FreshTemplate # GoneTemplate
           /\ FreshTemplate \notin TemplateRows /\ GoneTemplate \notin TemplateRows
<1>1. templates[t] \in {FreshTemplate, GoneTemplate} \cup TemplateRows
  BY Zenon DEF LibraryOK
<1> QED BY Zenon, <1>1, TemplateStates DEF InLibrary

(* There is a row to insert. *)
LEMMA NewTemplateIsFresh ==
    ASSUME LibraryOK, LibraryHasRoom
    PROVE  NewTemplate \in TemplateIds /\ templates[NewTemplate] = FreshTemplate
<1> DEFINE F == {t \in TemplateIds : templates[t].state = "fresh"}
<1>1. F # {} /\ F \subseteq Nat
  BY Zenon, TemplatesAssumption DEF LibraryHasRoom
<1>2. NewTemplate = Min(F)
  BY Zenon DEF NewTemplate
<1>3. Min(F) \in F
  <2> HIDE DEF F
  <2> QED BY Zenon, <1>1, MinIsLeast
<1> QED BY Zenon, <1>2, <1>3, TemplatesAreStored

LEMMA NewTemplateRow ==
    ASSUME NEW tenant \in Tenants, NEW name \in Names, NEW def \in AllDefs,
           NEW visibility \in {"tenant", "community"}, NEW fork_of \in TemplateIds \cup {None}
    PROVE  /\ Template(tenant, name, def, visibility, fork_of) \in TemplateRows
           /\ Template(tenant, name, def, visibility, fork_of).tenant = tenant
BY DEF Template, TemplateRows

(* One row of the library changes, to what it may. *)
LEMMA RowChanges ==
    ASSUME LibraryOK, NEW u \in TemplateIds, NEW r \in TemplateRows,
           templates' = [templates EXCEPT ![u] = r], TemplateLasts(u),
           templates[u] = FreshTemplate \/ (templates[u] \in TemplateRows /\ r.tenant = templates[u].tenant),
           UNCHANGED published
    PROVE  /\ LibraryOK' /\ LibraryLasts
           /\ \A t \in TemplateIds \ {u} : templates'[t] = templates[t]
           /\ \A t \in TemplateIds : Owned(Official, t) => Owned(Official, t)'
<1>1. templates'[u] = r /\ \A t \in TemplateIds \ {u} : templates'[t] = templates[t]
  BY Zenon DEF LibraryOK
<1>2. templates' = [t \in TemplateIds |-> templates'[t]]
  BY Zenon DEF LibraryOK
<1>3. r # FreshTemplate /\ r.state = "stored"
  <2>1. r.state = "stored"
    BY DEF TemplateRows
  <2>2. FreshTemplate.state = "fresh"
    BY DEF FreshTemplate
  <2> QED BY <2>1, <2>2
<1>4. \A t \in TemplateIds : templates'[t] \in {FreshTemplate, GoneTemplate} \cup TemplateRows
  BY Zenon, <1>1 DEF LibraryOK
<1>5. \A t \in TemplateIds : templates'[t] = FreshTemplate => published'[t] = <<>>
  BY Zenon, <1>1, <1>3 DEF LibraryOK
<1>6. ASSUME NEW t \in TemplateIds, Owned(Official, t)', NEW i \in 1..Len(published'[t])
      PROVE  published'[t][i].status = "stable"
  <2>1. CASE t # u
    BY Zenon, <2>1, <1>1, <1>6 DEF LibraryOK, Owned, InLibrary
  <2>2. CASE t = u /\ templates[u] = FreshTemplate
    <3>1. published[t] = <<>>
      BY Zenon, <2>2 DEF LibraryOK
    <3> QED BY <3>1, <1>6
  <2>3. CASE t = u /\ templates[u] \in TemplateRows /\ r.tenant = templates[u].tenant
    <3>1. Owned(Official, t)
      BY Zenon, <2>3, <1>1, <1>6, TemplatesAreStored DEF Owned
    <3> QED BY Zenon, <3>1, <1>6 DEF LibraryOK
  <2> QED BY Zenon, <2>1, <2>2, <2>3
<1>7. LibraryOK'
  BY Zenon, <1>2, <1>4, <1>5, <1>6 DEF LibraryOK
<1>8. ASSUME NEW t \in TemplateIds, t # u PROVE TemplateLasts(t)
  <2>1. templates'[t] = templates[t]
    BY Zenon, <1>1, <1>8
  <2>2. templates[t] \in TemplateRows => templates[t].rev <= templates'[t].rev
    BY <2>1 DEF TemplateRows
  <2> QED BY Zenon, <2>1, <2>2 DEF TemplateLasts
<1>9. LibraryLasts
  BY Zenon, <1>8 DEF LibraryLasts
<1>10. ASSUME NEW t \in TemplateIds, Owned(Official, t) PROVE Owned(Official, t)'
  <2>1. CASE t # u
    BY Zenon, <2>1, <1>1, <1>10 DEF Owned, InLibrary
  <2>2. CASE t = u
    <3>1. templates[u] \in TemplateRows /\ templates[u].tenant = Official
      BY Zenon, <2>2, <1>10, TemplatesAreStored DEF Owned
    <3>2. r.tenant = Official
      BY Zenon, <3>1, TemplatesAreStored
    <3> QED BY Zenon, <2>2, <3>2, <1>1, <1>3 DEF Owned, InLibrary
  <2> QED BY Zenon, <2>1, <2>2
<1> QED BY Zenon, <1>1, <1>7, <1>9, <1>10

(* Every template that is there stays, with its definition unless it is an
   official one. *)
StaysWhole ==
    \A t \in TemplateIds : templates[t] \in TemplateRows =>
      /\ templates'[t] \in TemplateRows /\ templates'[t].tenant = templates[t].tenant
      /\ templates[t].tenant # Official => templates'[t].def = templates[t].def

OfficialStays == \A t \in TemplateIds : Owned(Official, t) => Owned(Official, t)'

LibraryStays == LibraryOK' /\ LibraryLasts /\ StaysWhole /\ OfficialStays

LEMMA SameTemplates ==
    ASSUME LibraryOK, UNCHANGED templates
    PROVE  LibraryLasts /\ StaysWhole /\ OfficialStays
<1>1. \A t \in TemplateIds : templates[t] \in TemplateRows => templates[t].rev <= templates'[t].rev
  BY DEF TemplateRows
<1>2. LibraryLasts
  BY Zenon, <1>1 DEF LibraryLasts, TemplateLasts
<1>3. StaysWhole
  BY Zenon DEF StaysWhole
<1>4. OfficialStays
  BY Zenon DEF OfficialStays, Owned, InLibrary
<1> QED BY Zenon, <1>2, <1>3, <1>4

LEMMA SameLibrary ==
    ASSUME LibraryOK, UNCHANGED <<templates, published>>
    PROVE  LibraryStays
<1>1. LibraryOK'
  BY Zenon DEF LibraryOK, Owned, InLibrary
<1> QED BY Zenon, <1>1, SameTemplates DEF LibraryStays

(* CreateTemplate, ForkTemplate, insert_fork, and a first upsert_template. *)
LEMMA TemplateInserted ==
    ASSUME LibraryOK, LibraryHasRoom, NEW tenant \in Tenants, NEW name \in Names, NEW def \in AllDefs,
           NEW visibility \in {"tenant", "community"}, NEW fork_of \in TemplateIds \cup {None},
           templates' = [templates EXCEPT ![NewTemplate] = Template(tenant, name, def, visibility, fork_of)],
           UNCHANGED published
    PROVE  /\ LibraryStays /\ NewTemplate \in TemplateIds
           /\ templates'[NewTemplate] = Template(tenant, name, def, visibility, fork_of)
<1> DEFINE u == NewTemplate
           r == Template(tenant, name, def, visibility, fork_of)
<1>1. u \in TemplateIds /\ templates[u] = FreshTemplate
  BY Zenon, NewTemplateIsFresh
<1>2. r \in TemplateRows
  BY Zenon, NewTemplateRow
<1> HIDE DEF u, r
<1>3. templates' = [templates EXCEPT ![u] = r]
  BY Zenon DEF u, r
<1>4. TemplateLasts(u)
  BY Zenon, <1>1 DEF TemplateLasts
<1>5. /\ LibraryOK' /\ LibraryLasts
      /\ \A t \in TemplateIds \ {u} : templates'[t] = templates[t]
      /\ \A t \in TemplateIds : Owned(Official, t) => Owned(Official, t)'
  BY Zenon, <1>1, <1>2, <1>3, <1>4, RowChanges
<1>6. StaysWhole
  BY Zenon, <1>1, <1>5, TemplatesAreStored DEF StaysWhole
<1>7. templates'[u] = r
  BY Zenon, <1>1, <1>3 DEF LibraryOK
<1> QED BY Zenon, <1>1, <1>5, <1>6, <1>7 DEF LibraryStays, OfficialStays, u, r

(* SetVisibility, a later upsert_template, and UpdateTemplate: the row gets
   another name, definition or visibility. *)
Edits(u, name, def, visibility, rev) ==
    /\ templates[u] \in TemplateRows
    /\ name \in Names /\ def \in AllDefs /\ visibility \in {"tenant", "community"} /\ rev \in Nat
    /\ templates' = [templates EXCEPT ![u] = [templates[u] EXCEPT
         !.name = name, !.def = def, !.visibility = visibility, !.rev = rev]]
    /\ \/ def = templates[u].def /\ rev = templates[u].rev
       \/ rev = templates[u].rev + 1 /\ (~template_origin_locked(u) \/ templates[u].tenant = Official)
    /\ UNCHANGED published

LEMMA TemplateEdited ==
    ASSUME LibraryOK, NEW u \in TemplateIds, NEW name, NEW def, NEW visibility, NEW rev,
           Edits(u, name, def, visibility, rev)
    PROVE  /\ LibraryOK' /\ LibraryLasts /\ OfficialStays
           /\ \A t \in TemplateIds \ {u} : templates'[t] = templates[t]
           /\ templates[u] \in TemplateRows /\ templates'[u] \in TemplateRows
           /\ templates'[u].tenant = templates[u].tenant /\ templates'[u].def = def
<1>0. /\ templates[u] \in TemplateRows
      /\ name \in Names /\ def \in AllDefs /\ visibility \in {"tenant", "community"} /\ rev \in Nat
      /\ templates' = [templates EXCEPT ![u] = [templates[u] EXCEPT
           !.name = name, !.def = def, !.visibility = visibility, !.rev = rev]]
      /\ \/ def = templates[u].def /\ rev = templates[u].rev
         \/ rev = templates[u].rev + 1 /\ (~template_origin_locked(u) \/ templates[u].tenant = Official)
      /\ UNCHANGED published
  BY Zenon DEF Edits
<1> DEFINE r == [templates[u] EXCEPT !.name = name, !.def = def, !.visibility = visibility, !.rev = rev]
<1>1. r \in TemplateRows /\ r.tenant = templates[u].tenant /\ r.def = def /\ r.rev = rev
  BY <1>0 DEF TemplateRows
<1> HIDE DEF r
<1>2. templates' = [templates EXCEPT ![u] = r]
  BY Zenon, <1>0 DEF r
<1>3. templates'[u] = r
  BY Zenon, <1>2 DEF LibraryOK
<1>4. templates[u].rev \in Nat
  BY <1>0 DEF TemplateRows
<1>5. templates[u].rev <= rev /\ (rev = templates[u].rev => def = templates[u].def)
  BY <1>0, <1>4
<1>6. templates[u] # FreshTemplate /\ r # FreshTemplate
  BY Zenon, <1>0, <1>1, TemplatesAreStored
<1>7. template_origin_locked(u) /\ templates[u].tenant # Official => def = templates[u].def
  BY Zenon, <1>0
<1>8. TemplateLasts(u)
  BY Zenon, <1>0, <1>1, <1>3, <1>5, <1>6, <1>7 DEF TemplateLasts
<1>9. /\ LibraryOK' /\ LibraryLasts
      /\ \A t \in TemplateIds \ {u} : templates'[t] = templates[t]
      /\ \A t \in TemplateIds : Owned(Official, t) => Owned(Official, t)'
  BY Zenon, <1>0, <1>1, <1>2, <1>8, RowChanges
<1> QED BY Zenon, <1>0, <1>1, <1>3, <1>9 DEF OfficialStays

(* A published version is appended: by the owner, or by the seeding task,
   whose versions are stable. *)
LEMMA VersionPublished ==
    ASSUME LibraryOK, NEW u \in TemplateIds, templates[u] \in TemplateRows,
           NEW def \in AllDefs, NEW status \in Statuses,
           templates[u].tenant = Official => status = "stable",
           insert_next_version(u, def, status), UNCHANGED templates
    PROVE  /\ LibraryStays
           /\ NewestPublished(u)' = [def |-> def, status |-> status]
<1> DEFINE v == [def |-> def, status |-> status]
<1>1. v \in VersionRows /\ v.status = status
  BY DEF VersionRows
<1>2. published[u] \in Seq(VersionRows)
  BY Zenon DEF LibraryOK
<1>3. published' = [published EXCEPT ![u] = Append(published[u], v)]
  BY Zenon DEF insert_next_version
<1> HIDE DEF v
<1>4. published'[u] = Append(published[u], v) /\ \A t \in TemplateIds \ {u} : published'[t] = published[t]
  BY Zenon, <1>3 DEF LibraryOK
<1>5. /\ Append(published[u], v) \in Seq(VersionRows)
      /\ Len(Append(published[u], v)) = Len(published[u]) + 1
      /\ Len(published[u]) \in Nat
      /\ \A i \in 1..Len(published[u]) : Append(published[u], v)[i] = published[u][i]
      /\ Append(published[u], v)[Len(published[u]) + 1] = v
  BY <1>1, <1>2
<1>6. published' \in [TemplateIds -> Seq(VersionRows)]
  BY Zenon, <1>3, <1>4, <1>5 DEF LibraryOK
<1>7. \A t \in TemplateIds : templates'[t] = FreshTemplate => published'[t] = <<>>
  BY Zenon, <1>4, TemplatesAreStored DEF LibraryOK
<1>8. ASSUME NEW t \in TemplateIds, Owned(Official, t), NEW i \in 1..Len(published'[t])
      PROVE  published'[t][i].status = "stable"
  <2>1. CASE t # u
    BY Zenon, <2>1, <1>4, <1>8 DEF LibraryOK
  <2>2. CASE t = u
    <3>1. status = "stable"
      BY Zenon, <2>2, <1>8 DEF Owned
    <3>2. CASE i = Len(published[u]) + 1
      BY Zenon, <2>2, <3>1, <3>2, <1>1, <1>4, <1>5
    <3>3. CASE i # Len(published[u]) + 1
      <4>1. i \in 1..Len(published[u])
        BY <3>3, <2>2, <1>4, <1>5, <1>8
      <4>2. published'[t][i] = published[t][i]
        BY Zenon, <4>1, <2>2, <1>4, <1>5
      <4> QED BY Zenon, <4>1, <4>2, <2>2, <1>8 DEF LibraryOK
    <3> QED BY Zenon, <3>2, <3>3
  <2> QED BY Zenon, <2>1, <2>2
<1>9. LibraryOK'
  BY Zenon, <1>6, <1>7, <1>8 DEF LibraryOK, Owned, InLibrary
<1>10. NewestPublished(u)' = v
  BY Zenon, <1>4, <1>5 DEF NewestPublished
<1> QED BY Zenon, <1>9, <1>10, SameTemplates DEF LibraryStays, v

(* DeleteTemplate, of a tenant's own template. *)
LEMMA TemplateDeleted ==
    ASSUME LibraryOK, NEW u \in TemplateIds, NEW tenant, tenant # Official, DeleteTemplate(tenant, u)
    PROVE  /\ LibraryOK' /\ LibraryLasts /\ OfficialStays
           /\ templates[u] \in TemplateRows
           /\ \A t \in TemplateIds \ {u} : templates[t] \in TemplateRows =>
                /\ templates'[t] \in TemplateRows /\ templates'[t].tenant = templates[t].tenant
                /\ templates'[t].def = templates[t].def
<1>1. /\ Owned(tenant, u)
      /\ templates' = [t \in TemplateIds |->
           CASE t = u -> GoneTemplate
             [] t # u /\ InLibrary(t) /\ templates[t].fork_of = u -> [templates[t] EXCEPT !.fork_of = None]
             [] OTHER -> templates[t]]
      /\ published' = [published EXCEPT ![u] = <<>>]
  BY Zenon DEF DeleteTemplate
<1>2. templates'[u] = GoneTemplate /\ templates' = [t \in TemplateIds |-> templates'[t]]
  BY Zenon, <1>1
<1>3. templates[u] \in TemplateRows /\ templates[u].tenant # Official
  BY Zenon, <1>1, TemplatesAreStored DEF Owned
<1>4. ASSUME NEW t \in TemplateIds, t # u
      PROVE  /\ templates'[t] \in TemplateRows =>
                  /\ templates[t] \in TemplateRows
                  /\ templates'[t].tenant = templates[t].tenant /\ templates'[t].def = templates[t].def
                  /\ templates'[t].rev = templates[t].rev /\ templates[t].rev <= templates'[t].rev
             /\ templates[t] \in TemplateRows => templates'[t] \in TemplateRows
             /\ templates[t] \notin TemplateRows => templates'[t] = templates[t]
  <2>1. CASE InLibrary(t) /\ templates[t].fork_of = u
    <3>1. templates'[t] = [templates[t] EXCEPT !.fork_of = None]
      BY Zenon, <1>1, <1>4, <2>1
    <3>2. templates[t] \in TemplateRows
      BY Zenon, <2>1, TemplatesAreStored
    <3> QED BY <3>1, <3>2 DEF TemplateRows
  <2>2. CASE ~(InLibrary(t) /\ templates[t].fork_of = u)
    <3>1. templates'[t] = templates[t]
      BY Zenon, <1>1, <1>4, <2>2
    <3>2. templates[t] \in TemplateRows => templates[t].rev <= templates'[t].rev
      BY <3>1 DEF TemplateRows
    <3> QED BY Zenon, <3>1, <3>2
  <2> QED BY Zenon, <2>1, <2>2
<1>5. GoneTemplate # FreshTemplate /\ GoneTemplate \notin TemplateRows /\ FreshTemplate \notin TemplateRows
  BY Zenon, TemplatesAreStored
<1>6. published'[u] = <<>> /\ \A t \in TemplateIds \ {u} : published'[t] = published[t]
  BY Zenon, <1>1 DEF LibraryOK
<1>7. \A r \in TemplateRows : r.state = "stored"
  BY DEF TemplateRows
<1>8. GoneTemplate.state # "stored" /\ FreshTemplate.state # "stored"
  BY DEF GoneTemplate, FreshTemplate
<1>9. \A t \in TemplateIds : templates'[t] \in {FreshTemplate, GoneTemplate} \cup TemplateRows
  BY Zenon, <1>2, <1>4 DEF LibraryOK
<1>10. ASSUME NEW t \in TemplateIds PROVE Owned(Official, t)' <=> Owned(Official, t)
  <2>1. CASE t = u
    BY Zenon, <2>1, <1>2, <1>3, <1>8 DEF Owned, InLibrary
  <2>2. CASE t # u /\ templates[t] \in TemplateRows
    BY Zenon, <2>2, <1>4, <1>7 DEF Owned, InLibrary
  <2>3. CASE t # u /\ templates[t] \notin TemplateRows
    BY Zenon, <2>3, <1>4 DEF Owned, InLibrary
  <2> QED BY Zenon, <2>1, <2>2, <2>3
<1>11. published' \in [TemplateIds -> Seq(VersionRows)]
  <2>1. <<>> \in Seq(VersionRows)
    OBVIOUS
  <2> QED BY Zenon, <2>1, <1>1 DEF LibraryOK
<1>12. \A t \in TemplateIds : templates'[t] = FreshTemplate => published'[t] = <<>>
  BY Zenon, <1>2, <1>4, <1>5, <1>6 DEF LibraryOK
<1>13. \A t \in TemplateIds : Owned(Official, t)' =>
         \A i \in 1..Len(published'[t]) : published'[t][i].status = "stable"
  BY <1>3, <1>6, <1>10 DEF LibraryOK, Owned
<1>14. LibraryOK'
  BY Zenon, <1>2, <1>9, <1>11, <1>12, <1>13 DEF LibraryOK
<1>15. \A t \in TemplateIds : TemplateLasts(t)
  <2>1. TemplateLasts(u)
    BY Zenon, <1>2, <1>5 DEF TemplateLasts
  <2>2. ASSUME NEW t \in TemplateIds, t # u PROVE TemplateLasts(t)
    BY Zenon, <2>2, <1>4, <1>5 DEF TemplateLasts
  <2> QED BY Zenon, <2>1, <2>2
<1> QED BY Zenon, <1>3, <1>4, <1>10, <1>14, <1>15 DEF LibraryLasts, OfficialStays

-----------------------------------------------------------------------------
(* The versions and their templates. *)

(* A version that is kept or retired, while every template stays. *)
LEMMA OriginStays ==
    ASSUME LibraryOK, StaysWhole, NEW s \in SchemaIds, RowOK(schemas[s]), OriginOK(s),
           schemas'[s] = schemas[s] \/ schemas'[s] = [schemas[s] EXCEPT !.status = "archived"],
           s \in late => s \in late'
    PROVE  OriginOK(s)'
<1>1. /\ schemas'[s].linked = schemas[s].linked /\ schemas'[s].origin = schemas[s].origin
      /\ schemas'[s].noted = schemas[s].noted /\ schemas'[s].snapshot = schemas[s].snapshot
  <2>1. DOMAIN schemas[s] = SchemaFields
    BY Zenon DEF RowOK
  <2> QED BY <2>1 DEF SchemaFields
<1> DEFINE t == schemas[s].origin
<1>2. CASE ~schemas[s].linked
  BY Zenon, <1>1, <1>2 DEF OriginOK
<1>3. CASE schemas[s].linked
  <2>1. t \in TemplateIds /\ templates[t] \in TemplateRows
    BY Zenon, <1>3, TemplatesAreStored DEF OriginOK, InLibrary
  <2>2. /\ templates'[t] \in TemplateRows /\ templates'[t].tenant = templates[t].tenant
        /\ templates[t].tenant # Official => templates'[t].def = templates[t].def
    BY Zenon, <2>1 DEF StaysWhole
  <2>3. templates'[t].state = "stored"
    BY Zenon, <2>2, TemplateStates
  <2>4. s \notin late /\ schemas[s].noted /\ templates[t].tenant # Official => schemas[s].snapshot = templates[t].def
    BY Zenon, <1>3 DEF OriginOK
  <2> QED BY Zenon, <1>1, <2>1, <2>2, <2>3, <2>4 DEF OriginOK, InLibrary
<1> QED BY Zenon, <1>2, <1>3

LEMMA OriginsStay ==
    ASSUME LibraryOK, StaysWhole, OriginsOK, UNCHANGED <<schemas, late>>
    PROVE  OriginsOK'
BY Zenon, OriginStays DEF OriginsOK

(* UpdateTemplate with a definition: every follower is told. *)
LEMMA FollowersNotified ==
    ASSUME LibraryOK, TableOK(schemas), OriginsOK, NEW u \in TemplateIds, LibraryOK',
           \A t \in TemplateIds \ {u} : templates'[t] = templates[t],
           templates'[u] \in TemplateRows,
           schemas' = notify_upstream_change(schemas, u), UNCHANGED late
    PROVE  TableOK(schemas') /\ TableLasts(schemas, schemas') /\ NoneLost(schemas, schemas') /\ OriginsOK'
<1>1. schemas' = [s \in SchemaIds |-> IF Stored(schemas, s) /\ schemas[s].origin = u /\ schemas[s].linked
                                      THEN [schemas[s] EXCEPT !.noted = FALSE] ELSE schemas[s]]
  BY Zenon DEF notify_upstream_change
<1>2. schemas' = [s \in SchemaIds |-> schemas'[s]]
  BY Zenon, <1>1
<1>3. ASSUME NEW s \in SchemaIds
      PROVE  \/ schemas'[s] = schemas[s] /\ ~(RowOK(schemas[s]) /\ schemas[s].origin = u /\ schemas[s].linked)
             \/ RowOK(schemas[s]) /\ schemas'[s] = [schemas[s] EXCEPT !.noted = FALSE]
  BY Zenon, <1>1, RowsAreStored
<1>4. TableOK(schemas') /\ TableLasts(schemas, schemas')
  BY Zenon, <1>2, <1>3, TableVaries DEF Varies
<1>6. NoneLost(schemas, schemas')
  BY Zenon, <1>3, VariantKeeps DEF NoneLost, Varies
<1>5. ASSUME NEW s \in SchemaIds, RowOK(schemas'[s]) PROVE OriginOK(s)'
  <2>1. CASE schemas'[s] = schemas[s] /\ ~(RowOK(schemas[s]) /\ schemas[s].origin = u /\ schemas[s].linked)
    <3>1. OriginOK(s)
      BY Zenon, <1>5, <2>1 DEF OriginsOK
    <3> QED BY Zenon, <1>5, <2>1, <3>1 DEF OriginOK, InLibrary
  <2>2. CASE RowOK(schemas[s]) /\ schemas'[s] = [schemas[s] EXCEPT !.noted = FALSE]
    <3>1. ~schemas'[s].noted /\ schemas'[s].linked = schemas[s].linked /\ schemas'[s].origin = schemas[s].origin
      <4>1. DOMAIN schemas[s] = SchemaFields
        BY Zenon, <2>2 DEF RowOK
      <4> QED BY <2>2, <4>1 DEF SchemaFields
    <3>2. OriginOK(s)
      BY Zenon, <2>2 DEF OriginsOK
    <3>3. templates'[u].state = "stored"
      BY Zenon, TemplateStates
    <3> QED BY Zenon, <3>1, <3>2, <3>3 DEF OriginOK, InLibrary
  <2> QED BY Zenon, <1>3, <2>1, <2>2
<1> QED BY Zenon, <1>4, <1>5, <1>6 DEF OriginsOK

(* DeleteTemplate: every follower is detached. *)
LEMMA FollowersDetached ==
    ASSUME LibraryOK, TableOK(schemas), OriginsOK, NEW u \in TemplateIds,
           \A t \in TemplateIds \ {u} : templates[t] \in TemplateRows =>
             /\ templates'[t] \in TemplateRows /\ templates'[t].tenant = templates[t].tenant
             /\ templates'[t].def = templates[t].def,
           schemas' = detach(schemas, u), UNCHANGED late
    PROVE  TableOK(schemas') /\ TableLasts(schemas, schemas') /\ NoneLost(schemas, schemas') /\ OriginsOK'
<1>1. schemas' = [s \in SchemaIds |-> IF Stored(schemas, s) /\ schemas[s].origin = u
                                      THEN [schemas[s] EXCEPT !.origin = None, !.linked = FALSE] ELSE schemas[s]]
  BY Zenon DEF detach
<1>2. schemas' = [s \in SchemaIds |-> schemas'[s]]
  BY Zenon, <1>1
<1>3. ASSUME NEW s \in SchemaIds
      PROVE  \/ schemas'[s] = schemas[s] /\ ~(RowOK(schemas[s]) /\ schemas[s].origin = u)
             \/ RowOK(schemas[s]) /\ schemas'[s] = [schemas[s] EXCEPT !.origin = None, !.linked = FALSE]
  BY Zenon, <1>1, RowsAreStored
<1>4. TableOK(schemas') /\ TableLasts(schemas, schemas')
  BY Zenon, <1>2, <1>3, TableVaries DEF Varies
<1>6. NoneLost(schemas, schemas')
  BY Zenon, <1>3, VariantKeeps DEF NoneLost, Varies
<1>5. ASSUME NEW s \in SchemaIds, RowOK(schemas'[s]) PROVE OriginOK(s)'
  <2>1. CASE schemas'[s] = schemas[s] /\ ~(RowOK(schemas[s]) /\ schemas[s].origin = u)
    <3> DEFINE t == schemas[s].origin
    <3>1. OriginOK(s) /\ t # u
      BY Zenon, <1>5, <2>1 DEF OriginsOK
    <3>2. CASE schemas[s].linked
      <4>1. t \in TemplateIds \ {u} /\ templates[t] \in TemplateRows
        BY Zenon, <3>1, <3>2, TemplatesAreStored DEF OriginOK, InLibrary
      <4>2. /\ templates'[t] \in TemplateRows /\ templates'[t].tenant = templates[t].tenant
            /\ templates'[t].def = templates[t].def
        BY Zenon, <4>1
      <4>3. templates'[t].state = "stored"
        BY Zenon, <4>2, TemplateStates
      <4> QED BY Zenon, <2>1, <3>1, <3>2, <4>1, <4>2, <4>3 DEF OriginOK, InLibrary
    <3>3. CASE ~schemas[s].linked
      BY Zenon, <2>1, <3>3 DEF OriginOK
    <3> QED BY Zenon, <3>2, <3>3
  <2>2. CASE RowOK(schemas[s]) /\ schemas'[s] = [schemas[s] EXCEPT !.origin = None, !.linked = FALSE]
    <3>1. ~schemas'[s].linked
      <4>1. DOMAIN schemas[s] = SchemaFields
        BY Zenon, <2>2 DEF RowOK
      <4> QED BY <2>2, <4>1 DEF SchemaFields
    <3> QED BY Zenon, <3>1 DEF OriginOK
  <2> QED BY Zenon, <1>3, <2>1, <2>2
<1> QED BY Zenon, <1>4, <1>5, <1>6 DEF OriginsOK

LEMMA TableStays ==
    ASSUME TableOK(schemas), UNCHANGED schemas
    PROVE  TableOK(schemas') /\ TableLasts(schemas, schemas') /\ NoneLost(schemas, schemas')
BY Zenon, RowsAreStored DEF TableLasts, Lasts, Same, TableOK, NoneLost

-----------------------------------------------------------------------------
(* Requests under way, while others take their steps. *)

LEMMA FollowsStays ==
    ASSUME LibraryOK, LibraryOK', LibraryLasts, TableLasts(schemas, schemas'),
           NEW call, NEW from, NEW snapshot, NEW whole, Follows(call, from, snapshot, whole),
           call.merges # None => template_origin_locked(from)
    PROVE  Follows(call, from, snapshot, whole)'
<1>1. from # None => Issued(from)'
  BY Zenon DEF Follows, Issued, LibraryLasts, TemplateLasts
<1>2. ASSUME InLibrary(from)'
      PROVE  /\ InLibrary(from)
             /\ from \in TemplateIds /\ TemplateLasts(from)
             /\ templates[from] \in TemplateRows /\ templates'[from] \in TemplateRows
             /\ templates[from] # FreshTemplate
  <2>1. from \in TemplateIds /\ templates'[from] \in TemplateRows
    <3>1. from \in TemplateIds /\ templates'[from].state = "stored"
      BY Zenon, <1>2 DEF InLibrary
    <3>2. templates'[from] \in {FreshTemplate, GoneTemplate} \cup TemplateRows
      BY Zenon, <3>1 DEF LibraryOK
    <3> QED BY Zenon, <3>1, <3>2, TemplateStates
  <2>2. templates[from] # FreshTemplate
    <3>1. from # None
      BY Zenon, <2>1, TemplatesApiAssumption
    <3> QED BY Zenon, <3>1 DEF Follows, Issued
  <2>3. TemplateLasts(from)
    BY Zenon, <2>1 DEF LibraryLasts
  <2>4. templates[from] \in TemplateRows
    BY Zenon, <2>1, <2>2, <2>3 DEF TemplateLasts
  <2> QED BY Zenon, <2>1, <2>2, <2>3, <2>4, TemplatesAreStored
<1>3. ASSUME call.merges = None, InLibrary(from)'
      PROVE  /\ call.seen \in Nat /\ call.seen <= templates'[from].rev
             /\ whole /\ call.seen = templates'[from].rev /\ templates'[from].tenant # Official
                  => snapshot = templates'[from].def
  <2>1. /\ call.seen \in Nat /\ call.seen <= templates[from].rev
        /\ whole /\ call.seen = templates[from].rev /\ templates[from].tenant # Official
             => snapshot = templates[from].def
    BY Zenon, <1>2, <1>3 DEF Follows
  <2>2. /\ templates'[from].tenant = templates[from].tenant
        /\ templates[from].rev <= templates'[from].rev
        /\ templates'[from].rev = templates[from].rev => templates'[from].def = templates[from].def
    BY Zenon, <1>2, <1>3 DEF TemplateLasts
  <2>3. templates[from].rev \in Nat /\ templates'[from].rev \in Nat
    BY <1>2, <1>3 DEF TemplateRows
  <2>4. /\ call.seen <= templates'[from].rev
        /\ call.seen = templates'[from].rev =>
             templates'[from].rev = templates[from].rev /\ call.seen = templates[from].rev
    BY <2>1, <2>2, <2>3
  <2> QED BY Zenon, <2>1, <2>2, <2>4
<1>4. ASSUME call.merges # None
      PROVE  /\ InLibrary(from)' /\ templates'[from].tenant # Official => snapshot = templates'[from].def
             /\ Merges(call.merges, call.def, snapshot)'
  <2>1. InLibrary(from)' /\ templates'[from].tenant # Official => snapshot = templates'[from].def
    BY Zenon, <1>2, <1>4 DEF Follows, TemplateLasts
  <2>2. Merges(call.merges, call.def, snapshot)
    BY Zenon, <1>4 DEF Follows
  <2>3. Lasts(schemas, schemas', call.merges)
    BY Zenon, <2>2 DEF Merges, TableLasts
  <2>4. Merges(call.merges, call.def, snapshot)'
    BY Zenon, <2>2, <2>3 DEF Merges, Lasts, Same
  <2> QED BY Zenon, <2>1, <2>4
<1> QED BY Zenon, <1>1, <1>3, <1>4 DEF Follows

LEMMA CallStays ==
    ASSUME LibraryOK, LibraryOK', LibraryLasts, TableLasts(schemas, schemas'),
           NEW call \in {calls[c] : c \in Callers}, CallOK(call)
    PROVE  CallOK(call)'
<1>1. ASSUME NEW t, Issued(t) PROVE Issued(t)'
  BY Zenon, <1>1 DEF Issued, LibraryLasts, TemplateLasts
<1>2. ForkingOK(call) => ForkingOK(call)'
  BY Zenon, <1>1 DEF ForkingOK
<1>3. ASSUME ReadOK(call) PROVE ReadOK(call)'
  <2>1. Lasts(schemas, schemas', call.schema)
    BY Zenon, <1>3 DEF ReadOK, TableLasts
  <2> QED BY Zenon, <2>1, <1>1, <1>3 DEF ReadOK, Lasts, Same
<1>4. ASSUME call.at \in {"resolved", "writing"}, MakingOK(call) PROVE MakingOK(call)'
  <2>1. call.merges # None => template_origin_locked(call.template)
    BY Zenon, <1>4 DEF template_origin_locked
  <2>2. ASSUME call.at = "resolved" PROVE Follows(call, call.template, call.snapshot, TRUE)'
    <3>1. Follows(call, call.template, call.snapshot, TRUE)
      BY Zenon, <1>4, <2>2 DEF MakingOK
    <3> QED BY Zenon, <2>1, <3>1, FollowsStays
  <2>3. ASSUME call.at = "writing"
        PROVE  Follows(call, call.origin.template, call.origin.snapshot, ~call.late /\ call.origin.noted)'
    <3>1. Follows(call, call.origin.template, call.origin.snapshot, ~call.late /\ call.origin.noted)
      BY Zenon, <1>4, <2>3 DEF MakingOK
    <3>2. call.merges # None => call.template = call.origin.template
      BY Zenon, <3>1 DEF Follows
    <3> QED BY Zenon, <2>1, <3>1, <3>2, FollowsStays
  <2> QED BY Zenon, <1>4, <2>2, <2>3 DEF MakingOK
<1> QED BY Zenon, <1>2, <1>3, <1>4 DEF CallOK

(* The others stay as they are when c moves on to call. *)
LEMMA CallMoves ==
    ASSUME LibraryOK, LibraryOK', LibraryLasts, TableLasts(schemas, schemas'), CallsOK,
           NEW c \in Callers, NEW call, calls' = [calls EXCEPT ![c] = call], CallOK(call)'
    PROVE  CallsOK'
<1>1. calls' = [d \in Callers |-> calls'[d]] /\ calls'[c] = call /\ \A d \in Callers \ {c} : calls'[d] = calls[d]
  BY Zenon DEF CallsOK
<1>2. \A was \in {calls[d] : d \in Callers} : CallOK(was)'
  BY Zenon, CallStays DEF CallsOK
<1>3. ASSUME NEW now \in {calls'[d] : d \in Callers} PROVE CallOK(now)'
  <2>1. PICK d \in Callers : now = calls'[d]
    BY Zenon
  <2>2. CASE d = c
    <3>1. now = call
      BY Zenon, <1>1, <2>1, <2>2
    <3> QED BY Zenon, <3>1
  <2>3. CASE d # c
    <3>1. now \in {calls[e] : e \in Callers}
      BY Zenon, <1>1, <2>1, <2>3
    <3> QED BY Zenon, <3>1, <1>2
  <2> QED BY Zenon, <2>2, <2>3
<1> QED BY Zenon, <1>1, <1>3 DEF CallsOK

LEMMA CallsStay ==
    ASSUME LibraryOK, LibraryOK', LibraryLasts, TableLasts(schemas, schemas'), CallsOK, UNCHANGED calls
    PROVE  CallsOK'
<1>1. \A was \in {calls[d] : d \in Callers} : CallOK(was)'
  BY Zenon, CallStays DEF CallsOK
<1> QED BY Zenon, <1>1 DEF CallsOK

(* A step that only the caller's own state shows. *)
LEMMA OnlyCallMoves ==
    ASSUME LibraryOK, TableOK(schemas), CallsOK, UNCHANGED <<templates, published, schemas>>,
           NEW c \in Callers, NEW call, calls' = [calls EXCEPT ![c] = call], CallOK(call)
    PROVE  CallsOK'
<1>1. LibraryOK' /\ LibraryLasts
  BY Zenon, SameLibrary DEF LibraryStays
<1>2. TableLasts(schemas, schemas')
  BY Zenon, TableStays
<1>3. CallOK(call)'
  <2>1. Follows(call, call.template, call.snapshot, TRUE) => Follows(call, call.template, call.snapshot, TRUE)'
    BY Zenon DEF Follows, InLibrary, Issued, Merges
  <2>2. Follows(call, call.origin.template, call.origin.snapshot, ~call.late /\ call.origin.noted)
          => Follows(call, call.origin.template, call.origin.snapshot, ~call.late /\ call.origin.noted)'
    BY Zenon DEF Follows, InLibrary, Issued, Merges
  <2>3. MakingOK(call) => MakingOK(call)'
    BY Zenon, <2>1, <2>2 DEF MakingOK
  <2>4. ForkingOK(call) => ForkingOK(call)'
    BY Zenon DEF ForkingOK, Issued
  <2>5. ReadOK(call) => ReadOK(call)'
    BY Zenon DEF ReadOK, Issued
  <2> QED BY Zenon, <2>3, <2>4, <2>5 DEF CallOK
<1> QED BY Zenon, <1>1, <1>2, <1>3, CallMoves

-----------------------------------------------------------------------------
(* The steps of a request. *)

LEMMA CallersHaveTenants ==
    \A c \in Callers : Tenant[c] \in Tenants \ {Official}
BY Zenon, TemplatesApiAssumption

LEMMA DefsAreDefined ==
    ASSUME NEW d \in AllDefs
    PROVE  d # None /\ Defined(d)
BY Zenon, TemplatesApiAssumption DEF AllDefs, Defined

LEMMA IdleIsOK ==
    CallOK(Idle)
<1>1. Idle.at = "idle"
  BY DEF Idle
<1> QED BY <1>1 DEF CallOK

(* A template someone sees is there. *)
LEMMA VisibleIsStored ==
    ASSUME LibraryOK, NEW tenant, NEW t, visible_to(tenant, t)
    PROVE  /\ t \in TemplateIds /\ templates[t] \in TemplateRows /\ Issued(t) /\ InLibrary(t)
           /\ templates[t].def \in AllDefs /\ templates[t].name \in Names /\ templates[t].rev \in Nat
<1>1. t \in TemplateIds /\ InLibrary(t)
  BY Zenon DEF visible_to, InLibrary
<1>2. templates[t] \in TemplateRows /\ templates[t] # FreshTemplate
  BY Zenon, <1>1, TemplatesAreStored
<1>3. templates[t].def \in AllDefs /\ templates[t].name \in Names /\ templates[t].rev \in Nat
  BY <1>2 DEF TemplateRows
<1> QED BY Zenon, <1>1, <1>2, <1>3 DEF Issued

LEMMA ForkSourceFound ==
    ASSUME LibraryOK, TableOK(schemas), CallsOK, NEW c \in Callers, NEW t,
           find_fork_source(c, Tenant[c], t)
    PROVE  CallsOK'
<1> DEFINE call == [at |-> "sourced", tenant |-> Tenant[c], template |-> t, name |-> templates[t].name]
<1>1. calls' = [calls EXCEPT ![c] = call] /\ UNCHANGED <<templates, published, schemas>>
  BY Zenon DEF find_fork_source, library
<1>2. Issued(t) /\ templates[t].name \in Names
  BY Zenon, VisibleIsStored DEF find_fork_source
<1>3. /\ call.at = "sourced" /\ call.tenant = Tenant[c] /\ call.template = t
      /\ call.name = templates[t].name
  OBVIOUS
<1> HIDE DEF call
<1>4. ForkingOK(call)
  <2>1. call.at # "forking"
    BY <1>3
  <2> QED BY Zenon, <2>1, <1>2, <1>3, CallersHaveTenants DEF ForkingOK
<1>5. CallOK(call)
  BY <1>3, <1>4 DEF CallOK
<1> QED BY Zenon, <1>1, <1>5, OnlyCallMoves

LEMMA ForkableFound ==
    ASSUME LibraryOK, TableOK(schemas), CallsOK, NEW c \in Callers, NEW version,
           find_forkable_definition(c, version)
    PROVE  CallsOK'
<1> DEFINE was == calls[c]
           v == IF version # None THEN version ELSE LatestStable(was.template)
           call == [at |-> "forking", tenant |-> was.tenant, template |-> was.template,
                    name |-> was.name, def |-> published[was.template][v].def]
<1>1. /\ was.at = "sourced" /\ forkable(was.template, v)
      /\ calls' = [calls EXCEPT ![c] = call] /\ UNCHANGED <<templates, published, schemas>>
  BY Zenon DEF find_forkable_definition, library
<1>2. ForkingOK(was)
  BY Zenon, <1>1 DEF CallsOK, CallOK
<1>3. published[was.template] \in Seq(VersionRows)
  BY Zenon, <1>2 DEF ForkingOK, Issued, LibraryOK
<1>4. v \in 1..Len(published[was.template])
  BY Zenon, <1>1 DEF forkable, OfStatus
<1> HIDE DEF was, v
<1>5. published[was.template][v].def \in AllDefs
  <2>1. published[was.template][v] \in VersionRows
    BY <1>3, <1>4
  <2> QED BY <2>1 DEF VersionRows
<1>6. /\ call.at = "forking" /\ call.tenant = was.tenant /\ call.template = was.template
      /\ call.name = was.name /\ call.def = published[was.template][v].def
  OBVIOUS
<1> HIDE DEF call
<1>7. ForkingOK(call)
  BY Zenon, <1>2, <1>5, <1>6 DEF ForkingOK
<1>8. CallOK(call)
  BY <1>6, <1>7 DEF CallOK
<1> QED BY Zenon, <1>1, <1>8, OnlyCallMoves

LEMMA TemplateResolved ==
    ASSUME LibraryOK, TableOK(schemas), CallsOK, NEW c \in Callers, NEW ws \in Workspaces, NEW t,
           resolve_template_definition(c, ws, t)
    PROVE  CallsOK'
<1> DEFINE d == templates[t].def
           call == Resolved(ws, d, t, d, None)
<1>1. calls' = [calls EXCEPT ![c] = call] /\ UNCHANGED <<templates, published, schemas>>
  BY Zenon DEF resolve_template_definition, library
<1>2. t \in TemplateIds /\ Issued(t) /\ InLibrary(t) /\ d \in AllDefs /\ templates[t].rev \in Nat
  BY Zenon, VisibleIsStored DEF resolve_template_definition
<1>3. Rev(t) = templates[t].rev
  BY Zenon, <1>2 DEF Rev
<1>4. /\ call.at = "resolved" /\ call.ws = ws /\ call.def = d /\ call.template = t /\ call.snapshot = d
      /\ call.seen = templates[t].rev /\ call.merges = None
  <2> HIDE DEF d
  <2> QED BY <1>3 DEF Resolved
<1>5. d # None /\ Defined(d)
  BY Zenon, <1>2, DefsAreDefined
<1>6. templates[t].rev <= templates[t].rev
  BY <1>2
<1> HIDE DEF call
<1>7. Follows(call, t, d, TRUE)
  BY Zenon, <1>2, <1>4, <1>5, <1>6 DEF Follows
<1>8. MakingOK(call)
  <2>1. call.at # "writing"
    BY <1>4
  <2> QED BY Zenon, <2>1, <1>4, <1>5, <1>7 DEF MakingOK
<1>9. CallOK(call)
  BY <1>4, <1>8 DEF CallOK
<1> QED BY Zenon, <1>1, <1>9, OnlyCallMoves

(* merge_sides up to the template's lock. *)
LEMMA LocalSideRead ==
    ASSUME LibraryOK, TableOK(schemas), OriginsOK, CallsOK, NEW c \in Callers, NEW ws \in Workspaces,
           NEW s \in SchemaIds, NEW applies, ReadLocalSide(c, ws, s, applies)
    PROVE  CallsOK'
<1> DEFINE r == schemas[s]
           call == [at |-> "read", ws |-> ws, schema |-> s, template |-> r.origin,
                    base |-> r.snapshot, local |-> r.def, applies |-> applies]
<1>1. /\ calls' = [calls EXCEPT ![c] = call] /\ UNCHANGED <<templates, published, schemas>>
      /\ Stored(schemas, s) /\ r.origin # None
  BY Zenon DEF ReadLocalSide, library, get_by_id
<1>2. RowOK(r) /\ r # FreshSchema
  BY Zenon, <1>1, RowsAreStored
<1>3. OriginOK(s) /\ r.linked /\ Defined(r.def)
  BY Zenon, <1>1, <1>2 DEF OriginsOK, RowOK
<1>4. Issued(r.origin)
  BY Zenon, <1>3, TemplatesAreStored DEF OriginOK, InLibrary, Issued
<1> HIDE DEF r
<1>5. /\ call.at = "read" /\ call.ws = ws /\ call.schema = s /\ call.template = r.origin
      /\ call.base = r.snapshot /\ call.local = r.def
  OBVIOUS
<1> HIDE DEF call
<1>6. ReadOK(call)
  BY Zenon, <1>2, <1>3, <1>4, <1>5 DEF ReadOK, r
<1>7. CallOK(call)
  BY <1>5, <1>6 DEF CallOK
<1> QED BY Zenon, <1>1, <1>7, OnlyCallMoves

(* merge_apply: the definition it will write combines both sides. *)
LEMMA MergeApplied ==
    ASSUME LibraryOK, TableOK(schemas), CallsOK, NEW c \in Callers, merge_apply(c)
    PROVE  CallsOK'
<1> DEFINE was == calls[c]
           up == templates[was.template].def
           d == apply_plan(Plan(was), up, was.local)
           call == Resolved(was.ws, d, was.template, up, was.schema)
<1>1. /\ was.at = "read" /\ visible_to(TenantOf[was.ws], was.template)
      /\ calls' = [calls EXCEPT ![c] = call] /\ UNCHANGED <<templates, published, schemas>>
  BY Zenon DEF merge_apply, SidesReady, library
<1>2. ReadOK(was)
  BY Zenon, <1>1 DEF CallsOK, CallOK
<1>3. was.template \in TemplateIds /\ Issued(was.template) /\ InLibrary(was.template) /\ up \in AllDefs
  BY Zenon, <1>1, VisibleIsStored
<1>4. up # None
  BY Zenon, <1>3, DefsAreDefined
<1>5. d = apply_plan(three_way(was.base, up, was.local), up, was.local)
  BY Zenon DEF Plan
<1>6. Defined(d)
  <2>1. Defined(was.local)
    BY Zenon, <1>2 DEF ReadOK
  <2> HIDE DEF d, up, was
  <2> QED BY Zenon, <2>1, <1>5, PlanApplied
<1> HIDE DEF was, up, d
<1>7. /\ call.at = "resolved" /\ call.ws = was.ws /\ call.def = d /\ call.template = was.template
      /\ call.snapshot = up /\ call.merges = was.schema
  BY DEF Resolved
<1> HIDE DEF call
<1>8. call.merges # None
  BY Zenon, <1>2, <1>7, TemplatesApiAssumption DEF ReadOK
<1>9. was.template # None
  BY Zenon, <1>3, TemplatesApiAssumption
<1>10. Merges(was.schema, d, up)
  BY Zenon, <1>2, <1>5 DEF ReadOK, Merges
<1>11. Follows(call, was.template, up, TRUE)
  BY Zenon, <1>3, <1>4, <1>7, <1>8, <1>9, <1>10 DEF Follows, up
<1>12. MakingOK(call)
  <2>1. call.at # "writing"
    BY <1>7
  <2> QED BY Zenon, <2>1, <1>2, <1>6, <1>7, <1>11 DEF MakingOK, ReadOK
<1>13. CallOK(call)
  BY <1>7, <1>12 DEF CallOK
<1> QED BY Zenon, <1>1, <1>13, OnlyCallMoves

(* create_schema up to its first write, by a request that follows what its
   own reading found or what the version it replaces follows. *)
LEMMA VersionLocked ==
    ASSUME LibraryOK, TableOK(schemas), OriginsOK, CallsOK, NEW c \in Callers, NEW was,
           was.at = "resolved", MakingOK(was), LockVersion(c, was)
    PROVE  CallsOK'
<1> DEFINE previous == get_active_schema(schemas, was.ws, was.def.name)
           inherits == previous # None /\ was.template = None
           origin == OriginAfter(schemas, previous, was.template, was.snapshot)
           seen == IF inherits THEN Rev(origin.template) ELSE was.seen
           isLate == inherits /\ previous \in late
           call == [at |-> "writing", ws |-> was.ws, def |-> was.def, template |-> was.template,
                    merges |-> was.merges, origin |-> origin, seen |-> seen, late |-> isLate]
<1>1. calls' = [calls EXCEPT ![c] = call] /\ UNCHANGED <<templates, published, schemas>>
  BY Zenon DEF LockVersion, library
<1>2. Follows(was, was.template, was.snapshot, TRUE) /\ was.ws \in Workspaces /\ Defined(was.def)
  BY Zenon DEF MakingOK
<1>3. ASSUME inherits
      PROVE  /\ origin.template = schemas[previous].origin /\ origin.snapshot = schemas[previous].snapshot
             /\ origin.noted = schemas[previous].noted
  <2>1. origin = [template |-> schemas[previous].origin, snapshot |-> schemas[previous].snapshot,
                  noted |-> schemas[previous].noted]
    BY Zenon, <1>3 DEF OriginAfter
  <2> HIDE DEF origin, previous
  <2> QED BY <2>1
<1>4. ASSUME ~inherits
      PROVE  origin.template = was.template /\ origin.snapshot = was.snapshot
  <2>1. origin = [template |-> was.template, snapshot |-> was.snapshot, noted |-> was.template # None]
    BY Zenon, <1>4 DEF OriginAfter
  <2> HIDE DEF origin
  <2> QED BY <2>1
<1>5. inherits => previous \in SchemaIds /\ RowOK(schemas[previous])
  BY Zenon, ActiveSchemaIsActive
<1> HIDE DEF previous, inherits, origin
<1>6. /\ call.at = "writing" /\ call.ws = was.ws /\ call.def = was.def /\ call.template = was.template
      /\ call.merges = was.merges /\ call.origin = origin /\ call.seen = seen /\ call.late = isLate
  <2> HIDE DEF seen, isLate
  <2> QED OBVIOUS
<1> HIDE DEF call
<1>7. Follows(call, origin.template, origin.snapshot, ~call.late /\ origin.noted)
  <2>1. CASE inherits
    <3> DEFINE from == schemas[previous].origin
               snapshot == schemas[previous].snapshot
    <3>1. OriginOK(previous) /\ RowOK(schemas[previous])
      BY Zenon, <1>5, <2>1 DEF OriginsOK
    <3>2. from \in TemplateIds \cup {None} /\ snapshot \in AllDefs \cup {None}
      BY Zenon, <3>1 DEF RowOK
    <3>3. from # None => Issued(from) /\ snapshot # None
      BY Zenon, <3>1, TemplatesAreStored DEF OriginOK, RowOK, InLibrary, Issued
    <3>4. call.merges = None
      BY Zenon, <1>2, <1>6, <2>1 DEF Follows, inherits
    <3>5. ASSUME InLibrary(from)
          PROVE  call.seen = templates[from].rev /\ templates[from].rev \in Nat
      <4>1. templates[from] \in TemplateRows
        BY Zenon, <3>5, TemplatesAreStored DEF InLibrary
      <4>2. templates[from].rev \in Nat
        BY <4>1 DEF TemplateRows
      <4> QED BY Zenon, <4>2, <1>3, <1>6, <2>1, <3>5 DEF Rev
    <3>6. ASSUME InLibrary(from), ~call.late /\ origin.noted, templates[from].tenant # Official
          PROVE  snapshot = templates[from].def
      <4>1. previous \notin late
        BY Zenon, <1>6, <2>1, <3>6
      <4>2. schemas[previous].linked
        BY Zenon, <3>1, <3>6, TemplatesApiAssumption DEF RowOK, InLibrary
      <4> QED BY Zenon, <4>1, <4>2, <1>3, <2>1, <3>1, <3>6 DEF OriginOK
    <3>7. InLibrary(from) => call.seen \in Nat /\ call.seen <= templates[from].rev
      BY <3>5
    <3> QED BY Zenon, <1>3, <2>1, <3>2, <3>3, <3>4, <3>6, <3>7 DEF Follows
  <2>2. CASE ~inherits
    <3>1. call.seen = was.seen
      BY Zenon, <1>6, <2>2
    <3> QED BY Zenon, <1>2, <1>4, <1>6, <2>2, <3>1 DEF Follows
  <2> QED BY Zenon, <2>1, <2>2
<1>8. MakingOK(call)
  <2>1. call.at # "resolved"
    BY <1>6
  <2> QED BY Zenon, <2>1, <1>2, <1>6, <1>7 DEF MakingOK
<1>9. CallOK(call)
  BY <1>6, <1>8 DEF CallOK
<1> QED BY Zenon, <1>1, <1>9, OnlyCallMoves

(* A definition that comes with the request. *)
LEMMA SentDefinition ==
    ASSUME NEW ws \in Workspaces, NEW d \in Defs
    PROVE  LET was == Resolved(ws, d, None, None, None)
           IN was.at = "resolved" /\ MakingOK(was)
<1> DEFINE was == Resolved(ws, d, None, None, None)
<1>1. /\ was.at = "resolved" /\ was.ws = ws /\ was.def = d /\ was.template = None /\ was.snapshot = None
      /\ was.merges = None
  BY DEF Resolved
<1> HIDE DEF was
<1>2. ~InLibrary(None)
  BY Zenon, TemplatesApiAssumption DEF InLibrary
<1>3. Follows(was, None, None, TRUE)
  BY Zenon, <1>1, <1>2 DEF Follows
<1>4. Defined(d)
  BY Zenon, DefsAreDefined DEF AllDefs
<1>5. was.at # "writing"
  BY <1>1
<1>6. MakingOK(was)
  BY Zenon, <1>1, <1>3, <1>4, <1>5 DEF MakingOK
<1> QED BY Zenon, <1>1, <1>6 DEF was

(* The rest of create_schema. *)
LEMMA VersionWritten ==
    ASSUME LibraryOK, TableOK(schemas), OriginsOK, CallsOK, NEW c \in Callers, WriteVersion(c)
    PROVE  LET n == NextSchema(schemas)
           IN /\ TableOK(schemas') /\ TableLasts(schemas, schemas') /\ NoneLost(schemas, schemas')
              /\ OriginsOK' /\ CallsOK'
              /\ n \in SchemaIds /\ schemas[n] = FreshSchema
              /\ RowOK(schemas'[n]) /\ schemas'[n].def = calls[c].def
              /\ schemas'[n].snapshot = calls[c].origin.snapshot
              /\ \A s \in SchemaIds \ {n} : \/ schemas'[s] = schemas[s]
                                            \/ /\ RowOK(schemas[s])
                                               /\ schemas'[s] = [schemas[s] EXCEPT !.status = "archived"]
<1>0. PICK call, from, n : call = calls[c] /\ from = calls[c].origin.template /\ n = NextSchema(schemas)
  OBVIOUS
<1>1. /\ call.at = "writing" /\ HasRoom(schemas) /\ (from # None => InLibrary(from))
      /\ schemas' = InsertVersion(schemas, call.ws, call.def, call.origin)
      /\ late' = IF call.merges = None /\ (call.late \/ Rev(from) # call.seen) THEN late \cup {n} ELSE late
      /\ calls' = [calls EXCEPT ![c] = Idle] /\ UNCHANGED <<templates, published>>
      /\ from = call.origin.template
  BY Zenon, <1>0 DEF WriteVersion, library
<1>2. MakingOK(call)
  BY Zenon, <1>0, <1>1 DEF CallsOK, CallOK
<1>3. /\ call.ws \in Workspaces /\ Defined(call.def)
      /\ Follows(call, from, call.origin.snapshot, ~call.late /\ call.origin.noted)
  BY Zenon, <1>1, <1>2 DEF MakingOK
<1>4. /\ call.origin.template \in TemplateIds \cup {None} /\ call.origin.snapshot \in AllDefs \cup {None}
      /\ call.origin.template # None => call.origin.snapshot # None
  BY Zenon, <1>1, <1>3 DEF Follows
<1>5. /\ TableOK(schemas') /\ TableLasts(schemas, schemas')
      /\ RowOK(schemas'[n]) /\ schemas'[n].def = call.def /\ schemas'[n].origin = from
      /\ schemas'[n].snapshot = call.origin.snapshot /\ schemas'[n].noted = call.origin.noted
      /\ \A s \in SchemaIds \ {n} : \/ schemas'[s] = schemas[s]
                                    \/ /\ RowOK(schemas[s])
                                       /\ schemas'[s] = [schemas[s] EXCEPT !.status = "archived"]
  <2>1. VersionAdded(schemas, schemas', n, call.def, call.origin)
    BY Zenon, <1>0, <1>1, <1>3, <1>4, VersionInserted
  <2> QED BY Zenon, <2>1, <1>1 DEF VersionAdded
<1>6. n \in SchemaIds /\ schemas[n] = FreshSchema
  BY Zenon, <1>0, <1>1, NextIsFresh
<1>7. LibraryOK' /\ LibraryLasts /\ StaysWhole
  BY Zenon, <1>1, SameLibrary DEF LibraryStays
<1>8. CallsOK'
  <2>1. CallOK(Idle)'
    <3>1. Idle.at = "idle"
      BY DEF Idle
    <3> QED BY <3>1 DEF CallOK
  <2> QED BY Zenon, <2>1, <1>1, <1>5, <1>7, CallMoves
<1>9. OriginOK(n)'
  <2>1. CASE from = None
    <3>1. ~schemas'[n].linked
      BY Zenon, <2>1, <1>5 DEF RowOK
    <3> QED BY Zenon, <3>1 DEF OriginOK
  <2>2. CASE from # None
    <3>1. InLibrary(from) /\ InLibrary(from)'
      BY Zenon, <2>2, <1>1 DEF InLibrary
    <3>2. ASSUME n \notin late', call.origin.noted, templates[from].tenant # Official
          PROVE  call.origin.snapshot = templates[from].def
      <4>1. CASE call.merges # None
        BY Zenon, <4>1, <3>1, <3>2, <1>3 DEF Follows
      <4>2. CASE call.merges = None
        <5>1. ~call.late /\ Rev(from) = call.seen
          BY Zenon, <4>2, <3>2, <1>1
        <5>2. call.seen = templates[from].rev
          BY Zenon, <5>1, <3>1 DEF Rev
        <5> QED BY Zenon, <5>1, <5>2, <4>2, <3>1, <3>2, <1>3 DEF Follows
      <4> QED BY Zenon, <4>1, <4>2
    <3>3. templates' = templates
      BY Zenon, <1>1
    <3> QED BY Zenon, <3>1, <3>2, <3>3, <1>5 DEF OriginOK
  <2> QED BY Zenon, <2>1, <2>2
<1>10. ASSUME NEW s \in SchemaIds, s # n, RowOK(schemas'[s]) PROVE OriginOK(s)'
  <2>1. s \in late => s \in late'
    BY Zenon, <1>1
  <2>2. RowOK(schemas[s])
    BY Zenon, <1>5, <1>10
  <2>3. OriginOK(s)
    BY Zenon, <2>2 DEF OriginsOK
  <2>4. schemas'[s] = schemas[s] \/ schemas'[s] = [schemas[s] EXCEPT !.status = "archived"]
    BY Zenon, <1>5, <1>10
  <2> QED BY Zenon, <2>1, <2>2, <2>3, <2>4, <1>7, OriginStays
<1>11. OriginsOK'
  BY Zenon, <1>9, <1>10 DEF OriginsOK
<1>12. NoneLost(schemas, schemas')
  BY Zenon, <1>5, VariantKeeps DEF NoneLost, Varies
<1> QED BY Zenon, <1>0, <1>5, <1>6, <1>8, <1>11, <1>12

-----------------------------------------------------------------------------
(* Forks. *)

(* The forks stay as they are while no version they refer to goes. *)
LEMMA ForksStay ==
    ASSUME TableOK(schemas), TableLasts(schemas, schemas'), ForksOK, UNCHANGED <<forks, heads>>, NEW gone,
           \A s \in SchemaIds \ {gone} : RowOK(schemas[s]) => RowOK(schemas'[s]),
           \A f \in StoredForks : gone # forks[f].source,
           \A f \in ForkIds : <<f, gone>> \notin heads
    PROVE  ForksOK'
<1>0. StoredForks' = StoredForks
  BY Zenon DEF StoredForks
<1>1. ASSUME NEW s \in SchemaIds, RowOK(schemas[s]), s # gone
      PROVE  RowOK(schemas'[s]) /\ Same(schemas[s], schemas'[s])
  <2>1. schemas[s] # FreshSchema
    BY Zenon, <1>1, RowsAreStored
  <2> QED BY Zenon, <2>1, <1>1 DEF TableLasts, Lasts
<1>2. ASSUME NEW f \in StoredForks PROVE ForkOK(f)'
  <2>0. ForkOK(f)
    BY Zenon DEF ForksOK
  <2>1. f \in ForkIds
    BY Zenon DEF StoredForks
  <2> DEFINE src == forks[f].source
             hd == forks[f].head
  <2>2. RowOK(schemas'[src]) /\ Same(schemas[src], schemas'[src])
    BY Zenon, <1>1, <2>0 DEF ForkOK
  <2>3. hd \in SchemaIds /\ HeadOK(f, hd)
    <3>1. <<f, hd>> \in ForkIds \X SchemaIds
      BY Zenon, <2>0 DEF ForkOK, ForksOK
    <3>2. hd \in SchemaIds
      BY <3>1
    <3> QED BY Zenon, <3>2, <2>0 DEF ForkOK
  <2>4. RowOK(schemas'[hd]) /\ Same(schemas[hd], schemas'[hd])
    BY Zenon, <1>1, <2>0, <2>1, <2>3 DEF ForkOK, HeadOK
  <2>5. ASSUME NEW s \in SchemaIds, <<f, s>> \in heads PROVE HeadOK(f, s)'
    <3>1. HeadOK(f, s)
      BY Zenon, <2>0, <2>5 DEF ForkOK
    <3>2. RowOK(schemas'[s]) /\ Same(schemas[s], schemas'[s])
      BY Zenon, <1>1, <2>1, <2>5, <3>1 DEF HeadOK
    <3>3. schemas'[s].status = "archived"
      <4>1. schemas[s].status = "archived" /\ schemas'[s].status \in {"active", "archived"}
        BY Zenon, <3>1, <3>2 DEF HeadOK, RowOK, Kept
      <4>2. schemas'[s].status = "active" => schemas[s].status = "active"
        BY Zenon, <3>2 DEF Same
      <4> QED BY <4>1, <4>2
    <3> QED BY Zenon, <3>1, <3>2, <3>3, <2>4 DEF HeadOK, Same
  <2> QED BY Zenon, <2>0, <2>2, <2>5 DEF ForkOK, Same
<1> QED BY Zenon, <1>0, <1>2 DEF ForksOK

(* No version goes: the same, for the steps that delete none. *)
LEMMA ForksStayWhole ==
    ASSUME TableOK(schemas), TableLasts(schemas, schemas'), NoneLost(schemas, schemas'), ForksOK,
           UNCHANGED <<forks, heads>>
    PROVE  ForksOK'
<1>1. None \notin SchemaIds
  BY Zenon, TemplatesApiAssumption
<1>2. \A f \in StoredForks : None # forks[f].source
  BY Zenon, <1>1 DEF ForksOK, ForkOK
<1>3. ASSUME NEW f \in ForkIds PROVE <<f, None>> \notin heads
  <2>1. <<f, None>> \notin ForkIds \X SchemaIds
    BY <1>1
  <2> QED BY Zenon, <2>1 DEF ForksOK
<1> QED BY Zenon, <1>2, <1>3, ForksStay DEF NoneLost

(* Among any workspaces one follows none of the others, also after a step that
   adds no edge. *)
LEMMA FewerEdges ==
    ASSUME ForksAcyclic, \A w \in Workspaces : fork_edges(w)' \subseteq fork_edges(w)
    PROVE  ForksAcyclic'
<1>1. ASSUME NEW W \in (SUBSET Workspaces) \ {{}} PROVE \E w \in W : fork_edges(w)' \cap W = {}
  <2>1. PICK w \in W : fork_edges(w) \cap W = {}
    BY Zenon DEF ForksAcyclic
  <2>2. w \in Workspaces
    BY Zenon, <1>1
  <2>3. fork_edges(w)' \cap W = {}
    BY Zenon, <2>1, <2>2
  <2> QED BY Zenon, <2>3
<1> QED BY Zenon, <1>1 DEF ForksAcyclic

(* A step that leaves the workspaces of a fork, or deletes it, adds none. *)
LEMMA EdgesStay ==
    ASSUME ForksAcyclic,
           \A f \in ForkIds : forks'[f].state = "stored" =>
             forks[f].state = "stored" /\ forks'[f].ws = forks[f].ws /\ forks'[f].source_ws = forks[f].source_ws
    PROVE  ForksAcyclic'
<1>1. ASSUME NEW w \in Workspaces PROVE fork_edges(w)' \subseteq fork_edges(w)
  BY Zenon DEF fork_edges, ForksOf, StoredForks
<1> QED BY Zenon, <1>1, FewerEdges

LEMMA EdgesAreWorkspaces ==
    ASSUME ForksOK, NEW w
    PROVE  fork_edges(w) \subseteq Workspaces
BY Zenon DEF ForksOK, ForkOK, fork_edges, ForksOf

(* The search finds where it starts, and with a workspace all that it follows. *)
LEMMA ReachedIsClosed ==
    ASSUME ForksOK, NEW ws \in Workspaces
    PROVE  /\ ws \in sources_reached(ws) /\ sources_reached(ws) \subseteq Workspaces
           /\ \A w \in sources_reached(ws) : fork_edges(w) \subseteq sources_reached(ws)
<1> DEFINE visited == {W \in SUBSET Workspaces : ws \in W /\ \A w \in W : fork_edges(w) \subseteq W}
<1>1. sources_reached(ws) = {w \in Workspaces : \A W \in visited : w \in W}
  BY Zenon DEF sources_reached
<1>2. ASSUME NEW w \in sources_reached(ws), NEW v \in fork_edges(w) PROVE v \in sources_reached(ws)
  <2>1. v \in Workspaces
    BY Zenon, EdgesAreWorkspaces
  <2>2. ASSUME NEW W \in visited PROVE v \in W
    <3>1. w \in W
      BY Zenon, <1>1
    <3> QED BY Zenon, <3>1
  <2> QED BY Zenon, <1>1, <2>1, <2>2
<1> QED BY Zenon, <1>1, <1>2

(* create: a fork of a workspace from which the search does not lead back. *)
LEMMA NewEdge ==
    ASSUME ForksOK, ForksAcyclic, NEW ws \in Workspaces, NEW source_ws \in Workspaces,
           ws \notin sources_reached(source_ws),
           \A w \in Workspaces : fork_edges(w)' \subseteq fork_edges(w) \cup (IF w = ws THEN {source_ws} ELSE {})
    PROVE  ForksAcyclic'
<1> DEFINE R == sources_reached(source_ws)
<1>0. PICK Q : Q = R
  OBVIOUS
<1>1. source_ws \in Q /\ (\A w \in Q : fork_edges(w) \subseteq Q) /\ ws \notin Q
  BY Zenon, <1>0, ReachedIsClosed
<1> HIDE DEF R
<1>2. ASSUME NEW W \in (SUBSET Workspaces) \ {{}} PROVE \E w \in W : fork_edges(w)' \cap W = {}
  <2>1. CASE W \cap Q = {}
    <3>1. PICK w \in W : fork_edges(w) \cap W = {}
      BY Zenon DEF ForksAcyclic
    <3>2. w \in Workspaces /\ source_ws \notin W
      BY Zenon, <1>1, <1>2, <2>1
    <3>3. fork_edges(w)' \subseteq fork_edges(w) \cup {source_ws}
      BY Zenon, <3>2
    <3> QED BY Zenon, <3>1, <3>2, <3>3
  <2>2. CASE W \cap Q # {}
    <3>1. W \cap Q \in (SUBSET Workspaces) \ {{}}
      BY Zenon, <1>2, <2>2
    <3>2. PICK w \in W \cap Q : fork_edges(w) \cap (W \cap Q) = {}
      BY Zenon, <3>1 DEF ForksAcyclic
    <3>3. w \in Workspaces /\ w # ws /\ fork_edges(w) \subseteq Q
      BY Zenon, <1>1, <3>1
    <3>4. fork_edges(w)' \subseteq fork_edges(w)
      BY Zenon, <3>3
    <3> QED BY Zenon, <3>2, <3>3, <3>4
  <2> QED BY Zenon, <2>1, <2>2
<1> QED BY Zenon, <1>2 DEF ForksAcyclic

LEMMA SeedStays ==
    ASSUME SeedOK, OfficialStays, UNCHANGED seed
    PROVE  SeedOK'
BY Zenon DEF SeedOK, OfficialStays

(* The steps that leave the forks alone and delete no version. *)
LEMMA ForksLeftAlone ==
    ASSUME StoreOK, LibraryOK', SeedOK', TableOK(schemas'), TableLasts(schemas, schemas'),
           NoneLost(schemas, schemas'), OriginsOK', CallsOK', UNCHANGED <<forks, heads>>
    PROVE  StoreOK'
<1>1. ForksOK'
  BY Zenon, ForksStayWhole DEF StoreOK
<1>2. ForksAcyclic'
  <2>1. ForksAcyclic /\ forks' = forks
    BY Zenon DEF StoreOK
  <2> QED BY Zenon, <2>1, EdgesStay
<1> QED BY Zenon, <1>1, <1>2 DEF StoreOK

(* The table after insert_fork_head, for everyone but the forks. *)
LEMMA HeadStored ==
    ASSUME StoreOK, NEW ws \in Workspaces, NEW def, Defined(def), NEW n, n = NextSchema(schemas),
           insert_fork_head(ws, def), UNCHANGED <<templates, published, calls, seed, late>>
    PROVE  /\ n \in SchemaIds /\ schemas[n] = FreshSchema
           /\ HeadAdded(schemas, schemas', n, ws, def.name)
           /\ LibraryOK' /\ SeedOK' /\ OriginsOK' /\ CallsOK'
<1>0. LibraryOK /\ SeedOK /\ TableOK(schemas) /\ OriginsOK /\ CallsOK
  BY Zenon DEF StoreOK
<1>1. /\ HasRoom(schemas)
      /\ schemas' = [schemas EXCEPT ![NextSchema(schemas)] =
           SchemaRow(ws, def, latest_version(schemas, ws, def.name) + 1, "archived", None, None, FALSE)]
  BY Zenon DEF insert_fork_head, next_version
<1>2. n \in SchemaIds /\ schemas[n] = FreshSchema
  BY Zenon, <1>0, <1>1, NextIsFresh
<1>3. HeadAdded(schemas, schemas', n, ws, def.name)
  BY Zenon, <1>0, <1>1, HeadInserted
<1>4. LibraryOK' /\ LibraryLasts /\ StaysWhole /\ OfficialStays
  BY Zenon, <1>0, SameLibrary DEF LibraryStays
<1>5. CallsOK'
  BY Zenon, <1>0, <1>3, <1>4, CallsStay DEF HeadAdded
<1>6. SeedOK'
  BY Zenon, <1>0, <1>4, SeedStays
<1>7. ASSUME NEW s \in SchemaIds, RowOK(schemas'[s]) PROVE OriginOK(s)'
  <2>1. CASE s = n
    BY Zenon, <2>1, <1>3 DEF HeadAdded, OriginOK
  <2>2. CASE s # n
    <3>1. schemas'[s] = schemas[s]
      BY Zenon, <2>2, <1>3 DEF HeadAdded
    <3> QED BY Zenon, <3>1, <1>0, <1>4, <1>7, OriginStays DEF OriginsOK
  <2> QED BY Zenon, <2>1, <2>2
<1>8. OriginsOK'
  BY Zenon, <1>7 DEF OriginsOK
<1> QED BY Zenon, <1>2, <1>3, <1>4, <1>5, <1>6, <1>8

(* A fork's record, as it is stored. *)
ForkRowOK(r, n) ==
    /\ DOMAIN r = ForkFields /\ r.state = "stored" /\ r.head = n
    /\ r.ws \in Workspaces /\ r.source_ws \in Workspaces /\ TenantOf[r.source_ws] = TenantOf[r.ws]
    /\ r.source \in SchemaIds /\ RowOK(schemas[r.source])
    /\ schemas[r.source].ws = r.source_ws /\ schemas[r.source].name = r.source_name
    /\ schemas[r.source].version = r.source_version

(* A fork gets its first head, or a next one. *)
LEMMA HeadTaken ==
    ASSUME TableOK(schemas), ForksOK, NEW n \in SchemaIds, schemas[n] = FreshSchema,
           NEW g \in ForkIds, NEW r, ForkRowOK(r, n), HeadAdded(schemas, schemas', n, r.ws, r.source_name),
           \/ forks[g].state = "fresh"
           \/ forks[g].state = "stored" /\ forks[g].ws = r.ws /\ forks[g].source_name = r.source_name,
           forks' = [forks EXCEPT ![g] = r], heads' = heads \cup {<<g, n>>}
    PROVE  ForksOK'
<1>1. ~RowOK(schemas[n])
  BY Zenon, RowsAreStored
<1>2. ASSUME NEW s \in SchemaIds, RowOK(schemas[s]) PROVE s # n /\ schemas'[s] = schemas[s] /\ Stored(schemas, s)
  <2>1. s # n
    BY Zenon, <1>1, <1>2
  <2> QED BY Zenon, <2>1, <1>2, RowsAreStored DEF HeadAdded
<1>3. forks'[g] = r /\ \A f \in ForkIds \ {g} : forks'[f] = forks[f]
  BY Zenon DEF ForksOK
<1>4. forks' = [f \in ForkIds |-> forks'[f]]
  BY Zenon DEF ForksOK
<1>5. heads' \subseteq ForkIds \X SchemaIds
  BY DEF ForksOK
<1>6. \A f \in ForkIds, s \in SchemaIds : <<f, s>> \in heads' <=> <<f, s>> \in heads \/ (f = g /\ s = n)
  OBVIOUS
<1>7. \A f \in ForkIds : forks'[f].state \in {"fresh", "gone", "stored"}
  BY Zenon, <1>3 DEF ForksOK, ForkRowOK
<1>8. ASSUME NEW f \in ForkIds, NEW s \in SchemaIds, <<f, s>> \in heads' PROVE forks'[f].state = "stored"
  BY Zenon, <1>3, <1>6, <1>8 DEF ForksOK, ForkRowOK
<1>9. ForkOK(g)'
  <2>1. RowOK(schemas'[r.source]) /\ schemas'[r.source] = schemas[r.source]
    BY Zenon, <1>2 DEF ForkRowOK
  <2>2. <<g, n>> \in heads' /\ r.head = n
    BY Zenon, <1>6 DEF ForkRowOK
  <2>3. ASSUME NEW s \in SchemaIds, <<g, s>> \in heads' PROVE HeadOK(g, s)'
    <3>1. CASE s = n
      <4>1. /\ RowOK(schemas'[n]) /\ schemas'[n].status = "archived" /\ schemas'[n].ws = r.ws
            /\ schemas'[n].name = r.source_name
        BY Zenon DEF HeadAdded
      <4>2. schemas'[n].version <= schemas'[n].version
        <5>1. schemas'[n].version \in Nat
          BY Zenon, <4>1 DEF RowOK
        <5> QED BY <5>1
      <4> QED BY Zenon, <3>1, <4>1, <4>2, <2>2, <1>3 DEF HeadOK
    <3>2. CASE s # n
      <4>1. <<g, s>> \in heads /\ forks[g].state = "stored"
        BY Zenon, <3>2, <2>3, <1>6 DEF ForksOK
      <4>2. "fresh" # "stored"
        OBVIOUS
      <4>3. forks[g].ws = r.ws /\ forks[g].source_name = r.source_name /\ HeadOK(g, s)
        BY Zenon, <4>1, <4>2 DEF ForksOK, ForkOK, StoredForks
      <4>4. schemas'[s] = schemas[s] /\ Stored(schemas, s) /\ RowOK(schemas[s])
        BY Zenon, <4>3, <1>2 DEF HeadOK
      <4>5. schemas[s].version < schemas'[n].version
        BY Zenon, <4>3, <4>4 DEF HeadAdded, HeadOK
      <4>6. schemas[s].version <= schemas'[n].version
        <5>1. schemas[s].version \in Nat /\ schemas'[n].version \in Nat
          BY Zenon, <4>4 DEF HeadAdded, RowOK
        <5> QED BY <5>1, <4>5
      <4> QED BY Zenon, <4>3, <4>4, <4>6, <2>2, <1>3 DEF HeadOK
    <3> QED BY Zenon, <3>1, <3>2
  <2> QED BY Zenon, <2>1, <2>2, <2>3, <1>3 DEF ForkOK, ForkRowOK
<1>10. ASSUME NEW f \in ForkIds, f # g, forks'[f].state = "stored" PROVE ForkOK(f)'
  <2>1. ForkOK(f) /\ forks'[f] = forks[f]
    BY Zenon, <1>3, <1>10 DEF ForksOK, StoredForks
  <2>2. RowOK(schemas'[forks[f].source]) /\ schemas'[forks[f].source] = schemas[forks[f].source]
    BY Zenon, <2>1, <1>2 DEF ForkOK
  <2>3. forks[f].head \in SchemaIds
    <3>1. <<f, forks[f].head>> \in ForkIds \X SchemaIds
      BY Zenon, <2>1 DEF ForkOK, ForksOK
    <3> QED BY <3>1
  <2>4. schemas'[forks[f].head] = schemas[forks[f].head]
    BY Zenon, <2>1, <2>3, <1>2 DEF ForkOK, HeadOK
  <2>5. ASSUME NEW s \in SchemaIds, <<f, s>> \in heads' PROVE HeadOK(f, s)'
    <3>1. HeadOK(f, s)
      BY Zenon, <2>1, <2>5, <1>6, <1>10 DEF ForkOK
    <3>2. schemas'[s] = schemas[s]
      BY Zenon, <3>1, <1>2 DEF HeadOK
    <3> QED BY Zenon, <3>1, <3>2, <2>1, <2>4 DEF HeadOK
  <2>6. <<f, forks[f].head>> \in heads'
    BY Zenon, <2>1 DEF ForkOK
  <2> QED BY Zenon, <2>1, <2>2, <2>5, <2>6 DEF ForkOK
<1>11. \A f \in ForkIds : forks'[f].state = "stored" => ForkOK(f)'
  BY Zenon, <1>9, <1>10
<1> QED BY Zenon, <1>4, <1>5, <1>7, <1>8, <1>11 DEF ForksOK, StoredForks

(* What the steps that give a fork a head have in common. *)
LEMMA ForkTakesHead ==
    ASSUME StoreOK, NEW ws \in Workspaces, NEW def, Defined(def), insert_fork_head(ws, def),
           UNCHANGED <<templates, published, calls, seed, late>>,
           NEW n, n = NextSchema(schemas), NEW g \in ForkIds, NEW r, r.ws = ws, r.source_name = def.name,
           ForkRowOK(r, n),
           \/ forks[g].state = "fresh"
           \/ forks[g].state = "stored" /\ forks[g].ws = r.ws /\ forks[g].source_name = r.source_name,
           forks' = [forks EXCEPT ![g] = r], heads' = heads \cup {<<g, n>>}, ForksAcyclic'
    PROVE  StoreOK'
<1>1. /\ n \in SchemaIds /\ schemas[n] = FreshSchema
      /\ HeadAdded(schemas, schemas', n, ws, def.name)
      /\ LibraryOK' /\ SeedOK' /\ OriginsOK' /\ CallsOK'
  BY Zenon, HeadStored
<1>2. ForksOK'
  BY Zenon, <1>1, HeadTaken DEF StoreOK
<1> QED BY Zenon, <1>1, <1>2 DEF StoreOK, HeadAdded

(* A step that replaces one fork's record. *)
LEMMA RecordReplaced ==
    ASSUME ForksOK, NEW g \in ForkIds, NEW r, forks' = [forks EXCEPT ![g] = r]
    PROVE  forks'[g] = r /\ \A f \in ForkIds \ {g} : forks'[f] = forks[f]
BY Zenon DEF ForksOK

LEMMA ForkCreated ==
    ASSUME StoreOK, NEW ws \in Workspaces, NEW source_ws \in Workspaces, NEW s \in SchemaIds,
           CreateFork(ws, source_ws, s)
    PROVE  StoreOK'
<1>0. TableOK(schemas) /\ ForksOK /\ ForksAcyclic
  BY Zenon DEF StoreOK
<1> DEFINE fresh == {g \in ForkIds : forks[g].state = "fresh"}
<1>1. PICK g, n, r : g = Min(fresh) /\ n = NextSchema(schemas) /\ r = Fork(ws, source_ws, s, n)
  OBVIOUS
<1>2. /\ current_source(TenantOf[ws], source_ws, s) /\ ws \notin sources_reached(source_ws)
      /\ fresh # {} /\ insert_fork_head(ws, schemas[s].def)
      /\ forks' = [forks EXCEPT ![g] = r] /\ heads' = heads \cup {<<g, n>>}
      /\ UNCHANGED <<templates, published, calls, seed, late>>
  BY Zenon, <1>1 DEF CreateFork, library
<1>3. g \in ForkIds /\ forks[g].state = "fresh"
  <2>1. fresh \subseteq Nat /\ fresh # {}
    BY Zenon, <1>2, ForkIdsAssumption
  <2> HIDE DEF fresh
  <2>2. g \in fresh
    BY Zenon, <1>1, <2>1, MinIsLeast
  <2> QED BY Zenon, <2>2 DEF fresh
<1>4. RowOK(schemas[s]) /\ schemas[s].ws = source_ws /\ TenantOf[source_ws] = TenantOf[ws]
  BY Zenon, <1>0, <1>2, RowsAreStored DEF current_source, source_by_id, get_by_id
<1>5. Defined(schemas[s].def) /\ schemas[s].name = schemas[s].def.name
  BY Zenon, <1>4 DEF RowOK
<1>6. /\ DOMAIN r = ForkFields /\ r.state = "stored" /\ r.head = n
      /\ r.ws = ws /\ r.source_ws = source_ws /\ r.source = s
      /\ r.source_version = schemas[s].version /\ r.source_name = schemas[s].name
  BY <1>1 DEF Fork, ForkFields
<1>7. ForkRowOK(r, n)
  BY Zenon, <1>4, <1>6 DEF ForkRowOK
<1>8. ForksAcyclic'
  <2>1. forks'[g] = r /\ \A f \in ForkIds \ {g} : forks'[f] = forks[f]
    BY Zenon, <1>0, <1>2, <1>3, RecordReplaced
  <2>2. ASSUME NEW w \in Workspaces, NEW v \in fork_edges(w)'
        PROVE  v \in fork_edges(w) \cup (IF w = ws THEN {source_ws} ELSE {})
    <3>1. PICK f \in ForkIds : forks'[f].state = "stored" /\ forks'[f].ws = w /\ v = forks'[f].source_ws
      BY Zenon DEF fork_edges, ForksOf, StoredForks
    <3>2. CASE f = g
      BY Zenon, <3>1, <3>2, <2>1, <1>6
    <3>3. CASE f # g
      <4>1. v \in fork_edges(w)
        BY Zenon, <3>1, <3>3, <2>1 DEF fork_edges, ForksOf, StoredForks
      <4> QED BY Zenon, <4>1
    <3> QED BY Zenon, <3>2, <3>3
  <2> QED BY Zenon, <2>2, <1>0, <1>2, NewEdge
<1> QED BY Zenon, <1>1, <1>2, <1>3, <1>5, <1>6, <1>7, <1>8, ForkTakesHead

(* What a stored fork's record says. *)
LEMMA ForkIsStored ==
    ASSUME ForksOK, NEW ws, NEW f, get_fork(ws, f)
    PROVE  /\ f \in ForkIds /\ forks[f].state = "stored" /\ forks[f].ws = ws /\ ws \in Workspaces
           /\ ForkOK(f) /\ DOMAIN forks[f] = ForkFields
BY Zenon DEF ForksOK, ForkOK, get_fork, ForksOf, StoredForks

LEMMA ForkCustomized ==
    ASSUME StoreOK, NEW ws, NEW f, NEW def \in Defs, NEW expected_head,
           CustomizeFork(ws, f, def, expected_head)
    PROVE  StoreOK'
<1>0. TableOK(schemas) /\ ForksOK /\ ForksAcyclic
  BY Zenon DEF StoreOK
<1>1. PICK n, r : n = NextSchema(schemas) /\ r = [forks[f] EXCEPT !.head = n, !.customized = TRUE]
  OBVIOUS
<1>2. /\ get_fork(ws, f) /\ def.name = forks[f].source_name /\ insert_fork_head(ws, def)
      /\ forks' = [forks EXCEPT ![f].head = NextSchema(schemas), ![f].customized = TRUE]
      /\ heads' = heads \cup {<<f, n>>}
      /\ UNCHANGED <<templates, published, calls, seed, late>>
  BY Zenon, <1>1 DEF CustomizeFork, MoveHead, library
<1>3. /\ f \in ForkIds /\ forks[f].state = "stored" /\ forks[f].ws = ws /\ ws \in Workspaces
      /\ ForkOK(f) /\ DOMAIN forks[f] = ForkFields
  BY Zenon, <1>0, <1>2, ForkIsStored
<1>4. forks' = [forks EXCEPT ![f] = r]
  <2>1. forks = [h \in ForkIds |-> forks[h]]
    BY Zenon, <1>0 DEF ForksOK
  <2> QED BY <2>1, <1>1, <1>2, <1>3
<1>5. /\ DOMAIN r = ForkFields /\ r.state = "stored" /\ r.head = n
      /\ r.ws = ws /\ r.source_ws = forks[f].source_ws /\ r.source = forks[f].source
      /\ r.source_version = forks[f].source_version /\ r.source_name = forks[f].source_name
  BY <1>1, <1>3 DEF ForkFields
<1>6. ForkRowOK(r, n)
  BY Zenon, <1>3, <1>5 DEF ForkRowOK, ForkOK
<1>7. ForksAcyclic'
  <2>1. forks'[f] = r /\ \A g \in ForkIds \ {f} : forks'[g] = forks[g]
    BY Zenon, <1>0, <1>3, <1>4, RecordReplaced
  <2> QED BY Zenon, <2>1, <1>0, <1>3, <1>5, EdgesStay
<1>8. Defined(def)
  BY Zenon, DefsAreDefined DEF AllDefs
<1>9. /\ n = NextSchema(schemas) /\ insert_fork_head(ws, def) /\ heads' = heads \cup {<<f, n>>}
      /\ r.source_name = def.name /\ forks[f].ws = r.ws /\ forks[f].source_name = r.source_name
      /\ UNCHANGED <<templates, published, calls, seed, late>>
  BY Zenon, <1>1, <1>2, <1>3, <1>5
<1>10. ws \in Workspaces /\ r.ws = ws /\ f \in ForkIds /\ forks[f].state = "stored"
  BY Zenon, <1>3, <1>5
<1> QED BY Zenon, <1>4, <1>6, <1>7, <1>8, <1>9, <1>10, ForkTakesHead

LEMMA ForkFollowed ==
    ASSUME StoreOK, NEW ws, NEW f, NEW force, NEW expected_head, NEW expected_source,
           FollowFork(ws, f, force, expected_head, expected_source)
    PROVE  StoreOK'
<1>0. TableOK(schemas) /\ ForksOK /\ ForksAcyclic
  BY Zenon DEF StoreOK
<1>1. PICK n, s, r :
        /\ n = NextSchema(schemas)
        /\ s = latest_source_by_name(TenantOf[ws], forks[f].source_ws, forks[f].source_name)
        /\ r = [forks[f] EXCEPT !.head = n, !.customized = FALSE, !.source = s,
                                !.source_version = schemas[s].version]
  OBVIOUS
<1>2. /\ get_fork(ws, f) /\ s # None /\ insert_fork_head(ws, schemas[s].def)
      /\ forks' = [forks EXCEPT ![f].head = NextSchema(schemas), ![f].customized = FALSE,
                                ![f].source = s, ![f].source_version = schemas[s].version]
      /\ heads' = heads \cup {<<f, n>>}
      /\ UNCHANGED <<templates, published, calls, seed, late>>
  BY Zenon, <1>1 DEF FollowFork, MoveHead, library
<1>3. /\ f \in ForkIds /\ forks[f].state = "stored" /\ forks[f].ws = ws /\ ws \in Workspaces
      /\ ForkOK(f) /\ DOMAIN forks[f] = ForkFields
  BY Zenon, <1>0, <1>2, ForkIsStored
<1>4. /\ s \in SchemaIds /\ RowOK(schemas[s]) /\ schemas[s].ws = forks[f].source_ws
      /\ schemas[s].name = forks[f].source_name
  <2>1. s = get_active_schema(schemas, forks[f].source_ws, forks[f].source_name)
    BY Zenon, <1>1, <1>2 DEF latest_source_by_name
  <2>2. PICK source_ws, name : source_ws = forks[f].source_ws /\ name = forks[f].source_name
    OBVIOUS
  <2> DEFINE k == get_active_schema(schemas, source_ws, name)
  <2>3. TableOK(schemas) /\ k # None
    BY Zenon, <2>1, <2>2, <1>0, <1>2
  <2>4. k \in SchemaIds /\ RowOK(schemas[k]) /\ schemas[k].ws = source_ws /\ schemas[k].name = name
    BY <2>3, ActiveSchemaIsActive
  <2>5. s = k
    BY Zenon, <2>1, <2>2
  <2> HIDE DEF k
  <2> QED BY Zenon, <2>2, <2>4, <2>5
<1>5. forks' = [forks EXCEPT ![f] = r]
  <2>1. forks = [h \in ForkIds |-> forks[h]]
    BY Zenon, <1>0 DEF ForksOK
  <2> QED BY <2>1, <1>1, <1>2, <1>3
<1>6. /\ DOMAIN r = ForkFields /\ r.state = "stored" /\ r.head = n
      /\ r.ws = ws /\ r.source_ws = forks[f].source_ws /\ r.source = s
      /\ r.source_version = schemas[s].version /\ r.source_name = forks[f].source_name
  BY <1>1, <1>3 DEF ForkFields
<1>7. ForkRowOK(r, n)
  BY Zenon, <1>3, <1>4, <1>6 DEF ForkRowOK, ForkOK
<1>8. ForksAcyclic'
  <2>1. forks'[f] = r /\ \A g \in ForkIds \ {f} : forks'[g] = forks[g]
    BY Zenon, <1>0, <1>3, <1>5, RecordReplaced
  <2> QED BY Zenon, <2>1, <1>0, <1>3, <1>6, EdgesStay
<1>9. Defined(schemas[s].def) /\ schemas[s].def.name = forks[f].source_name
  BY Zenon, <1>4 DEF RowOK
<1>10. PICK def : def = schemas[s].def
  OBVIOUS
<1>11. /\ n = NextSchema(schemas) /\ insert_fork_head(ws, def) /\ heads' = heads \cup {<<f, n>>}
       /\ Defined(def) /\ r.source_name = def.name
       /\ forks[f].ws = r.ws /\ forks[f].source_name = r.source_name
       /\ UNCHANGED <<templates, published, calls, seed, late>>
  BY Zenon, <1>1, <1>2, <1>3, <1>6, <1>9, <1>10
<1>12. ws \in Workspaces /\ r.ws = ws /\ f \in ForkIds /\ forks[f].state = "stored"
  BY Zenon, <1>3, <1>6
<1> QED BY Zenon, <1>5, <1>7, <1>8, <1>11, <1>12, ForkTakesHead

LEMMA ForkDeleted ==
    ASSUME StoreOK, NEW ws, NEW g, DeleteFork(ws, g)
    PROVE  StoreOK'
<1>0. LibraryOK /\ SeedOK /\ TableOK(schemas) /\ OriginsOK /\ CallsOK /\ ForksOK /\ ForksAcyclic
  BY Zenon DEF StoreOK
<1>1. /\ get_fork(ws, g) /\ forks' = [forks EXCEPT ![g] = GoneFork] /\ heads' = {h \in heads : h[1] # g}
      /\ UNCHANGED <<templates, published, schemas, calls, seed, late>>
  BY Zenon DEF DeleteFork, store, library
<1>2. g \in ForkIds
  BY Zenon, <1>0, <1>1, ForkIsStored
<1>3. GoneFork.state = "gone" /\ "gone" # "stored"
  BY DEF GoneFork
<1>4. forks'[g] = GoneFork /\ \A f \in ForkIds \ {g} : forks'[f] = forks[f]
  BY Zenon, <1>0, <1>1, <1>2, RecordReplaced
<1>5. ForksAcyclic'
  BY Zenon, <1>0, <1>3, <1>4, EdgesStay
<1>6. LibraryStays
  BY Zenon, <1>0, <1>1, SameLibrary
<1>7. TableOK(schemas') /\ TableLasts(schemas, schemas')
  BY Zenon, <1>0, <1>1, TableStays
<1>8. OriginsOK' /\ CallsOK' /\ SeedOK'
  BY Zenon, <1>0, <1>1, <1>6, <1>7, OriginsStay, CallsStay, SeedStays DEF LibraryStays
<1>9. ForksOK'
  <2>1. forks' = [f \in ForkIds |-> forks'[f]]
    BY Zenon, <1>0, <1>1 DEF ForksOK
  <2>2. heads' \subseteq heads
    BY Zenon, <1>1
  <2>3. \A f \in ForkIds, s \in SchemaIds : <<f, s>> \in heads' <=> <<f, s>> \in heads /\ f # g
    BY <1>1
  <2>4. ASSUME NEW f \in ForkIds PROVE forks'[f].state \in {"fresh", "gone", "stored"}
    BY Zenon, <1>0, <1>3, <1>4 DEF ForksOK
  <2>5. ASSUME NEW f \in ForkIds, NEW s \in SchemaIds, <<f, s>> \in heads' PROVE forks'[f].state = "stored"
    BY Zenon, <2>3, <2>5, <1>0, <1>4 DEF ForksOK
  <2>6. ASSUME NEW f \in ForkIds, forks'[f].state = "stored" PROVE ForkOK(f)'
    <3>1. f # g
      BY Zenon, <2>6, <1>3, <1>4
    <3>2. forks'[f] = forks[f] /\ ForkOK(f)
      BY Zenon, <2>6, <3>1, <1>0, <1>4 DEF ForksOK, StoredForks
    <3>3. \A s \in SchemaIds : <<f, s>> \in heads' => HeadOK(f, s)'
      BY Zenon, <3>1, <3>2, <2>3, <1>1 DEF ForkOK, HeadOK
    <3>4. <<f, forks[f].head>> \in heads'
      <4>1. <<f, forks[f].head>> \in heads
        BY Zenon, <3>2 DEF ForkOK
      <4> QED BY <4>1, <3>1, <1>1
    <3> QED BY Zenon, <3>2, <3>3, <3>4, <1>1 DEF ForkOK
  <2> QED BY Zenon, <2>1, <2>2, <2>4, <2>5, <2>6, <1>0 DEF ForksOK, StoredForks
<1> QED BY Zenon, <1>5, <1>6, <1>7, <1>8, <1>9 DEF StoreOK, LibraryStays

(* A step of the table in which versions are retired or deleted. *)
LEMMA VersionsRetired ==
    ASSUME StoreOK, UNCHANGED <<templates, published, calls, seed>>, TableOK(schemas'), TableLasts(schemas, schemas'),
           \A s \in SchemaIds : RowOK(schemas'[s]) =>
             /\ RowOK(schemas[s])
             /\ schemas'[s] = schemas[s] \/ schemas'[s] = [schemas[s] EXCEPT !.status = "archived"]
             /\ s \in late => s \in late'
    PROVE  LibraryOK' /\ SeedOK' /\ OriginsOK' /\ CallsOK'
<1>0. LibraryOK /\ SeedOK /\ TableOK(schemas) /\ OriginsOK /\ CallsOK
  BY Zenon DEF StoreOK
<1>1. LibraryOK' /\ LibraryLasts /\ StaysWhole /\ OfficialStays
  BY Zenon, <1>0, SameLibrary DEF LibraryStays
<1>2. CallsOK'
  BY Zenon, <1>0, <1>1, CallsStay
<1>3. SeedOK'
  BY Zenon, <1>0, <1>1, SeedStays
<1>4. ASSUME NEW s \in SchemaIds, RowOK(schemas'[s]) PROVE OriginOK(s)'
  <2>1. /\ RowOK(schemas[s]) /\ OriginOK(s) /\ (s \in late => s \in late')
        /\ schemas'[s] = schemas[s] \/ schemas'[s] = [schemas[s] EXCEPT !.status = "archived"]
    BY Zenon, <1>0, <1>4 DEF OriginsOK
  <2> QED BY Zenon, <2>1, <1>0, <1>1, OriginStays
<1>5. OriginsOK'
  BY Zenon, <1>4 DEF OriginsOK
<1> QED BY Zenon, <1>1, <1>2, <1>3, <1>5

LEMMA VersionArchived ==
    ASSUME StoreOK, NEW ws, NEW s \in SchemaIds, ArchiveVersion(ws, s)
    PROVE  StoreOK'
<1>0. TableOK(schemas)
  BY Zenon DEF StoreOK
<1>1. /\ Stored(schemas, s) /\ schemas' = archive(schemas, s)
      /\ UNCHANGED <<forks, heads, templates, published, calls, seed, late>>
  BY Zenon DEF ArchiveVersion, get_by_id, forkStore, library
<1>2. RowOK(schemas[s])
  BY Zenon, <1>0, <1>1, RowsAreStored
<1>3. schemas' = schemas \/ schemas' = [schemas EXCEPT ![s] = [schemas[s] EXCEPT !.status = "archived"]]
  <2>1. schemas' = schemas \/ schemas' = [schemas EXCEPT ![s].status = "archived"]
    BY Zenon, <1>1 DEF archive
  <2>2. schemas = [t \in SchemaIds |-> schemas[t]]
    BY Zenon, <1>0 DEF TableOK
  <2> QED BY <2>1, <2>2
<1>4. \A t \in SchemaIds : \/ schemas'[t] = schemas[t]
                           \/ RowOK(schemas[t]) /\ schemas'[t] = [schemas[t] EXCEPT !.status = "archived"]
  BY Zenon, <1>0, <1>2, <1>3 DEF TableOK
<1>5. schemas' = [t \in SchemaIds |-> schemas'[t]]
  BY Zenon, <1>0, <1>3 DEF TableOK
<1>6. TableOK(schemas') /\ TableLasts(schemas, schemas')
  BY Zenon, <1>0, <1>4, <1>5, TableVaries DEF Varies
<1>7. NoneLost(schemas, schemas')
  BY Zenon, <1>4, VariantKeeps DEF NoneLost, Varies
<1>8. \A t \in SchemaIds : RowOK(schemas'[t]) =>
        /\ RowOK(schemas[t])
        /\ schemas'[t] = schemas[t] \/ schemas'[t] = [schemas[t] EXCEPT !.status = "archived"]
        /\ t \in late => t \in late'
  BY Zenon, <1>1, <1>4
<1>9. LibraryOK' /\ SeedOK' /\ OriginsOK' /\ CallsOK'
  BY Zenon, <1>1, <1>6, <1>8, VersionsRetired
<1> QED BY Zenon, <1>1, <1>6, <1>7, <1>9, ForksLeftAlone

(* delete: what any workspace's forks refer to stays. *)
LEMMA VersionDeleted ==
    ASSUME StoreOK, NEW ws, NEW s \in SchemaIds, DeleteVersion(ws, s)
    PROVE  StoreOK'
<1>0. TableOK(schemas) /\ ForksOK /\ ForksAcyclic
  BY Zenon DEF StoreOK
<1>1. /\ Stored(schemas, s) /\ s \notin Referenced(ws) /\ schemas' = [schemas EXCEPT ![s] = GoneSchema]
      /\ late' = late \ {s} /\ UNCHANGED <<forks, heads, templates, published, calls, seed>>
  BY Zenon DEF DeleteVersion, get_by_id, deletable, delete_schema, forkStore, library
<1>2. RowOK(schemas[s]) /\ schemas[s] # FreshSchema /\ ~RowOK(GoneSchema)
  BY Zenon, <1>0, <1>1, RowsAreStored
<1>3. schemas'[s] = GoneSchema /\ \A t \in SchemaIds \ {s} : schemas'[t] = schemas[t]
  BY Zenon, <1>0, <1>1 DEF TableOK
<1>4. schemas' = [t \in SchemaIds |-> schemas'[t]]
  BY Zenon, <1>0, <1>1 DEF TableOK
<1>5. TableOK(schemas') /\ TableLasts(schemas, schemas')
  BY Zenon, <1>0, <1>2, <1>3, <1>4, TableVaries
<1>6. LibraryOK' /\ SeedOK' /\ OriginsOK' /\ CallsOK'
  <2>1. \A t \in SchemaIds : RowOK(schemas'[t]) =>
          /\ RowOK(schemas[t])
          /\ schemas'[t] = schemas[t] \/ schemas'[t] = [schemas[t] EXCEPT !.status = "archived"]
          /\ t \in late => t \in late'
    BY Zenon, <1>1, <1>2, <1>3
  <2> QED BY Zenon, <2>1, <1>1, <1>5, VersionsRetired
<1>7. ForksOK'
  <2>1. ASSUME NEW f \in StoredForks PROVE s # forks[f].source
    <3>1. {forks[f].source, forks[f].head} \in {{forks[g].source, forks[g].head} : g \in StoredForks}
      OBVIOUS
    <3>2. forks[f].source \in UNION {{forks[g].source, forks[g].head} : g \in StoredForks}
      BY Zenon, <3>1
    <3> QED BY Zenon, <3>2, <1>1 DEF Referenced
  <2>2. ASSUME NEW f \in ForkIds PROVE <<f, s>> \notin heads
    <3>1. SUFFICES ASSUME <<f, s>> \in heads PROVE s \in {h[2] : h \in heads}
      BY Zenon, <1>1 DEF Referenced
    <3> QED BY <3>1
  <2> QED BY Zenon, <2>1, <2>2, <1>0, <1>1, <1>3, <1>5, ForksStay
<1>8. ForksAcyclic'
  BY Zenon, <1>0, <1>1, EdgesStay
<1> QED BY Zenon, <1>5, <1>6, <1>7, <1>8 DEF StoreOK

(* The steps that move nothing the invariant is about. *)
LEMMA StoreStays ==
    ASSUME StoreOK, UNCHANGED <<templates, published, schemas, calls, seed, late, forks, heads>>
    PROVE  StoreOK'
<1>0. LibraryOK /\ SeedOK /\ TableOK(schemas) /\ OriginsOK /\ CallsOK
  BY Zenon DEF StoreOK
<1>1. LibraryOK' /\ LibraryLasts /\ StaysWhole /\ OfficialStays
  BY Zenon, <1>0, SameLibrary DEF LibraryStays
<1>2. TableOK(schemas') /\ TableLasts(schemas, schemas') /\ NoneLost(schemas, schemas')
  BY Zenon, <1>0, TableStays
<1>3. OriginsOK' /\ CallsOK' /\ SeedOK'
  BY Zenon, <1>0, <1>1, <1>2, OriginsStay, CallsStay, SeedStays
<1> QED BY Zenon, <1>1, <1>2, <1>3, ForksLeftAlone

-----------------------------------------------------------------------------
(* The library's steps. *)

(* Templates stay or are added; versions and forks are left alone. *)
LEMMA LibraryMoved ==
    ASSUME StoreOK, LibraryStays, SeedOK', CallsOK', UNCHANGED <<schemas, late, forks, heads>>
    PROVE  StoreOK'
<1>0. LibraryOK /\ TableOK(schemas) /\ OriginsOK
  BY Zenon DEF StoreOK
<1>1. LibraryOK' /\ StaysWhole
  BY Zenon DEF LibraryStays
<1>2. TableOK(schemas') /\ TableLasts(schemas, schemas') /\ NoneLost(schemas, schemas')
  BY Zenon, <1>0, TableStays
<1>3. OriginsOK'
  BY Zenon, <1>0, <1>1, OriginsStay
<1> QED BY Zenon, <1>1, <1>2, <1>3, ForksLeftAlone

(* The same, when no request and no seeding is concerned. *)
LEMMA LibraryAlone ==
    ASSUME StoreOK, LibraryStays, UNCHANGED <<schemas, calls, seed, late, forks, heads>>
    PROVE  StoreOK'
<1>0. LibraryOK /\ TableOK(schemas) /\ CallsOK /\ SeedOK
  BY Zenon DEF StoreOK
<1>1. LibraryOK' /\ LibraryLasts /\ OfficialStays
  BY Zenon DEF LibraryStays
<1>2. TableLasts(schemas, schemas')
  BY Zenon, <1>0, TableStays
<1>3. CallsOK' /\ SeedOK'
  BY Zenon, <1>0, <1>1, <1>2, CallsStay, SeedStays
<1> QED BY Zenon, <1>3, LibraryMoved

LEMMA TemplateCreated ==
    ASSUME StoreOK, NEW tenant \in Tenants, NEW name \in TemplateNames, NEW def \in Defs,
           CreateTemplate(tenant, name, def), UNCHANGED <<forks, heads>>
    PROVE  StoreOK'
<1>1. /\ LibraryHasRoom
      /\ templates' = [templates EXCEPT ![NewTemplate] = Template(tenant, name, def, "tenant", None)]
      /\ UNCHANGED <<published, schemas, calls, seed, late>>
  BY Zenon DEF CreateTemplate, InsertTemplate
<1>2. LibraryOK /\ name \in Names /\ def \in AllDefs /\ "tenant" \in {"tenant", "community"}
      /\ None \in TemplateIds \cup {None}
  BY Zenon DEF StoreOK, Names, AllDefs
<1>3. LibraryStays
  BY Zenon, <1>1, <1>2, TemplateInserted
<1> QED BY Zenon, <1>1, <1>3, LibraryAlone

LEMMA TemplateForked ==
    ASSUME StoreOK, NEW tenant \in Tenants, NEW t, NEW name \in TemplateNames,
           ForkTemplate(tenant, t, name), UNCHANGED <<forks, heads>>
    PROVE  StoreOK'
<1>0. PICK def : def = templates[t].def
  OBVIOUS
<1>1. /\ visible_to(tenant, t) /\ LibraryHasRoom
      /\ templates' = [templates EXCEPT ![NewTemplate] = Template(tenant, name, def, "tenant", t)]
      /\ UNCHANGED <<published, schemas, calls, seed, late>>
  BY Zenon, <1>0 DEF ForkTemplate, InsertTemplate
<1>2. LibraryOK
  BY Zenon DEF StoreOK
<1>3. t \in TemplateIds \cup {None} /\ def \in AllDefs /\ name \in Names /\ "tenant" \in {"tenant", "community"}
  BY Zenon, <1>0, <1>1, <1>2, VisibleIsStored DEF Names
<1>4. LibraryStays
  BY Zenon, <1>1, <1>2, <1>3, TemplateInserted
<1> QED BY Zenon, <1>1, <1>4, LibraryAlone

LEMMA ForkInserted ==
    ASSUME StoreOK, NEW c \in Callers, insert_fork(c), UNCHANGED <<forks, heads>>
    PROVE  StoreOK'
<1>0. LibraryOK /\ TableOK(schemas) /\ CallsOK /\ SeedOK
  BY Zenon DEF StoreOK
<1>1. PICK call : call = calls[c]
  OBVIOUS
<1>2. PICK tenant, name, def, from :
        tenant = call.tenant /\ name = call.name /\ def = call.def /\ from = call.template
  OBVIOUS
<1>3. /\ call.at = "forking" /\ LibraryHasRoom /\ InLibrary(from)
      /\ templates' = [templates EXCEPT ![NewTemplate] = Template(tenant, name, def, "tenant", from)]
      /\ calls' = [calls EXCEPT ![c] = Idle] /\ UNCHANGED <<published, schemas, seed, late>>
  BY Zenon, <1>1, <1>2 DEF insert_fork, InsertTemplate
<1>4. ForkingOK(call)
  BY Zenon, <1>0, <1>1, <1>3 DEF CallsOK, CallOK
<1>5. /\ tenant \in Tenants /\ name \in Names /\ def \in AllDefs /\ from \in TemplateIds \cup {None}
      /\ "tenant" \in {"tenant", "community"}
  BY Zenon, <1>2, <1>3, <1>4 DEF ForkingOK, InLibrary
<1>6. LibraryStays
  BY Zenon, <1>0, <1>3, <1>5, TemplateInserted
<1>7. LibraryOK' /\ LibraryLasts /\ OfficialStays
  BY Zenon, <1>6 DEF LibraryStays
<1>8. TableLasts(schemas, schemas')
  BY Zenon, <1>0, <1>3, TableStays
<1>9. CallsOK'
  <2>1. Idle.at = "idle"
    BY DEF Idle
  <2>2. CallOK(Idle)'
    BY <2>1 DEF CallOK
  <2> QED BY Zenon, <2>2, <1>0, <1>3, <1>7, <1>8, CallMoves
<1>10. SeedOK'
  BY Zenon, <1>0, <1>3, <1>7, SeedStays
<1> QED BY Zenon, <1>3, <1>6, <1>9, <1>10, LibraryMoved

(* update: a definition that is given tells every follower. *)
LEMMA TemplateUpdated ==
    ASSUME StoreOK, NEW tenant \in Tenants \ {Official}, NEW t \in TemplateIds,
           NEW name \in {None} \cup TemplateNames, NEW def \in {None} \cup Defs,
           UpdateTemplate(tenant, t, name, def), UNCHANGED <<forks, heads>>
    PROVE  StoreOK'
<1>0. LibraryOK /\ SeedOK /\ TableOK(schemas) /\ OriginsOK /\ CallsOK
  BY Zenon DEF StoreOK
<1>1. PICK row : row = templates[t]
  OBVIOUS
<1>2. PICK newName, newDef, newRev : /\ newName = IF name # None THEN name ELSE row.name
                                     /\ newDef = IF def # None THEN def ELSE row.def
                                     /\ newRev = IF def # None THEN row.rev + 1 ELSE row.rev
  OBVIOUS
<1>3. /\ ~template_origin_locked(t) /\ Owned(tenant, t)
      /\ templates' = [templates EXCEPT ![t].name = IF name # None THEN name ELSE @,
                                        ![t].def = IF def # None THEN def ELSE @,
                                        ![t].rev = IF def # None THEN @ + 1 ELSE @]
      /\ schemas' = IF def # None THEN notify_upstream_change(schemas, t) ELSE schemas
      /\ UNCHANGED <<published, calls, seed, late>>
  BY Zenon DEF UpdateTemplate
<1>4. row \in TemplateRows /\ row.tenant = tenant
  BY Zenon, <1>0, <1>1, <1>3, TemplatesAreStored DEF Owned
<1>5. /\ row.name \in Names /\ row.def \in AllDefs /\ row.rev \in Nat /\ row.visibility \in {"tenant", "community"}
      /\ DOMAIN row = {"state", "tenant", "name", "def", "visibility", "fork_of", "rev"}
  BY <1>4 DEF TemplateRows
<1>6. newName \in Names /\ newDef \in AllDefs
  BY Zenon, <1>2, <1>5 DEF Names, AllDefs
<1>7. newRev \in Nat /\ ((newDef = row.def /\ newRev = row.rev) \/ newRev = row.rev + 1)
  <2>1. newRev \in Nat
    BY <1>2, <1>5
  <2> QED BY Zenon, <2>1, <1>2
<1>8. templates' = [templates EXCEPT ![t] = [row EXCEPT
          !.name = newName, !.def = newDef, !.visibility = row.visibility, !.rev = newRev]]
  <2>1. templates = [u \in TemplateIds |-> templates[u]]
    BY Zenon, <1>0 DEF LibraryOK
  <2> QED BY <2>1, <1>1, <1>2, <1>3, <1>5
<1>9. /\ LibraryOK' /\ LibraryLasts /\ OfficialStays
      /\ \A u \in TemplateIds \ {t} : templates'[u] = templates[u]
      /\ templates'[t] \in TemplateRows /\ templates'[t].tenant = row.tenant /\ templates'[t].def = newDef
  <2>1. PICK shown : shown = row.visibility
    OBVIOUS
  <2>2. Edits(t, newName, newDef, shown, newRev)
    BY Zenon, <2>1, <1>1, <1>3, <1>4, <1>5, <1>6, <1>7, <1>8 DEF Edits
  <2>3. /\ LibraryOK' /\ LibraryLasts /\ OfficialStays
        /\ \A u \in TemplateIds \ {t} : templates'[u] = templates[u]
        /\ templates'[t] \in TemplateRows
        /\ templates'[t].tenant = templates[t].tenant /\ templates'[t].def = newDef
    BY Zenon, <2>2, <1>0, TemplateEdited
  <2> QED BY Zenon, <2>3, <1>1
<1>10. SeedOK'
  BY Zenon, <1>0, <1>3, <1>9, SeedStays
<1>11. CASE def # None
  <2>1. TableOK(schemas') /\ TableLasts(schemas, schemas') /\ NoneLost(schemas, schemas') /\ OriginsOK'
    BY Zenon, <1>0, <1>3, <1>9, <1>11, FollowersNotified
  <2>2. CallsOK'
    BY Zenon, <2>1, <1>0, <1>3, <1>9, CallsStay
  <2> QED BY Zenon, <2>1, <2>2, <1>9, <1>10, ForksLeftAlone
<1>12. CASE def = None
  <2>1. schemas' = schemas /\ newDef = row.def
    BY Zenon, <1>2, <1>3, <1>12
  <2>2. LibraryStays
    BY Zenon, <2>1, <1>1, <1>4, <1>9 DEF LibraryStays, StaysWhole
  <2> QED BY Zenon, <2>1, <2>2, <1>3, LibraryAlone
<1> QED BY Zenon, <1>11, <1>12

LEMMA TemplateShown ==
    ASSUME StoreOK, NEW tenant, NEW t, NEW visibility \in {"tenant", "community"},
           SetVisibility(tenant, t, visibility), UNCHANGED <<forks, heads>>
    PROVE  StoreOK'
<1>0. LibraryOK
  BY Zenon DEF StoreOK
<1>1. /\ Owned(tenant, t) /\ templates' = [templates EXCEPT ![t].visibility = visibility]
      /\ UNCHANGED <<published, schemas, calls, seed, late>>
  BY Zenon DEF SetVisibility
<1>2. t \in TemplateIds /\ templates[t] \in TemplateRows
  BY Zenon, <1>0, <1>1, TemplatesAreStored DEF Owned, InLibrary
<1>3. PICK name, def, rev : name = templates[t].name /\ def = templates[t].def /\ rev = templates[t].rev
  OBVIOUS
<1>4. name \in Names /\ def \in AllDefs /\ rev \in Nat
  BY <1>2, <1>3 DEF TemplateRows
<1>5. templates' = [templates EXCEPT ![t] = [templates[t] EXCEPT
        !.name = name, !.def = def, !.visibility = visibility, !.rev = rev]]
  <2>1. templates = [u \in TemplateIds |-> templates[u]]
    BY Zenon, <1>0 DEF LibraryOK
  <2>2. DOMAIN templates[t] = {"state", "tenant", "name", "def", "visibility", "fork_of", "rev"}
    BY <1>2 DEF TemplateRows
  <2> QED BY <2>1, <2>2, <1>1, <1>2, <1>3
<1>6. Edits(t, name, def, visibility, rev)
  BY Zenon, <1>1, <1>2, <1>3, <1>4, <1>5 DEF Edits
<1>7. /\ LibraryOK' /\ LibraryLasts /\ OfficialStays
      /\ \A u \in TemplateIds \ {t} : templates'[u] = templates[u]
      /\ templates'[t] \in TemplateRows
      /\ templates'[t].tenant = templates[t].tenant /\ templates'[t].def = def
  BY Zenon, <1>0, <1>2, <1>6, TemplateEdited
<1>8. LibraryStays
  BY Zenon, <1>3, <1>7 DEF LibraryStays, StaysWhole
<1> QED BY Zenon, <1>1, <1>8, LibraryAlone

LEMMA MarketPublished ==
    ASSUME StoreOK, NEW tenant \in Tenants \ {Official}, NEW t, NEW def \in Defs, NEW status \in Statuses,
           PublishVersion(tenant, t, def, status), UNCHANGED <<forks, heads>>
    PROVE  StoreOK'
<1>0. LibraryOK
  BY Zenon DEF StoreOK
<1>1. /\ Owned(tenant, t) /\ insert_next_version(t, def, status)
      /\ UNCHANGED <<templates, schemas, calls, seed, late>>
  BY Zenon DEF PublishVersion
<1>2. t \in TemplateIds /\ templates[t] \in TemplateRows /\ templates[t].tenant = tenant
  BY Zenon, <1>0, <1>1, TemplatesAreStored DEF Owned, InLibrary
<1>3. LibraryStays
  BY Zenon, <1>0, <1>1, <1>2, VersionPublished DEF AllDefs
<1> QED BY Zenon, <1>1, <1>3, LibraryAlone

LEMMA TemplateRemoved ==
    ASSUME StoreOK, NEW tenant \in Tenants \ {Official}, NEW t, DeleteTemplate(tenant, t),
           UNCHANGED <<forks, heads>>
    PROVE  StoreOK'
<1>0. LibraryOK /\ SeedOK /\ TableOK(schemas) /\ OriginsOK /\ CallsOK
  BY Zenon DEF StoreOK
<1>1. Owned(tenant, t) /\ schemas' = detach(schemas, t) /\ UNCHANGED <<calls, seed, late>>
  BY Zenon DEF DeleteTemplate
<1>2. t \in TemplateIds
  BY Zenon, <1>1 DEF Owned, InLibrary
<1>3. /\ LibraryOK' /\ LibraryLasts /\ OfficialStays
      /\ \A u \in TemplateIds \ {t} : templates[u] \in TemplateRows =>
           /\ templates'[u] \in TemplateRows /\ templates'[u].tenant = templates[u].tenant
           /\ templates'[u].def = templates[u].def
  BY Zenon, <1>0, <1>2, TemplateDeleted
<1>4. TableOK(schemas') /\ TableLasts(schemas, schemas') /\ NoneLost(schemas, schemas') /\ OriginsOK'
  BY Zenon, <1>0, <1>1, <1>2, <1>3, FollowersDetached
<1>5. CallsOK' /\ SeedOK'
  BY Zenon, <1>0, <1>1, <1>3, <1>4, CallsStay, SeedStays
<1> QED BY Zenon, <1>3, <1>4, <1>5, ForksLeftAlone

-----------------------------------------------------------------------------
(* The seeding task. *)

LEMMA SeedUpserted ==
    ASSUME StoreOK, NEW def \in BuiltIns, upsert_template(BuiltInName, def), UNCHANGED <<forks, heads>>
    PROVE  StoreOK'
<1>0. LibraryOK /\ TableOK(schemas) /\ CallsOK
  BY Zenon DEF StoreOK
<1> DEFINE known == {u \in Library : Owned(Official, u) /\ templates[u].name = BuiltInName}
<1>1. PICK t : t = IF known # {} THEN CHOOSE u \in known : TRUE ELSE NewTemplate
  OBVIOUS
<1>2. /\ known # {} \/ LibraryHasRoom
      /\ templates' = [templates EXCEPT ![t] =
           IF known # {} THEN [templates[t] EXCEPT !.def = def, !.visibility = "community", !.rev = templates[t].rev + 1]
           ELSE Template(Official, BuiltInName, def, "community", None)]
      /\ seed' = [template |-> t, def |-> def]
      /\ UNCHANGED <<published, schemas, calls, late>>
  <2> DEFINE w == IF known # {} THEN CHOOSE u \in known : TRUE ELSE NewTemplate
             row == IF known # {} THEN [templates[w] EXCEPT !.def = def, !.visibility = "community", !.rev = templates[w].rev + 1]
                    ELSE Template(Official, BuiltInName, def, "community", None)
  <2>1. /\ known # {} \/ LibraryHasRoom
        /\ templates' = [templates EXCEPT ![w] = row]
        /\ seed' = [template |-> w, def |-> def]
        /\ UNCHANGED <<published, schemas, calls, late>>
    BY DEF upsert_template
  <2>2. t = w
    BY Zenon, <1>1
  <2> HIDE DEF w, known
  <2> QED BY Zenon, <2>1, <2>2
<1>3. BuiltInName \in Names /\ def \in AllDefs /\ Official \in Tenants
  BY Zenon, TemplatesAssumption DEF Names, AllDefs
<1>4. seed'.template = t /\ seed'.def = def
  BY <1>2
<1>5. /\ t \in TemplateIds /\ LibraryStays /\ templates'[t] \in TemplateRows
      /\ templates'[t].tenant = Official
  <2>1. CASE known # {}
    <3>1. t \in known
      BY Zenon, <2>1, <1>1
    <3>2. /\ t \in TemplateIds /\ templates[t] \in TemplateRows /\ templates[t].tenant = Official
          /\ templates[t].name = BuiltInName
      BY Zenon, <3>1, <1>0, TemplatesAreStored DEF Owned, InLibrary
    <3>4. PICK rev : rev = templates[t].rev + 1
      OBVIOUS
    <3> DEFINE new == [templates[t] EXCEPT !.def = def, !.visibility = "community", !.rev = templates[t].rev + 1]
    <3> HIDE DEF new, known
    <3>3. templates' = [templates EXCEPT ![t] = new]
      BY Zenon, <2>1, <1>2 DEF new
    <3>5. rev \in Nat
      BY <3>2, <3>4 DEF TemplateRows
    <3>6. templates' = [templates EXCEPT ![t] = [templates[t] EXCEPT
            !.name = BuiltInName, !.def = def, !.visibility = "community", !.rev = rev]]
      <4>2. DOMAIN templates[t] = {"state", "tenant", "name", "def", "visibility", "fork_of", "rev"}
        BY <3>2 DEF TemplateRows
      <4>3. new = [templates[t] EXCEPT !.name = BuiltInName, !.def = def, !.visibility = "community", !.rev = rev]
        BY <4>2, <3>2, <3>4 DEF new
      <4> QED BY Zenon, <4>3, <3>3
    <3>7. Edits(t, BuiltInName, def, "community", rev)
      BY Zenon, <3>2, <3>4, <3>5, <3>6, <1>2, <1>3 DEF Edits
    <3>8. /\ LibraryOK' /\ LibraryLasts /\ OfficialStays
          /\ \A u \in TemplateIds \ {t} : templates'[u] = templates[u]
          /\ templates'[t] \in TemplateRows /\ templates'[t].tenant = templates[t].tenant
      BY Zenon, <3>2, <3>7, <1>0, TemplateEdited
    <3>9. LibraryStays
      BY Zenon, <3>2, <3>8 DEF LibraryStays, StaysWhole
    <3> QED BY Zenon, <3>2, <3>8, <3>9
  <2>2. CASE known = {}
    <3>1. /\ LibraryHasRoom /\ t = NewTemplate
          /\ templates' = [templates EXCEPT ![t] = Template(Official, BuiltInName, def, "community", None)]
          /\ UNCHANGED published
      BY Zenon, <2>2, <1>1, <1>2
    <3> HIDE DEF known
    <3>2. "community" \in {"tenant", "community"} /\ None \in TemplateIds \cup {None}
      BY Zenon
    <3>3. /\ LibraryStays /\ t \in TemplateIds
          /\ templates'[t] = Template(Official, BuiltInName, def, "community", None)
      BY Zenon, <3>1, <3>2, <1>0, <1>3, TemplateInserted
    <3>4. /\ Template(Official, BuiltInName, def, "community", None) \in TemplateRows
          /\ Template(Official, BuiltInName, def, "community", None).tenant = Official
      BY Zenon, <3>2, <1>3, NewTemplateRow
    <3> QED BY Zenon, <3>3, <3>4
  <2> QED BY Zenon, <2>1, <2>2
<1> HIDE DEF known
<1>6. SeedOK'
  <2>1. templates'[t].state = "stored"
    BY Zenon, <1>5, TemplateStates
  <2> QED BY Zenon, <2>1, <1>4, <1>5 DEF SeedOK, Owned, InLibrary
<1>7. LibraryOK' /\ LibraryLasts
  BY Zenon, <1>5 DEF LibraryStays
<1>8. TableLasts(schemas, schemas')
  BY Zenon, <1>0, <1>2, TableStays
<1>9. CallsOK'
  BY Zenon, <1>0, <1>2, <1>7, <1>8, CallsStay
<1> QED BY Zenon, <1>2, <1>5, <1>6, <1>9, LibraryMoved

(* What the task says it seeded is the newest version: published now, or found. *)
LEMMA SeedPublished ==
    ASSUME StoreOK, SeedPublishes
    PROVE  StoreOK' /\ SeedPublishesChanges'
<1>0. LibraryOK /\ SeedOK /\ TableOK(schemas) /\ CallsOK
  BY Zenon DEF StoreOK
<1>1. PICK t, def : t = seed.template /\ def = seed.def
  OBVIOUS
<1>2. /\ seed # None /\ seed' = None
      /\ IF differs_from_latest(t, def) THEN insert_next_version(t, def, "stable") ELSE UNCHANGED published
      /\ UNCHANGED <<templates, schemas, calls, late, forks, heads>>
      /\ answer' = [op |-> "seeded", template |-> t, def |-> def]
  BY Zenon, <1>1 DEF SeedPublishes, seed_official_templates, forkStore
<1>3. /\ t \in TemplateIds /\ def \in AllDefs /\ Owned(Official, t) /\ templates[t] \in TemplateRows
      /\ templates[t].tenant = Official
  BY Zenon, <1>0, <1>1, <1>2, TemplatesAreStored DEF SeedOK, AllDefs, Owned
<1>4. LibraryStays /\ NewestPublished(t)' = [def |-> def, status |-> "stable"]
  <2>1. CASE differs_from_latest(t, def)
    <3>1. insert_next_version(t, def, "stable") /\ UNCHANGED templates /\ "stable" \in Statuses
      BY Zenon, <2>1, <1>2 DEF Statuses
    <3> QED BY Zenon, <3>1, <1>0, <1>3, VersionPublished
  <2>2. CASE ~differs_from_latest(t, def)
    <3>1. UNCHANGED <<templates, published>>
      BY Zenon, <2>2, <1>2
    <3>2. published[t] # <<>> /\ NewestPublished(t).def = def
      BY Zenon, <2>2 DEF differs_from_latest
    <3>3. PICK row : row = NewestPublished(t)
      OBVIOUS
    <3>4. published[t] \in Seq(VersionRows)
      BY Zenon, <1>0, <1>3 DEF LibraryOK
    <3>5. Len(published[t]) \in 1..Len(published[t])
      BY <3>2, <3>4
    <3>6. row \in VersionRows
      BY <3>3, <3>4, <3>5 DEF NewestPublished
    <3>7. row.status = "stable"
      BY Zenon, <3>3, <3>5, <1>0, <1>3 DEF LibraryOK, NewestPublished
    <3>8. row = [def |-> def, status |-> "stable"]
      BY <3>2, <3>3, <3>6, <3>7 DEF VersionRows
    <3>9. NewestPublished(t)' = row
      BY Zenon, <3>1, <3>3 DEF NewestPublished
    <3> QED BY Zenon, <3>1, <3>8, <3>9, <1>0, SameLibrary
  <2> QED BY Zenon, <2>1, <2>2
<1>5. SeedOK'
  BY Zenon, <1>2 DEF SeedOK
<1>6. CallsOK'
  <2>1. TableLasts(schemas, schemas')
    BY Zenon, <1>0, <1>2, TableStays
  <2> QED BY Zenon, <2>1, <1>0, <1>2, <1>4, CallsStay DEF LibraryStays
<1>7. StoreOK'
  BY Zenon, <1>2, <1>4, <1>5, <1>6, LibraryMoved
<1>8. SeedPublishesChanges'
  <2>1. answer'.template = t /\ answer'.def = def
    BY <1>2
  <2> QED BY Zenon, <2>1, <1>4 DEF SeedPublishesChanges, NewestPublished
<1> QED BY Zenon, <1>7, <1>8

LEMMA SeedStopped ==
    ASSUME StoreOK, SeedStops, UNCHANGED <<forks, heads>>
    PROVE  StoreOK'
<1>1. /\ LibraryOK /\ TableOK(schemas) /\ CallsOK /\ seed' = None
      /\ UNCHANGED <<templates, published, schemas, calls, late>>
  BY Zenon DEF StoreOK, SeedStops, library
<1>2. SeedOK'
  BY Zenon, <1>1 DEF SeedOK
<1>3. LibraryStays /\ TableLasts(schemas, schemas')
  BY Zenon, <1>1, SameLibrary, TableStays
<1>4. CallsOK'
  BY Zenon, <1>1, <1>3, CallsStay DEF LibraryStays
<1> QED BY Zenon, <1>1, <1>2, <1>3, <1>4, LibraryMoved

-----------------------------------------------------------------------------
(* The steps. *)

(* What only a request's own state shows. *)
LEMMA RequestMoved ==
    ASSUME StoreOK, CallsOK', UNCHANGED <<templates, published, schemas, seed, late, forks, heads>>
    PROVE  StoreOK'
<1>1. LibraryOK /\ SeedOK
  BY Zenon DEF StoreOK
<1>2. LibraryStays
  BY Zenon, <1>1, SameLibrary
<1>3. SeedOK'
  BY Zenon, <1>1, <1>2, SeedStays DEF LibraryStays
<1> QED BY Zenon, <1>2, <1>3, LibraryMoved

LEMMA RequestEnds ==
    ASSUME StoreOK, NEW c \in Callers, calls' = [calls EXCEPT ![c] = Idle],
           UNCHANGED <<templates, published, schemas, seed, late, forks, heads>>
    PROVE  StoreOK'
<1>1. LibraryOK /\ TableOK(schemas) /\ CallsOK
  BY Zenon DEF StoreOK
<1>2. CallOK(Idle)
  BY Zenon, IdleIsOK
<1>3. CallsOK'
  BY Zenon, <1>1, <1>2, OnlyCallMoves
<1> QED BY Zenon, <1>3, RequestMoved

(* Writing a version, with the notices, requests and forks it meets. *)
LEMMA VersionStored ==
    ASSUME StoreOK, NEW c \in Callers, WriteVersion(c), UNCHANGED <<forks, heads>>
    PROVE  StoreOK'
<1>0. LibraryOK /\ SeedOK /\ TableOK(schemas) /\ OriginsOK /\ CallsOK
  BY Zenon DEF StoreOK
<1>1. TableOK(schemas') /\ TableLasts(schemas, schemas') /\ NoneLost(schemas, schemas') /\ OriginsOK' /\ CallsOK'
  BY Zenon, <1>0, VersionWritten
<1>2. UNCHANGED <<templates, published, seed>>
  BY Zenon DEF WriteVersion, library
<1>3. LibraryOK' /\ OfficialStays
  BY Zenon, <1>0, <1>2, SameLibrary DEF LibraryStays
<1>4. SeedOK'
  BY Zenon, <1>0, <1>2, <1>3, SeedStays
<1> QED BY Zenon, <1>1, <1>3, <1>4, ForksLeftAlone

(* A step that is not the seeding task's last one. *)
Quiet == answer' # None => answer'.op # "seeded"

LEMMA ReadingIsQuiet ==
    ASSUME StoreOK, NEW c, NEW scope, NEW what, what.op # "seeded", Answers(c, scope, what)
    PROVE  StoreOK' /\ Quiet
<1>1. answer' = what /\ UNCHANGED <<templates, published, schemas, calls, seed, late, forks, heads>>
  BY Zenon DEF Answers, store, library, forkStore
<1> QED BY Zenon, <1>1, StoreStays DEF Quiet

LEMMA HandlingIsQuiet ==
    ASSUME NEW c, NEW scope, NEW kind, HandlesOnBase(c, scope, kind)
    PROVE  Quiet /\ UNCHANGED <<forks, heads>>
BY Zenon DEF HandlesOnBase, Handles, forkStore, Quiet

LEMMA GoingIsQuiet ==
    ASSUME Goes
    PROVE  Quiet /\ UNCHANGED <<forks, heads>>
BY Zenon DEF Goes, forkStore, Quiet

LEMMA LibraryStep ==
    ASSUME StoreOK, NEW c \in Callers, NextLibrary(c)
    PROVE  StoreOK' /\ Quiet
<1>0. Tenant[c] \in Tenants /\ Tenant[c] \in Tenants \ {Official}
  BY Zenon, CallersHaveTenants
<1>1. ASSUME Administers(c) PROVE Quiet /\ UNCHANGED <<forks, heads>>
  BY Zenon, <1>1, HandlingIsQuiet DEF Administers
<1>2. CASE \E n \in TemplateNames, d \in Defs : RestCreateTemplate(c, n, d) \/ McpCreateTemplate(c, n, d)
  <2>1. PICK n \in TemplateNames, d \in Defs : Administers(c) /\ CreateTemplate(Tenant[c], n, d)
    BY Zenon, <1>2 DEF RestCreateTemplate, McpCreateTemplate
  <2> QED BY Zenon, <2>1, <1>0, <1>1, TemplateCreated
<1>3. ASSUME NEW t \in Library, NEW n \in {None} \cup TemplateNames, NEW d \in {None} \cup Defs,
             RestUpdateTemplate(c, t, n, d) \/ McpUpdateTemplate(c, t, n, d)
      PROVE  StoreOK' /\ Quiet
  <2>1. Administers(c) /\ UpdateTemplate(Tenant[c], t, n, d) /\ t \in TemplateIds
    BY Zenon, <1>3 DEF RestUpdateTemplate, McpUpdateTemplate, Library
  <2> QED BY Zenon, <2>1, <1>0, <1>1, TemplateUpdated
<1>4. ASSUME NEW t, RestDeleteTemplate(c, t) \/ McpDeleteTemplate(c, t) PROVE StoreOK' /\ Quiet
  <2>1. Administers(c) /\ DeleteTemplate(Tenant[c], t)
    BY Zenon, <1>4 DEF RestDeleteTemplate, McpDeleteTemplate
  <2> QED BY Zenon, <2>1, <1>0, <1>1, TemplateRemoved
<1>5. ASSUME NEW t, NEW n \in TemplateNames, RestForkTemplate(c, t, n) \/ McpForkTemplate(c, t, n)
      PROVE  StoreOK' /\ Quiet
  <2>1. Administers(c) /\ ForkTemplate(Tenant[c], t, n)
    BY Zenon, <1>5 DEF RestForkTemplate, McpForkTemplate
  <2> QED BY Zenon, <2>1, <1>0, <1>1, TemplateForked
<1>6. ASSUME NEW t, RestGetLibrary(c, t) \/ McpGetLibrary(c, t) PROVE StoreOK' /\ Quiet
  <2>1. Answers(c, ReadScope, get_template(c, t))
    BY Zenon, <1>6 DEF RestGetLibrary, McpGetLibrary
  <2>2. get_template(c, t).op # "seeded"
    BY DEF get_template
  <2> QED BY Zenon, <2>1, <2>2, ReadingIsQuiet
<1>7. CASE RestListLibrary(c) \/ McpListLibrary(c)
  <2>1. Answers(c, ReadScope, list_templates(c))
    BY Zenon, <1>7 DEF RestListLibrary, McpListLibrary
  <2>2. list_templates(c).op # "seeded"
    BY DEF list_templates
  <2> QED BY Zenon, <2>1, <2>2, ReadingIsQuiet
<1> QED BY Zenon, <1>2, <1>3, <1>4, <1>5, <1>6, <1>7 DEF NextLibrary

LEMMA MarketStep ==
    ASSUME StoreOK, NEW c \in Callers, NextMarket(c)
    PROVE  StoreOK' /\ Quiet
<1>0. /\ Tenant[c] \in Tenants \ {Official}
      /\ LibraryOK /\ TableOK(schemas) /\ CallsOK
  BY Zenon, CallersHaveTenants DEF StoreOK
<1>1. ASSUME NEW t, NEW d \in Defs, NEW st \in Statuses, RestPublishVersion(c, t, d, st) PROVE StoreOK' /\ Quiet
  <2>1. HandlesOnBase(c, ReadScope, "market") /\ PublishVersion(Tenant[c], t, d, st)
    BY Zenon, <1>1 DEF RestPublishVersion
  <2> QED BY Zenon, <2>1, <1>0, HandlingIsQuiet, MarketPublished
<1>2. ASSUME NEW t, NEW r, RestSubmitReview(c, t, r) PROVE StoreOK' /\ Quiet
  <2>1. HandlesOnBase(c, ReadScope, "market") /\ SubmitReview(Tenant[c], t, r)
    BY Zenon, <1>2 DEF RestSubmitReview
  <2>2. UNCHANGED <<templates, published, schemas, calls, seed, late>>
    BY Zenon, <2>1 DEF SubmitReview
  <2> QED BY Zenon, <2>1, <2>2, HandlingIsQuiet, StoreStays
<1>3. ASSUME NEW t, NEW v \in {"tenant", "community"}, RestSetVisibility(c, t, v) PROVE StoreOK' /\ Quiet
  <2>1. HandlesOnBase(c, ReadScope, "market") /\ SetVisibility(Tenant[c], t, v)
    BY Zenon, <1>3 DEF RestSetVisibility
  <2> QED BY Zenon, <2>1, HandlingIsQuiet, TemplateShown
<1>4. ASSUME NEW t, RestMarketplaceFork(c, t) PROVE StoreOK' /\ Quiet
  <2>1. HandlesOnBase(c, ReadScope, "market") /\ find_fork_source(c, Tenant[c], t)
    BY Zenon, <1>4 DEF RestMarketplaceFork
  <2>2. CallsOK'
    BY Zenon, <2>1, <1>0, ForkSourceFound
  <2>3. UNCHANGED <<templates, published, schemas, seed, late>>
    BY Zenon, <2>1 DEF find_fork_source, library
  <2> QED BY Zenon, <2>1, <2>2, <2>3, HandlingIsQuiet, RequestMoved
<1>5. ASSUME NEW t, RestListVersions(c, t) \/ RestListReviews(c, t) PROVE StoreOK' /\ Quiet
  <2>1. PICK what : what.op # "seeded" /\ Answers(c, ReadScope, what)
    <3>1. CASE RestListVersions(c, t)
      <4>1. PICK what : /\ what = [op |-> "versions", caller |-> c, template |-> t,
                                   listed |-> list_versions(Tenant[c], t)]
                        /\ Answers(c, ReadScope, what)
        BY Zenon, <3>1 DEF RestListVersions
      <4>2. what.op # "seeded"
        BY <4>1
      <4> QED BY Zenon, <4>1, <4>2
    <3>2. CASE RestListReviews(c, t)
      <4>1. PICK what : /\ what = [op |-> "reviews", caller |-> c, template |-> t,
                                   listed |-> list_reviews(Tenant[c], t)]
                        /\ Answers(c, ReadScope, what)
        BY Zenon, <3>2 DEF RestListReviews
      <4>2. what.op # "seeded"
        BY <4>1
      <4> QED BY Zenon, <4>1, <4>2
    <3> QED BY Zenon, <3>1, <3>2, <1>5
  <2> QED BY Zenon, <2>1, ReadingIsQuiet
<1>6. CASE RestListMarketplace(c)
  <2>1. PICK what : what = [op |-> "market", listed |-> list_marketplace] /\ Answers(c, ReadScope, what)
    BY Zenon, <1>6 DEF RestListMarketplace
  <2>2. what.op # "seeded"
    BY <2>1
  <2> QED BY Zenon, <2>1, <2>2, ReadingIsQuiet
<1>7. ASSUME NEW v, ReadForkable(c, v) PROVE StoreOK' /\ Quiet
  <2>1. Goes /\ find_forkable_definition(c, v)
    BY Zenon, <1>7 DEF ReadForkable
  <2>2. CallsOK'
    BY Zenon, <2>1, <1>0, ForkableFound
  <2>3. UNCHANGED <<templates, published, schemas, seed, late>>
    BY Zenon, <2>1 DEF find_forkable_definition, library
  <2> QED BY Zenon, <2>1, <2>2, <2>3, GoingIsQuiet, RequestMoved
<1>8. CASE InsertFork(c)
  <2>1. Goes /\ insert_fork(c)
    BY Zenon, <1>8 DEF InsertFork
  <2> QED BY Zenon, <2>1, GoingIsQuiet, ForkInserted
<1> QED BY Zenon, <1>1, <1>2, <1>3, <1>4, <1>5, <1>6, <1>7, <1>8 DEF NextMarket

LEMMA VersionStep ==
    ASSUME StoreOK, NEW c \in Callers, NextVersion(c)
    PROVE  StoreOK' /\ Quiet
<1>0. LibraryOK /\ TableOK(schemas) /\ OriginsOK /\ CallsOK
  BY Zenon DEF StoreOK
<1>1. ASSUME NEW w \in WorkspacesOf(c), NEW t, RestCreateFromTemplate(c, w, t) \/ McpCreateFromTemplate(c, w, t)
      PROVE  StoreOK' /\ Quiet
  <2>1. /\ HandlesOnBase(c, SchemaScope, "version") /\ resolve_template_definition(c, w, t)
        /\ w \in Workspaces
    BY Zenon, <1>1 DEF RestCreateFromTemplate, McpCreateFromTemplate, WorkspacesOf
  <2>2. CallsOK'
    BY Zenon, <2>1, <1>0, TemplateResolved
  <2>3. UNCHANGED <<templates, published, schemas, seed, late>>
    BY Zenon, <2>1 DEF resolve_template_definition, library
  <2> QED BY Zenon, <2>1, <2>2, <2>3, HandlingIsQuiet, RequestMoved
<1>2. ASSUME NEW was, was.at = "resolved", MakingOK(was), LockVersion(c, was), UNCHANGED <<forks, heads>>
      PROVE  StoreOK'
  <2>1. CallsOK'
    BY Zenon, <1>0, <1>2, VersionLocked
  <2>2. UNCHANGED <<templates, published, schemas, seed, late>>
    BY Zenon, <1>2 DEF LockVersion, library
  <2> QED BY Zenon, <2>1, <2>2, <1>2, RequestMoved
<1>3. ASSUME NEW w \in WorkspacesOf(c), NEW d \in Defs, RestCreateSchema(c, w, d) PROVE StoreOK' /\ Quiet
  <2>1. PICK was : was = Resolved(w, d, None, None, None)
    OBVIOUS
  <2>2. HandlesOnBase(c, SchemaScope, "version") /\ LockVersion(c, was) /\ w \in Workspaces
    BY Zenon, <2>1, <1>3 DEF RestCreateSchema, WorkspacesOf
  <2>3. was.at = "resolved" /\ MakingOK(was)
    BY Zenon, <2>1, <2>2, SentDefinition
  <2> QED BY Zenon, <2>2, <2>3, <1>2, HandlingIsQuiet
<1>4. ASSUME NEW w \in WorkspacesOf(c), NEW s \in HeldBy(w),
             \/ RestMergePreview(c, w, s) \/ McpMergePreview(c, w, s)
             \/ RestMergeApply(c, w, s) \/ McpMergeApply(c, w, s)
      PROVE  StoreOK' /\ Quiet
  <2>1. PICK applies, scope : HandlesOnBase(c, scope, "merge") /\ ReadLocalSide(c, w, s, applies)
    BY Zenon, <1>4 DEF RestMergePreview, McpMergePreview, RestMergeApply, McpMergeApply
  <2>2. w \in Workspaces /\ s \in SchemaIds
    BY Zenon DEF WorkspacesOf, HeldBy, StoredVersions
  <2>3. CallsOK'
    BY Zenon, <2>1, <2>2, <1>0, LocalSideRead
  <2>4. UNCHANGED <<templates, published, schemas, seed, late>>
    BY Zenon, <2>1 DEF ReadLocalSide, library
  <2> QED BY Zenon, <2>1, <2>3, <2>4, HandlingIsQuiet, RequestMoved
<1>5. ASSUME NEW w, NEW s \in HeldBy(w), RestArchiveSchema(c, w, s) \/ RestDeleteSchema(c, w, s) \/ RestCreateContent(c, w, s)
      PROVE  StoreOK' /\ Quiet
  <2>1. s \in SchemaIds
    BY Zenon DEF HeldBy, StoredVersions
  <2>2. Quiet /\ (ArchiveVersion(w, s) \/ DeleteVersion(w, s) \/ UseVersion(w, s))
    BY Zenon, <1>5 DEF RestArchiveSchema, RestDeleteSchema, RestCreateContent, Handles, Quiet
  <2>3. UseVersion(w, s) => UNCHANGED <<templates, published, schemas, calls, seed, late, forks, heads>>
    BY Zenon DEF UseVersion, store, library
  <2> QED BY Zenon, <2>1, <2>2, <2>3, VersionArchived, VersionDeleted, StoreStays
<1>6. ASSUME NEW w, RestListUpstreamChanges(c, w) \/ McpListUpstreamChanges(c, w) PROVE StoreOK' /\ Quiet
  <2>1. PICK what : /\ what = [op |-> "pending", changes |-> list_with_upstream_changes(w)]
                    /\ Answers(c, ReadScope, what)
    BY Zenon, <1>6 DEF RestListUpstreamChanges, McpListUpstreamChanges
  <2>2. what.op # "seeded"
    BY <2>1
  <2> QED BY Zenon, <2>1, <2>2, ReadingIsQuiet
<1>7. CASE Resolve(c)
  <2>1. PICK was : was = calls[c]
    OBVIOUS
  <2>2. Goes /\ was.at = "resolved" /\ LockVersion(c, was)
    BY Zenon, <2>1, <1>7 DEF Resolve
  <2>3. MakingOK(was)
    BY Zenon, <2>1, <2>2, <1>0 DEF CallsOK, CallOK
  <2> QED BY Zenon, <2>2, <2>3, <1>2, GoingIsQuiet
<1>8. CASE Write(c)
  <2>1. Goes /\ WriteVersion(c)
    BY Zenon, <1>8 DEF Write
  <2> QED BY Zenon, <2>1, GoingIsQuiet, VersionStored
<1>9. CASE Preview(c)
  <2>1. /\ calls' = [calls EXCEPT ![c] = Idle]
        /\ UNCHANGED <<templates, published, schemas, seed, late, forks, heads>>
    BY Zenon, <1>9 DEF Preview, merge_preview, library, forkStore
  <2>2. answer' = [op |-> "plan", template |-> calls[c].template, plan |-> Plan(calls[c])]
    BY Zenon, <1>9 DEF Preview
  <2>3. answer'.op # "seeded"
    BY <2>2
  <2> QED BY Zenon, <2>1, <2>3, RequestEnds DEF Quiet
<1>10. CASE Apply(c)
  <2>1. Goes /\ merge_apply(c)
    BY Zenon, <1>10 DEF Apply
  <2>2. CallsOK'
    BY Zenon, <2>1, <1>0, MergeApplied
  <2>3. UNCHANGED <<templates, published, schemas, seed, late>>
    BY Zenon, <2>1 DEF merge_apply, library
  <2> QED BY Zenon, <2>1, <2>2, <2>3, GoingIsQuiet, RequestMoved
<1> QED BY Zenon, <1>1, <1>3, <1>4, <1>5, <1>6, <1>7, <1>8, <1>9, <1>10 DEF NextVersion

LEMMA ForkStep ==
    ASSUME StoreOK, NEW c \in Callers, NextFork(c)
    PROVE  StoreOK' /\ Quiet
<1>0. ASSUME NEW scope, NEW kind, Handles(c, scope, kind) PROVE Quiet
  BY Zenon, <1>0 DEF Handles, Quiet
<1>1. ASSUME NEW w \in WorkspacesOf(c), NEW v \in Workspaces, NEW s \in HeldBy(v),
             RestCreateFork(c, w, v, s) \/ McpCreateFork(c, w, v, s)
      PROVE  StoreOK' /\ Quiet
  <2>1. /\ Handles(c, SchemaScope, "fork") /\ CreateFork(w, v, s)
        /\ w \in Workspaces /\ s \in SchemaIds
    BY Zenon, <1>1 DEF RestCreateFork, McpCreateFork, WorkspacesOf, HeldBy, StoredVersions
  <2> QED BY Zenon, <2>1, <1>0, ForkCreated
<1>2. ASSUME NEW w, RestListForks(c, w) \/ McpListForks(c, w) PROVE StoreOK' /\ Quiet
  <2>1. PICK what : what = [op |-> "forks", forks |-> {to_record(f) : f \in ForksOf(w)}] /\ Answers(c, ReadScope, what)
    BY Zenon, <1>2 DEF RestListForks, McpListForks
  <2>2. what.op # "seeded"
    BY <2>1
  <2> QED BY Zenon, <2>1, <2>2, ReadingIsQuiet
<1>3. ASSUME NEW w, NEW f, NEW h, NEW d \in Defs, RestCustomizeFork(c, w, f, d, h) \/ McpCustomizeFork(c, w, f, d, h)
      PROVE  StoreOK' /\ Quiet
  <2>1. Handles(c, SchemaScope, "fork") /\ CustomizeFork(w, f, d, h)
    BY Zenon, <1>3 DEF RestCustomizeFork, McpCustomizeFork
  <2> QED BY Zenon, <2>1, <1>0, ForkCustomized
<1>4. ASSUME NEW w, NEW f, NEW h, NEW force, NEW s, RestFollowFork(c, w, f, force, h, s) \/ McpFollowFork(c, w, f, force, h, s)
      PROVE  StoreOK' /\ Quiet
  <2>1. Handles(c, SchemaScope, "fork") /\ FollowFork(w, f, force, h, s)
    BY Zenon, <1>4 DEF RestFollowFork, McpFollowFork
  <2> QED BY Zenon, <2>1, <1>0, ForkFollowed
<1>5. ASSUME NEW w, NEW f, RestDeleteFork(c, w, f) \/ McpDeleteFork(c, w, f) PROVE StoreOK' /\ Quiet
  <2>1. Handles(c, SchemaScope, "fork") /\ DeleteFork(w, f)
    BY Zenon, <1>5 DEF RestDeleteFork, McpDeleteFork
  <2> QED BY Zenon, <2>1, <1>0, ForkDeleted
<1>6. ASSUME NEW w, NEW f, RestGetFork(c, w, f) \/ McpGetFork(c, w, f) PROVE StoreOK' /\ Quiet
  <2>1. PICK what : what = [op |-> "forks", forks |-> {to_record(f)}] /\ Answers(c, ReadScope, what)
    BY Zenon, <1>6 DEF RestGetFork, McpGetFork
  <2>2. what.op # "seeded"
    BY <2>1
  <2> QED BY Zenon, <2>1, <2>2, ReadingIsQuiet
<1> QED BY Zenon, <1>1, <1>2, <1>3, <1>4, <1>5, <1>6 DEF NextFork

LEMMA InitStore ==
    ASSUME Init
    PROVE  TemplatesInv
<1>1. /\ \A t \in TemplateIds : templates[t] = FreshTemplate /\ published[t] = <<>>
      /\ templates = [t \in TemplateIds |-> templates[t]] /\ published \in [TemplateIds -> Seq(VersionRows)]
  <2>1. <<>> \in Seq(VersionRows)
    OBVIOUS
  <2> QED BY Zenon, <2>1 DEF Init
<1>2. FreshTemplate.state = "fresh" /\ "fresh" # "stored"
  BY DEF FreshTemplate
<1>3. LibraryOK
  BY Zenon, <1>1, <1>2 DEF LibraryOK, Owned, InLibrary
<1>4. SeedOK /\ SeedPublishesChanges
  BY Zenon DEF Init, SeedOK, SeedPublishesChanges
<1>5. schemas = [s \in SchemaIds |-> schemas[s]] /\ \A s \in SchemaIds : schemas[s] = FreshSchema
  BY Zenon DEF Init
<1>6. FreshSchema.status \notin {"active", "archived"}
  BY DEF FreshSchema
<1>7. TableOK(schemas)
  BY Zenon, <1>5, <1>6 DEF TableOK, Apart, Stored
<1>8. OriginsOK
  BY Zenon, <1>5, <1>7, RowsAreStored DEF OriginsOK
<1>9. CallsOK
  BY Zenon, IdleIsOK DEF Init, CallsOK
<1>10. FreshFork.state = "fresh"
  BY DEF FreshFork
<1>11. forks = [f \in ForkIds |-> forks[f]] /\ heads = {} /\ \A f \in ForkIds : forks[f].state = "fresh"
  BY Zenon, <1>10 DEF Init
<1>12. StoredForks = {}
  BY Zenon, <1>2, <1>11 DEF StoredForks
<1>13. ForksOK
  BY Zenon, <1>11, <1>12 DEF ForksOK
<1>14. ForksAcyclic
  <2>1. \A w : fork_edges(w) = {}
    BY Zenon, <1>12 DEF fork_edges, ForksOf
  <2>2. ASSUME NEW W \in (SUBSET Workspaces) \ {{}} PROVE \E w \in W : fork_edges(w) \cap W = {}
    <3>1. PICK w \in W : TRUE
      BY <2>2
    <3> QED BY Zenon, <3>1, <2>1
  <2> QED BY Zenon, <2>2 DEF ForksAcyclic
<1> QED BY Zenon, <1>3, <1>4, <1>7, <1>8, <1>9, <1>13, <1>14 DEF TemplatesInv, StoreOK

LEMMA NextStore ==
    ASSUME TemplatesInv, Next
    PROVE  TemplatesInv'
<1>0. StoreOK
  BY Zenon DEF TemplatesInv
<1>1. ASSUME StoreOK', Quiet PROVE TemplatesInv'
  BY Zenon, <1>1 DEF TemplatesInv, Quiet, SeedPublishesChanges
<1>2. ASSUME NEW c \in Callers, NextLibrary(c) \/ NextMarket(c) \/ NextVersion(c) \/ NextFork(c) PROVE TemplatesInv'
  BY Zenon, <1>0, <1>1, <1>2, LibraryStep, MarketStep, VersionStep, ForkStep
<1>3. ASSUME NEW c \in Callers, Ends(c) PROVE TemplatesInv'
  <2>1. /\ Goes /\ calls' = [calls EXCEPT ![c] = Idle]
        /\ UNCHANGED <<templates, published, schemas, seed, late>>
    BY Zenon, <1>3 DEF Ends, Abandon, library
  <2> QED BY Zenon, <2>1, <1>0, <1>1, GoingIsQuiet, RequestEnds
<1>4. ASSUME NEW d \in BuiltIns, SeedUpserts(d) PROVE TemplatesInv'
  <2>1. upsert_template(BuiltInName, d) /\ UNCHANGED <<forks, heads>> /\ Quiet
    BY Zenon, <1>4 DEF SeedUpserts, forkStore, Quiet
  <2> QED BY Zenon, <2>1, <1>0, <1>1, SeedUpserted
<1>5. CASE SeedPublishes
  BY Zenon, <1>0, <1>5, SeedPublished DEF TemplatesInv
<1>6. CASE SeedCrashes
  <2>1. Goes /\ SeedStops
    BY Zenon, <1>6 DEF SeedCrashes
  <2> QED BY Zenon, <2>1, <1>0, <1>1, GoingIsQuiet, SeedStopped
<1> QED BY Zenon, <1>2, <1>3, <1>4, <1>5, <1>6 DEF Next

LEMMA StutterStore ==
    ASSUME TemplatesInv, UNCHANGED vars
    PROVE  TemplatesInv'
<1>1. UNCHANGED <<templates, published, schemas, calls, seed, late, forks, heads, answer>>
  BY Zenon DEF vars, store, library, forkStore
<1>2. StoreOK'
  BY Zenon, <1>1, StoreStays DEF TemplatesInv
<1>3. SeedPublishesChanges'
  BY Zenon, <1>1 DEF TemplatesInv, SeedPublishesChanges, NewestPublished
<1> QED BY Zenon, <1>2, <1>3 DEF TemplatesInv

(* Everything the library, the schema table, the requests under way and the
   forks rely on of one another holds in every state. *)
THEOREM TemplatesConsistent == Spec => []TemplatesInv
<1>1. Init => TemplatesInv
  BY Zenon, InitStore
<1>2. TemplatesInv /\ [Next]_vars => TemplatesInv'
  BY Zenon, NextStore, StutterStore
<1> QED BY <1>1, <1>2, PTL DEF Spec

-----------------------------------------------------------------------------
(* What the invariant says of the promises. *)

(* A version that follows a template finds it and its base, and has all of it
   when no notice is pending (notify_upstream_change, merge_apply and the
   detaching trigger). *)
THEOREM OriginsHoldHolds == Spec => []OriginsHold
<1>1. TemplatesInv => OriginsHold
  <2> SUFFICES ASSUME TemplatesInv PROVE OriginsHold
    OBVIOUS
  <2>1. ASSUME NEW s \in StoredVersions PROVE s \in SchemaIds /\ RowOK(schemas[s]) /\ OriginOK(s)
    BY Zenon, RowsAreStored DEF TemplatesInv, StoreOK, OriginsOK, StoredVersions
  <2>2. LinkedIsMergeable
    BY Zenon, <2>1 DEF LinkedIsMergeable, RowOK, OriginOK
  <2>3. NoticeIsTrue
    BY Zenon, <2>1 DEF NoticeIsTrue, OriginOK
  <2> QED BY Zenon, <2>2, <2>3 DEF OriginsHold
<1> QED BY <1>1, TemplatesConsistent, PTL

(* No workspace follows itself through forks, however many are created, moved
   and deleted (the cycle check of create). *)
THEOREM ForksAcyclicHolds == Spec => []ForksAcyclic
<1>1. TemplatesInv => ForksAcyclic
  BY Zenon DEF TemplatesInv, StoreOK
<1> QED BY <1>1, TemplatesConsistent, PTL

(* What the seeding task says it seeded is its template's newest version, and
   stable, also after runs that stopped half-way (seed_official_templates). *)
THEOREM SeedPublishesChangesHolds == Spec => []SeedPublishesChanges
<1>1. TemplatesInv => SeedPublishesChanges
  BY Zenon DEF TemplatesInv
<1> QED BY <1>1, TemplatesConsistent, PTL

(* The newest of a fork's heads is the one it names: numbers are not shared. *)
LEMMA HeadIsNewest ==
    ASSUME TableOK(schemas), ForksOK, NEW f \in StoredForks, NEW mine,
           mine = {h[2] : h \in {h \in heads : h[1] = f}}
    PROVE  /\ forks[f].head \in mine /\ \A s \in mine : s \in SchemaIds /\ HeadOK(f, s)
           /\ forks[f].head = Newest(schemas, mine)
<1>0. ForkOK(f) /\ f \in ForkIds
  BY Zenon DEF ForksOK, StoredForks
<1>1. \A s : s \in mine <=> \E h \in heads : h[1] = f /\ s = h[2]
  BY Zenon
<1>2. ASSUME NEW s \in mine PROVE s \in SchemaIds /\ HeadOK(f, s)
  <2>1. PICK h \in heads : h[1] = f /\ s = h[2]
    BY Zenon, <1>1
  <2>2. h \in ForkIds \X SchemaIds
    BY Zenon DEF ForksOK
  <2>3. h = <<f, s>> /\ s \in SchemaIds
    BY <2>1, <2>2
  <2> QED BY Zenon, <2>3, <1>0 DEF ForkOK
<1>3. PICK head : head = forks[f].head
  OBVIOUS
<1>4. head \in mine
  <2>1. PICK h : h = <<f, head>>
    OBVIOUS
  <2>2. h \in heads
    BY Zenon, <2>1, <1>0, <1>3 DEF ForkOK
  <2>3. h[1] = f /\ h[2] = head
    BY <2>1
  <2> QED BY Zenon, <2>2, <2>3, <1>1
<1>5. \A s \in mine : schemas[s].version <= schemas[head].version
  BY Zenon, <1>2, <1>3 DEF HeadOK
<1>6. ASSUME NEW k \in mine, \A s \in mine : schemas[s].version <= schemas[k].version PROVE k = head
  <2>1. /\ RowOK(schemas[k]) /\ RowOK(schemas[head]) /\ k \in SchemaIds /\ head \in SchemaIds
        /\ schemas[k].ws = schemas[head].ws /\ schemas[k].name = schemas[head].name
    BY Zenon, <1>2, <1>4 DEF HeadOK
  <2>2. schemas[k].version = schemas[head].version
    <3>1. schemas[k].version \in Nat /\ schemas[head].version \in Nat
      BY Zenon, <2>1 DEF RowOK
    <3>2. schemas[k].version <= schemas[head].version /\ schemas[head].version <= schemas[k].version
      BY Zenon, <1>4, <1>5, <1>6
    <3> QED BY <3>1, <3>2
  <2>3. Stored(schemas, k) /\ Stored(schemas, head) /\ Apart(schemas, k, head)
    BY Zenon, <2>1, RowsAreStored DEF TableOK
  <2> QED BY Zenon, <2>1, <2>2, <2>3 DEF Apart
<1>7. Newest(schemas, mine) = head
  <2> DEFINE k == Newest(schemas, mine)
  <2>1. k \in mine /\ \A s \in mine : schemas[s].version <= schemas[k].version
    BY Zenon, <1>4, <1>5 DEF Newest
  <2> HIDE DEF k
  <2>2. k = head
    BY Zenon, <2>1, <1>6
  <2> QED BY Zenon, <2>2 DEF k
<1> QED BY Zenon, <1>2, <1>3, <1>4, <1>7

(* ForksHold, of one fork and its heads. *)
ForkHolds(f, mine) ==
    /\ forks[f].source \in StoredVersions /\ forks[f].head \in StoredVersions
    /\ schemas[forks[f].source].ws = forks[f].source_ws
    /\ TenantOf[forks[f].source_ws] = TenantOf[forks[f].ws]
    /\ schemas[forks[f].source].name = forks[f].source_name
    /\ schemas[forks[f].source].version = forks[f].source_version
    /\ mine \subseteq StoredVersions
    /\ forks[f].head = Newest(schemas, mine)
    /\ \A h \in mine : /\ schemas[h].ws = forks[f].ws /\ schemas[h].name = forks[f].source_name
                       /\ schemas[h].status = "archived"
                       /\ \A s \in Versions(schemas, forks[f].ws, forks[f].source_name) :
                            schemas[s].version = schemas[h].version => s = h

(* What a fork refers to is stored and is what the fork says of it; its head is
   the newest of its heads, which stay archived and have numbers of their own
   (insert_fork_head, and delete, which counts every workspace's forks). *)
THEOREM ForksHoldHolds == Spec => []ForksHold
<1>1. TemplatesInv => ForksHold
  <2> SUFFICES ASSUME TemplatesInv PROVE ForksHold
    OBVIOUS
  <2>0. TableOK(schemas) /\ ForksOK
    BY Zenon DEF TemplatesInv, StoreOK
  <2> SUFFICES ASSUME NEW f \in StoredForks PROVE ForkHolds(f, {h[2] : h \in {h \in heads : h[1] = f}})
    BY Zenon DEF ForksHold, ForkHolds
  <2> SUFFICES ASSUME NEW mine, mine = {h[2] : h \in {h \in heads : h[1] = f}} PROVE ForkHolds(f, mine)
    BY Zenon
  <2>1. ForkOK(f)
    BY Zenon, <2>0 DEF ForksOK
  <2>2. /\ forks[f].head \in mine /\ \A s \in mine : s \in SchemaIds /\ HeadOK(f, s)
        /\ forks[f].head = Newest(schemas, mine)
    BY Zenon, <2>0, HeadIsNewest
  <2>3. \A s \in SchemaIds : RowOK(schemas[s]) => s \in StoredVersions
    BY Zenon, <2>0, RowsAreStored DEF StoredVersions
  <2>4. mine \subseteq StoredVersions
    BY Zenon, <2>2, <2>3 DEF HeadOK
  <2>5. forks[f].source \in StoredVersions /\ forks[f].head \in StoredVersions
    BY Zenon, <2>1, <2>2, <2>3, <2>4 DEF ForkOK
  <2>6. ASSUME NEW h \in mine
        PROVE  /\ schemas[h].ws = forks[f].ws /\ schemas[h].name = forks[f].source_name
               /\ schemas[h].status = "archived"
               /\ \A s \in Versions(schemas, forks[f].ws, forks[f].source_name) :
                    schemas[s].version = schemas[h].version => s = h
    <3>1. h \in SchemaIds /\ HeadOK(f, h) /\ Stored(schemas, h)
      BY Zenon, <2>0, <2>2, RowsAreStored DEF HeadOK
    <3>2. ASSUME NEW s \in Versions(schemas, forks[f].ws, forks[f].source_name),
                 schemas[s].version = schemas[h].version
          PROVE  s = h
      <4>1. /\ s \in SchemaIds /\ Stored(schemas, s) /\ schemas[s].ws = forks[f].ws
            /\ schemas[s].name = forks[f].source_name
        BY Zenon DEF Versions
      <4>2. Apart(schemas, s, h)
        BY Zenon, <4>1, <3>1, <2>0 DEF TableOK
      <4> QED BY Zenon, <4>1, <4>2, <3>1, <3>2 DEF Apart, HeadOK
    <3> QED BY Zenon, <3>1, <3>2 DEF HeadOK
  <2> QED BY Zenon, <2>1, <2>2, <2>4, <2>5, <2>6 DEF ForkOK, ForkHolds
<1> QED BY <1>1, TemplatesConsistent, PTL

(* Only a request that writes its version changes the table and the state of a
   request in one step. *)
LEMMA TableChanges ==
    ASSUME Next, schemas' # schemas
    PROVE  calls' = calls \/ \E d \in Callers : WriteVersion(d)
<1>0. ASSUME NEW c, NEW scope, NEW what, Answers(c, scope, what) PROVE FALSE
  BY Zenon, <1>0 DEF Answers, store
<1>1. ASSUME NEW c, NextLibrary(c) PROVE calls' = calls
  <2>1. ASSUME NEW t, NEW n, NEW d,
               CreateTemplate(t, n, d) \/ ForkTemplate(t, n, d) \/ DeleteTemplate(t, n)
        PROVE  calls' = calls
    BY Zenon, <2>1 DEF CreateTemplate, ForkTemplate, DeleteTemplate
  <2>2. ASSUME NEW t, NEW u, NEW n, NEW d, UpdateTemplate(t, u, n, d) PROVE calls' = calls
    BY Zenon, <2>2 DEF UpdateTemplate
  <2> QED BY Zenon, <2>1, <2>2, <1>0, <1>1 DEF NextLibrary, RestCreateTemplate, McpCreateTemplate,
            RestUpdateTemplate, McpUpdateTemplate, RestDeleteTemplate, McpDeleteTemplate, RestForkTemplate,
            McpForkTemplate, RestGetLibrary, McpGetLibrary, RestListLibrary, McpListLibrary
<1>2. ASSUME NEW c, NextMarket(c) PROVE FALSE
  <2>1. ASSUME NEW t, NEW u, NEW d, NEW st,
               PublishVersion(t, u, d, st) \/ SubmitReview(t, u, d) \/ SetVisibility(t, u, d) \/ find_fork_source(c, t, u)
        PROVE  FALSE
    BY Zenon, <2>1 DEF PublishVersion, SubmitReview, SetVisibility, find_fork_source
  <2>2. ~insert_fork(c) /\ \A v : ~find_forkable_definition(c, v)
    BY Zenon DEF insert_fork, find_forkable_definition
  <2> QED BY Zenon, <2>1, <2>2, <1>0, <1>2 DEF NextMarket, RestPublishVersion, RestSubmitReview,
            RestSetVisibility, RestMarketplaceFork, RestListVersions, RestListReviews, RestListMarketplace,
            ReadForkable, InsertFork
<1>3. ASSUME NEW c \in Callers, NextVersion(c) PROVE calls' = calls \/ \E d \in Callers : WriteVersion(d)
  <2>1. ASSUME NEW w, NEW t, NEW a,
               resolve_template_definition(c, w, t) \/ LockVersion(c, t) \/ ReadLocalSide(c, w, t, a)
               \/ merge_preview(c) \/ merge_apply(c)
        PROVE  FALSE
    BY Zenon, <2>1 DEF resolve_template_definition, LockVersion, ReadLocalSide, merge_preview, merge_apply
  <2>2. ASSUME NEW w, NEW s, ArchiveVersion(w, s) \/ DeleteVersion(w, s) \/ UseVersion(w, s)
        PROVE  calls' = calls
    BY Zenon, <2>2 DEF ArchiveVersion, DeleteVersion, UseVersion, store
  <2> QED BY Zenon, <2>1, <2>2, <1>0, <1>3 DEF NextVersion, RestCreateFromTemplate, McpCreateFromTemplate,
            RestCreateSchema, RestMergePreview, McpMergePreview, RestMergeApply, McpMergeApply,
            RestArchiveSchema, RestDeleteSchema, RestCreateContent, RestListUpstreamChanges,
            McpListUpstreamChanges, Resolve, Write, Preview, Apply
<1>4. ASSUME NEW c, NextFork(c) PROVE calls' = calls
  <2>1. ASSUME NEW w, NEW f, NEW d, NEW h, NEW s,
               CreateFork(w, f, d) \/ CustomizeFork(w, f, d, h) \/ FollowFork(w, f, d, h, s) \/ DeleteFork(w, f)
        PROVE  calls' = calls
    BY Zenon, <2>1 DEF CreateFork, CustomizeFork, FollowFork, DeleteFork, store
  <2> QED BY Zenon, <2>1, <1>0, <1>4 DEF NextFork, RestCreateFork, McpCreateFork, RestCustomizeFork,
            McpCustomizeFork, RestFollowFork, McpFollowFork, RestDeleteFork, McpDeleteFork, RestListForks,
            McpListForks, RestGetFork, McpGetFork
<1>5. ASSUME NEW c, Ends(c) PROVE FALSE
  BY Zenon, <1>5 DEF Ends, Abandon
<1>6. ASSUME NEW d, SeedUpserts(d) PROVE calls' = calls
  BY Zenon, <1>6 DEF SeedUpserts, upsert_template
<1>7. ~SeedPublishes /\ ~SeedCrashes
  BY Zenon DEF SeedPublishes, seed_official_templates, SeedCrashes, SeedStops
<1> QED BY Zenon, <1>1, <1>2, <1>3, <1>4, <1>5, <1>6, <1>7 DEF Next

(* What MergeCombines says of the version merged and the one written. *)
Combined(was, now) ==
    /\ now.def.relations = was.def.relations
    /\ \A f \in FieldNames(now.def) \cup FieldNames(was.def) \cup FieldNames(now.snapshot) :
         Part(now.def, f) = IF Part(was.def, f) # Part(was.snapshot, f)
                            THEN Part(was.def, f) ELSE Part(now.snapshot, f)

(* The step of MergeCombines, for the request that takes it. *)
LEMMA MergeWritten ==
    ASSUME TemplatesInv, NEW c \in Callers, WriteVersion(c), NEW m, m = calls[c].merges, m # None,
           Stored(schemas, m), NEW was, was = schemas[m], NEW now, now = schemas'[NextSchema(schemas)]
    PROVE  Combined(was, now)
<1>0. LibraryOK /\ TableOK(schemas) /\ OriginsOK /\ CallsOK
  BY Zenon DEF TemplatesInv, StoreOK
<1>1. PICK call : call = calls[c]
  OBVIOUS
<1>2. call.at = "writing" /\ m = call.merges
  BY Zenon, <1>1 DEF WriteVersion
<1>3. MakingOK(call)
  BY Zenon, <1>0, <1>1, <1>2 DEF CallsOK, CallOK
<1>4. Follows(call, call.origin.template, call.origin.snapshot, ~call.late /\ call.origin.noted)
  BY Zenon, <1>2, <1>3 DEF MakingOK
<1>5. Merges(m, call.def, call.origin.snapshot)
  BY Zenon, <1>2, <1>4 DEF Follows
<1>6. RowOK(was) /\ Defined(was.def)
  BY Zenon, <1>0, <1>5, RowsAreStored DEF Merges, RowOK
<1>7. now.def = call.def /\ now.snapshot = call.origin.snapshot
  BY Zenon, <1>0, <1>1, VersionWritten
<1>8. PICK base, upstream, local : base = was.snapshot /\ upstream = now.snapshot /\ local = was.def
  OBVIOUS
<1>9. now.def = apply_plan(three_way(base, upstream, local), upstream, local)
  BY Zenon, <1>5, <1>6, <1>7, <1>8 DEF Merges
<1>10. Defined(local)
  BY Zenon, <1>6, <1>8
<1> DEFINE d == apply_plan(three_way(base, upstream, local), upstream, local)
<1>11. /\ d.relations = local.relations
       /\ \A f \in FieldNames(d) \cup FieldNames(local) \cup FieldNames(upstream) :
            Part(d, f) = IF Part(local, f) # Part(base, f) THEN Part(local, f) ELSE Part(upstream, f)
  BY <1>10, PlanApplied
<1> HIDE DEF d
<1>12. now.def = d
  BY Zenon, <1>9 DEF d
<1> QED BY Zenon, <1>8, <1>11, <1>12 DEF Combined

(* A merge writes, field by field, what the workspace changed and the template's
   present field otherwise, whatever ran between its comparison and its write
   (merge_apply under the template's lock). *)
THEOREM MergeCombinesHolds == Spec => MergeCombines
<1> DEFINE Combines(c) ==
      calls[c].at = "writing" /\ schemas' # schemas /\ calls'[c] = Idle
      /\ calls[c].merges # None /\ Stored(schemas, calls[c].merges) =>
        Combined(schemas[calls[c].merges], schemas'[NextSchema(schemas)])
<1>1. TemplatesInv /\ [Next]_vars => [\A c \in Callers : Combines(c)]_vars
  <2> SUFFICES ASSUME TemplatesInv, Next, NEW c \in Callers PROVE Combines(c)
    BY Zenon
  <2> SUFFICES ASSUME calls[c].at = "writing", schemas' # schemas, calls'[c] = Idle,
                      calls[c].merges # None, Stored(schemas, calls[c].merges)
               PROVE  WriteVersion(c)
    BY Zenon, MergeWritten
  <2>1. calls' # calls
    <3>1. Idle.at # "writing"
      BY DEF Idle
    <3> QED BY Zenon, <3>1
  <2>2. PICK d \in Callers : WriteVersion(d)
    BY Zenon, <2>1, TableChanges
  <2>3. d = c
    <3>1. calls = [e \in Callers |-> calls[e]] /\ calls' = [calls EXCEPT ![d] = Idle]
      BY Zenon, <2>2 DEF TemplatesInv, StoreOK, CallsOK, WriteVersion
    <3>2. d # c => calls'[c] = calls[c]
      BY Zenon, <3>1
    <3>3. Idle.at # "writing"
      BY DEF Idle
    <3> QED BY Zenon, <3>2, <3>3
  <2> QED BY Zenon, <2>2, <2>3
<1> QED BY <1>1, TemplatesConsistent, PTL DEF Spec, MergeCombines, Combined

================================================================================

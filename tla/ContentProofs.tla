------------------------------ MODULE ContentProofs ------------------------------
(***************************************************************************)
(* What the operations on schemas, entities, relations, files and          *)
(* snapshots do to a content that is right: lemmas about the operators of   *)
(* SchemaVersions, Knowledge and BulkJobs, for any tables S, E and R.  Then *)
(* the inductive invariant of the store, KnowledgeInv, and one lemma per    *)
(* step of a caller or a job that the step keeps it.                        *)
(***************************************************************************)
EXTENDS BulkJobs, FiniteSetTheorems, WellFoundedInduction, TLAPS

(* A non-empty set of naturals has a least element: the form of induction the
   proofs below use, since it takes a set and no formula as its parameter. *)
LEMMA LeastNatural ==
    ASSUME NEW T, T \subseteq Nat, T # {}
    PROVE  \E n \in T : \A m \in T : n <= m
<1> DEFINE R == {ss \in Nat \X Nat : ss[1] < ss[2]}
<1>1. IsWellFoundedOn(R, Nat)
  BY Zenon, NatLessThanWellFounded DEF OpToRel
<1>2. PICK n \in T : \A m \in T : ~(<<m, n>> \in R)
  <2> HIDE DEF R
  <2> QED BY Zenon, <1>1, WFMin
<1>3. \A m \in T : ~(m < n)
  BY Zenon, <1>2
<1> QED
  BY <1>3

(* A set that holds zero and with every number its successor holds all of them. *)
LEMMA SetInduction ==
    ASSUME NEW S, 0 \in S, \A n \in Nat : n \in S => n + 1 \in S
    PROVE  Nat \subseteq S
<1> SUFFICES ASSUME Nat \ S # {} PROVE FALSE
  BY Zenon
<1>1. PICK n \in Nat \ S : \A m \in Nat \ S : n <= m
  BY Zenon, LeastNatural
<1>2. n # 0 /\ n - 1 \in Nat
  BY <1>1
<1>3. n - 1 \in S
  BY <1>1, <1>2
<1> QED
  BY <1>1, <1>2, <1>3

(* Min picks the least of a set of naturals. *)
LEMMA MinIsLeast ==
    ASSUME NEW T, T \subseteq Nat, T # {}
    PROVE  Min(T) \in T /\ \A m \in T : Min(T) <= m
BY Zenon, LeastNatural DEF Min

(* What a function takes on a finite set has a bound. *)
LEMMA FiniteIsBounded ==
    ASSUME NEW T, IsFiniteSet(T), NEW h, \A t \in T : h[t] \in Nat
    PROVE  \E b \in Nat : \A t \in T : h[t] <= b
<1> DEFINE Bounded(n) == \A f \in [1..n -> T] : \E b \in Nat : \A i \in 1..n : h[f[i]] <= b
           N == {n \in Nat : Bounded(n)}
<1>1. 0 \in N
  OBVIOUS
<1>2. ASSUME NEW n \in Nat, n \in N PROVE n + 1 \in N
  <2> SUFFICES Bounded(n + 1)
    <3> HIDE DEF Bounded
    <3> QED OBVIOUS
  <2> TAKE f \in [1..(n + 1) -> T]
  <2> DEFINE g == [i \in 1..n |-> f[i]]
  <2>1. g \in [1..n -> T]
    OBVIOUS
  <2>2. PICK b \in Nat : \A i \in 1..n : h[g[i]] <= b
    BY Zenon, <1>2, <2>1
  <2>3. h[f[n + 1]] \in Nat
    OBVIOUS
  <2> DEFINE d == IF h[f[n + 1]] <= b THEN b ELSE h[f[n + 1]]
  <2>4. d \in Nat /\ b <= d /\ h[f[n + 1]] <= d
    BY <2>3
  <2>5. ASSUME NEW i \in 1..(n + 1) PROVE h[f[i]] <= d
    <3>1. CASE i = n + 1
      BY Zenon, <3>1, <2>4
    <3>2. CASE i # n + 1
      <4>1. i \in 1..n
        BY <3>2
      <4>2. g[i] = f[i] /\ h[f[i]] \in Nat
        BY Zenon, <4>1
      <4> HIDE DEF d, g
      <4> QED BY <4>1, <4>2, <2>2, <2>4
    <3> QED BY Zenon, <3>1, <3>2
  <2> QED BY Zenon, <2>4, <2>5
<1>3. Nat \subseteq N
  <2> HIDE DEF N
  <2> QED BY Zenon, <1>1, <1>2, SetInduction
<1>4. PICK n \in Nat : ExistsBijection(1..n, T)
  BY Zenon, FS_NatBijection
<1>5. PICK f \in [1..n -> T] : \A t \in T : \E i \in 1..n : f[i] = t
  BY Zenon, <1>4 DEF ExistsBijection, Bijection, Injection, Surjection
<1>6. PICK b \in Nat : \A i \in 1..n : h[f[i]] <= b
  BY Zenon, <1>3, <1>5
<1> QED
  BY Zenon, <1>5, <1>6

(* A bounded set of naturals has a greatest element, which Max picks. *)
LEMMA MaxIsGreatest ==
    ASSUME NEW T, T \subseteq Nat, T # {}, NEW b \in Nat, \A m \in T : m <= b
    PROVE  Max(T) \in T /\ \A m \in T : m <= Max(T)
<1> DEFINE U == {n \in Nat : \A m \in T : m <= n}
<1>1. PICK u \in U : \A n \in U : u <= n
  BY Zenon, LeastNatural
<1>2. u \in T
  <2> SUFFICES ASSUME u \notin T PROVE FALSE
    BY Zenon
  <2>1. \A m \in T : m < u
    BY <1>1
  <2>2. u # 0 /\ u - 1 \in Nat
    <3>1. PICK m \in T : m \in Nat /\ m < u
      BY Zenon, <2>1
    <3> QED BY <3>1, <1>1
  <2>3. \A m \in T : m <= u - 1
    BY <2>1, <1>1
  <2>4. u - 1 \in U
    BY Zenon, <2>2, <2>3
  <2> QED BY <1>1, <2>2, <2>4
<1>3. \E x \in T : \A m \in T : x >= m
  BY Zenon, <1>1, <1>2
<1> QED
  BY Zenon, <1>3 DEF Max

(* The recursion of imported is sound: it runs line by line. *)
LEMMA ImportedRuns ==
    ASSUME NEW before, NEW lines, Len(lines) \in Nat
    PROVE  /\ imported(before, lines)[0] = before
           /\ \A n \in 1..Len(lines) :
                imported(before, lines)[n] = ImportLine(imported(before, lines)[n - 1], lines[n])
<1> DEFINE Runs(n) == \E f : f = [k \in 0..n |-> IF k = 0 THEN before ELSE ImportLine(f[k - 1], lines[k])]
           N == {n \in Nat : Runs(n)}
<1>1. 0 \in N
  <2>1. Runs(0)
    <3> DEFINE f == [k \in 0..0 |-> before]
    <3>1. f = [k \in 0..0 |-> IF k = 0 THEN before ELSE ImportLine(f[k - 1], lines[k])]
      OBVIOUS
    <3> QED BY Zenon, <3>1
  <2> HIDE DEF Runs
  <2> QED BY Zenon, <2>1
<1>2. ASSUME NEW n \in Nat, n \in N PROVE n + 1 \in N
  <2> SUFFICES Runs(n + 1)
    <3> HIDE DEF Runs
    <3> QED OBVIOUS
  <2>1. PICK f : f = [k \in 0..n |-> IF k = 0 THEN before ELSE ImportLine(f[k - 1], lines[k])]
    BY Zenon, <1>2
  <2> DEFINE g == [k \in 0..(n + 1) |-> IF k <= n THEN f[k] ELSE ImportLine(f[n], lines[n + 1])]
  <2>2. ASSUME NEW k \in 0..(n + 1)
        PROVE  g[k] = IF k = 0 THEN before ELSE ImportLine(g[k - 1], lines[k])
    <3>1. CASE k = 0
      BY <3>1, <2>1
    <3>2. CASE k # 0 /\ k <= n
      BY <3>2, <2>1
    <3>3. CASE k = n + 1
      BY <3>3, <2>1
    <3> QED BY <3>1, <3>2, <3>3
  <2>3. g = [k \in 0..(n + 1) |-> IF k = 0 THEN before ELSE ImportLine(g[k - 1], lines[k])]
    BY Zenon, <2>2
  <2> QED BY Zenon, <2>3
<1>3. Runs(Len(lines))
  <2>1. Nat \subseteq N
    <3> HIDE DEF N
    <3> QED BY Zenon, <1>1, <1>2, SetInduction
  <2> HIDE DEF Runs
  <2> QED BY Zenon, <2>1
<1> DEFINE run == imported(before, lines)
<1>4. run = [k \in 0..Len(lines) |-> IF k = 0 THEN before ELSE ImportLine(run[k - 1], lines[k])]
  BY Zenon, <1>3 DEF imported
<1>5. run[0] = before /\ \A n \in 1..Len(lines) : run[n] = ImportLine(run[n - 1], lines[n])
  <2> HIDE DEF run
  <2> QED BY <1>4
<1> QED
  BY Zenon, <1>5

(* So is that of restored: it runs snapshot by snapshot. *)
LEMMA RestoredRuns ==
    ASSUME NEW rows, NEW snaps, NEW j, Len(snaps) \in Nat
    PROVE  /\ restored(rows, snaps, j)[0] = rows
           /\ \A n \in 1..Len(snaps) :
                restored(rows, snaps, j)[n] =
                  IF snaps[n].job = j THEN Restore(restored(rows, snaps, j)[n - 1], snaps[n])
                  ELSE restored(rows, snaps, j)[n - 1]
<1> DEFINE Passed(r, n) == IF snaps[n].job = j THEN Restore(r, snaps[n]) ELSE r
           Runs(n) == \E f : f = [k \in 0..n |-> IF k = 0 THEN rows ELSE Passed(f[k - 1], k)]
           N == {n \in Nat : Runs(n)}
<1> HIDE DEF Passed
<1>1. 0 \in N
  <2>1. Runs(0)
    <3> DEFINE f == [k \in 0..0 |-> rows]
    <3>1. f = [k \in 0..0 |-> IF k = 0 THEN rows ELSE Passed(f[k - 1], k)]
      OBVIOUS
    <3> QED BY Zenon, <3>1
  <2> HIDE DEF Runs
  <2> QED BY Zenon, <2>1
<1>2. ASSUME NEW n \in Nat, n \in N PROVE n + 1 \in N
  <2> SUFFICES Runs(n + 1)
    <3> HIDE DEF Runs
    <3> QED OBVIOUS
  <2>1. PICK f : f = [k \in 0..n |-> IF k = 0 THEN rows ELSE Passed(f[k - 1], k)]
    BY Zenon, <1>2
  <2> DEFINE g == [k \in 0..(n + 1) |-> IF k <= n THEN f[k] ELSE Passed(f[n], n + 1)]
  <2>2. ASSUME NEW k \in 0..(n + 1)
        PROVE  g[k] = IF k = 0 THEN rows ELSE Passed(g[k - 1], k)
    <3>1. CASE k = 0
      BY <3>1, <2>1
    <3>2. CASE k # 0 /\ k <= n
      BY <3>2, <2>1
    <3>3. CASE k = n + 1
      BY <3>3, <2>1
    <3> QED BY <3>1, <3>2, <3>3
  <2>3. g = [k \in 0..(n + 1) |-> IF k = 0 THEN rows ELSE Passed(g[k - 1], k)]
    BY Zenon, <2>2
  <2> QED BY Zenon, <2>3
<1>3. Runs(Len(snaps))
  <2>1. Nat \subseteq N
    <3> HIDE DEF N
    <3> QED BY Zenon, <1>1, <1>2, SetInduction
  <2> HIDE DEF Runs
  <2> QED BY Zenon, <2>1
<1> DEFINE run == restored(rows, snaps, j)
<1>4. run = [k \in 0..Len(snaps) |-> IF k = 0 THEN rows ELSE Passed(run[k - 1], k)]
  BY Zenon, <1>3 DEF restored, Passed
<1>5. run[0] = rows /\ \A n \in 1..Len(snaps) : run[n] = Passed(run[n - 1], n)
  <2> HIDE DEF run
  <2> QED BY <1>4
<1> QED
  BY Zenon, <1>5 DEF Passed

-----------------------------------------------------------------------------
(* The schema table. *)

SchemaFields == {"ws", "name", "version", "def", "status", "origin", "snapshot", "noted", "linked"}

(* What every schema table satisfies: a name has at most one active version
   and its stored versions have distinct numbers. *)
TableOK(S) ==
    /\ S = [s \in SchemaIds |-> S[s]]
    /\ \A s \in SchemaIds :
         /\ S[s].status \in {"fresh", "gone", "active", "archived"}
         /\ "status" \in DOMAIN S[s]
    /\ \A s \in SchemaIds : Stored(S, s) =>
         /\ DOMAIN S[s] = SchemaFields
         /\ S[s].ws = Ws /\ S[s].version \in Nat
    /\ \A s, t \in SchemaIds : Stored(S, s) /\ Stored(S, t) /\ S[s].name = S[t].name =>
         /\ S[s].version = S[t].version => s = t
         /\ S[s].status = "active" /\ S[t].status = "active" => s = t

(* The versions stored in S are stored in T, under the same name and with the
   same definition. *)
KeptBy(S, T) ==
    \A s \in SchemaIds : Stored(S, s) =>
        Stored(T, s) /\ T[s].name = S[s].name /\ T[s].def = S[s].def

(* The active version of a name is the one that is stored as such. *)
LEMMA ActiveSchemaIsActive ==
    ASSUME NEW S, TableOK(S), NEW name, get_active_schema(S, Ws, name) # None
    PROVE  LET s == get_active_schema(S, Ws, name)
           IN s \in SchemaIds /\ S[s].status = "active" /\ Stored(S, s) /\ S[s].name = name
<1> DEFINE A == Active(S, Ws, name)
<1>1. A # {}
  BY Zenon DEF get_active_schema
<1>2. PICK s \in A : TRUE
  BY Zenon, <1>1
<1>3. \A t \in A : t = s
  BY Zenon, <1>2 DEF Active, Versions, TableOK
<1>4. S[s].version \in Nat
  BY Zenon, <1>2 DEF Active, Versions, TableOK
<1>5. \A t \in A : S[t].version <= S[s].version
  BY <1>3, <1>4
<1>6. Newest(S, A) \in A
  <2> HIDE DEF A
  <2> QED BY Zenon, <1>2, <1>5 DEF Newest
<1>7. get_active_schema(S, Ws, name) = Newest(S, A)
  BY Zenon, <1>1 DEF get_active_schema
<1> QED
  BY Zenon, <1>6, <1>7 DEF Active, Versions, Stored

(* Every stored version of the name has a smaller number than the next one. *)
LEMMA LatestVersion ==
    ASSUME NEW S, TableOK(S), NEW name
    PROVE  /\ latest_version(S, Ws, name) \in Nat
           /\ \A s \in Versions(S, Ws, name) : S[s].version <= latest_version(S, Ws, name)
<1> DEFINE V == Versions(S, Ws, name)
           N == {0} \cup {S[s].version : s \in V}
           h == [s \in V |-> S[s].version]
<1>1. IsFiniteSet(V)
  BY Zenon, SchemaIdsAssumption, FS_Subset DEF Versions
<1>2. \A s \in V : S[s].version \in Nat
  BY Zenon DEF TableOK, Versions
<1>3. \A s \in V : h[s] \in Nat /\ h[s] = S[s].version
  BY Zenon, <1>2
<1>4. PICK b \in Nat : \A s \in V : h[s] <= b
  <2> HIDE DEF V, h
  <2> QED BY Zenon, <1>1, <1>3, FiniteIsBounded
<1>5. N \subseteq Nat /\ N # {} /\ \A m \in N : m <= b
  BY <1>2, <1>3, <1>4
<1>6. Max(N) \in N /\ \A m \in N : m <= Max(N)
  <2> HIDE DEF N
  <2> QED BY Zenon, <1>5, MaxIsGreatest
<1>7. latest_version(S, Ws, name) = Max(N)
  BY Zenon DEF latest_version
<1> HIDE DEF V
<1> QED
  BY Zenon, <1>5, <1>6, <1>7 DEF V

(* What create_schema leaves. *)
LEMMA CreatedTable ==
    ASSUME NEW S, TableOK(S), HasRoom(S), NEW def, NEW template, NEW snapshot
    PROVE  LET T == create_schema(S, Ws, def, template, snapshot)
           IN /\ NextSchema(S) \in SchemaIds
              /\ Stored(T, NextSchema(S))
              /\ KeptBy(S, T)
              /\ TableOK(T)
<1> DEFINE n == NextSchema(S)
           F == {s \in SchemaIds : S[s].status = "fresh"}
           A == Active(S, Ws, def.name)
           v == latest_version(S, Ws, def.name) + 1
           T == create_schema(S, Ws, def, template, snapshot)
<1>1. n \in F
  <2>1. F # {} /\ F \subseteq Nat
    BY Zenon, SchemaIdsAssumption DEF HasRoom
  <2>2. n = Min(F)
    BY Zenon DEF NextSchema
  <2> HIDE DEF F, n
  <2> QED BY Zenon, <2>1, <2>2, MinIsLeast
<1>2. /\ v \in Nat
      /\ \A s \in Versions(S, Ws, def.name) : S[s].version < v /\ S[s].version \in Nat
  <2>1. \A s \in Versions(S, Ws, def.name) : S[s].version \in Nat
    BY Zenon DEF TableOK, Versions
  <2> QED BY <2>1, LatestVersion
<1>3. PICK o : T = InsertVersion(S, Ws, def, o)
  BY Zenon DEF create_schema
<1>4. n \in SchemaIds /\ ~Stored(S, n) /\ n \notin A
  BY Zenon, <1>1 DEF Stored, Active, Versions
<1> HIDE DEF n, F, v, T, A
<1>5. T = [s \in SchemaIds |->
             CASE s = n -> SchemaRow(Ws, def, v, "active", o.template, o.snapshot, o.noted)
               [] s # n /\ s \in A -> [S[s] EXCEPT !.status = "archived"]
               [] OTHER -> S[s]]
  BY Zenon, <1>3 DEF InsertVersion, n, A, v
<1>6. T[n] = SchemaRow(Ws, def, v, "active", o.template, o.snapshot, o.noted)
  BY Zenon, <1>4, <1>5
<1>7. /\ DOMAIN T[n] = SchemaFields /\ T[n].ws = Ws /\ T[n].name = def.name /\ T[n].version = v
      /\ T[n].status = "active"
  BY <1>6 DEF SchemaRow, SchemaFields
<1>8. ASSUME NEW s \in SchemaIds, s # n, s \in A
      PROVE  /\ Stored(S, s) /\ Stored(T, s) /\ T[s].status = "archived" /\ S[s].name = def.name
             /\ T[s].name = S[s].name /\ T[s].def = S[s].def /\ T[s].ws = S[s].ws
             /\ T[s].version = S[s].version /\ DOMAIN T[s] = DOMAIN S[s]
  <2>1. T[s] = [S[s] EXCEPT !.status = "archived"]
    BY Zenon, <1>5, <1>8
  <2>2. Stored(S, s) /\ DOMAIN S[s] = SchemaFields /\ S[s].name = def.name
    BY Zenon, <1>8 DEF A, Active, Versions, TableOK
  <2> QED BY Zenon, <2>1, <2>2 DEF Stored, SchemaFields
<1>9. ASSUME NEW s \in SchemaIds, s # n, s \notin A PROVE T[s] = S[s]
  BY Zenon, <1>5, <1>9
<1>10. \A s \in SchemaIds : s # n /\ Stored(S, s) /\ S[s].name = def.name => s \in Versions(S, Ws, def.name)
  BY Zenon DEF Versions, TableOK
<1>11. \A s \in SchemaIds : s # n /\ Stored(T, s) =>
         /\ Stored(S, s) /\ T[s].name = S[s].name /\ T[s].def = S[s].def /\ T[s].ws = S[s].ws
         /\ T[s].version = S[s].version /\ DOMAIN T[s] = DOMAIN S[s]
         /\ T[s].status = "active" => S[s].status = "active" /\ T[s].name # def.name
  <2>1. ASSUME NEW s \in SchemaIds, s # n, s \notin A, Stored(S, s)
        PROVE  S[s].status = "active" => S[s].name # def.name
    BY Zenon, <2>1, <1>10 DEF A, Active
  <2> QED BY Zenon, <2>1, <1>8, <1>9 DEF Stored
<1>12. KeptBy(S, T)
  BY Zenon, <1>4, <1>8, <1>9 DEF KeptBy, Stored
<1>13. TableOK(T)
  <2>1. T = [s \in SchemaIds |-> T[s]]
    BY Zenon, <1>5
  <2>2. ASSUME NEW s \in SchemaIds
        PROVE  T[s].status \in {"fresh", "gone", "active", "archived"} /\ "status" \in DOMAIN T[s]
    <3>1. CASE s = n
      BY Zenon, <3>1, <1>7 DEF SchemaFields
    <3>2. CASE s # n /\ s \in A
      BY Zenon, <3>2, <1>8 DEF TableOK
    <3>3. CASE s # n /\ s \notin A
      BY Zenon, <3>3, <1>9 DEF TableOK
    <3> QED BY Zenon, <3>1, <3>2, <3>3
  <2>3. ASSUME NEW s \in SchemaIds, Stored(T, s)
        PROVE  DOMAIN T[s] = SchemaFields /\ T[s].ws = Ws /\ T[s].version \in Nat
    <3>1. CASE s = n
      BY Zenon, <3>1, <1>7, <1>2
    <3>2. CASE s # n
      BY Zenon, <3>2, <2>3, <1>11 DEF TableOK
    <3> QED BY Zenon, <3>1, <3>2
  <2>4. ASSUME NEW s \in SchemaIds, s # n, Stored(T, s), T[s].name = def.name
        PROVE  T[s].version < v /\ T[s].version \in Nat /\ T[s].status # "active"
    BY Zenon, <2>4, <1>2, <1>10, <1>11
  <2>5. ASSUME NEW s \in SchemaIds, NEW t \in SchemaIds, Stored(T, s), Stored(T, t), T[s].name = T[t].name
        PROVE  /\ T[s].version = T[t].version => s = t
               /\ T[s].status = "active" /\ T[t].status = "active" => s = t
    <3>1. CASE s = n /\ t = n
      BY Zenon, <3>1
    <3>2. CASE s = n /\ t # n
      <4>1. T[t].version < v /\ T[t].version \in Nat /\ T[t].status # "active"
        BY Zenon, <3>2, <2>4, <2>5, <1>7
      <4> QED BY <4>1, <3>2, <1>7, <1>2
    <3>3. CASE s # n /\ t = n
      <4>1. T[s].version < v /\ T[s].version \in Nat /\ T[s].status # "active"
        BY Zenon, <3>3, <2>4, <2>5, <1>7
      <4> QED BY <4>1, <3>3, <1>7, <1>2
    <3>4. CASE s # n /\ t # n
      BY <3>4, <2>5, <1>11 DEF TableOK
    <3> QED BY Zenon, <3>1, <3>2, <3>3, <3>4
  <2> QED BY Zenon, <2>1, <2>2, <2>3, <2>5 DEF TableOK
<1>14. Stored(T, n)
  BY Zenon, <1>7 DEF Stored
<1> QED
  BY Zenon, <1>4, <1>12, <1>13, <1>14 DEF n, T

(* What archive leaves. *)
LEMMA ArchivedTable ==
    ASSUME NEW S, TableOK(S), NEW s \in SchemaIds
    PROVE  KeptBy(S, archive(S, s)) /\ TableOK(archive(S, s))
<1> DEFINE T == archive(S, s)
<1>1. CASE S[s].status # "active"
  BY Zenon, <1>1 DEF archive, KeptBy
<1>2. CASE S[s].status = "active"
  <2>1. T = [S EXCEPT ![s].status = "archived"] /\ Stored(S, s) /\ DOMAIN S[s] = SchemaFields
    BY Zenon, <1>2 DEF archive, Stored, TableOK
  <2> HIDE DEF T
  <2>2. T = [t \in SchemaIds |-> T[t]]
    BY Zenon, <2>1 DEF TableOK
  <2>3. ASSUME NEW t \in SchemaIds
        PROVE  /\ Stored(T, t) <=> Stored(S, t)
               /\ T[t].status \in {"fresh", "gone", "active", "archived"} /\ "status" \in DOMAIN T[t]
               /\ T[t].status = "active" => S[t].status = "active"
               /\ Stored(S, t) => /\ T[t].name = S[t].name /\ T[t].def = S[t].def /\ T[t].ws = S[t].ws
                                  /\ T[t].version = S[t].version /\ DOMAIN T[t] = DOMAIN S[t]
    <3>1. CASE t = s
      <4>1. T[t] = [S[s] EXCEPT !.status = "archived"]
        BY Zenon, <3>1, <2>1 DEF TableOK
      <4> QED BY <4>1, <3>1, <2>1 DEF Stored, SchemaFields
    <3>2. CASE t # s
      <4>1. T[t] = S[t]
        BY Zenon, <3>2, <2>1 DEF TableOK
      <4> QED BY Zenon, <4>1 DEF Stored, TableOK
    <3> QED BY Zenon, <3>1, <3>2
  <2>4. KeptBy(S, T)
    BY Zenon, <2>3 DEF KeptBy
  <2>5. TableOK(T)
    <3>1. \A t \in SchemaIds : Stored(T, t) =>
            DOMAIN T[t] = SchemaFields /\ T[t].ws = Ws /\ T[t].version \in Nat
      BY Zenon, <2>3 DEF TableOK
    <3>2. ASSUME NEW t \in SchemaIds, NEW u \in SchemaIds, Stored(T, t), Stored(T, u), T[t].name = T[u].name
          PROVE  /\ T[t].version = T[u].version => t = u
                 /\ T[t].status = "active" /\ T[u].status = "active" => t = u
      BY <3>2, <2>3 DEF TableOK
    <3> QED BY Zenon, <2>2, <2>3, <3>1, <3>2 DEF TableOK
  <2> QED BY Zenon, <2>4, <2>5 DEF T
<1> QED BY Zenon, <1>1, <1>2

(* What delete_schema leaves. *)
LEMMA DeletedTable ==
    ASSUME NEW S, TableOK(S), NEW d \in SchemaIds
    PROVE  /\ TableOK(delete_schema(S, d))
           /\ \A s \in SchemaIds \ {d} : delete_schema(S, d)[s] = S[s]
<1> DEFINE T == delete_schema(S, d)
<1>1. /\ T = [s \in SchemaIds |-> T[s]] /\ T[d] = GoneSchema
      /\ \A s \in SchemaIds \ {d} : T[s] = S[s]
  BY Zenon DEF delete_schema, TableOK
<1>2. T[d].status = "gone" /\ "status" \in DOMAIN T[d] /\ ~Stored(T, d)
  BY <1>1 DEF GoneSchema, Stored
<1> HIDE DEF T
<1>3. TableOK(T)
  BY <1>1, <1>2 DEF TableOK, Stored
<1> QED BY Zenon, <1>1, <1>3 DEF T

-----------------------------------------------------------------------------
(* The content. *)

EntityFields == {"state", "schema", "type", "data", "rev", "by"}
RelationFields == {"state", "source", "target", "type", "status"}
States == {"fresh", "live", "gone"}

(* A live entity names a stored version, and unless fill-defaults wrote its
   data that version accepts it. *)
EntityOK(S, row) ==
    /\ DOMAIN row = EntityFields
    /\ row.schema \in SchemaIds /\ Stored(S, row.schema)
    /\ row.by # "fill" => Accepts(S, row.schema, row.type, row.data)

RowsOK(S, E) ==
    /\ E = [e \in EntityIds |-> E[e]]
    /\ \A e \in EntityIds : E[e].state \in States
    /\ \A e \in LiveIn(E) : EntityOK(S, E[e])

EdgesOK(S, E, R) ==
    /\ R = [x \in RelationIds |-> R[x]]
    /\ \A x \in RelationIds : R[x].state \in States
    /\ \A x \in LiveIn(R) :
         /\ DOMAIN R[x] = RelationFields
         /\ {R[x].source, R[x].target} \subseteq LiveIn(E)
         /\ validate_relation_type(S, E, R[x].source, R[x].target, R[x].type)
         /\ \A y \in LiveIn(R) : SameEdge(R[x], R[y]) => x = y

HomeOK(S, h) == h.schema # None => h.schema \in SchemaIds /\ Stored(S, h.schema)

ContentOK(S, h, E, R) == TableOK(S) /\ HomeOK(S, h) /\ RowsOK(S, E) /\ EdgesOK(S, E, R)

(* No id is reused, and an entity that lives on keeps its type and the
   definition it was checked against. *)
Continues(S, E, T, F) ==
    \A e \in EntityIds : E[e].state # "fresh" =>
        /\ F[e].state # "fresh"
        /\ F[e].state = "live" =>
             /\ E[e].state = "live"
             /\ F[e].schema = E[e].schema /\ F[e].type = E[e].type
             /\ T[F[e].schema].def = S[E[e].schema].def

(* Relations survive whatever lets their entities live on. *)
LEMMA EdgesKept ==
    ASSUME NEW S, NEW E, NEW R, NEW T, NEW F, RowsOK(S, E), EdgesOK(S, E, R), RowsOK(T, F),
           Continues(S, E, T, F), LiveIn(E) \subseteq LiveIn(F)
    PROVE  EdgesOK(T, F, R)
<1> SUFFICES ASSUME NEW x \in LiveIn(R)
             PROVE  /\ {R[x].source, R[x].target} \subseteq LiveIn(F)
                    /\ validate_relation_type(T, F, R[x].source, R[x].target, R[x].type)
  BY Zenon DEF EdgesOK
<1> DEFINE a == R[x].source
           b == R[x].target
<1>1. {a, b} \subseteq LiveIn(E) /\ validate_relation_type(S, E, a, b, R[x].type)
  BY Zenon DEF EdgesOK
<1>2. a \in EntityIds /\ b \in EntityIds /\ E[a].state = "live" /\ E[b].state = "live"
  BY Zenon, <1>1 DEF RowsOK, LiveIn
<1>3. F[a].state = "live" /\ F[b].state = "live"
  BY Zenon, <1>1 DEF LiveIn
<1> HIDE DEF a, b
<1>4. F[a].type = E[a].type /\ F[b].type = E[b].type /\ T[F[a].schema].def = S[E[a].schema].def
  BY Zenon, <1>2, <1>3 DEF Continues
<1>5. validate_relation_type(T, F, a, b, R[x].type)
  BY Zenon, <1>1, <1>4 DEF validate_relation_type
<1> QED BY Zenon, <1>1, <1>5 DEF a, b

(* A step on the schema table leaves the content in order when the versions
   that live entities name are kept. *)
LEMMA SchemaStep ==
    ASSUME NEW S, NEW h, NEW E, NEW R, NEW T, NEW g, ContentOK(S, h, E, R), TableOK(T), HomeOK(T, g),
           \A e \in LiveIn(E) : Stored(T, E[e].schema) /\ T[E[e].schema].def = S[E[e].schema].def
    PROVE  ContentOK(T, g, E, R) /\ Continues(S, E, T, E)
<1>1. \A e \in LiveIn(E) : EntityOK(S, E[e])
  BY Zenon DEF ContentOK, RowsOK
<1>2. \A e \in LiveIn(E) : EntityOK(T, E[e])
  BY Zenon, <1>1 DEF EntityOK, Accepts
<1>3. RowsOK(T, E)
  BY Zenon, <1>2 DEF ContentOK, RowsOK
<1>4. DOMAIN E = EntityIds
  BY Zenon DEF ContentOK, RowsOK
<1>5. Continues(S, E, T, E)
  BY Zenon, <1>4 DEF Continues, LiveIn
<1>6. EdgesOK(T, E, R)
  BY Zenon, <1>3, <1>5, EdgesKept DEF ContentOK
<1> QED BY Zenon, <1>3, <1>5, <1>6 DEF ContentOK

(* F holds the rows of E, some with other data their version accepts. *)
Rewrites(S, E, F) ==
    /\ F = [e \in EntityIds |-> F[e]]
    /\ \A e \in EntityIds : F[e].state = E[e].state
    /\ \A e \in LiveIn(E) : EntityOK(S, F[e]) /\ F[e].schema = E[e].schema /\ F[e].type = E[e].type

(* Rewriting data in place (an update, the fill, an undo) keeps the whole content true. *)
LEMMA RewriteStep ==
    ASSUME NEW S, NEW h, NEW E, NEW R, NEW F, ContentOK(S, h, E, R), Rewrites(S, E, F)
    PROVE  ContentOK(S, h, F, R) /\ Continues(S, E, S, F) /\ LiveIn(F) = LiveIn(E)
<1>1. DOMAIN E = EntityIds /\ DOMAIN F = EntityIds
  BY Zenon DEF ContentOK, RowsOK, Rewrites
<1>2. LiveIn(F) = LiveIn(E)
  BY Zenon, <1>1 DEF Rewrites, LiveIn
<1>3. RowsOK(S, F)
  BY Zenon, <1>2 DEF Rewrites, RowsOK, ContentOK
<1>4. Continues(S, E, S, F)
  BY Zenon, <1>1 DEF Rewrites, Continues, LiveIn
<1>5. EdgesOK(S, F, R)
  BY Zenon, <1>2, <1>3, <1>4, EdgesKept DEF ContentOK
<1> QED BY Zenon, <1>2, <1>3, <1>4, <1>5 DEF ContentOK

(* The next id is a fresh one. *)
LEMMA FreshRow ==
    ASSUME NEW ids, ids \subseteq Nat, NEW rows, rows = [i \in ids |-> rows[i]], Fresh(rows) # {}
    PROVE  Min(Fresh(rows)) \in ids /\ rows[Min(Fresh(rows))].state = "fresh"
<1>1. Fresh(rows) \subseteq ids
  BY Zenon DEF Fresh
<1>2. Min(Fresh(rows)) \in Fresh(rows)
  BY Zenon, <1>1, MinIsLeast
<1> QED BY Zenon, <1>1, <1>2 DEF Fresh

(* An inserted entity. *)
LEMMA InsertStep ==
    ASSUME NEW S, NEW h, NEW E, NEW R, NEW row, ContentOK(S, h, E, R), Fresh(E) # {},
           row.state = "live", EntityOK(S, row),
           NEW n, n = Min(Fresh(E)), NEW F, F = Insert(E, row)
    PROVE  /\ ContentOK(S, h, F, R) /\ Continues(S, E, S, F)
           /\ n \in EntityIds /\ n \notin LiveIn(E) /\ LiveIn(F) = LiveIn(E) \cup {n}
<1>1. E = [e \in EntityIds |-> E[e]]
  BY Zenon DEF ContentOK, RowsOK
<1>2. n \in EntityIds /\ E[n].state = "fresh"
  BY Zenon, <1>1, KnowledgeAssumption, FreshRow
<1>3. F = [E EXCEPT ![n] = row]
  BY Zenon DEF Insert
<1>4. /\ F = [e \in EntityIds |-> F[e]] /\ F[n] = row
      /\ \A e \in EntityIds \ {n} : F[e] = E[e]
  BY Zenon, <1>1, <1>2, <1>3
<1>5. n \notin LiveIn(E) /\ LiveIn(F) = LiveIn(E) \cup {n}
  BY <1>1, <1>2, <1>4 DEF LiveIn
<1>6. \A e \in LiveIn(F) : EntityOK(S, F[e])
  <2>1. \A e \in LiveIn(E) : e \in EntityIds /\ EntityOK(S, E[e])
    BY Zenon, <1>1 DEF ContentOK, RowsOK, LiveIn
  <2> QED BY Zenon, <2>1, <1>4, <1>5
<1>7. RowsOK(S, F)
  <2>1. \A e \in EntityIds : F[e].state \in States
    BY Zenon, <1>4 DEF ContentOK, RowsOK, States
  <2> QED BY Zenon, <2>1, <1>4, <1>6 DEF RowsOK
<1>8. Continues(S, E, S, F)
  BY Zenon, <1>2, <1>4 DEF Continues
<1>9. EdgesOK(S, F, R)
  BY Zenon, <1>5, <1>7, <1>8, EdgesKept DEF ContentOK
<1> QED BY Zenon, <1>2, <1>5, <1>7, <1>8, <1>9 DEF ContentOK

(* The entities once d is gone. *)
Without(E, d) == [E EXCEPT ![d] = GoneEntity]

(* The relations once the entity d, and with it those it is an end of, are gone. *)
Detached(R, d) ==
    [x \in RelationIds |-> IF x \in LiveIn(R) /\ d \in {R[x].source, R[x].target}
                           THEN [state |-> "gone"] ELSE R[x]]

(* A deleted entity, its relations with it. *)
LEMMA DeleteStep ==
    ASSUME NEW S, NEW h, NEW E, NEW R, NEW d \in LiveIn(E), NEW F, NEW Q, ContentOK(S, h, E, R),
           F = Without(E, d), Q = Detached(R, d)
    PROVE  ContentOK(S, h, F, Q) /\ Continues(S, E, S, F) /\ LiveIn(F) = LiveIn(E) \ {d}
<1>1. E = [e \in EntityIds |-> E[e]] /\ d \in EntityIds
  BY Zenon DEF ContentOK, RowsOK, LiveIn
<1>2. /\ F = [e \in EntityIds |-> F[e]] /\ F[d] = GoneEntity
      /\ \A e \in EntityIds \ {d} : F[e] = E[e]
  BY Zenon, <1>1 DEF Without
<1>3. LiveIn(F) = LiveIn(E) \ {d}
  BY <1>1, <1>2 DEF LiveIn, GoneEntity
<1>4. \A e \in LiveIn(F) : e \in EntityIds \ {d} /\ F[e] = E[e]
  BY Zenon, <1>1, <1>2, <1>3 DEF LiveIn
<1>5. RowsOK(S, F)
  <2>1. \A e \in EntityIds : F[e].state \in States
    BY <1>2 DEF ContentOK, RowsOK, States, GoneEntity
  <2>2. \A e \in LiveIn(F) : EntityOK(S, F[e])
    BY Zenon, <1>3, <1>4 DEF ContentOK, RowsOK
  <2> QED BY Zenon, <2>1, <2>2, <1>2 DEF RowsOK
<1>6. Continues(S, E, S, F)
  BY <1>2 DEF Continues, GoneEntity
<1>7. EdgesOK(S, F, Q)
  <2>1. R = [x \in RelationIds |-> R[x]] /\ \A x \in RelationIds : R[x].state \in States
    BY Zenon DEF ContentOK, EdgesOK
  <2>2. Q = [x \in RelationIds |-> Q[x]] /\ \A x \in RelationIds : Q[x].state \in States
    BY Zenon, <2>1 DEF States, Detached
  <2>3. \A x \in LiveIn(Q) : x \in LiveIn(R) /\ Q[x] = R[x] /\ d \notin {R[x].source, R[x].target}
    BY Zenon, <2>1 DEF LiveIn, Detached
  <2>4. ASSUME NEW x \in LiveIn(Q)
        PROVE  /\ DOMAIN Q[x] = RelationFields
               /\ {Q[x].source, Q[x].target} \subseteq LiveIn(F)
               /\ validate_relation_type(S, F, Q[x].source, Q[x].target, Q[x].type)
    <3>1. /\ DOMAIN R[x] = RelationFields
          /\ {R[x].source, R[x].target} \subseteq LiveIn(E)
          /\ validate_relation_type(S, E, R[x].source, R[x].target, R[x].type)
      BY Zenon, <2>3 DEF ContentOK, EdgesOK
    <3>2. R[x].source \in LiveIn(F) /\ R[x].target \in LiveIn(F)
      BY Zenon, <3>1, <2>3, <1>3
    <3>3. F[R[x].source] = E[R[x].source] /\ F[R[x].target] = E[R[x].target]
      BY Zenon, <3>2, <1>4
    <3>4. validate_relation_type(S, F, R[x].source, R[x].target, R[x].type)
      BY Zenon, <3>1, <3>3 DEF validate_relation_type
    <3> QED BY Zenon, <3>1, <3>2, <3>4, <2>3
  <2>5. \A x \in LiveIn(Q) : \A y \in LiveIn(Q) : SameEdge(Q[x], Q[y]) => x = y
    BY Zenon, <2>3 DEF ContentOK, EdgesOK
  <2> QED BY Zenon, <2>2, <2>4, <2>5 DEF EdgesOK
<1> QED BY Zenon, <1>3, <1>5, <1>6, <1>7 DEF ContentOK

(* An inserted relation. *)
LEMMA RelateStep ==
    ASSUME NEW S, NEW h, NEW E, NEW R, NEW row, ContentOK(S, h, E, R), Fresh(R) # {},
           row.state = "live", DOMAIN row = RelationFields, insertable(E, R, row),
           validate_relation_type(S, E, row.source, row.target, row.type)
    PROVE  ContentOK(S, h, E, Insert(R, row))
<1> DEFINE n == Min(Fresh(R))
           Q == Insert(R, row)
<1>1. R = [x \in RelationIds |-> R[x]] /\ \A x \in RelationIds : R[x].state \in States
  BY Zenon DEF ContentOK, EdgesOK
<1>2. n \in RelationIds /\ R[n].state = "fresh"
  BY Zenon, <1>1, KnowledgeAssumption, FreshRow
<1> HIDE DEF n
<1>3. Q = [R EXCEPT ![n] = row]
  BY Zenon DEF Insert, n
<1> HIDE DEF Q
<1>4. /\ Q = [x \in RelationIds |-> Q[x]] /\ Q[n] = row
      /\ \A x \in RelationIds \ {n} : Q[x] = R[x]
  BY Zenon, <1>1, <1>2, <1>3
<1>5. n \notin LiveIn(R) /\ LiveIn(Q) = LiveIn(R) \cup {n} /\ \A x \in LiveIn(R) : Q[x] = R[x]
  BY Zenon, <1>1, <1>2, <1>4 DEF LiveIn
<1>6. \A x \in RelationIds : Q[x].state \in States
  BY Zenon, <1>1, <1>4 DEF States
<1>7. ASSUME NEW x \in LiveIn(Q)
      PROVE  /\ DOMAIN Q[x] = RelationFields
             /\ {Q[x].source, Q[x].target} \subseteq LiveIn(E)
             /\ validate_relation_type(S, E, Q[x].source, Q[x].target, Q[x].type)
  <2>1. CASE x = n
    BY Zenon, <2>1, <1>4 DEF insertable
  <2>2. CASE x \in LiveIn(R)
    BY Zenon, <2>2, <1>5 DEF ContentOK, EdgesOK
  <2> QED BY Zenon, <2>1, <2>2, <1>5
<1>8. ASSUME NEW x \in LiveIn(Q), NEW y \in LiveIn(Q), SameEdge(Q[x], Q[y]) PROVE x = y
  <2>1. \A z \in LiveIn(R) : ~SameEdge(R[z], row) /\ ~SameEdge(row, R[z])
    BY Zenon DEF insertable, SameEdge
  <2>2. CASE x = n /\ y \in LiveIn(R)
    BY Zenon, <2>1, <2>2, <1>4, <1>5, <1>8
  <2>3. CASE x \in LiveIn(R) /\ y = n
    BY Zenon, <2>1, <2>3, <1>4, <1>5, <1>8
  <2>4. CASE x \in LiveIn(R) /\ y \in LiveIn(R)
    <3>1. SameEdge(R[x], R[y])
      BY Zenon, <2>4, <1>5, <1>8
    <3> QED BY Zenon, <3>1, <2>4 DEF ContentOK, EdgesOK
  <2> QED BY Zenon, <2>2, <2>3, <2>4, <1>5
<1>9. EdgesOK(S, E, Q)
  BY Zenon, <1>4, <1>6, <1>7, <1>8 DEF EdgesOK
<1> QED BY Zenon, <1>9 DEF ContentOK, Q

(* A relation whose status changes, or that goes. *)
LEMMA RelationStep ==
    ASSUME NEW S, NEW h, NEW E, NEW R, NEW Q, ContentOK(S, h, E, R),
           Q = [x \in RelationIds |-> Q[x]], NEW n \in LiveIn(R),
           \A x \in RelationIds \ {n} : Q[x] = R[x],
           \/ Q[n] = [state |-> "gone"]
           \/ \E status : Q[n] = [R[n] EXCEPT !.status = status]
    PROVE  ContentOK(S, h, E, Q)
<1>1. R = [x \in RelationIds |-> R[x]] /\ \A x \in RelationIds : R[x].state \in States
  BY Zenon DEF ContentOK, EdgesOK
<1>2. n \in RelationIds /\ DOMAIN R[n] = RelationFields /\ R[n].state = "live"
  BY Zenon, <1>1 DEF ContentOK, EdgesOK, LiveIn
<1>3. Q[n].state \in {"live", "gone"}
  BY <1>2 DEF RelationFields
<1>4. Q[n].state = "live" => /\ DOMAIN Q[n] = RelationFields
                             /\ Q[n].source = R[n].source /\ Q[n].target = R[n].target
                             /\ Q[n].type = R[n].type
  BY <1>2 DEF RelationFields
<1>5. \A x \in LiveIn(Q) : /\ x \in LiveIn(R) /\ DOMAIN Q[x] = DOMAIN R[x]
                           /\ Q[x].source = R[x].source /\ Q[x].target = R[x].target
                           /\ Q[x].type = R[x].type
  BY Zenon, <1>1, <1>2, <1>4 DEF LiveIn
<1>6. \A x \in RelationIds : Q[x].state \in States
  BY Zenon, <1>1, <1>3 DEF States
<1>7. ASSUME NEW x \in LiveIn(Q)
      PROVE  /\ DOMAIN Q[x] = RelationFields
             /\ {Q[x].source, Q[x].target} \subseteq LiveIn(E)
             /\ validate_relation_type(S, E, Q[x].source, Q[x].target, Q[x].type)
  <2>1. /\ DOMAIN R[x] = RelationFields
        /\ {R[x].source, R[x].target} \subseteq LiveIn(E)
        /\ validate_relation_type(S, E, R[x].source, R[x].target, R[x].type)
    BY Zenon, <1>5, <1>7 DEF ContentOK, EdgesOK
  <2> QED BY Zenon, <1>5, <2>1
<1>8. ASSUME NEW x \in LiveIn(Q), NEW y \in LiveIn(Q), SameEdge(Q[x], Q[y]) PROVE x = y
  <2>1. SameEdge(R[x], R[y]) /\ x \in LiveIn(R) /\ y \in LiveIn(R)
    BY Zenon, <1>5, <1>8 DEF SameEdge
  <2> QED BY Zenon, <2>1 DEF ContentOK, EdgesOK
<1>9. EdgesOK(S, E, Q)
  BY Zenon, <1>6, <1>7, <1>8 DEF EdgesOK
<1> QED BY Zenon, <1>9 DEF ContentOK

-----------------------------------------------------------------------------
(* Undo. *)

(* A snapshot of an entity that is still there was taken under the entity's
   version and holds data that version accepts, unless fill-defaults wrote it. *)
SnapOK(S, E, snap) ==
    /\ snap.entity \in EntityIds /\ E[snap.entity].state # "fresh"
    /\ E[snap.entity].state = "live" =>
         /\ snap.row.schema = E[snap.entity].schema /\ snap.row.type = E[snap.entity].type
         /\ snap.row.by # "fill" => Accepts(S, snap.row.schema, snap.row.type, snap.row.data)

(* Undo puts one snapshot back: the entity keeps its version and type, and the
   data is what that version accepted when the snapshot was taken. *)
LEMMA RestoreRewrites ==
    ASSUME NEW S, NEW E, NEW F, NEW snap, RowsOK(S, E), Rewrites(S, E, F), SnapOK(S, E, snap)
    PROVE  Rewrites(S, E, Restore(F, snap))
<1> DEFINE e == snap.entity
           G == Restore(F, snap)
<1>1. CASE F[e].state # "live"
  BY Zenon, <1>1 DEF Restore
<1>2. CASE F[e].state = "live"
  <2>1. e \in EntityIds /\ E[e].state = "live" /\ e \in LiveIn(E)
    BY Zenon, <1>2 DEF SnapOK, Rewrites, RowsOK, LiveIn
  <2>2. F[e].schema = E[e].schema /\ F[e].type = E[e].type /\ EntityOK(S, E[e])
    BY Zenon, <2>1 DEF Rewrites, RowsOK
  <2>3. G = [F EXCEPT ![e] = EntityRow(snap.row.schema, @.type, snap.row.data, @.rev + 1, snap.row.by)]
    BY Zenon, <1>2 DEF Restore
  <2>4. F = [f \in EntityIds |-> F[f]]
    BY Zenon DEF Rewrites
  <2>5. G[e] = EntityRow(snap.row.schema, F[e].type, snap.row.data, F[e].rev + 1, snap.row.by)
    BY Zenon, <2>1, <2>3, <2>4
  <2>6. G = [f \in EntityIds |-> G[f]] /\ \A f \in EntityIds \ {e} : G[f] = F[f]
    BY Zenon, <2>1, <2>3, <2>4
  <2>7. /\ snap.row.schema = E[e].schema /\ snap.row.type = E[e].type
        /\ snap.row.by # "fill" => Accepts(S, snap.row.schema, snap.row.type, snap.row.data)
    BY Zenon, <2>1 DEF SnapOK
  <2> HIDE DEF G, e
  <2>8. /\ G[e].state = "live" /\ G[e].schema = E[e].schema /\ G[e].type = E[e].type
        /\ G[e].data = snap.row.data /\ G[e].by = snap.row.by /\ DOMAIN G[e] = EntityFields
    BY <2>2, <2>5, <2>7 DEF EntityRow, EntityFields
  <2>9. EntityOK(S, G[e])
    BY Zenon, <2>2, <2>7, <2>8 DEF EntityOK
  <2>10. LiveIn(E) \subseteq EntityIds
    BY Zenon DEF LiveIn, RowsOK
  <2>11. Rewrites(S, E, G)
    BY Zenon, <2>1, <2>6, <2>8, <2>9, <2>10 DEF Rewrites
  <2> QED BY Zenon, <2>11 DEF G
<1> QED BY Zenon, <1>1, <1>2

(* So does a whole undo, by induction on the snapshots of the job. *)
LEMMA UndoRewrites ==
    ASSUME NEW S, NEW E, NEW snaps, NEW j, RowsOK(S, E), Len(snaps) \in Nat,
           \A n \in 1..Len(snaps) : SnapOK(S, E, snaps[n])
    PROVE  Rewrites(S, E, restored(E, snaps, j)[Len(snaps)])
<1> DEFINE run == restored(E, snaps, j)
           Good(n) == n <= Len(snaps) => Rewrites(S, E, run[n])
           N == {n \in Nat : Good(n)}
<1>1. /\ run[0] = E
      /\ \A n \in 1..Len(snaps) :
           run[n] = IF snaps[n].job = j THEN Restore(run[n - 1], snaps[n]) ELSE run[n - 1]
  BY RestoredRuns
<1> HIDE DEF run
<1>2. 0 \in N
  BY Zenon, <1>1 DEF Rewrites, RowsOK
<1>3. ASSUME NEW n \in Nat, n \in N PROVE n + 1 \in N
  <2> SUFFICES ASSUME n + 1 <= Len(snaps) PROVE Rewrites(S, E, run[n + 1])
    OBVIOUS
  <2>1. n + 1 \in 1..Len(snaps) /\ (n + 1) - 1 = n
    OBVIOUS
  <2>2. Rewrites(S, E, run[n])
    BY <1>3
  <2>3. run[n + 1] = IF snaps[n + 1].job = j THEN Restore(run[n], snaps[n + 1]) ELSE run[n]
    BY Zenon, <1>1, <2>1
  <2> QED BY Zenon, <2>1, <2>2, <2>3, RestoreRewrites
<1>4. Nat \subseteq N
  <2> HIDE DEF N
  <2> QED BY Zenon, <1>2, <1>3, SetInduction
<1>5. Good(Len(snaps))
  BY Zenon, <1>4
<1> QED BY <1>5 DEF run

-----------------------------------------------------------------------------
(* Import. *)

AccFields == {"ok", "schemas", "home", "entities", "relations", "names", "ids"}

(* What an import that was not refused so far has made of the content. *)
AccOK(S, E, acc) ==
    /\ ContentOK(acc.schemas, acc.home, acc.entities, acc.relations)
    /\ KeptBy(S, acc.schemas)
    /\ Continues(S, E, acc.schemas, acc.entities) /\ LiveIn(E) \subseteq LiveIn(acc.entities)
    /\ Cardinality(LiveIn(acc.entities)) <= MaxEntities

(* Two changes of the rows in a row are one. *)
LEMMA ContinuesAgain ==
    ASSUME NEW S, NEW E, NEW T, NEW F, NEW U, NEW G, Continues(S, E, T, F), Continues(T, F, U, G)
    PROVE  Continues(S, E, U, G)
BY Zenon DEF Continues

(* Two changes of the schema table in a row are one. *)
LEMMA KeptAgain ==
    ASSUME NEW S, NEW T, NEW U, KeptBy(S, T), KeptBy(T, U)
    PROVE  KeptBy(S, U)
BY Zenon DEF KeptBy

(* The default schema, once set, stays. *)
LEMMA MarkedActive ==
    ASSUME NEW S, NEW T, NEW h, NEW s \in SchemaIds, HomeOK(S, h), KeptBy(S, T), Stored(T, s)
    PROVE  HomeOK(T, mark_active(h, s))
BY Zenon DEF HomeOK, KeptBy, mark_active

(* A schema line adds a version, archives the active one of its name, and
   leaves the rows alone. *)
LEMMA ImportSchemaKeeps ==
    ASSUME NEW S, NEW E, NEW acc, NEW line, DOMAIN acc = AccFields, AccOK(S, E, acc)
    PROVE  LET next == ImportSchema(acc, line)
           IN DOMAIN next = AccFields /\ next.entities = acc.entities /\ (next.ok => AccOK(S, E, next))
<1> DEFINE next == ImportSchema(acc, line)
           T == create_schema(acc.schemas, Ws, line.def, None, None)
           g == mark_active(acc.home, NextSchema(acc.schemas))
<1>1. /\ DOMAIN next = AccFields /\ next.entities = acc.entities /\ next.relations = acc.relations
      /\ next.ok => HasRoom(acc.schemas)
      /\ HasRoom(acc.schemas) => next.schemas = T /\ next.home = g
  BY Zenon DEF ImportSchema, AccFields
<1>2. ASSUME HasRoom(acc.schemas) PROVE AccOK(S, E, next)
  <2>1. TableOK(acc.schemas) /\ HomeOK(acc.schemas, acc.home) /\ RowsOK(acc.schemas, acc.entities)
    BY Zenon DEF AccOK, ContentOK
  <2>2. NextSchema(acc.schemas) \in SchemaIds /\ Stored(T, NextSchema(acc.schemas)) /\ KeptBy(acc.schemas, T) /\ TableOK(T)
    BY Zenon, <1>2, <2>1, CreatedTable
  <2> HIDE DEF T
  <2>3. HomeOK(T, g)
    BY Zenon, <2>1, <2>2, MarkedActive
  <2> HIDE DEF g
  <2>4. \A e \in LiveIn(acc.entities) : acc.entities[e].schema \in SchemaIds /\ Stored(acc.schemas, acc.entities[e].schema)
    BY Zenon, <2>1 DEF RowsOK, EntityOK
  <2>5. \A e \in LiveIn(acc.entities) :
           /\ Stored(T, acc.entities[e].schema)
           /\ T[acc.entities[e].schema].def = acc.schemas[acc.entities[e].schema].def
    BY Zenon, <2>2, <2>4 DEF KeptBy
  <2>6. ContentOK(T, g, acc.entities, acc.relations) /\ Continues(acc.schemas, acc.entities, T, acc.entities)
    BY Zenon, <2>2, <2>3, <2>5, SchemaStep DEF AccOK
  <2>7. KeptBy(S, T) /\ Continues(S, E, T, acc.entities)
    BY Zenon, <2>2, <2>6, ContinuesAgain, KeptAgain DEF AccOK
  <2> HIDE DEF next
  <2> QED BY Zenon, <1>1, <1>2, <2>6, <2>7 DEF AccOK
<1> QED BY Zenon, <1>1, <1>2

(* The live rows are finitely many, and one more counts as one more. *)
LEMMA LiveCount ==
    ASSUME NEW E, DOMAIN E = EntityIds
    PROVE  /\ IsFiniteSet(LiveIn(E)) /\ Cardinality(LiveIn(E)) \in Nat
           /\ \A n : n \notin LiveIn(E) => Cardinality(LiveIn(E) \cup {n}) = Cardinality(LiveIn(E)) + 1
<1>1. LiveIn(E) \subseteq EntityIds
  BY Zenon DEF LiveIn
<1>2. IsFiniteSet(LiveIn(E))
  BY Zenon, <1>1, KnowledgeAssumption, FS_Subset
<1> QED BY Zenon, <1>2, FS_CardinalityType, FS_AddElement

(* An entity line inserts a row that the active version of its name accepts,
   within the quota. *)
LEMMA ImportEntityKeeps ==
    ASSUME NEW S, NEW E, NEW acc, NEW line, DOMAIN acc = AccFields, AccOK(S, E, acc), acc.ok
    PROVE  LET next == ImportEntity(acc, line)
           IN DOMAIN next = AccFields /\ (next.ok => AccOK(S, E, next))
<1> DEFINE next == ImportEntity(acc, line)
           name == ImportedName(acc, line.schema)
           s == IF name = None THEN None ELSE get_active_schema(acc.schemas, Ws, name)
           row == EntityRow(s, line.type, line.data, 0, "create")
           ok == /\ check_entity_quota(acc.entities) /\ Fresh(acc.entities) # {}
                 /\ ~is_schema_pending(acc.home)
                 /\ s # None /\ Accepts(acc.schemas, s, line.type, line.data)
<1>1. CASE ~ok
  <2>1. next = [acc EXCEPT !.ok = FALSE]
    BY Zenon, <1>1 DEF ImportEntity
  <2> QED BY Zenon, <2>1 DEF AccFields
<1>2. CASE ok
  <2>1. next = [acc EXCEPT !.entities = Insert(@, row), !.ids = Extend(@, line.id, Min(Fresh(acc.entities)))]
    BY Zenon, <1>2 DEF ImportEntity
  <2>2. /\ DOMAIN next = AccFields /\ next.schemas = acc.schemas /\ next.home = acc.home
        /\ next.relations = acc.relations /\ next.entities = Insert(acc.entities, row)
    <3> HIDE DEF row
    <3> QED BY Zenon, <2>1 DEF AccFields
  <2>3. s \in SchemaIds /\ Stored(acc.schemas, s) /\ Accepts(acc.schemas, s, line.type, line.data)
    <3>1. name # None /\ s = get_active_schema(acc.schemas, Ws, name) /\ s # None
      BY Zenon, <1>2
    <3>2. TableOK(acc.schemas)
      BY Zenon DEF AccOK, ContentOK
    <3> HIDE DEF name
    <3> QED BY Zenon, <1>2, <3>1, <3>2, ActiveSchemaIsActive
  <2>4. Cardinality(LiveIn(acc.entities)) < MaxEntities /\ Fresh(acc.entities) # {}
    BY Zenon, <1>2 DEF check_entity_quota
  <2> HIDE DEF s, next
  <2>5. row.state = "live" /\ EntityOK(acc.schemas, row)
    BY Zenon, <2>3 DEF EntityRow, EntityOK, EntityFields
  <2> HIDE DEF row
  <2> DEFINE F == Insert(acc.entities, row)
             n == Min(Fresh(acc.entities))
  <2>6. /\ ContentOK(acc.schemas, acc.home, F, acc.relations) /\ Continues(acc.schemas, acc.entities, acc.schemas, F)
        /\ n \notin LiveIn(acc.entities) /\ LiveIn(F) = LiveIn(acc.entities) \cup {n}
    <3> HIDE DEF F, n
    <3>1. n = Min(Fresh(acc.entities)) /\ F = Insert(acc.entities, row)
      BY Zenon DEF F, n
    <3> QED BY <2>4, <2>5, <3>1, InsertStep DEF AccOK
  <2> HIDE DEF F, n
  <2>7. DOMAIN acc.entities = EntityIds
    BY Zenon DEF AccOK, ContentOK, RowsOK
  <2>8. Cardinality(LiveIn(F)) <= MaxEntities
    <3>1. Cardinality(LiveIn(F)) = Cardinality(LiveIn(acc.entities)) + 1 /\ Cardinality(LiveIn(acc.entities)) \in Nat
      BY Zenon, <2>6, <2>7, LiveCount
    <3> QED BY <3>1, <2>4, KnowledgeAssumption
  <2>9. Continues(S, E, acc.schemas, F) /\ LiveIn(E) \subseteq LiveIn(F)
    BY Zenon, <2>6, ContinuesAgain DEF AccOK
  <2>10. AccOK(S, E, next)
    BY Zenon, <2>2, <2>6, <2>8, <2>9 DEF AccOK, F
  <2> QED BY Zenon, <2>2, <2>10 DEF next
<1> QED BY Zenon, <1>1, <1>2

(* A relation line inserts a relation its ends' versions allow, or fails the
   import. *)
LEMMA ImportRelationKeeps ==
    ASSUME NEW S, NEW E, NEW acc, NEW line, DOMAIN acc = AccFields, AccOK(S, E, acc), acc.ok
    PROVE  LET next == ImportRelation(acc, line)
           IN DOMAIN next = AccFields /\ next.entities = acc.entities /\ (next.ok => AccOK(S, E, next))
<1> DEFINE next == ImportRelation(acc, line)
           row == RelationRow(Mapped(acc.ids, line.source), Mapped(acc.ids, line.target), line.type)
           ok == /\ insertable(acc.entities, acc.relations, row) /\ Fresh(acc.relations) # {}
                 /\ validate_relation_type(acc.schemas, acc.entities, row.source, row.target, row.type)
<1>1. CASE ~ok
  <2>1. next = [acc EXCEPT !.ok = FALSE]
    BY Zenon, <1>1 DEF ImportRelation
  <2> QED BY Zenon, <2>1 DEF AccFields
<1>2. CASE ok
  <2>1. next = [acc EXCEPT !.relations = Insert(@, row)]
    BY Zenon, <1>2 DEF ImportRelation
  <2>2. row.state = "live" /\ DOMAIN row = RelationFields
    BY Zenon DEF RelationRow, RelationFields
  <2>3. ContentOK(acc.schemas, acc.home, acc.entities, Insert(acc.relations, row))
    <3> HIDE DEF row
    <3> QED BY Zenon, <1>2, <2>2, RelateStep DEF AccOK
  <2> HIDE DEF row, next
  <2>4. /\ DOMAIN next = AccFields /\ next.schemas = acc.schemas /\ next.home = acc.home
        /\ next.entities = acc.entities /\ next.relations = Insert(acc.relations, row)
    BY Zenon, <2>1 DEF AccFields
  <2>5. AccOK(S, E, next)
    BY Zenon, <2>3, <2>4 DEF AccOK
  <2> QED BY Zenon, <2>4, <2>5 DEF next
<1> QED BY Zenon, <1>1, <1>2

(* What the rows read so far leave, unless a line was refused. *)
AccGood(S, E, acc) == DOMAIN acc = AccFields /\ (acc.ok => AccOK(S, E, acc))

ImportKinds == {"schema", "entity", "relation"}

(* One line of the file, of whatever kind; only entity lines add rows. *)
LEMMA ImportLineKeeps ==
    ASSUME NEW S, NEW E, NEW acc, NEW line, AccGood(S, E, acc), line.kind \in ImportKinds,
           NEW next, next = ImportLine(acc, line)
    PROVE  /\ AccGood(S, E, next)
           /\ line.kind # "entity" => next.entities = acc.entities
<1>1. CASE ~acc.ok
  <2>1. next = acc
    BY Zenon, <1>1 DEF ImportLine
  <2> QED BY Zenon, <2>1
<1>2. CASE acc.ok /\ line.kind = "schema"
  <2>1. next = ImportSchema(acc, line)
    BY Zenon, <1>2 DEF ImportLine
  <2>2. DOMAIN acc = AccFields /\ AccOK(S, E, acc)
    BY Zenon, <1>2 DEF AccGood
  <2>3. DOMAIN next = AccFields /\ next.entities = acc.entities /\ (next.ok => AccOK(S, E, next))
    BY <2>1, <2>2, ImportSchemaKeeps
  <2> QED BY Zenon, <2>3 DEF AccGood
<1>3. CASE acc.ok /\ line.kind = "entity"
  <2>1. next = ImportEntity(acc, line)
    BY Zenon, <1>3 DEF ImportLine
  <2>2. DOMAIN acc = AccFields /\ AccOK(S, E, acc)
    BY Zenon, <1>3 DEF AccGood
  <2>3. DOMAIN next = AccFields /\ (next.ok => AccOK(S, E, next))
    BY <1>3, <2>1, <2>2, ImportEntityKeeps
  <2> QED BY Zenon, <1>3, <2>3 DEF AccGood
<1>4. CASE acc.ok /\ line.kind = "relation"
  <2>1. next = ImportRelation(acc, line)
    BY Zenon, <1>4 DEF ImportLine
  <2>2. DOMAIN acc = AccFields /\ AccOK(S, E, acc)
    BY Zenon, <1>4 DEF AccGood
  <2>3. DOMAIN next = AccFields /\ next.entities = acc.entities /\ (next.ok => AccOK(S, E, next))
    BY <1>4, <2>1, <2>2, ImportRelationKeeps
  <2> QED BY Zenon, <2>3 DEF AccGood
<1> QED BY Zenon, <1>1, <1>2, <1>3, <1>4 DEF ImportKinds

(* What a whole file leaves, when no line was refused. *)
LEMMA ImportKeeps ==
    ASSUME NEW S, NEW h, NEW E, NEW R, NEW lines, ContentOK(S, h, E, R),
           Cardinality(LiveIn(E)) <= MaxEntities, Len(lines) \in Nat,
           \A n \in 1..Len(lines) : lines[n].kind \in ImportKinds
    PROVE  LET after == import_jsonl(Before(S, h, E, R), lines)
           IN /\ after.ok => AccOK(S, E, after)
              /\ (\A n \in 1..Len(lines) : lines[n].kind # "entity") => after.entities = E
<1> DEFINE before == Before(S, h, E, R)
           run == imported(before, lines)
           NoEntity == \A n \in 1..Len(lines) : lines[n].kind # "entity"
           Good(n) == n <= Len(lines) => /\ AccGood(S, E, run[n])
                                         /\ NoEntity => run[n].entities = E
           N == {n \in Nat : Good(n)}
<1>1. run[0] = before /\ \A n \in 1..Len(lines) : run[n] = ImportLine(run[n - 1], lines[n])
  <2> HIDE DEF before
  <2> QED BY ImportedRuns
<1>2. /\ DOMAIN before = AccFields /\ before.entities = E /\ before.schemas = S
      /\ before.home = h /\ before.relations = R
  BY Zenon DEF Before, AccFields
<1> HIDE DEF run, before
<1>3. AccOK(S, E, before)
  <2>1. KeptBy(S, S) /\ Continues(S, E, S, E)
    BY Zenon DEF KeptBy, Continues
  <2> QED BY Zenon, <1>2, <2>1 DEF AccOK
<1>4. 0 \in N
  BY Zenon, <1>1, <1>2, <1>3 DEF AccGood
<1>5. ASSUME NEW n \in Nat, n \in N PROVE n + 1 \in N
  <2> SUFFICES ASSUME n + 1 <= Len(lines) PROVE Good(n + 1)
    OBVIOUS
  <2>1. n + 1 \in 1..Len(lines) /\ (n + 1) - 1 = n
    OBVIOUS
  <2> DEFINE acc == run[n]
             line == lines[n + 1]
             next == run[n + 1]
  <2>2. AccGood(S, E, acc) /\ (NoEntity => acc.entities = E)
    BY <1>5
  <2>3. next = ImportLine(acc, line)
    BY Zenon, <1>1, <2>1
  <2>4. line.kind \in ImportKinds /\ (NoEntity => line.kind # "entity")
    BY Zenon, <2>1
  <2> HIDE DEF acc, line, next, NoEntity
  <2>5. /\ AccGood(S, E, next)
        /\ line.kind # "entity" => next.entities = acc.entities
    BY <2>2, <2>3, <2>4, ImportLineKeeps
  <2>6. NoEntity => next.entities = E
    BY Zenon, <2>2, <2>4, <2>5
  <2> QED BY Zenon, <2>5, <2>6 DEF next
<1>6. Nat \subseteq N
  <2> HIDE DEF N
  <2> QED BY Zenon, <1>4, <1>5, SetInduction
<1>7. Good(Len(lines))
  BY Zenon, <1>6
<1> QED BY <1>7 DEF import_jsonl, run, before, AccGood

-----------------------------------------------------------------------------
(* Sequences of anything. *)

IsSequence(s) == \E A : s \in Seq(A)

(* The length and the domain of a sequence. *)
LEMMA SequenceType ==
    ASSUME NEW s, IsSequence(s)
    PROVE  Len(s) \in Nat /\ DOMAIN s = 1..Len(s)
BY DEF IsSequence

(* A snapshot appended to the ones a run has taken. *)
LEMMA AppendedSequence ==
    ASSUME NEW s, IsSequence(s), NEW x
    PROVE  /\ IsSequence(Append(s, x)) /\ DOMAIN Append(s, x) = 1..(Len(s) + 1)
           /\ \A i \in 1..Len(s) : Append(s, x)[i] = s[i]
           /\ Append(s, x)[Len(s) + 1] = x
<1>1. PICK A : s \in Seq(A)
  BY Zenon DEF IsSequence
<1>2. s \in Seq(A \cup {x})
  BY <1>1
<1>3. Append(s, x) \in Seq(A \cup {x})
  BY <1>2
<1> QED BY <1>2, <1>3 DEF IsSequence

(* The snapshots of a run joined to the stored ones when it commits. *)
LEMMA JoinedSequence ==
    ASSUME NEW s, IsSequence(s), NEW t, IsSequence(t)
    PROVE  /\ IsSequence(s \o t) /\ DOMAIN (s \o t) = 1..(Len(s) + Len(t))
           /\ \A i \in 1..Len(s) : (s \o t)[i] = s[i]
           /\ \A i \in (Len(s) + 1)..(Len(s) + Len(t)) : (s \o t)[i] = t[i - Len(s)]
<1>1. PICK A : s \in Seq(A)
  BY Zenon DEF IsSequence
<1>2. PICK B : t \in Seq(B)
  BY Zenon DEF IsSequence
<1>3. s \in Seq(A \cup B) /\ t \in Seq(A \cup B)
  BY <1>1, <1>2
<1>4. s \o t \in Seq(A \cup B)
  BY <1>3
<1> QED BY <1>3, <1>4 DEF IsSequence

-----------------------------------------------------------------------------
(* The inductive invariant. *)

CreateFields == {"op", "name", "type", "data", "schema"}
FillFields == {"op", "job", "fields", "read", "left", "saved", "at", "writes"}

(* A creation holds the workspace's lock, and from its resolution on also the
   lock of its name: what it counted and resolved still holds. *)
CreateOK(S, E, L, c, call) ==
    call.op = "create" =>
        /\ DOMAIN call = CreateFields /\ call.name \in Names
        /\ L["workspace"] = c /\ Cardinality(LiveIn(E)) < MaxEntities
        /\ call.schema # None =>
             /\ call.schema \in SchemaIds /\ Stored(S, call.schema)
             /\ S[call.schema].name = call.name /\ L[call.name] = c
             /\ Accepts(S, call.schema, call.type, call.data)

(* An update holds data the entity's version accepts, if the entity is there. *)
UpdateOK(S, E, call) ==
    call.op = "update" =>
        /\ call.entity \in EntityIds /\ E[call.entity].state # "fresh"
        /\ E[call.entity].state = "live" =>
             Accepts(S, E[call.entity].schema, E[call.entity].type, call.data)

(* A relation to be inserted fits its entities, if they are there. *)
RelateOK(S, E, call) ==
    call.op = "relate" =>
        /\ call.row.state = "live" /\ DOMAIN call.row = RelationFields
        /\ call.row.source \in EntityIds /\ E[call.row.source].state # "fresh"
        /\ call.row.target \in EntityIds /\ E[call.row.target].state # "fresh"
        /\ E[call.row.source].state = "live" /\ E[call.row.target].state = "live" =>
             validate_relation_type(S, E, call.row.source, call.row.target, call.row.type)

(* A fill run has saved entities it does not come back to, each once, and the
   rows it wrote, which it holds, are still there. *)
FillOK(S, E, call) ==
    call.op = "fill" =>
        /\ DOMAIN call = FillFields
        /\ call.left \subseteq EntityIds
        /\ DOMAIN call.writes \subseteq LiveIn(E)
        /\ IsSequence(call.saved)
        /\ \A i \in DOMAIN call.saved :
             /\ call.saved[i].job = call.job
             /\ SnapOK(S, E, call.saved[i])
             /\ call.saved[i].entity \notin call.left
        /\ \A i, k \in DOMAIN call.saved : call.saved[i].entity = call.saved[k].entity => i = k

(* A run is that of an accepted job of its kind that is not complete. *)
RunOK(J, D, call) ==
    call.op \in RunOps =>
        call.job \in JobIds /\ call.job \notin D /\ J[call.job].kind = call.op

CallOK(S, E, L, J, D, c, call) ==
    /\ CreateOK(S, E, L, c, call)
    /\ UpdateOK(S, E, call)
    /\ RelateOK(S, E, call)
    /\ FillOK(S, E, call)
    /\ RunOK(J, D, call)

(* A file is a sequence of lines of the known kinds. *)
LinesOK(lines) ==
    /\ IsSequence(lines)
    /\ \A i \in DOMAIN lines : lines[i].kind \in ImportKinds

JobsOK(J) ==
    /\ J = [j \in JobIds |-> J[j]]
    /\ \A j \in JobIds :
         /\ "kind" \in DOMAIN J[j]
         /\ J[j].kind = "import" => "lines" \in DOMAIN J[j] /\ LinesOK(J[j].lines)

SnapshotsOK(S, E, D, snaps) ==
    /\ IsSequence(snaps)
    /\ \A i \in DOMAIN snaps : SnapOK(S, E, snaps[i]) /\ snaps[i].job \in D
    /\ \A i, k \in DOMAIN snaps :
         snaps[i].job = snaps[k].job /\ snaps[i].entity = snaps[k].entity => i = k

(* The runs of one job exclude each other (the job's lock). *)
RunsExclude(C) ==
    \A c, d \in Callers : C[c].op \in RunOps /\ C[d].op \in RunOps /\ C[c].job = C[d].job => c = d

ContentInv ==
    /\ ContentOK(schemas, home, entities, relations)
    /\ Cardinality(LiveIn(entities)) <= MaxEntities

CallsInv ==
    /\ DOMAIN locks = {"workspace"} \cup Names
    /\ calls = [c \in Callers |-> calls[c]]
    /\ \A c \in Callers : CallOK(schemas, entities, locks, jobs, done, c, calls[c])
    /\ RunsExclude(calls)

KnowledgeInv ==
    /\ ContentInv
    /\ CallsInv
    /\ JobsOK(jobs)
    /\ SnapshotsOK(schemas, entities, done, snapshots)

-----------------------------------------------------------------------------
(* What the invariant says of a call carries over. *)

(* A snapshot stays good while rows continue: an entity keeps its version until it goes. *)
LEMMA SnapKept ==
    ASSUME NEW S, NEW E, NEW T, NEW F, NEW snap, SnapOK(S, E, snap), Continues(S, E, T, F)
    PROVE  SnapOK(T, F, snap)
<1> DEFINE e == snap.entity
<1>1. e \in EntityIds /\ E[e].state # "fresh"
  BY Zenon DEF SnapOK
<1>2. F[e].state # "fresh"
  BY Zenon, <1>1 DEF Continues
<1>3. ASSUME F[e].state = "live"
      PROVE  /\ E[e].state = "live" /\ F[e].schema = E[e].schema /\ F[e].type = E[e].type
             /\ T[F[e].schema].def = S[E[e].schema].def
  BY Zenon, <1>1, <1>3 DEF Continues
<1> QED BY Zenon, <1>1, <1>2, <1>3 DEF SnapOK, Accepts

(* So do all stored snapshots, while more jobs complete. *)
LEMMA SnapshotsKept ==
    ASSUME NEW S, NEW E, NEW D, NEW T, NEW F, NEW G, NEW snaps, SnapshotsOK(S, E, D, snaps),
           Continues(S, E, T, F), D \subseteq G
    PROVE  SnapshotsOK(T, F, G, snaps)
<1>1. \A i \in DOMAIN snaps : SnapOK(T, F, snaps[i]) /\ snaps[i].job \in G
  BY Zenon, SnapKept DEF SnapshotsOK
<1> QED BY Zenon, <1>1 DEF SnapshotsOK

(* An update waits between its validation and its write; the version it validated
   against is still the row's. *)
LEMMA UpdateKept ==
    ASSUME NEW S, NEW E, NEW T, NEW F, NEW call, UpdateOK(S, E, call), Continues(S, E, T, F)
    PROVE  UpdateOK(T, F, call)
<1> SUFFICES ASSUME call.op = "update" PROVE UpdateOK(T, F, call)
  BY Zenon DEF UpdateOK
<1> DEFINE e == call.entity
<1>1. e \in EntityIds /\ E[e].state # "fresh"
  BY Zenon DEF UpdateOK
<1>2. F[e].state # "fresh"
  BY Zenon, <1>1 DEF Continues
<1>3. ASSUME F[e].state = "live" PROVE Accepts(T, F[e].schema, F[e].type, call.data)
  <2>1. /\ E[e].state = "live" /\ F[e].schema = E[e].schema /\ F[e].type = E[e].type
        /\ T[F[e].schema].def = S[E[e].schema].def
    BY Zenon, <1>1, <1>3 DEF Continues
  <2> QED BY Zenon, <2>1 DEF UpdateOK, Accepts
<1> QED BY Zenon, <1>1, <1>2, <1>3 DEF UpdateOK

(* A relation validated before its insert is still allowed while both ends live. *)
LEMMA RelateKept ==
    ASSUME NEW S, NEW E, NEW T, NEW F, NEW call, RelateOK(S, E, call), Continues(S, E, T, F)
    PROVE  RelateOK(T, F, call)
<1> SUFFICES ASSUME call.op = "relate" PROVE RelateOK(T, F, call)
  BY Zenon DEF RelateOK
<1> DEFINE a == call.row.source
           b == call.row.target
<1>1. /\ call.row.state = "live" /\ DOMAIN call.row = RelationFields
      /\ a \in EntityIds /\ E[a].state # "fresh" /\ b \in EntityIds /\ E[b].state # "fresh"
  BY Zenon DEF RelateOK
<1>2. F[a].state # "fresh" /\ F[b].state # "fresh"
  BY Zenon, <1>1 DEF Continues
<1>3. ASSUME F[a].state = "live", F[b].state = "live"
      PROVE  validate_relation_type(T, F, a, b, call.row.type)
  <2>1. /\ E[a].state = "live" /\ F[a].type = E[a].type /\ T[F[a].schema].def = S[E[a].schema].def
        /\ E[b].state = "live" /\ F[b].type = E[b].type
    BY Zenon, <1>1, <1>3 DEF Continues
  <2>2. validate_relation_type(S, E, a, b, call.row.type)
    BY Zenon, <2>1 DEF RelateOK
  <2> QED BY Zenon, <2>1, <2>2 DEF validate_relation_type
<1> QED BY Zenon, <1>1, <1>2, <1>3 DEF RelateOK

(* What a fill run holds stays good while no entity it has locked goes. *)
LEMMA FillKept ==
    ASSUME NEW S, NEW E, NEW T, NEW F, NEW call, FillOK(S, E, call), Continues(S, E, T, F),
           call.op = "fill" => DOMAIN call.writes \subseteq LiveIn(F)
    PROVE  FillOK(T, F, call)
<1> SUFFICES ASSUME call.op = "fill" PROVE FillOK(T, F, call)
  BY Zenon DEF FillOK
<1>1. \A i \in DOMAIN call.saved : SnapOK(T, F, call.saved[i])
  BY Zenon, SnapKept DEF FillOK
<1> QED BY Zenon, <1>1 DEF FillOK

(* A creation that has its workspace lock keeps its room and its version. *)
LEMMA CreateKept ==
    ASSUME NEW S, NEW E, NEW L, NEW T, NEW F, NEW M, NEW c, NEW call, CreateOK(S, E, L, c, call),
           \A k \in {"workspace"} \cup Names : L[k] = c => M[k] = c,
           call.op = "create" =>
             /\ Cardinality(LiveIn(F)) < MaxEntities
             /\ call.schema # None => /\ Stored(T, call.schema)
                                      /\ T[call.schema].name = S[call.schema].name
                                      /\ T[call.schema].def = S[call.schema].def
    PROVE  CreateOK(T, F, M, c, call)
<1> SUFFICES ASSUME call.op = "create" PROVE CreateOK(T, F, M, c, call)
  BY Zenon DEF CreateOK
<1>1. DOMAIN call = CreateFields /\ call.name \in Names /\ M["workspace"] = c
  BY Zenon DEF CreateOK
<1>2. ASSUME call.schema # None
      PROVE  /\ call.schema \in SchemaIds /\ Stored(T, call.schema)
             /\ T[call.schema].name = call.name /\ M[call.name] = c
             /\ Accepts(T, call.schema, call.type, call.data)
  BY Zenon, <1>2 DEF CreateOK, Accepts
<1> QED BY Zenon, <1>1, <1>2 DEF CreateOK

(* An idle caller promises nothing. *)
LEMMA IdleOK ==
    ASSUME NEW S, NEW E, NEW L, NEW J, NEW D, NEW c
    PROVE  CallOK(S, E, L, J, D, c, Idle) /\ Idle.op \notin RunOps
BY DEF CallOK, CreateOK, UpdateOK, RelateOK, FillOK, RunOK, Idle, RunOps

(* A step that only moves one caller. *)
LEMMA CallStep ==
    ASSUME KnowledgeInv, UNCHANGED <<content, queue>>, NEW c \in Callers, NEW x,
           calls' = [calls EXCEPT ![c] = x], DOMAIN locks' = DOMAIN locks,
           \A k \in DOMAIN locks : \A d \in Callers \ {c} : locks[k] = d => locks'[k] = d,
           CallOK(schemas, entities, locks', jobs, done, c, x),
           x.op \in RunOps => \A d \in Callers \ {c} : calls[d].op \in RunOps => calls[d].job # x.job
    PROVE  KnowledgeInv'
<1>1. /\ schemas' = schemas /\ home' = home /\ entities' = entities /\ relations' = relations
      /\ snapshots' = snapshots /\ jobs' = jobs /\ done' = done
  BY Zenon DEF content, queue
<1>2. calls = [d \in Callers |-> calls[d]] /\ DOMAIN locks = {"workspace"} \cup Names
  BY Zenon DEF KnowledgeInv, CallsInv
<1>3. calls' = [d \in Callers |-> calls'[d]] /\ calls'[c] = x /\ \A d \in Callers \ {c} : calls'[d] = calls[d]
  BY Zenon, <1>2
<1>4. ASSUME NEW d \in Callers \ {c}
      PROVE  CallOK(schemas, entities, locks', jobs, done, d, calls[d])
  <2>1. CallOK(schemas, entities, locks, jobs, done, d, calls[d])
    BY Zenon DEF KnowledgeInv, CallsInv
  <2>2. \A k \in {"workspace"} \cup Names : locks[k] = d => locks'[k] = d
    BY Zenon, <1>2
  <2>3. CreateOK(schemas, entities, locks', d, calls[d])
    <3>1. CreateOK(schemas, entities, locks, d, calls[d])
      BY Zenon, <2>1 DEF CallOK
    <3>2. calls[d].op = "create" =>
             /\ Cardinality(LiveIn(entities)) < MaxEntities
             /\ calls[d].schema # None => Stored(schemas, calls[d].schema)
      BY Zenon, <3>1 DEF CreateOK
    <3> QED BY <2>2, <3>1, <3>2, CreateKept
  <2> QED BY Zenon, <2>1, <2>3 DEF CallOK
<1>5. \A d \in Callers : CallOK(schemas', entities', locks', jobs', done', d, calls'[d])
  BY Zenon, <1>1, <1>3, <1>4
<1>6. RunsExclude(calls')
  <2>1. RunsExclude(calls)
    BY Zenon DEF KnowledgeInv, CallsInv
  <2> QED BY <2>1, <1>3 DEF RunsExclude
<1>7. CallsInv'
  BY Zenon, <1>2, <1>3, <1>5, <1>6 DEF CallsInv
<1>8. ContentInv'
  BY Zenon, <1>1 DEF KnowledgeInv, ContentInv
<1> QED BY Zenon, <1>1, <1>7, <1>8 DEF KnowledgeInv

(* A step ends the caller's call, or leaves it alone with all it relies on. *)
Undisturbed(c) ==
    \/ calls'[c] = Idle
    \/ /\ calls'[c] = calls[c]
       /\ \A k \in DOMAIN locks : locks[k] = c => locks'[k] = c
       /\ calls[c].op = "create" =>
            /\ Cardinality(LiveIn(entities')) < MaxEntities
            /\ calls[c].schema # None =>
                 /\ Stored(schemas', calls[c].schema)
                 /\ schemas'[calls[c].schema].name = schemas[calls[c].schema].name
                 /\ schemas'[calls[c].schema].def = schemas[calls[c].schema].def
       /\ calls[c].op = "fill" => DOMAIN calls[c].writes \subseteq LiveIn(entities')
       /\ calls[c].op \in RunOps => calls[c].job \notin done'

(* A step on the content that lets every entity continue, and may end calls. *)
LEMMA ContentStep ==
    ASSUME KnowledgeInv, ContentInv', Continues(schemas, entities, schemas', entities'),
           UNCHANGED jobs, SnapshotsOK(schemas', entities', done', snapshots'),
           DOMAIN locks' = DOMAIN locks, calls' = [c \in Callers |-> calls'[c]],
           \A c \in Callers : Undisturbed(c)
    PROVE  KnowledgeInv'
<1>1. DOMAIN locks = {"workspace"} \cup Names
  BY Zenon DEF KnowledgeInv, CallsInv
<1>2. ASSUME NEW c \in Callers
      PROVE  CallOK(schemas', entities', locks', jobs', done', c, calls'[c])
  <2>1. CASE calls'[c] = Idle
    BY Zenon, <2>1, IdleOK
  <2>2. CASE calls'[c] # Idle
    <3>1. /\ calls'[c] = calls[c]
          /\ \A k \in {"workspace"} \cup Names : locks[k] = c => locks'[k] = c
          /\ calls[c].op = "create" =>
               /\ Cardinality(LiveIn(entities')) < MaxEntities
               /\ calls[c].schema # None =>
                    /\ Stored(schemas', calls[c].schema)
                    /\ schemas'[calls[c].schema].name = schemas[calls[c].schema].name
                    /\ schemas'[calls[c].schema].def = schemas[calls[c].schema].def
          /\ calls[c].op = "fill" => DOMAIN calls[c].writes \subseteq LiveIn(entities')
          /\ calls[c].op \in RunOps => calls[c].job \notin done'
      BY Zenon, <1>1, <2>2 DEF Undisturbed
    <3>2. CallOK(schemas, entities, locks, jobs, done, c, calls[c])
      BY Zenon DEF KnowledgeInv, CallsInv
    <3>3. CreateOK(schemas', entities', locks', c, calls[c])
      BY <3>1, <3>2, CreateKept DEF CallOK
    <3>4. UpdateOK(schemas', entities', calls[c])
      BY Zenon, <3>2, UpdateKept DEF CallOK
    <3>5. RelateOK(schemas', entities', calls[c])
      BY Zenon, <3>2, RelateKept DEF CallOK
    <3>6. FillOK(schemas', entities', calls[c])
      BY Zenon, <3>1, <3>2, FillKept DEF CallOK
    <3>7. RunOK(jobs', done', calls[c])
      BY <3>1, <3>2 DEF CallOK, RunOK
    <3> QED BY <3>1, <3>3, <3>4, <3>5, <3>6, <3>7 DEF CallOK
  <2> QED BY Zenon, <2>1, <2>2
<1>3. RunsExclude(calls')
  <2>1. RunsExclude(calls)
    BY Zenon DEF KnowledgeInv, CallsInv
  <2>2. \A c \in Callers : calls'[c].op \in RunOps => calls'[c] = calls[c]
    BY Zenon, IdleOK DEF Undisturbed
  <2> QED BY Zenon, <2>1, <2>2 DEF RunsExclude
<1>4. CallsInv'
  BY Zenon, <1>1, <1>2, <1>3 DEF CallsInv
<1> QED BY Zenon, <1>4 DEF KnowledgeInv

-----------------------------------------------------------------------------
(* Schema operations. *)

(* The version a live entity names is in the table. *)
LEMMA LiveNamesStored ==
    ASSUME KnowledgeInv, NEW e \in LiveIn(entities)
    PROVE  e \in EntityIds /\ entities[e].schema \in SchemaIds /\ Stored(schemas, entities[e].schema)
BY Zenon DEF KnowledgeInv, ContentInv, ContentOK, RowsOK, EntityOK, LiveIn

(* A step that only changes the schema table, keeping every version that the
   content names. *)
LEMMA SchemaChange ==
    ASSUME KnowledgeInv, UNCHANGED <<entities, relations, snapshots, queue, locks, calls>>,
           TableOK(schemas'), HomeOK(schemas', home'),
           \A e \in LiveIn(entities) :
             /\ Stored(schemas', entities[e].schema)
             /\ schemas'[entities[e].schema].def = schemas[entities[e].schema].def,
           \A c \in Callers : calls[c].op = "create" /\ calls[c].schema # None =>
             /\ Stored(schemas', calls[c].schema)
             /\ schemas'[calls[c].schema].name = schemas[calls[c].schema].name
             /\ schemas'[calls[c].schema].def = schemas[calls[c].schema].def
    PROVE  KnowledgeInv'
<1>1. ContentOK(schemas, home, entities, relations) /\ Cardinality(LiveIn(entities)) <= MaxEntities
  BY DEF KnowledgeInv, ContentInv
<1>2. ContentOK(schemas', home', entities, relations) /\ Continues(schemas, entities, schemas', entities)
  BY Zenon, <1>1, SchemaStep
<1>3. ContentInv'
  BY Zenon, <1>1, <1>2 DEF ContentInv
<1>4. SnapshotsOK(schemas', entities', done', snapshots')
  BY <1>2, SnapshotsKept DEF KnowledgeInv, queue
<1>5. ASSUME NEW c \in Callers
      PROVE  /\ calls'[c] = calls[c]
             /\ calls[c].op = "create" => Cardinality(LiveIn(entities')) < MaxEntities
             /\ calls[c].op = "fill" => DOMAIN calls[c].writes \subseteq LiveIn(entities')
             /\ calls[c].op \in RunOps => calls[c].job \notin done'
  <2>1. CallOK(schemas, entities, locks, jobs, done, c, calls[c])
    BY Zenon DEF KnowledgeInv, CallsInv
  <2> QED BY Zenon, <2>1 DEF CallOK, CreateOK, FillOK, RunOK, queue
<1>6. calls' = [c \in Callers |-> calls'[c]] /\ jobs' = jobs
  BY DEF KnowledgeInv, CallsInv, queue
<1> QED BY Zenon, <1>2, <1>3, <1>4, <1>5, <1>6, ContentStep DEF Undisturbed

(* create_schema stores the next version and archives the active one. *)
LEMMA CreateSchemaKeeps ==
    ASSUME KnowledgeInv, NEW def, NEW template, CreateSchema(def, template)
    PROVE  KnowledgeInv'
<1> DEFINE n == NextSchema(schemas)
           snapshot == IF template = None THEN None ELSE def
           T == create_schema(schemas, Ws, def, template, snapshot)
<1>1. /\ HasRoom(schemas) /\ schemas' = T /\ home' = mark_active(home, n)
      /\ UNCHANGED <<entities, relations, snapshots, queue, locks, calls>>
  BY Zenon DEF CreateSchema
<1>2. TableOK(schemas) /\ HomeOK(schemas, home)
  BY DEF KnowledgeInv, ContentInv, ContentOK
<1>3. n \in SchemaIds /\ Stored(T, n) /\ KeptBy(schemas, T) /\ TableOK(T)
  <2> HIDE DEF snapshot
  <2> QED BY <1>1, <1>2, CreatedTable
<1> HIDE DEF n, T
<1>4. HomeOK(schemas', home')
  BY Zenon, <1>1, <1>2, <1>3, MarkedActive
<1>5. \A e \in LiveIn(entities) : Stored(schemas', entities[e].schema)
                                  /\ schemas'[entities[e].schema].def = schemas[entities[e].schema].def
  BY <1>1, <1>3, LiveNamesStored DEF KeptBy
<1>6. \A c \in Callers : calls[c].op = "create" /\ calls[c].schema # None =>
             /\ Stored(schemas', calls[c].schema)
             /\ schemas'[calls[c].schema].name = schemas[calls[c].schema].name
             /\ schemas'[calls[c].schema].def = schemas[calls[c].schema].def
  BY Zenon, <1>1, <1>3 DEF KnowledgeInv, CallsInv, CallOK, CreateOK, KeptBy
<1> QED BY <1>1, <1>3, <1>4, <1>5, <1>6, SchemaChange

(* archive only changes a status. *)
LEMMA ArchiveSchemaKeeps ==
    ASSUME KnowledgeInv, NEW s \in SchemaIds, ArchiveSchema(s)
    PROVE  KnowledgeInv'
<1>1. /\ schemas' = archive(schemas, s) /\ home' = home
      /\ UNCHANGED <<entities, relations, snapshots, queue, locks, calls>>
  BY Zenon DEF ArchiveSchema
<1>2. TableOK(schemas) /\ HomeOK(schemas, home)
  BY Zenon DEF KnowledgeInv, ContentInv, ContentOK
<1>3. KeptBy(schemas, schemas') /\ TableOK(schemas')
  BY Zenon, <1>1, <1>2, ArchivedTable
<1>4. HomeOK(schemas', home')
  BY <1>1, <1>2, <1>3 DEF HomeOK, KeptBy
<1>5. \A e \in LiveIn(entities) : Stored(schemas', entities[e].schema)
                                  /\ schemas'[entities[e].schema].def = schemas[entities[e].schema].def
  BY Zenon, <1>3, LiveNamesStored DEF KeptBy
<1>6. \A c \in Callers : calls[c].op = "create" /\ calls[c].schema # None =>
             /\ Stored(schemas', calls[c].schema)
             /\ schemas'[calls[c].schema].name = schemas[calls[c].schema].name
             /\ schemas'[calls[c].schema].def = schemas[calls[c].schema].def
  BY Zenon, <1>3 DEF KnowledgeInv, CallsInv, CallOK, CreateOK, KeptBy
<1> QED BY Zenon, <1>1, <1>3, <1>4, <1>5, <1>6, SchemaChange

(* The version goes only when nothing names it, and not while a creation that
   resolved it holds its name. *)
LEMMA DeleteSchemaKeeps ==
    ASSUME KnowledgeInv, NEW s \in SchemaIds, DeleteSchema(s, ReferencedByContent)
    PROVE  KnowledgeInv'
<1>1. /\ schemas' = delete_schema(schemas, s) /\ home' = home /\ s \notin ReferencedByContent
      /\ locks[schemas[s].name] = None
      /\ UNCHANGED <<entities, relations, snapshots, queue, locks, calls>>
  BY Zenon DEF DeleteSchema, deletable, lock_version, lock_for_update
<1>2. TableOK(schemas) /\ HomeOK(schemas, home)
  BY Zenon DEF KnowledgeInv, ContentInv, ContentOK
<1>3. TableOK(schemas') /\ \A t \in SchemaIds \ {s} : schemas'[t] = schemas[t]
  BY <1>1, <1>2, DeletedTable
<1>4. \A t \in SchemaIds \ {s} : Stored(schemas, t) => Stored(schemas', t)
  BY Zenon, <1>3 DEF Stored
<1>5. home.schema # s /\ \A e \in LiveIn(entities) : entities[e].schema # s
  BY Zenon, <1>1 DEF ReferencedByContent, Live
<1>6. HomeOK(schemas', home')
  BY <1>1, <1>2, <1>4, <1>5 DEF HomeOK
<1>7. \A e \in LiveIn(entities) : Stored(schemas', entities[e].schema)
                                  /\ schemas'[entities[e].schema].def = schemas[entities[e].schema].def
  BY Zenon, <1>3, <1>4, <1>5, LiveNamesStored
<1>8. ASSUME NEW c \in Callers, calls[c].op = "create", calls[c].schema # None
      PROVE  calls[c].schema \in SchemaIds \ {s} /\ Stored(schemas, calls[c].schema)
  <2>1. /\ calls[c].schema \in SchemaIds /\ Stored(schemas, calls[c].schema)
        /\ schemas[calls[c].schema].name = calls[c].name /\ locks[calls[c].name] = c
    BY <1>8 DEF KnowledgeInv, CallsInv, CallOK, CreateOK
  <2>2. c # None
    BY Zenon, KnowledgeAssumption
  <2> QED BY Zenon, <1>1, <2>1, <2>2
<1>9. \A c \in Callers : calls[c].op = "create" /\ calls[c].schema # None =>
             /\ Stored(schemas', calls[c].schema)
             /\ schemas'[calls[c].schema].name = schemas[calls[c].schema].name
             /\ schemas'[calls[c].schema].def = schemas[calls[c].schema].def
  BY Zenon, <1>3, <1>4, <1>8
<1> QED BY <1>1, <1>3, <1>6, <1>7, <1>9, SchemaChange

-----------------------------------------------------------------------------
(* Entities and relations. *)

(* Fewer live rows count no more. *)
LEMMA FewerLive ==
    ASSUME NEW E, DOMAIN E = EntityIds, NEW F, LiveIn(F) \subseteq LiveIn(E)
    PROVE  Cardinality(LiveIn(F)) <= Cardinality(LiveIn(E)) /\ Cardinality(LiveIn(F)) \in Nat
<1>1. IsFiniteSet(LiveIn(E))
  BY Zenon, LiveCount
<1> QED BY <1>1, FS_Subset, FS_CardinalityType

(* The same for a step that makes no entity and leaves the schemas alone. *)
Unhurt(c) ==
    \/ calls'[c] = Idle
    \/ /\ calls'[c] = calls[c]
       /\ \A k \in DOMAIN locks : locks[k] = c => locks'[k] = c
       /\ calls[c].op = "fill" => DOMAIN calls[c].writes \subseteq LiveIn(entities')
       /\ calls[c].op \in RunOps => calls[c].job \notin done'

(* A step on entities and relations that makes no entity: what open creations
   counted stays true. *)
LEMMA RowsChange ==
    ASSUME KnowledgeInv, UNCHANGED <<schemas, home, jobs>>,
           ContentOK(schemas, home, entities', relations'),
           Continues(schemas, entities, schemas, entities'),
           LiveIn(entities') \subseteq LiveIn(entities),
           SnapshotsOK(schemas, entities', done', snapshots'),
           DOMAIN locks' = DOMAIN locks, calls' = [c \in Callers |-> calls'[c]],
           \A c \in Callers : Unhurt(c)
    PROVE  KnowledgeInv'
<1>1. Cardinality(LiveIn(entities)) <= MaxEntities /\ DOMAIN entities = EntityIds
  BY DEF KnowledgeInv, ContentInv, ContentOK, RowsOK
<1>2. /\ Cardinality(LiveIn(entities')) <= Cardinality(LiveIn(entities))
      /\ Cardinality(LiveIn(entities')) \in Nat /\ Cardinality(LiveIn(entities)) \in Nat
  BY <1>1, FewerLive, LiveCount
<1>3. ContentInv'
  BY <1>1, <1>2, KnowledgeAssumption DEF ContentInv
<1>4. ASSUME NEW c \in Callers, calls[c].op = "create"
      PROVE  /\ Cardinality(LiveIn(entities')) < MaxEntities
             /\ calls[c].schema # None => Stored(schemas, calls[c].schema)
  <2>1. /\ Cardinality(LiveIn(entities)) < MaxEntities
        /\ calls[c].schema # None => Stored(schemas, calls[c].schema)
    BY Zenon, <1>4 DEF KnowledgeInv, CallsInv, CallOK, CreateOK
  <2> QED BY <2>1, <1>2, KnowledgeAssumption
<1>5. \A c \in Callers : Undisturbed(c)
  BY Zenon, <1>4 DEF Undisturbed, Unhurt
<1>6. Continues(schemas, entities, schemas', entities') /\ SnapshotsOK(schemas', entities', done', snapshots')
  BY Zenon
<1> QED BY Zenon, <1>3, <1>5, <1>6, ContentStep

(* What a fill run holds, and that a run's job is open. *)
LEMMA OpenRuns ==
    ASSUME KnowledgeInv, NEW c \in Callers
    PROVE  /\ calls[c].op = "fill" => DOMAIN calls[c].writes \subseteq LiveIn(entities)
           /\ calls[c].op \in RunOps => calls[c].job \notin done
BY DEF KnowledgeInv, CallsInv, CallOK, FillOK, RunOK

(* delete takes the entity and its relations; a fill run holds the rows it will
   write, so none of those goes. *)
LEMMA DeleteEntityKeeps ==
    ASSUME KnowledgeInv, NEW e, DeleteEntity(e)
    PROVE  KnowledgeInv'
<1>1. /\ e \in LiveIn(entities) /\ e \notin Locked /\ entities' = Without(entities, e)
      /\ relations' = Detached(relations, e)
      /\ UNCHANGED <<schemas, home, snapshots, jobs, done, locks, calls>>
  BY Zenon DEF DeleteEntity, RowFree, Live, LiveRelations, relations_after_entity, Without, Detached, queue
<1>2. ContentOK(schemas, home, entities, relations)
  BY Zenon DEF KnowledgeInv, ContentInv
<1>3. /\ ContentOK(schemas, home, entities', relations') /\ Continues(schemas, entities, schemas, entities')
      /\ LiveIn(entities') = LiveIn(entities) \ {e}
  BY <1>1, <1>2, DeleteStep
<1>4. SnapshotsOK(schemas, entities', done', snapshots')
  BY Zenon, <1>1, <1>3, SnapshotsKept DEF KnowledgeInv
<1>5. ASSUME NEW c \in Callers, calls[c].op = "fill"
      PROVE  DOMAIN calls[c].writes \subseteq LiveIn(entities')
  <2>1. e \notin DOMAIN calls[c].writes
    BY Zenon, <1>1, <1>5 DEF Locked, Held
  <2> QED BY Zenon, <1>3, <1>5, <2>1, OpenRuns
<1>6. calls' = [c \in Callers |-> calls'[c]]
  BY Zenon, <1>1 DEF KnowledgeInv, CallsInv
<1>7. \A c \in Callers : Unhurt(c)
  BY Zenon, <1>1, <1>5, OpenRuns DEF Unhurt
<1> QED BY Zenon, <1>1, <1>3, <1>4, <1>6, <1>7, RowsChange

(* A step that ends one call, or none, and rewrites rows. *)
LEMMA RewriteChange ==
    ASSUME KnowledgeInv, Rewrites(schemas, entities, entities'),
           UNCHANGED <<schemas, home, relations, snapshots, jobs, locks>>, done \subseteq done',
           calls' = [c \in Callers |-> calls'[c]],
           \A c \in Callers :
             calls'[c] = Idle \/ (calls'[c] = calls[c] /\ (calls[c].op \in RunOps => calls[c].job \notin done'))
    PROVE  KnowledgeInv'
<1>1. ContentOK(schemas, home, entities, relations)
  BY Zenon DEF KnowledgeInv, ContentInv
<1>2. /\ ContentOK(schemas, home, entities', relations) /\ Continues(schemas, entities, schemas, entities')
      /\ LiveIn(entities') = LiveIn(entities)
  BY <1>1, RewriteStep
<1>3. SnapshotsOK(schemas, entities', done', snapshots')
  BY <1>2, SnapshotsKept DEF KnowledgeInv
<1>4. \A c \in Callers : calls[c].op = "fill" => DOMAIN calls[c].writes \subseteq LiveIn(entities')
  BY Zenon, <1>2, OpenRuns
<1>5. \A c \in Callers : Unhurt(c)
  BY Zenon, <1>4 DEF Unhurt
<1> QED BY Zenon, <1>2, <1>3, <1>5, RowsChange

(* Nothing but relations and one caller changes. *)
LEMMA RelationsChange ==
    ASSUME KnowledgeInv, ContentOK(schemas, home, entities, relations'),
           UNCHANGED <<schemas, home, entities, snapshots, jobs, done, locks>>,
           calls' = [c \in Callers |-> calls'[c]],
           \A c \in Callers : calls'[c] \in {Idle, calls[c]}
    PROVE  KnowledgeInv'
<1>1. Continues(schemas, entities, schemas, entities')
  BY Zenon DEF Continues
<1>2. SnapshotsOK(schemas, entities', done', snapshots')
  BY Zenon DEF KnowledgeInv
<1>3. \A c \in Callers : Unhurt(c)
  BY Zenon, OpenRuns DEF Unhurt
<1> QED BY Zenon, <1>1, <1>2, <1>3, RowsChange

(* set_status changes neither end nor type of a relation. *)
LEMMA SetRelationStatusKeeps ==
    ASSUME KnowledgeInv, NEW x, NEW status, SetRelationStatus(x, status)
    PROVE  KnowledgeInv'
<1>1. /\ x \in LiveIn(relations) /\ relations' = [relations EXCEPT ![x].status = status]
      /\ UNCHANGED <<schemas, home, entities, snapshots, jobs, done, locks, calls>>
  BY Zenon DEF SetRelationStatus, LiveRelations, queue
<1>2. ContentOK(schemas, home, entities, relations) /\ calls = [c \in Callers |-> calls[c]]
  BY Zenon DEF KnowledgeInv, ContentInv, CallsInv
<1>3. relations = [y \in RelationIds |-> relations[y]] /\ x \in RelationIds
  BY Zenon, <1>1, <1>2 DEF ContentOK, EdgesOK, LiveIn
<1>4. /\ relations' = [y \in RelationIds |-> relations'[y]]
      /\ \A y \in RelationIds \ {x} : relations'[y] = relations[y]
      /\ relations'[x] = [relations[x] EXCEPT !.status = status]
  BY Zenon, <1>1, <1>3
<1>5. ContentOK(schemas, home, entities, relations')
  BY Zenon, <1>1, <1>2, <1>4, RelationStep
<1> QED BY Zenon, <1>1, <1>2, <1>5, RelationsChange

(* Deleting a relation leaves the others as they are. *)
LEMMA DeleteRelationKeeps ==
    ASSUME KnowledgeInv, NEW x, DeleteRelation(x)
    PROVE  KnowledgeInv'
<1>1. /\ x \in LiveIn(relations) /\ relations' = [relations EXCEPT ![x] = [state |-> "gone"]]
      /\ UNCHANGED <<schemas, home, entities, snapshots, jobs, done, locks, calls>>
  BY Zenon DEF DeleteRelation, LiveRelations, queue
<1>2. ContentOK(schemas, home, entities, relations) /\ calls = [c \in Callers |-> calls[c]]
  BY DEF KnowledgeInv, ContentInv, CallsInv
<1>3. relations = [y \in RelationIds |-> relations[y]] /\ x \in RelationIds
  BY <1>1, <1>2 DEF ContentOK, EdgesOK, LiveIn
<1>4. /\ relations' = [y \in RelationIds |-> relations'[y]]
      /\ \A y \in RelationIds \ {x} : relations'[y] = relations[y]
      /\ relations'[x] = [state |-> "gone"]
  BY Zenon, <1>1, <1>3
<1>5. ContentOK(schemas, home, entities, relations')
  BY Zenon, <1>1, <1>2, <1>4, RelationStep
<1> QED BY Zenon, <1>1, <1>2, <1>5, RelationsChange

-----------------------------------------------------------------------------
(* Callers. *)

(* Giving up one's locks takes nobody else's. *)
LEMMA Released ==
    ASSUME NEW c
    PROVE  /\ DOMAIN Release(c) = DOMAIN locks
           /\ \A k \in DOMAIN locks : \A d \in Callers \ {c} : locks[k] = d => Release(c)[k] = d
BY Zenon DEF Release

(* A caller gives up: its transaction rolled back, was refused or died. *)
LEMMA GivesUp ==
    ASSUME KnowledgeInv, NEW c \in Callers, UNCHANGED <<content, queue>>,
           calls' = [calls EXCEPT ![c] = Idle], locks' = Release(c)
    PROVE  KnowledgeInv'
<1>1. /\ DOMAIN locks' = DOMAIN locks
      /\ \A k \in DOMAIN locks : \A d \in Callers \ {c} : locks[k] = d => locks'[k] = d
  BY Released
<1>2. CallOK(schemas, entities, locks', jobs, done, c, Idle) /\ Idle.op \notin RunOps
  BY IdleOK
<1> QED BY Zenon, <1>1, <1>2, CallStep

(* create takes the workspace lock and then counts: the quota check holds until
   the lock is given back. *)
LEMMA CreateEntityKeeps ==
    ASSUME KnowledgeInv, NEW c \in Callers, NEW name \in Names, NEW type, NEW data,
           CreateEntity(c, name, type, data)
    PROVE  KnowledgeInv'
<1> DEFINE x == [op |-> "create", name |-> name, type |-> type, data |-> data, schema |-> None]
<1>1. /\ locks["workspace"] \in {None, c} /\ Cardinality(LiveIn(entities)) < MaxEntities
      /\ locks' = [locks EXCEPT !["workspace"] = c]
      /\ calls' = [calls EXCEPT ![c] = x]
      /\ UNCHANGED <<content, queue>>
  BY Zenon DEF CreateEntity, lock_for_update, check_entity_quota
<1>2. DOMAIN locks = {"workspace"} \cup Names
  BY Zenon DEF KnowledgeInv, CallsInv
<1>3. DOMAIN locks' = DOMAIN locks /\ locks'["workspace"] = c
  BY Zenon, <1>1, <1>2
<1>4. \A k \in DOMAIN locks : \A d \in Callers \ {c} : locks[k] = d => locks'[k] = d
  BY <1>1, <1>2, KnowledgeAssumption
<1>5. CreateOK(schemas, entities, locks', c, x)
  BY Zenon, <1>1, <1>3 DEF CreateOK, CreateFields
<1>6. CallOK(schemas, entities, locks', jobs, done, c, x) /\ x.op \notin RunOps
  BY Zenon, <1>5 DEF CallOK, UpdateOK, RelateOK, FillOK, RunOK, RunOps
<1> HIDE DEF x
<1> QED BY Zenon, <1>1, <1>3, <1>4, <1>6, CallStep

(* The creation reads the active version of the schema it names and validates. *)
LEMMA ResolveEntityKeeps ==
    ASSUME KnowledgeInv, NEW c \in Callers, ResolveEntity(c)
    PROVE  KnowledgeInv'
<1> DEFINE name == calls[c].name
           s == get_active_schema(schemas, Ws, name)
           x == [calls[c] EXCEPT !.schema = s]
<1>1. /\ calls[c].op = "create" /\ locks[name] \in {None, c}
      /\ UNCHANGED <<content, queue>>
      /\ \/ /\ s # None /\ Accepts(schemas, s, calls[c].type, calls[c].data)
            /\ locks' = [locks EXCEPT ![name] = c]
            /\ calls' = [calls EXCEPT ![c].schema = s]
         \/ locks' = Release(c) /\ calls' = [calls EXCEPT ![c] = Idle]
  BY Zenon DEF ResolveEntity, lock_version, lock_for_update
<1>2. /\ DOMAIN locks = {"workspace"} \cup Names /\ calls = [d \in Callers |-> calls[d]]
      /\ CallOK(schemas, entities, locks, jobs, done, c, calls[c]) /\ TableOK(schemas)
  BY Zenon DEF KnowledgeInv, CallsInv, ContentInv, ContentOK
<1>3. /\ DOMAIN calls[c] = CreateFields /\ name \in Names
      /\ locks["workspace"] = c /\ Cardinality(LiveIn(entities)) < MaxEntities
  BY <1>1, <1>2 DEF CallOK, CreateOK
<1>4. CASE /\ s # None /\ Accepts(schemas, s, calls[c].type, calls[c].data)
           /\ locks' = [locks EXCEPT ![name] = c]
           /\ calls' = [calls EXCEPT ![c].schema = s]
  <2>1. s \in SchemaIds /\ Stored(schemas, s) /\ schemas[s].name = name
    BY <1>2, <1>4, ActiveSchemaIsActive
  <2>2. calls' = [calls EXCEPT ![c] = x]
    BY Zenon, <1>2, <1>4
  <2>3. DOMAIN locks' = DOMAIN locks /\ locks'[name] = c /\ locks'["workspace"] = c
    BY Zenon, <1>2, <1>3, <1>4
  <2>4. \A k \in DOMAIN locks : \A d \in Callers \ {c} : locks[k] = d => locks'[k] = d
    BY <1>1, <1>2, <1>4, KnowledgeAssumption
  <2> HIDE DEF s
  <2>5. /\ DOMAIN x = CreateFields /\ x.op = "create" /\ x.name = name /\ x.schema = s
        /\ x.type = calls[c].type /\ x.data = calls[c].data
    BY Zenon, <1>1, <1>3 DEF CreateFields
  <2> HIDE DEF x, name
  <2>6. CreateOK(schemas, entities, locks', c, x)
    BY ZenonT(60), <1>3, <1>4, <2>1, <2>3, <2>5 DEF CreateOK
  <2>7. CallOK(schemas, entities, locks', jobs, done, c, x) /\ x.op \notin RunOps
    BY <2>5, <2>6 DEF CallOK, UpdateOK, RelateOK, FillOK, RunOK, RunOps
  <2> QED BY Zenon, <1>1, <2>2, <2>3, <2>4, <2>7, CallStep
<1>5. CASE locks' = Release(c) /\ calls' = [calls EXCEPT ![c] = Idle]
  BY Zenon, <1>1, <1>5, GivesUp
<1> QED BY <1>1, <1>4, <1>5

(* Only one creation is open at a time, so its count still holds. *)
LEMMA InsertEntityKeeps ==
    ASSUME KnowledgeInv, NEW c \in Callers, InsertEntity(c)
    PROVE  KnowledgeInv'
<1> DEFINE row == EntityRow(calls[c].schema, calls[c].type, calls[c].data, 0, "create")
           n == Min(Fresh(entities))
<1>1. /\ calls[c].op = "create" /\ calls[c].schema # None /\ Fresh(entities) # {}
      /\ entities' = Insert(entities, row)
      /\ locks' = Release(c) /\ calls' = [calls EXCEPT ![c] = Idle]
      /\ UNCHANGED <<schemas, home, relations, snapshots, jobs, done>>
  BY Zenon DEF InsertEntity, queue
<1>2. /\ CallOK(schemas, entities, locks, jobs, done, c, calls[c])
      /\ calls = [d \in Callers |-> calls[d]]
      /\ ContentOK(schemas, home, entities, relations)
  BY Zenon DEF KnowledgeInv, CallsInv, ContentInv
<1>3. /\ locks["workspace"] = c /\ Cardinality(LiveIn(entities)) < MaxEntities
      /\ calls[c].schema \in SchemaIds /\ Stored(schemas, calls[c].schema)
      /\ Accepts(schemas, calls[c].schema, calls[c].type, calls[c].data)
  BY Zenon, <1>1, <1>2 DEF CallOK, CreateOK
<1>4. row.state = "live" /\ EntityOK(schemas, row)
  BY <1>3 DEF EntityRow, EntityOK, EntityFields
<1> HIDE DEF row
<1>5. /\ ContentOK(schemas, home, entities', relations) /\ Continues(schemas, entities, schemas, entities')
      /\ n \notin LiveIn(entities) /\ LiveIn(entities') = LiveIn(entities) \cup {n}
  <2> HIDE DEF n
  <2>1. n = Min(Fresh(entities))
    BY Zenon DEF n
  <2> QED BY <1>1, <1>2, <1>4, <2>1, InsertStep
<1> HIDE DEF n
<1>6. Cardinality(LiveIn(entities')) <= MaxEntities
  <2>1. DOMAIN entities = EntityIds
    BY Zenon, <1>2 DEF ContentOK, RowsOK
  <2>2. Cardinality(LiveIn(entities')) = Cardinality(LiveIn(entities)) + 1 /\ Cardinality(LiveIn(entities)) \in Nat
    BY <1>5, <2>1, LiveCount
  <2> QED BY <2>2, <1>3, KnowledgeAssumption
<1>7. ContentInv'
  BY Zenon, <1>1, <1>5, <1>6 DEF ContentInv
<1>8. SnapshotsOK(schemas', entities', done', snapshots')
  BY Zenon, <1>1, <1>5, SnapshotsKept DEF KnowledgeInv
<1>9. \A d \in Callers \ {c} : calls[d].op # "create"
  BY Zenon, <1>3 DEF KnowledgeInv, CallsInv, CallOK, CreateOK
<1>10. /\ DOMAIN locks' = DOMAIN locks /\ calls' = [d \in Callers |-> calls'[d]] /\ calls'[c] = Idle
       /\ \A d \in Callers \ {c} : /\ calls'[d] = calls[d]
                                   /\ \A k \in DOMAIN locks : locks[k] = d => locks'[k] = d
  BY Zenon, <1>1, <1>2, Released
<1>11. \A d \in Callers : /\ calls[d].op = "fill" => DOMAIN calls[d].writes \subseteq LiveIn(entities')
                          /\ calls[d].op \in RunOps => calls[d].job \notin done'
  BY Zenon, <1>1, <1>5, OpenRuns
<1>12. \A d \in Callers : Undisturbed(d)
  BY <1>9, <1>10, <1>11 DEF Undisturbed
<1> QED BY Zenon, <1>1, <1>5, <1>7, <1>8, <1>10, <1>12, ContentStep

(* update reads the row and validates the new data against the row's version. *)
LEMMA UpdateEntityKeeps ==
    ASSUME KnowledgeInv, NEW c \in Callers, NEW e, NEW data, NEW expected,
           UpdateEntity(c, e, data, expected)
    PROVE  KnowledgeInv'
<1> DEFINE x == [op |-> "update", entity |-> e, data |-> data,
                 rev |-> entities[e].rev, checked |-> expected # None]
<1>1. /\ e \in LiveIn(entities) /\ Accepts(schemas, entities[e].schema, entities[e].type, data)
      /\ calls' = [calls EXCEPT ![c] = x] /\ UNCHANGED <<content, queue, locks>>
  BY Zenon DEF UpdateEntity, Live
<1>2. e \in EntityIds /\ entities[e].state = "live"
  BY SMTT(20), <1>1, LiveNamesStored DEF LiveIn
<1>3. UpdateOK(schemas, entities, x)
  BY Zenon, <1>1, <1>2 DEF UpdateOK
<1>4. CallOK(schemas, entities, locks', jobs, done, c, x) /\ x.op \notin RunOps
  BY Zenon, <1>3 DEF CallOK, CreateOK, RelateOK, FillOK, RunOK, RunOps
<1> HIDE DEF x
<1> QED BY Zenon, <1>1, <1>4, CallStep

(* The write of an update: it finds the row as it was read, or another revision
   and then refuses if it was told which, or none. *)
LEMMA WriteEntityKeeps ==
    ASSUME KnowledgeInv, NEW c \in Callers, WriteEntity(c)
    PROVE  KnowledgeInv'
<1> DEFINE e == calls[c].entity
           by == IF calls[c].checked THEN "update" ELSE "blind"
           row == Written(entities[e], calls[c].data, by)
<1>1. /\ calls[c].op = "update"
      /\ \/ entities' = entities
         \/ e \in LiveIn(entities) /\ entities' = [entities EXCEPT ![e] = row]
      /\ calls' = [calls EXCEPT ![c] = Idle]
      /\ UNCHANGED <<schemas, home, relations, snapshots, jobs, done, locks>>
  BY Zenon DEF WriteEntity, Live, queue
<1>2. /\ CallOK(schemas, entities, locks, jobs, done, c, calls[c])
      /\ calls = [d \in Callers |-> calls[d]] /\ RowsOK(schemas, entities)
  BY Zenon DEF KnowledgeInv, CallsInv, ContentInv, ContentOK
<1>3. Rewrites(schemas, entities, entities)
  BY <1>2 DEF Rewrites, RowsOK
<1>4. ASSUME e \in LiveIn(entities), entities' = [entities EXCEPT ![e] = row]
      PROVE  Rewrites(schemas, entities, entities')
  <2>1. e \in EntityIds /\ entities[e].state = "live" /\ EntityOK(schemas, entities[e])
    BY Zenon, <1>2, <1>4 DEF RowsOK, LiveIn
  <2>2. Accepts(schemas, entities[e].schema, entities[e].type, calls[c].data)
    BY <1>1, <1>2, <2>1 DEF CallOK, UpdateOK
  <2>3. by # "fill"
    BY Zenon
  <2> HIDE DEF by
  <2>4. /\ DOMAIN row = EntityFields /\ row.state = "live" /\ row.schema = entities[e].schema
        /\ row.type = entities[e].type /\ row.data = calls[c].data /\ row.by = by
    BY Zenon, <2>1 DEF Written, EntityOK, EntityFields
  <2>5. EntityOK(schemas, row)
    BY Zenon, <2>1, <2>2, <2>4 DEF EntityOK
  <2> HIDE DEF row
  <2>6. /\ entities' = [f \in EntityIds |-> entities'[f]] /\ entities'[e] = row
        /\ \A f \in EntityIds \ {e} : entities'[f] = entities[f]
    BY Zenon, <1>2, <1>4, <2>1 DEF RowsOK
  <2>7. \A f \in LiveIn(entities) : /\ EntityOK(schemas, entities[f]) /\ f \in EntityIds
    BY Zenon, <1>2 DEF RowsOK, LiveIn
  <2> HIDE DEF e
  <2>8. /\ entities'[e].state = entities[e].state /\ entities'[e].schema = entities[e].schema
        /\ entities'[e].type = entities[e].type /\ EntityOK(schemas, entities'[e])
    BY <2>1, <2>4, <2>5, <2>6
  <2> QED BY Zenon, <2>6, <2>7, <2>8 DEF Rewrites
<1>5. Rewrites(schemas, entities, entities')
  BY Zenon, <1>1, <1>3, <1>4
<1>6. calls' = [d \in Callers |-> calls'[d]] /\ calls'[c] = Idle /\ \A d \in Callers \ {c} : calls'[d] = calls[d]
  BY <1>1, <1>2
<1> QED BY <1>1, <1>5, <1>6, OpenRuns, RewriteChange

(* create_relation reads both ends and validates the type. *)
LEMMA CreateRelationKeeps ==
    ASSUME KnowledgeInv, NEW c \in Callers, NEW e, NEW f, NEW type, CreateRelation(c, e, f, type)
    PROVE  KnowledgeInv'
<1> DEFINE row == RelationRow(e, f, type)
           x == [op |-> "relate", row |-> row]
<1>1. /\ e \in LiveIn(entities) /\ f \in LiveIn(entities)
      /\ validate_relation_type(schemas, entities, e, f, type)
      /\ calls' = [calls EXCEPT ![c] = x] /\ UNCHANGED <<content, queue, locks>>
  BY Zenon DEF CreateRelation, Live
<1>2. e \in EntityIds /\ entities[e].state = "live" /\ f \in EntityIds /\ entities[f].state = "live"
  BY <1>1, LiveNamesStored DEF LiveIn
<1>3. /\ row.state = "live" /\ DOMAIN row = RelationFields
      /\ row.source = e /\ row.target = f /\ row.type = type
  BY Zenon DEF RelationRow, RelationFields
<1> HIDE DEF row
<1>4. RelateOK(schemas, entities, x)
  BY Zenon, <1>1, <1>2, <1>3 DEF RelateOK
<1>5. CallOK(schemas, entities, locks', jobs, done, c, x) /\ x.op \notin RunOps
  BY Zenon, <1>4 DEF CallOK, CreateOK, UpdateOK, FillOK, RunOK, RunOps
<1> HIDE DEF x
<1> QED BY Zenon, <1>1, <1>5, CallStep

(* The insert refuses a relation whose end went meanwhile (the foreign key) or
   that is there already (the unique index). *)
LEMMA InsertRelationKeeps ==
    ASSUME KnowledgeInv, NEW c \in Callers, InsertRelation(c)
    PROVE  KnowledgeInv'
<1> DEFINE row == calls[c].row
<1>1. /\ calls[c].op = "relate" /\ Fresh(relations) # {}
      /\ relations' = IF insertable(entities, relations, row) THEN Insert(relations, row) ELSE relations
      /\ calls' = [calls EXCEPT ![c] = Idle]
      /\ UNCHANGED <<schemas, home, entities, snapshots, jobs, done, locks>>
  BY Zenon DEF InsertRelation, queue
<1>2. /\ CallOK(schemas, entities, locks, jobs, done, c, calls[c])
      /\ calls = [d \in Callers |-> calls[d]] /\ ContentOK(schemas, home, entities, relations)
  BY DEF KnowledgeInv, CallsInv, ContentInv
<1>3. ContentOK(schemas, home, entities, relations')
  <2>1. CASE ~insertable(entities, relations, row)
    BY Zenon, <1>1, <1>2, <2>1
  <2>2. CASE insertable(entities, relations, row)
    <3>1. entities[row.source].state = "live" /\ entities[row.target].state = "live"
      BY Zenon, <2>2 DEF insertable, LiveIn
    <3>2. /\ row.state = "live" /\ DOMAIN row = RelationFields
          /\ validate_relation_type(schemas, entities, row.source, row.target, row.type)
      BY Zenon, <1>1, <1>2, <3>1 DEF CallOK, RelateOK
    <3> QED BY <1>1, <1>2, <2>2, <3>2, RelateStep
  <2> QED BY <2>1, <2>2
<1>4. calls' = [d \in Callers |-> calls'[d]] /\ \A d \in Callers : calls'[d] \in {Idle, calls[d]}
  BY <1>1, <1>2
<1> QED BY <1>1, <1>3, <1>4, RelationsChange

-----------------------------------------------------------------------------
(* Jobs. *)

(* A step that only adds a job, or changes who may run it. *)
LEMMA JobsChange ==
    ASSUME KnowledgeInv, UNCHANGED <<content, done, locks, calls>>, JobsOK(jobs'),
           \A j \in JobIds : jobs[j].kind \in RunOps => jobs'[j].kind = jobs[j].kind
    PROVE  KnowledgeInv'
<1>1. /\ schemas' = schemas /\ home' = home /\ entities' = entities /\ relations' = relations
      /\ snapshots' = snapshots /\ done' = done /\ locks' = locks /\ calls' = calls
  BY DEF content
<1>2. \A c \in Callers : CallOK(schemas, entities, locks, jobs', done, c, calls[c])
  BY DEF KnowledgeInv, CallsInv, CallOK, RunOK
<1>3. CallsInv'
  BY Zenon, <1>1, <1>2 DEF KnowledgeInv, CallsInv
<1>4. ContentInv'
  BY <1>1 DEF KnowledgeInv, ContentInv
<1> QED BY Zenon, <1>1, <1>3, <1>4 DEF KnowledgeInv

(* Enqueuing a job stores its kind and its file. *)
LEMMA EnqueueKeeps ==
    ASSUME KnowledgeInv, NEW job, Enqueue(job), "kind" \in DOMAIN job,
           job.kind = "import" => "lines" \in DOMAIN job /\ LinesOK(job.lines)
    PROVE  KnowledgeInv'
<1> DEFINE n == NextJob
           F == {j \in JobIds : jobs[j] = FreshJob}
<1>1. F # {} /\ F \subseteq Nat /\ jobs' = [jobs EXCEPT ![n] = job] /\ UNCHANGED <<content, done, locks, calls>>
  BY Zenon, KnowledgeAssumption DEF Enqueue
<1>2. n \in F
  <2>1. n = Min(F)
    BY Zenon DEF NextJob
  <2> HIDE DEF F, n
  <2> QED BY Zenon, <1>1, <2>1, MinIsLeast
<1>3. n \in JobIds /\ jobs[n].kind = "fresh"
  BY <1>2 DEF FreshJob
<1> HIDE DEF n
<1>4. JobsOK(jobs)
  BY DEF KnowledgeInv
<1>5. jobs' = [j \in JobIds |-> jobs'[j]] /\ jobs'[n] = job /\ \A j \in JobIds \ {n} : jobs'[j] = jobs[j]
  BY Zenon, <1>1, <1>3, <1>4 DEF JobsOK
<1>6. JobsOK(jobs')
  BY <1>4, <1>5 DEF JobsOK
<1>7. \A j \in JobIds : jobs[j].kind \in RunOps => jobs'[j].kind = jobs[j].kind
  BY Zenon, <1>3, <1>5 DEF RunOps
<1> QED BY Zenon, <1>1, <1>6, <1>7, JobsChange

(* Revoking the actor of a job changes nothing else. *)
LEMMA RevokeActorKeeps ==
    ASSUME KnowledgeInv, NEW n \in JobIds, RevokeActor(n)
    PROVE  KnowledgeInv'
<1>1. jobs' = [jobs EXCEPT ![n].actor = FALSE] /\ UNCHANGED <<content, done, locks, calls>>
  BY Zenon DEF RevokeActor
<1>2. JobsOK(jobs)
  BY Zenon DEF KnowledgeInv
<1>3. /\ jobs' = [j \in JobIds |-> jobs'[j]] /\ jobs'[n] = [jobs[n] EXCEPT !.actor = FALSE]
      /\ \A j \in JobIds \ {n} : jobs'[j] = jobs[j]
  BY Zenon, <1>1, <1>2 DEF JobsOK
<1>4. /\ DOMAIN jobs'[n] = DOMAIN jobs[n] /\ jobs'[n].kind = jobs[n].kind
      /\ "lines" \in DOMAIN jobs[n] => jobs'[n].lines = jobs[n].lines
  BY Zenon, <1>2, <1>3 DEF JobsOK
<1>5. JobsOK(jobs')
  BY <1>2, <1>3, <1>4 DEF JobsOK
<1> QED BY <1>1, <1>3, <1>4, <1>5, JobsChange

-----------------------------------------------------------------------------
(* The fill run. *)

(* Starting a run: no other run of the job is open. *)
LEMMA RunStarts ==
    ASSUME NEW j \in JobIds, NEW kind \in RunOps, MayRun(j, kind), NEW x, x.op = kind, x.job = j
    PROVE  /\ RunOK(jobs, done, x)
           /\ \A d \in Callers : calls[d].op \in RunOps => calls[d].job # x.job
BY Zenon DEF MayRun, RunOK, job_completed

(* A fill run starts by reading the rows of its name that are not on the active
   version. *)
LEMMA FillReadKeeps ==
    ASSUME KnowledgeInv, NEW c \in Callers, NEW j \in JobIds, FillRead(c, j)
    PROVE  KnowledgeInv'
<1> DEFINE s == get_active_schema(schemas, Ws, jobs[j].name)
           left == {e \in Behind(jobs[j].name) : entities[e].type \in DOMAIN schemas[s].def.types}
           x == [op |-> "fill", job |-> j, fields |-> schemas[s].def.types,
                 read |-> [e \in Behind(jobs[j].name) |-> entities[e]],
                 left |-> left, saved |-> <<>>, at |-> None, writes |-> <<>>]
<1>1. MayRun(j, "fill") /\ calls' = [calls EXCEPT ![c] = x] /\ UNCHANGED <<content, queue, locks>>
  BY DEF FillRead
<1>2. left \subseteq EntityIds
  BY Zenon, LiveNamesStored DEF Behind, Live
<1> HIDE DEF left
<1>3. /\ x.op = "fill" /\ x.job = j /\ x.left = left /\ x.saved = <<>> /\ x.writes = <<>>
      /\ DOMAIN x = FillFields
  BY Zenon DEF FillFields
<1> HIDE DEF x
<1>4. IsSequence(<<>>) /\ DOMAIN <<>> = {}
  <2>1. <<>> \in Seq({})
    OBVIOUS
  <2> QED BY <2>1 DEF IsSequence
<1>5. FillOK(schemas, entities, x)
  BY Zenon, <1>2, <1>3, <1>4 DEF FillOK
<1>6. /\ RunOK(jobs, done, x)
      /\ \A d \in Callers : calls[d].op \in RunOps => calls[d].job # x.job
  <2>1. "fill" \in RunOps
    BY SMTT(20) DEF RunOps
  <2> QED BY Zenon, <1>1, <1>3, <2>1, RunStarts
<1>7. CallOK(schemas, entities, locks', jobs, done, c, x)
  BY <1>3, <1>5, <1>6 DEF CallOK, CreateOK, UpdateOK, RelateOK
<1> QED BY Zenon, <1>1, <1>6, <1>7, CallStep

(* A caller of a fill run moves on: it stays a run of the same job. *)
LEMMA FillGoesOn ==
    ASSUME KnowledgeInv, NEW c \in Callers, calls[c].op = "fill", NEW x,
           calls' = [calls EXCEPT ![c] = x], UNCHANGED <<content, queue, locks>>,
           x.op = "fill", x.job = calls[c].job, FillOK(schemas, entities, x)
    PROVE  KnowledgeInv'
<1>1. CallOK(schemas, entities, locks, jobs, done, c, calls[c]) /\ RunsExclude(calls)
  BY Zenon DEF KnowledgeInv, CallsInv
<1>2. RunOK(jobs, done, x)
  BY Zenon, <1>1 DEF CallOK, RunOK
<1>3. CallOK(schemas, entities, locks', jobs, done, c, x)
  BY Zenon, <1>2 DEF CallOK, CreateOK, UpdateOK, RelateOK
<1>4. \A d \in Callers \ {c} : calls[d].op \in RunOps => calls[d].job # x.job
  BY <1>1 DEF RunsExclude, RunOps
<1> QED BY Zenon, <1>3, <1>4, CallStep

(* It saves each row that is still there as it is now. *)
LEMMA FillSnapshotKeeps ==
    ASSUME KnowledgeInv, NEW c \in Callers, FillSnapshot(c)
    PROVE  KnowledgeInv'
<1> DEFINE call == calls[c]
           e == Min(call.left)
           snap == Snapshot(call.job, e, entities[e])
           saved == IF e \in LiveIn(entities) THEN Append(call.saved, snap) ELSE call.saved
           at == IF e \in LiveIn(entities) THEN e ELSE None
           x == [call EXCEPT !.left = @ \ {e}, !.saved = saved, !.at = at]
<1>1. FillOK(schemas, entities, call) /\ calls = [d \in Callers |-> calls[d]] /\ RowsOK(schemas, entities)
  BY Zenon DEF KnowledgeInv, CallsInv, CallOK, ContentInv, ContentOK
<1>2. call.op = "fill" /\ call.left # {} /\ UNCHANGED <<content, queue, locks>>
  BY DEF FillSnapshot
<1>3. calls' = [calls EXCEPT ![c].left = @ \ {e}, ![c].saved = saved, ![c].at = at]
  BY Zenon DEF FillSnapshot, Live
<1>4. /\ DOMAIN call = FillFields /\ call.left \subseteq EntityIds /\ IsSequence(call.saved)
      /\ DOMAIN call.writes \subseteq LiveIn(entities)
  BY Zenon, <1>1, <1>2 DEF FillOK
<1>5. e \in call.left
  <2>1. call.left \subseteq Nat
    BY Zenon, <1>4, KnowledgeAssumption
  <2> QED BY <1>2, <2>1, MinIsLeast
<1> HIDE DEF e, saved, at
<1>6. calls' = [calls EXCEPT ![c] = x]
  BY Zenon, <1>1, <1>3, <1>4 DEF FillFields
<1>7. /\ DOMAIN x = FillFields /\ x.op = "fill" /\ x.job = call.job /\ x.left = call.left \ {e}
      /\ x.saved = saved /\ x.writes = call.writes
  BY <1>2, <1>4 DEF FillFields
<1>8. /\ \A i \in DOMAIN call.saved :
           /\ call.saved[i].job = call.job /\ SnapOK(schemas, entities, call.saved[i])
           /\ call.saved[i].entity \notin call.left
      /\ \A i, k \in DOMAIN call.saved : call.saved[i].entity = call.saved[k].entity => i = k
  BY <1>1, <1>2 DEF FillOK
<1> HIDE DEF x, call
<1>9. /\ IsSequence(saved)
      /\ \A i \in DOMAIN saved : saved[i].job = call.job /\ SnapOK(schemas, entities, saved[i])
                                 /\ saved[i].entity \notin call.left \ {e}
      /\ \A i, k \in DOMAIN saved : saved[i].entity = saved[k].entity => i = k
  <2>1. CASE e \notin LiveIn(entities)
    BY <1>4, <1>8, <2>1 DEF saved
  <2>2. CASE e \in LiveIn(entities)
    <3>1. saved = Append(call.saved, snap)
      BY Zenon, <2>2 DEF saved
    <3>2. snap.job = call.job /\ snap.entity = e /\ snap.row = entities[e]
      BY DEF Snapshot
    <3>3. e \in EntityIds /\ entities[e].state = "live" /\ EntityOK(schemas, entities[e])
      BY <1>1, <2>2 DEF RowsOK, LiveIn
    <3> HIDE DEF snap
    <3>4. SnapOK(schemas, entities, snap)
      BY Zenon, <3>2, <3>3 DEF SnapOK, EntityOK
    <3>5. Len(call.saved) \in Nat /\ DOMAIN call.saved = 1..Len(call.saved)
      BY <1>4, SequenceType
    <3>6. /\ IsSequence(saved) /\ DOMAIN saved = 1..(Len(call.saved) + 1)
          /\ \A i \in 1..Len(call.saved) : saved[i] = call.saved[i]
          /\ saved[Len(call.saved) + 1] = snap
      BY <1>4, <3>1, AppendedSequence
    <3>7. \A i \in DOMAIN saved : i \in 1..Len(call.saved) \/ i = Len(call.saved) + 1
      BY <3>5, <3>6
    <3>8. ASSUME NEW i \in DOMAIN saved
          PROVE  /\ saved[i].job = call.job /\ SnapOK(schemas, entities, saved[i])
                 /\ saved[i].entity \notin call.left \ {e}
      <4>1. CASE i \in 1..Len(call.saved)
        BY <1>8, <3>5, <3>6, <4>1
      <4>2. CASE i = Len(call.saved) + 1
        BY Zenon, <3>2, <3>4, <3>6, <4>2
      <4> QED BY Zenon, <3>7, <4>1, <4>2
    <3>9. ASSUME NEW i \in DOMAIN saved, NEW k \in DOMAIN saved, saved[i].entity = saved[k].entity
          PROVE  i = k
      <4>1. \A m \in 1..Len(call.saved) : saved[m].entity # e
        BY <1>5, <1>8, <3>5, <3>6
      <4>2. CASE i \in 1..Len(call.saved) /\ k \in 1..Len(call.saved)
        BY Zenon, <1>8, <3>5, <3>6, <3>9, <4>2
      <4> QED BY Zenon, <3>2, <3>6, <3>7, <3>9, <4>1, <4>2
    <3> QED BY Zenon, <3>6, <3>8, <3>9
  <2> QED BY Zenon, <2>1, <2>2
<1>10. FillOK(schemas, entities, x)
  BY <1>4, <1>7, <1>9 DEF FillOK
<1> QED BY Zenon, <1>2, <1>6, <1>7, <1>10, FillGoesOn DEF call

(* Then it writes the row it read with the missing fields filled, if that changed
   anything; nobody else can write the row until it commits. *)
LEMMA FillWriteKeeps ==
    ASSUME KnowledgeInv, NEW c \in Callers, FillWrite(c)
    PROVE  KnowledgeInv'
<1> DEFINE call == calls[c]
           e == call.at
           changed == e \in LiveIn(entities) /\ Filled(call, e) # call.read[e].data
           writes == IF changed THEN [f \in DOMAIN call.writes \cup {e} |-> Filled(call, f)] ELSE call.writes
           x == [call EXCEPT !.at = None, !.writes = writes]
<1>1. FillOK(schemas, entities, call) /\ calls = [d \in Callers |-> calls[d]]
  BY Zenon DEF KnowledgeInv, CallsInv, CallOK
<1>2. call.op = "fill" /\ UNCHANGED <<content, queue, locks>>
  BY Zenon DEF FillWrite
<1>3. DOMAIN call = FillFields /\ DOMAIN call.writes \subseteq LiveIn(entities)
  BY <1>1, <1>2 DEF FillOK
<1>4. calls' = [calls EXCEPT ![c].at = None,
                  ![c].writes = IF changed THEN [f \in DOMAIN @ \cup {e} |-> Filled(call, f)] ELSE @]
  BY Zenon DEF FillWrite, Live
<1>5. DOMAIN writes \subseteq LiveIn(entities)
  BY Zenon, <1>3
<1> HIDE DEF changed
<1>6. calls' = [calls EXCEPT ![c] = x]
  BY Zenon, <1>1, <1>3, <1>4 DEF FillFields
<1> HIDE DEF writes
<1>7. /\ DOMAIN x = FillFields /\ x.op = "fill" /\ x.job = call.job /\ x.left = call.left
      /\ x.saved = call.saved /\ x.writes = writes
  BY Zenon, <1>2, <1>3 DEF FillFields
<1> HIDE DEF x
<1>8. FillOK(schemas, entities, x)
  BY Zenon, <1>1, <1>2, <1>5, <1>7 DEF FillOK
<1> QED BY Zenon, <1>2, <1>6, <1>7, <1>8, FillGoesOn

(* The job was not complete, so nothing was saved for it before. *)
LEMMA FillCommitKeeps ==
    ASSUME KnowledgeInv, NEW c \in Callers, FillCommit(c)
    PROVE  KnowledgeInv'
<1> DEFINE call == calls[c]
<1>1. /\ call.op = "fill" /\ snapshots' = snapshots \o call.saved /\ done' = done \cup {call.job}
      /\ entities' = [e \in EntityIds |-> IF e \in DOMAIN call.writes
                                          THEN Written(entities[e], call.writes[e], "fill") ELSE entities[e]]
      /\ calls' = [calls EXCEPT ![c] = Idle] /\ UNCHANGED <<schemas, home, relations, jobs, locks>>
  BY Zenon DEF FillCommit
<1>2. /\ FillOK(schemas, entities, call) /\ RunOK(jobs, done, call) /\ calls = [d \in Callers |-> calls[d]]
      /\ ContentOK(schemas, home, entities, relations) /\ RunsExclude(calls)
      /\ SnapshotsOK(schemas, entities, done, snapshots)
  BY DEF KnowledgeInv, CallsInv, CallOK, ContentInv
<1> HIDE DEF call
<1>3. Rewrites(schemas, entities, entities')
  <2>1. RowsOK(schemas, entities) /\ DOMAIN call.writes \subseteq LiveIn(entities)
    BY Zenon, <1>1, <1>2 DEF ContentOK, FillOK
  <2>2. ASSUME NEW e \in LiveIn(entities), e \in DOMAIN call.writes
        PROVE  /\ entities'[e].state = "live" /\ EntityOK(schemas, entities'[e])
               /\ entities'[e].schema = entities[e].schema /\ entities'[e].type = entities[e].type
    <3>1. e \in EntityIds /\ entities[e].state = "live" /\ EntityOK(schemas, entities[e])
      BY Zenon, <2>1 DEF RowsOK, LiveIn
    <3>2. entities'[e] = Written(entities[e], call.writes[e], "fill")
      BY Zenon, <1>1, <2>2, <3>1
    <3>3. /\ DOMAIN entities'[e] = EntityFields /\ entities'[e].state = "live"
          /\ entities'[e].schema = entities[e].schema /\ entities'[e].type = entities[e].type
          /\ entities'[e].by = "fill"
      BY <3>1, <3>2 DEF Written, EntityOK, EntityFields
    <3> QED BY <3>1, <3>3 DEF EntityOK
  <2>3. \A e \in EntityIds : e \notin DOMAIN call.writes => entities'[e] = entities[e]
    BY Zenon, <1>1
  <2>4. entities' = [e \in EntityIds |-> entities'[e]]
    BY Zenon, <1>1
  <2>5. \A e \in EntityIds : entities'[e].state = entities[e].state
    BY <2>1, <2>2, <2>3 DEF LiveIn
  <2>6. \A e \in LiveIn(entities) : /\ EntityOK(schemas, entities'[e])
                                    /\ entities'[e].schema = entities[e].schema
                                    /\ entities'[e].type = entities[e].type
    <3>1. \A e \in LiveIn(entities) : e \in EntityIds /\ EntityOK(schemas, entities[e])
      BY <2>1 DEF RowsOK, LiveIn
    <3> QED BY Zenon, <2>2, <2>3, <3>1
  <2> QED BY <2>4, <2>5, <2>6 DEF Rewrites
<1>4. /\ ContentOK(schemas, home, entities', relations) /\ Continues(schemas, entities, schemas, entities')
      /\ LiveIn(entities') = LiveIn(entities)
  BY <1>2, <1>3, RewriteStep
<1>5. FillOK(schemas, entities', call) /\ SnapshotsOK(schemas, entities', done, snapshots)
  <2>1. call.op = "fill" => DOMAIN call.writes \subseteq LiveIn(entities')
    BY <1>2, <1>4 DEF FillOK
  <2> QED BY Zenon, <1>2, <1>4, <2>1, FillKept, SnapshotsKept
<1>6. SnapshotsOK(schemas, entities', done', snapshots')
  <2> DEFINE m == Len(snapshots)
             n == Len(call.saved)
  <2>1. /\ IsSequence(snapshots) /\ IsSequence(call.saved)
        /\ \A i \in DOMAIN snapshots : SnapOK(schemas, entities', snapshots[i]) /\ snapshots[i].job \in done
        /\ \A i \in DOMAIN call.saved : SnapOK(schemas, entities', call.saved[i]) /\ call.saved[i].job = call.job
    BY <1>1, <1>5 DEF FillOK, SnapshotsOK
  <2>2. call.job \notin done
    BY Zenon, <1>1, <1>2 DEF RunOK, RunOps
  <2>3. /\ m \in Nat /\ DOMAIN snapshots = 1..m /\ n \in Nat /\ DOMAIN call.saved = 1..n
    BY Zenon, <2>1, SequenceType
  <2>4. /\ IsSequence(snapshots') /\ DOMAIN snapshots' = 1..(m + n)
        /\ \A i \in 1..m : snapshots'[i] = snapshots[i]
        /\ \A i \in (m + 1)..(m + n) : snapshots'[i] = call.saved[i - m]
    BY <1>1, <2>1, JoinedSequence
  <2> HIDE DEF m, n
  <2>5. \A i \in DOMAIN snapshots' : i \in 1..m \/ (i \in (m + 1)..(m + n) /\ i - m \in 1..n)
    BY <2>3, <2>4
  <2>6. ASSUME NEW i \in DOMAIN snapshots'
        PROVE  SnapOK(schemas, entities', snapshots'[i]) /\ snapshots'[i].job \in done'
    <3>1. CASE i \in 1..m
      BY <1>1, <2>1, <2>3, <2>4, <3>1
    <3>2. CASE i \in (m + 1)..(m + n) /\ i - m \in 1..n
      <4>1. SnapOK(schemas, entities', call.saved[i - m]) /\ call.saved[i - m].job = call.job
        BY <2>1, <2>3, <3>2
      <4>2. snapshots'[i] = call.saved[i - m] /\ call.job \in done'
        BY Zenon, <1>1, <2>4, <3>2
      <4> QED BY Zenon, <4>1, <4>2
    <3> QED BY Zenon, <2>5, <3>1, <3>2
  <2>7. ASSUME NEW i \in DOMAIN snapshots', NEW k \in DOMAIN snapshots',
               snapshots'[i].job = snapshots'[k].job, snapshots'[i].entity = snapshots'[k].entity
        PROVE  i = k
    <3>1. CASE i \in 1..m /\ k \in 1..m
      BY SMTT(20), <1>2, <2>3, <2>4, <2>7, <3>1 DEF SnapshotsOK
    <3>2. CASE i \in (m + 1)..(m + n) /\ k \in (m + 1)..(m + n)
      <4>1. i - m \in DOMAIN call.saved /\ k - m \in DOMAIN call.saved
        BY <2>3, <2>5, <3>2
      <4>2. call.saved[i - m].entity = call.saved[k - m].entity
        BY Zenon, <2>4, <2>7, <3>2
      <4>3. i - m = k - m
        BY <1>1, <1>2, <4>1, <4>2 DEF FillOK
      <4> QED BY <2>3, <3>2, <4>3
    <3>3. CASE i \in 1..m /\ k \in (m + 1)..(m + n)
      <4>1. snapshots'[i].job \in done /\ snapshots'[k].job = call.job
        BY <2>1, <2>3, <2>4, <2>5, <3>3
      <4> QED BY Zenon, <2>2, <2>7, <4>1
    <3>4. CASE i \in (m + 1)..(m + n) /\ k \in 1..m
      <4>1. snapshots'[k].job \in done /\ snapshots'[i].job = call.job
        BY <2>1, <2>3, <2>4, <2>5, <3>4
      <4> QED BY Zenon, <2>2, <2>7, <4>1
    <3> QED BY SMTT(20), <2>5, <3>1, <3>2, <3>3, <3>4
  <2> QED BY Zenon, <2>4, <2>6, <2>7 DEF SnapshotsOK
<1>7. calls' = [d \in Callers |-> calls'[d]] /\ calls'[c] = Idle /\ \A d \in Callers \ {c} : calls'[d] = calls[d]
  BY Zenon, <1>1, <1>2
<1>8. ASSUME NEW d \in Callers \ {c}
      PROVE  /\ calls[d].op = "fill" => DOMAIN calls[d].writes \subseteq LiveIn(entities')
             /\ calls[d].op \in RunOps => calls[d].job \notin done'
  <2>1. calls[d].op \in RunOps => calls[d].job # call.job
    BY Zenon, <1>1, <1>2 DEF RunsExclude, RunOps, call
  <2> QED BY Zenon, <1>1, <1>4, <2>1, OpenRuns
<1>9. \A d \in Callers : Unhurt(d)
  BY Zenon, <1>1, <1>7, <1>8 DEF Unhurt
<1> QED BY SMTT(20), <1>1, <1>4, <1>6, <1>7, <1>9, RowsChange

-----------------------------------------------------------------------------
(* Undo and import. *)

(* An undo puts back all snapshots of its job in one transaction. *)
LEMMA RunUndoKeeps ==
    ASSUME KnowledgeInv, NEW j, RunUndo(j)
    PROVE  KnowledgeInv'
<1>1. /\ MayRun(j, "undo") /\ entities' = restored(entities, snapshots, jobs[j].of)[Len(snapshots)]
      /\ done' = done \cup {j}
      /\ UNCHANGED <<schemas, home, relations, snapshots, jobs, locks, calls>>
  BY Zenon DEF RunUndo, undo_job
<1>2. RowsOK(schemas, entities) /\ SnapshotsOK(schemas, entities, done, snapshots) /\ calls = [c \in Callers |-> calls[c]]
  BY Zenon DEF KnowledgeInv, CallsInv, ContentInv, ContentOK
<1>3. Len(snapshots) \in Nat /\ \A i \in 1..Len(snapshots) : SnapOK(schemas, entities, snapshots[i])
  BY Zenon, <1>2, SequenceType DEF SnapshotsOK
<1>4. Rewrites(schemas, entities, entities')
  BY SMTT(20), <1>1, <1>2, <1>3, UndoRewrites
<1>5. \A c \in Callers : calls[c].op \in RunOps => calls[c].job \notin done'
  BY Zenon, <1>1, OpenRuns DEF MayRun
<1> QED BY SMTT(20), <1>1, <1>2, <1>4, <1>5, RewriteChange

(* An import takes the locks its file needs before it reads a line. *)
LEMMA ImportStartKeeps ==
    ASSUME KnowledgeInv, NEW c \in Callers, NEW j \in JobIds, ImportStart(c, j)
    PROVE  KnowledgeInv'
<1> DEFINE x == [op |-> "import", job |-> j]
           names == LineNames(jobs[j].lines)
<1>1. /\ MayRun(j, "import") /\ \A name \in names : locks[name] \in {None, c}
      /\ locks' = [k \in DOMAIN locks |-> IF k \in names THEN c ELSE locks[k]]
      /\ calls' = [calls EXCEPT ![c] = x] /\ UNCHANGED <<content, queue>>
  BY DEF ImportStart, lock_version, lock_for_update
<1> HIDE DEF names
<1>2. DOMAIN locks' = DOMAIN locks /\ \A k \in DOMAIN locks : \A d \in Callers \ {c} : locks[k] = d => locks'[k] = d
  BY <1>1, KnowledgeAssumption
<1>3. /\ RunOK(jobs, done, x)
      /\ \A d \in Callers : calls[d].op \in RunOps => calls[d].job # x.job
  <2>1. "import" \in RunOps
    BY DEF RunOps
  <2> QED BY Zenon, <1>1, <2>1, RunStarts
<1>4. CallOK(schemas, entities, locks', jobs, done, c, x)
  BY Zenon, <1>3 DEF CallOK, CreateOK, UpdateOK, RelateOK, FillOK
<1> HIDE DEF x
<1> QED BY Zenon, <1>1, <1>2, <1>3, <1>4, CallStep

(* An import with entity lines has the workspace's lock, so no creation is
   open; one without leaves the entities alone. *)
LEMMA ImportCommitKeeps ==
    ASSUME KnowledgeInv, NEW c \in Callers, ImportCommit(c)
    PROVE  KnowledgeInv'
<1> DEFINE lines == jobs[calls[c].job].lines
           after == import_jsonl(Before(schemas, home, entities, relations), lines)
<1>1. /\ calls[c].op = "import"
      /\ \A k \in EntityLocks(lines) : locks[k] \in {None, c}
      /\ schemas' = IF after.ok THEN after.schemas ELSE schemas
      /\ home' = IF after.ok THEN after.home ELSE home
      /\ entities' = IF after.ok THEN after.entities ELSE entities
      /\ relations' = IF after.ok THEN after.relations ELSE relations
      /\ done' = IF after.ok THEN done \cup {calls[c].job} ELSE done
      /\ locks' = Release(c) /\ calls' = [calls EXCEPT ![c] = Idle] /\ UNCHANGED <<snapshots, jobs>>
  BY Zenon DEF ImportCommit, lock_for_update
<1>2. CASE ~after.ok
  <2> HIDE DEF after, lines
  <2>1. UNCHANGED <<content, queue>>
    BY Zenon, <1>1, <1>2 DEF content, queue
  <2> QED BY Zenon, <1>1, <2>1, GivesUp
<1>3. CASE after.ok
  <2>1. /\ ContentOK(schemas, home, entities, relations) /\ Cardinality(LiveIn(entities)) <= MaxEntities
        /\ RunOK(jobs, done, calls[c]) /\ JobsOK(jobs) /\ RunsExclude(calls)
        /\ calls = [d \in Callers |-> calls[d]] /\ SnapshotsOK(schemas, entities, done, snapshots)
    BY Zenon DEF KnowledgeInv, ContentInv, CallsInv, CallOK
  <2>2. LinesOK(lines)
    BY Zenon, <1>1, <2>1 DEF RunOK, RunOps, JobsOK
  <2>3. /\ Len(lines) \in Nat /\ DOMAIN lines = 1..Len(lines)
        /\ \A n \in 1..Len(lines) : lines[n].kind \in ImportKinds
    <3>1. IsSequence(lines)
      BY Zenon, <2>2 DEF LinesOK
    <3>2. Len(lines) \in Nat /\ DOMAIN lines = 1..Len(lines)
      BY Zenon, <3>1, SequenceType
    <3> QED BY Zenon, <2>2, <3>2 DEF LinesOK
  <2>4. /\ AccOK(schemas, entities, after)
        /\ (\A n \in 1..Len(lines) : lines[n].kind # "entity") => after.entities = entities
    <3> HIDE DEF lines
    <3> QED BY <1>3, <2>1, <2>3, ImportKeeps
  <2>5. (\E n \in 1..Len(lines) : lines[n].kind = "entity") => locks["workspace"] \in {None, c}
    <3>1. ASSUME NEW n \in 1..Len(lines), lines[n].kind = "entity" PROVE "workspace" \in EntityLocks(lines)
      <4>1. lines[n] \in OfKind(lines, "entity")
        BY <2>3, <3>1 DEF OfKind, Range
      <4> QED BY Zenon, <4>1 DEF EntityLocks
    <3> QED BY Zenon, <1>1, <3>1
  <2> HIDE DEF after, lines
  <2>6. /\ schemas' = after.schemas /\ home' = after.home /\ entities' = after.entities
        /\ relations' = after.relations /\ done' = done \cup {calls[c].job}
    BY Zenon, <1>1, <1>3
  <2>7. ContentInv' /\ KeptBy(schemas, schemas') /\ Continues(schemas, entities, schemas', entities')
    BY <2>4, <2>6 DEF AccOK, ContentInv
  <2>8. SnapshotsOK(schemas', entities', done', snapshots')
    BY Zenon, <1>1, <2>1, <2>6, <2>7, SnapshotsKept
  <2>9. /\ DOMAIN locks' = DOMAIN locks /\ calls' = [d \in Callers |-> calls'[d]] /\ calls'[c] = Idle
        /\ \A d \in Callers \ {c} : /\ calls'[d] = calls[d]
                                    /\ \A k \in DOMAIN locks : locks[k] = d => locks'[k] = d
    BY Zenon, <1>1, <2>1, Released
  <2>10. ASSUME NEW d \in Callers \ {c}, calls[d].op = "create"
         PROVE  /\ Cardinality(LiveIn(entities')) < MaxEntities
                /\ calls[d].schema # None =>
                     /\ Stored(schemas', calls[d].schema)
                     /\ schemas'[calls[d].schema].name = schemas[calls[d].schema].name
                     /\ schemas'[calls[d].schema].def = schemas[calls[d].schema].def
    <3>1. /\ locks["workspace"] = d /\ Cardinality(LiveIn(entities)) < MaxEntities
          /\ calls[d].schema # None => calls[d].schema \in SchemaIds /\ Stored(schemas, calls[d].schema)
      BY Zenon, <2>10 DEF KnowledgeInv, CallsInv, CallOK, CreateOK
    <3>2. entities' = entities
      BY ZenonT(60), <2>4, <2>5, <2>6, <3>1, KnowledgeAssumption
    <3> QED BY <2>7, <3>1, <3>2 DEF KeptBy
  <2>11. \A d \in Callers : calls[d].op = "fill" => DOMAIN calls[d].writes \subseteq LiveIn(entities')
    BY <2>4, <2>6, OpenRuns DEF AccOK
  <2>12. \A d \in Callers \ {c} : calls[d].op \in RunOps => calls[d].job \notin done'
    BY Zenon, <1>1, <2>1, <2>6, OpenRuns DEF RunsExclude, RunOps
  <2>13. \A d \in Callers : Undisturbed(d)
    BY Zenon, <2>9, <2>10, <2>11, <2>12 DEF Undisturbed
  <2> QED BY <1>1, <2>7, <2>8, <2>9, <2>13, ContentStep
<1> QED BY Zenon, <1>2, <1>3
=============================================================================

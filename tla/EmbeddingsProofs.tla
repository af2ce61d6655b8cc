-------------------------- MODULE EmbeddingsProofs --------------------------
(* Types, what the locals of a worker hold at each of its steps, and the safety
   properties of Embeddings, for every value of its constants; then, where every
   write queues a job and every worker has a provider, that no entity is left
   behind by its sync jobs. *)
EXTENDS Embeddings, TLAPS, FiniteSetTheorems

(* What a worker has read before it uses it: the entity of its job, a provider
   once the resolution is confirmed, a text once the snapshot is taken. *)
SyncRead(s) ==
    /\ s.pc # "idle" => s.entity \in Entities
    /\ s.pc = "confirm" => s.prov \in Providers \union {Disabled}
    /\ s.pc \in {"snapshot", "fence", "publish"} => s.prov \in Providers
    /\ s.pc \in {"fence", "publish"} => s.text \in Texts

ReindexRead(s) ==
    /\ s.pc = "confirm" => s.prov \in Providers \union {Disabled}
    /\ s.pc \in {"lock", "begin", "ids", "records", "publish"} => s.prov \in Providers

LocalsRead ==
    /\ \A w \in Syncers : SyncRead(sync[w])
    /\ \A r \in Reindexers : ReindexRead(reindex[r])

Typed == TypeOK /\ LocalsRead

(* The budget only shrinks. *)
LEMMA SpendType ==
    ASSUME budget \in [Kinds -> Nat], NEW k \in Kinds, Spend(k)
    PROVE  budget' \in [Kinds -> Nat]
BY DEF Spend

(* A bulk write counts at least one row. *)
LEMMA BulkCounts ==
    ASSUME NEW S \in SUBSET Entities, S # {}
    PROVE  Cardinality(S) \in Nat /\ Cardinality(S) > 0
<1>1. IsFiniteSet(S)
  BY Zenon, EmbeddingConstants, FS_Subset
<1> QED BY <1>1, FS_CardinalityType, FS_EmptySet

(* What the workers resolve to is a backend, or Disabled. *)
LEMMA EffectiveType ==
    ASSUME TypeOK PROVE Effective \subseteq Providers \union {Disabled}
BY Zenon, EmbeddingConstants DEF TypeOK, Effective

LEMMA IdleTypes ==
    /\ SyncIdle \in SyncState /\ SyncRead(SyncIdle)
    /\ ReindexIdle \in ReindexState /\ ReindexRead(ReindexIdle)
BY Zenon DEF SyncIdle, SyncState, SyncRead, ReindexIdle, ReindexState, ReindexRead

(* Writers leave the workers alone and keep the rows within their types. *)
LEMMA WriterType == ASSUME Typed, WriterStep PROVE Typed'
<1> USE DEF Typed, TypeOK, rows, vectors, workspace, jobs, Contents
<1>1. ASSUME NEW e \in Entities, NEW t \in Contents, CreateEntity(e, t) PROVE Typed'
  BY <1>1, SpendType DEF CreateEntity, LocalsRead, Kinds
<1>2. ASSUME NEW e \in Entities, NEW t \in Contents, UpdateEntity(e, t) PROVE Typed'
  BY <1>2, SpendType DEF UpdateEntity, LocalsRead, Kinds
<1>3. ASSUME NEW e \in Entities, DeleteEntity(e) PROVE Typed'
  BY <1>3, SpendType DEF DeleteEntity, LocalsRead, Kinds
<1>4. ASSUME NEW S \in SUBSET Entities, NEW new \in [Entities -> Contents],
             BulkWrite(S, new)
      PROVE  Typed'
  <2>1. Cardinality(S) \in Nat
    BY Zenon, <1>4, BulkCounts DEF BulkWrite
  <2> QED BY <1>4, <2>1, SpendType DEF BulkWrite, LocalsRead, Kinds
<1> HIDE DEF Typed
<1> QED BY Zenon, <1>1, <1>2, <1>3, <1>4 DEF WriterStep

(* So do the operators and the scheduler. *)
LEMMA OperatorType == ASSUME Typed, OperatorStep PROVE Typed'
<1> USE DEF Typed, TypeOK, rows, vectors, workspace, jobs
<1>1. ASSUME NEW S \in SUBSET Entities, ResyncEmbeddings(S) PROVE Typed'
  BY <1>1, SpendType DEF ResyncEmbeddings, LocalsRead, Kinds
<1>2. ASSUME NEW p \in Providers, ConfigureProvider(p) PROVE Typed'
  BY <1>2, SpendType DEF ConfigureProvider, LocalsRead, Kinds
<1>3. ASSUME NEW p \in Providers, ScanForReindex(p) PROVE Typed'
  BY <1>3, SpendType DEF ScanForReindex, LocalsRead, Kinds
<1>4. ASSUME RemoveProvider PROVE Typed'
  BY <1>4, SpendType DEF RemoveProvider, LocalsRead, Kinds
<1>5. ASSUME RequestReindex PROVE Typed'
  BY <1>5, SpendType DEF RequestReindex, LocalsRead, Kinds
<1>6. ASSUME NEW e \in Entities, RetrySync(e) PROVE Typed'
  BY <1>6 DEF RetrySync, LocalsRead
<1> HIDE DEF Typed
<1> QED BY Zenon, <1>1, <1>2, <1>3, <1>4, <1>5, <1>6 DEF OperatorStep

(* A sync worker moves on to the locals s. *)
LEMMA SyncMoves ==
    ASSUME Typed, NEW w \in Syncers, NEW s \in SyncState, SyncRead(s),
           sync' = [sync EXCEPT ![w] = s],
           UNCHANGED <<rows, assignment, revision, reindexing, requests, reindex>>,
           vtext' \in [Entities -> Texts \union {None}],
           vprov' \in [Entities -> Providers \union {None}],
           stamp' \in Models \union {None},
           queued' \in [Entities -> Nat], failed' \in [Entities -> BOOLEAN],
           budget' \in [Kinds -> Nat]
    PROVE  Typed'
BY Zenon DEF Typed, TypeOK, LocalsRead, rows

(* A reindex worker moves on to the locals s. *)
LEMMA ReindexMoves ==
    ASSUME Typed, NEW r \in Reindexers, NEW s \in ReindexState, ReindexRead(s),
           reindex' = [reindex EXCEPT ![r] = s],
           UNCHANGED <<rows, assignment, queued, failed, sync>>,
           vtext' \in [Entities -> Texts \union {None}],
           vprov' \in [Entities -> Providers \union {None}],
           stamp' \in Models \union {None}, revision' \in Nat,
           reindexing' \in BOOLEAN, requests' \in Nat,
           budget' \in [Kinds -> Nat]
    PROVE  Typed'
BY Zenon DEF Typed, TypeOK, LocalsRead, rows

(* The two ways a sync job ends without writing. *)
LEMMA SyncEnds ==
    ASSUME Typed, NEW w \in Syncers
    PROVE  /\ DropSync(w) => Typed'
           /\ FailSync(w) /\ budget' \in [Kinds -> Nat] => Typed'
<1> USE DEF rows, vectors, workspace, jobs
<1>1. ASSUME DropSync(w) PROVE Typed'
  BY Zenon, <1>1, IdleTypes, SyncMoves DEF DropSync, Typed, TypeOK
<1>2. ASSUME FailSync(w), budget' \in [Kinds -> Nat] PROVE Typed'
  BY Zenon, <1>2, IdleTypes, SyncMoves DEF FailSync, Typed, TypeOK
<1> QED BY Zenon, <1>1, <1>2

(* A failed reindex. *)
LEMMA ReindexEnds ==
    ASSUME Typed, NEW r \in Reindexers, FailReindex(r), budget' \in [Kinds -> Nat]
    PROVE  Typed'
BY Zenon, IdleTypes, ReindexMoves
   DEF FailReindex, Typed, TypeOK, rows, vectors, workspace, jobs

(* What a step of a sync worker does to its locals. *)
LEMMA SyncLocals ==
    ASSUME Typed, NEW w \in Syncers, SyncStep(w)
    PROVE  \E s \in SyncState :
             /\ sync' = [sync EXCEPT ![w] = s] /\ SyncRead(s)
             /\ \/ s = SyncIdle
                \/ s.pc = "resolve" /\ s.rev = revision /\ TakeSync(w, s.entity)
                \/ /\ s.pc = "confirm" /\ s.prov \in Effective
                   /\ s.rev = sync[w].rev /\ s.entity = sync[w].entity
                \/ /\ s.rev = sync[w].rev /\ s.prov = sync[w].prov
                   /\ s.entity = sync[w].entity
                   /\ \/ sync[w].pc = "confirm" /\ s.pc = "snapshot" /\ s.rev = revision
                      \/ /\ sync[w].pc = "snapshot" /\ s.pc = "fence"
                         /\ s.text = text[s.entity] /\ s.tok = token[s.entity]
                      \/ /\ sync[w].pc = "fence" /\ s.pc = "publish" /\ s.fence = revision
                         /\ s.text = sync[w].text /\ s.tok = sync[w].tok
<1>b. /\ TypeOK /\ SyncRead(sync[w])
      /\ sync[w] \in SyncState /\ sync \in [Syncers -> SyncState]
  BY Zenon DEF Typed, TypeOK, LocalsRead
<1>i. SyncIdle \in SyncState /\ SyncRead(SyncIdle)
  BY Zenon, IdleTypes
<1>1. CASE \E e \in Entities : TakeSync(w, e)
  <2>1. PICK e \in Entities : TakeSync(w, e)
    BY Zenon, <1>1
  <2> DEFINE s == [sync[w] EXCEPT !.pc = "resolve", !.entity = e, !.rev = revision]
  <2>2. sync' = [sync EXCEPT ![w] = s]
    BY Zenon, <1>b, <2>1 DEF TakeSync, SyncState
  <2>3. /\ s \in SyncState /\ SyncRead(s) /\ s.pc = "resolve" /\ s.rev = revision
        /\ s.entity = e
    BY Zenon, <1>b DEF SyncState, SyncRead, TypeOK
  <2> HIDE DEF s
  <2> QED BY Zenon, <2>1, <2>2, <2>3
<1>2. CASE ResolveSync(w)
  <2>1. PICK p \in Effective : sync' = [sync EXCEPT ![w].pc = "confirm", ![w].prov = p]
    BY Zenon, <1>2 DEF ResolveSync
  <2>2. p \in Providers \union {Disabled}
    BY Zenon, <1>b, <2>1, EffectiveType
  <2> DEFINE s == [sync[w] EXCEPT !.pc = "confirm", !.prov = p]
  <2>3. sync' = [sync EXCEPT ![w] = s]
    BY Zenon, <1>b, <2>1 DEF SyncState
  <2>4. /\ s \in SyncState /\ SyncRead(s) /\ s.pc = "confirm" /\ s.prov = p
        /\ s.rev = sync[w].rev /\ s.entity = sync[w].entity
    BY Zenon, <1>b, <1>2, <2>2 DEF SyncState, SyncRead, ResolveSync
  <2> HIDE DEF s
  <2> QED BY Zenon, <2>1, <2>3, <2>4
<1>3. CASE ConfirmSync(w)
  <2>1. CASE DropSync(w) \/ FailSync(w)
    BY Zenon, <1>i, <2>1 DEF DropSync, FailSync
  <2>2. CASE ~(DropSync(w) \/ FailSync(w))
    <3> DEFINE s == [sync[w] EXCEPT !.pc = "snapshot"]
    <3>1. /\ sync' = [sync EXCEPT ![w].pc = "snapshot"]
          /\ sync[w].pc = "confirm" /\ sync[w].prov # Disabled /\ revision = sync[w].rev
      BY Zenon, <1>3, <2>2 DEF ConfirmSync
    <3>2. sync' = [sync EXCEPT ![w] = s]
      BY Zenon, <1>b, <3>1 DEF SyncState
    <3>3. /\ s \in SyncState /\ s.entity = sync[w].entity /\ s.pc = "snapshot"
          /\ s.rev = sync[w].rev /\ s.prov = sync[w].prov
      BY Zenon, <1>b DEF SyncState
    <3> HIDE DEF s
    <3>4. SyncRead(s)
      BY Zenon, <1>b, <3>1, <3>3 DEF SyncRead
    <3> QED BY Zenon, <3>1, <3>2, <3>3, <3>4
  <2> QED BY Zenon, <2>1, <2>2
<1>4. CASE SnapshotSync(w)
  <2>1. CASE DropSync(w)
    BY Zenon, <1>i, <2>1 DEF DropSync
  <2>2. CASE ~DropSync(w)
    <3> DEFINE s == [sync[w] EXCEPT !.pc = "fence", !.text = text[sync[w].entity],
                                    !.tok = token[sync[w].entity]]
    <3>1. /\ sync[w].pc = "snapshot" /\ text[sync[w].entity] \in Texts
          /\ sync' = [sync EXCEPT ![w].pc = "fence", ![w].text = text[sync[w].entity],
                                  ![w].tok = token[sync[w].entity]]
      BY Zenon, <1>4, <2>2 DEF SnapshotSync
    <3>2. sync[w].entity \in Entities /\ token[sync[w].entity] \in Nat
      BY Zenon, <1>b, <3>1 DEF SyncRead, TypeOK
    <3>3. sync' = [sync EXCEPT ![w] = s]
      BY Zenon, <1>b, <3>1 DEF SyncState
    <3>4. /\ s \in SyncState /\ SyncRead(s) /\ s.pc = "fence"
          /\ s.rev = sync[w].rev /\ s.prov = sync[w].prov /\ s.entity = sync[w].entity
          /\ s.text = text[s.entity] /\ s.tok = token[s.entity]
      BY Zenon, <1>b, <3>1, <3>2 DEF SyncState, SyncRead
    <3> HIDE DEF s
    <3> QED BY Zenon, <3>1, <3>3, <3>4
  <2> QED BY Zenon, <2>1, <2>2
<1>5. CASE FenceSync(w)
  <2> DEFINE s == [sync[w] EXCEPT !.pc = "publish", !.fence = revision]
  <2>1. sync' = [sync EXCEPT ![w] = s] /\ sync[w].pc = "fence"
    BY Zenon, <1>b, <1>5 DEF FenceSync, SyncState
  <2>2. /\ s \in SyncState /\ SyncRead(s) /\ s.pc = "publish"
        /\ s.rev = sync[w].rev /\ s.prov = sync[w].prov /\ s.entity = sync[w].entity
        /\ s.fence = revision /\ s.text = sync[w].text /\ s.tok = sync[w].tok
    BY Zenon, <1>b, <2>1 DEF SyncState, SyncRead, TypeOK
  <2> HIDE DEF s
  <2> QED BY Zenon, <2>1, <2>2
<1>6. CASE PublishSync(w)
  BY Zenon, <1>6, <1>i DEF PublishSync, DropSync, FailSync
<1> QED BY Zenon, <1>1, <1>2, <1>3, <1>4, <1>5, <1>6 DEF SyncStep

LEMMA SyncType == ASSUME Typed, NEW w \in Syncers, SyncStep(w) PROVE Typed'
<1>b. TypeOK /\ SyncRead(sync[w])
  BY Zenon DEF Typed, LocalsRead
<1> USE DEF rows, vectors, workspace, jobs
<1>1. PICK s \in SyncState : sync' = [sync EXCEPT ![w] = s] /\ SyncRead(s)
  BY Zenon, SyncLocals
<1>2. ASSUME NEW e \in Entities, TakeSync(w, e) PROVE Typed'
  <2>1. queued' \in [Entities -> Nat]
    BY <1>b, <1>2 DEF TakeSync, TypeOK
  <2> QED BY Zenon, <1>b, <1>1, <1>2, <2>1, SyncMoves DEF TakeSync, TypeOK
<1>3. ASSUME ResolveSync(w) \/ FenceSync(w) PROVE Typed'
  BY Zenon, <1>b, <1>1, <1>3, SyncMoves DEF ResolveSync, FenceSync, TypeOK
<1>4. ASSUME ConfirmSync(w) \/ SnapshotSync(w) PROVE Typed'
  <2>1. failed' \in [Entities -> BOOLEAN]
    BY Zenon, <1>b, <1>4 DEF ConfirmSync, SnapshotSync, FailSync, DropSync, TypeOK
  <2>2. UNCHANGED <<rows, vectors, workspace, queued, requests, reindex, budget>>
    BY Zenon, <1>4 DEF ConfirmSync, SnapshotSync, FailSync, DropSync
  <2> QED BY Zenon, <1>b, <1>1, <2>1, <2>2, SyncMoves DEF TypeOK
<1>5. ASSUME PublishSync(w) PROVE Typed'
  <2>1. /\ sync[w].prov \in Providers /\ sync[w].text \in Texts
        /\ ModelOf[sync[w].prov] \in Models
    BY Zenon, <1>b, <1>5 DEF PublishSync, SyncRead, Models
  <2>2. /\ vtext' \in [Entities -> Texts \union {None}]
        /\ vprov' \in [Entities -> Providers \union {None}]
        /\ stamp' \in Models \union {None}
    BY Zenon, <1>b, <1>5, <2>1 DEF PublishSync, FailSync, DropSync, TypeOK
  <2>3. failed' \in [Entities -> BOOLEAN]
    BY Zenon, <1>b, <1>5 DEF PublishSync, FailSync, DropSync, TypeOK
  <2>4. UNCHANGED <<rows, assignment, revision, reindexing, queued, requests, reindex, budget>>
    BY Zenon, <1>5 DEF PublishSync, FailSync, DropSync
  <2> QED BY Zenon, <1>b, <1>1, <2>2, <2>3, <2>4, SyncMoves DEF TypeOK
<1> QED BY Zenon, <1>2, <1>3, <1>4, <1>5 DEF SyncStep

(* What a step of a reindex worker does to its locals. *)
LEMMA ReindexLocals ==
    ASSUME Typed, NEW r \in Reindexers, ReindexStep(r)
    PROVE  \E s \in ReindexState :
             /\ reindex' = [reindex EXCEPT ![r] = s] /\ ReindexRead(s)
             /\ \/ s = ReindexIdle
                \/ /\ s.fence = reindex[r].fence /\ s.content = reindex[r].content
                   /\ \/ s.pc = "resolve" /\ s.rev = revision
                      \/ s.pc = "confirm" /\ s.rev = reindex[r].rev /\ s.prov \in Effective
                      \/ /\ reindex[r].pc \in {"confirm", "lock"} /\ s.pc \in {"lock", "begin"}
                         /\ s.rev = reindex[r].rev /\ s.prov = reindex[r].prov
                      \/ /\ reindex[r].pc = "ids" /\ s.pc = "records" /\ s.ids = Live
                         /\ s.rev = reindex[r].rev /\ s.prov = reindex[r].prov
                      \/ /\ reindex[r].pc = "records" /\ s.pc = "publish" /\ s.ids = reindex[r].ids
                         /\ s.text = [e \in Entities |-> IF e \in reindex[r].ids THEN text[e] ELSE Absent]
                         /\ s.rev = reindex[r].rev /\ s.prov = reindex[r].prov
                \/ /\ reindex[r].pc = "begin" /\ s.pc = "ids" /\ revision' = revision + 1
                   /\ AssignmentHolds(reindex[r].rev, reindex[r].prov)
                   /\ s.fence = revision + 1 /\ s.content = content
                   /\ s.rev = reindex[r].rev /\ s.prov = reindex[r].prov
<1>b. /\ TypeOK /\ ReindexRead(reindex[r])
      /\ reindex[r] \in ReindexState /\ reindex \in [Reindexers -> ReindexState]
  BY Zenon DEF Typed, TypeOK, LocalsRead
<1>i. ReindexIdle \in ReindexState /\ ReindexRead(ReindexIdle)
  BY Zenon, IdleTypes
<1>1. CASE TakeReindex(r)
  <2> DEFINE s == [reindex[r] EXCEPT !.pc = "resolve", !.rev = revision]
  <2>1. reindex' = [reindex EXCEPT ![r] = s]
    BY Zenon, <1>b, <1>1 DEF TakeReindex, ReindexState
  <2>2. /\ s \in ReindexState /\ ReindexRead(s) /\ s.pc = "resolve" /\ s.rev = revision
        /\ s.fence = reindex[r].fence /\ s.content = reindex[r].content
    BY Zenon, <1>b DEF ReindexState, ReindexRead, TypeOK
  <2> HIDE DEF s
  <2> QED BY Zenon, <2>1, <2>2
<1>2. CASE ResolveReindex(r)
  <2>1. PICK p \in Effective : reindex' = [reindex EXCEPT ![r].pc = "confirm", ![r].prov = p]
    BY Zenon, <1>2 DEF ResolveReindex
  <2>2. p \in Providers \union {Disabled}
    BY Zenon, <1>b, <2>1, EffectiveType
  <2> DEFINE s == [reindex[r] EXCEPT !.pc = "confirm", !.prov = p]
  <2>3. reindex' = [reindex EXCEPT ![r] = s]
    BY Zenon, <1>b, <2>1 DEF ReindexState
  <2>4. /\ s \in ReindexState /\ ReindexRead(s) /\ s.pc = "confirm" /\ s.prov = p
        /\ s.rev = reindex[r].rev
        /\ s.fence = reindex[r].fence /\ s.content = reindex[r].content
    BY Zenon, <1>b, <2>2 DEF ReindexState, ReindexRead
  <2> HIDE DEF s
  <2> QED BY Zenon, <2>1, <2>3, <2>4
<1>3. CASE ConfirmReindex(r) \/ LockReindex(r)
  <2>1. CASE FailReindex(r)
    BY Zenon, <1>i, <2>1 DEF FailReindex
  <2>2. CASE ~FailReindex(r)
    <3>1. PICK next \in {"lock", "begin"} :
            /\ reindex' = [reindex EXCEPT ![r].pc = next]
            /\ reindex[r].pc \in {"confirm", "lock"} /\ reindex[r].prov # Disabled
      BY Zenon, <1>b, <1>3, <2>2, EmbeddingConstants
         DEF ConfirmReindex, LockReindex, ReindexRead
    <3> DEFINE s == [reindex[r] EXCEPT !.pc = next]
    <3>2. reindex' = [reindex EXCEPT ![r] = s]
      BY Zenon, <1>b, <3>1 DEF ReindexState
    <3>3. /\ s \in ReindexState /\ s.pc = next /\ s.rev = reindex[r].rev
          /\ s.prov = reindex[r].prov
          /\ s.fence = reindex[r].fence /\ s.content = reindex[r].content
      BY Zenon, <1>b, <3>1 DEF ReindexState
    <3> HIDE DEF s
    <3>4. ReindexRead(s)
      BY <1>b, <3>1, <3>3 DEF ReindexRead
    <3> QED BY Zenon, <3>1, <3>2, <3>3, <3>4
  <2> QED BY Zenon, <2>1, <2>2
<1>4. CASE BeginReindex(r)
  <2>1. CASE FailReindex(r)
    BY Zenon, <1>i, <2>1 DEF FailReindex
  <2>2. CASE ~FailReindex(r)
    <3> DEFINE s == [reindex[r] EXCEPT !.pc = "ids", !.fence = revision + 1, !.content = content]
    <3>1. /\ reindex[r].pc = "begin" /\ revision' = revision + 1
          /\ AssignmentHolds(reindex[r].rev, reindex[r].prov)
          /\ reindex' = [reindex EXCEPT ![r].pc = "ids", ![r].fence = revision + 1,
                                        ![r].content = content]
      BY Zenon, <1>4, <2>2 DEF BeginReindex
    <3>2. revision + 1 \in Nat /\ content \in Nat
      BY <1>b DEF TypeOK
    <3>3. reindex' = [reindex EXCEPT ![r] = s]
      BY Zenon, <1>b, <3>1 DEF ReindexState
    <3>4. /\ s \in ReindexState /\ ReindexRead(s) /\ s.pc = "ids"
          /\ s.fence = revision + 1 /\ s.content = content
          /\ s.rev = reindex[r].rev /\ s.prov = reindex[r].prov
      BY Zenon, <1>b, <3>1, <3>2 DEF ReindexState, ReindexRead
    <3> HIDE DEF s
    <3> QED BY Zenon, <3>1, <3>3, <3>4
  <2> QED BY Zenon, <2>1, <2>2
<1>5. CASE ReadIds(r)
  <2> DEFINE s == [reindex[r] EXCEPT !.pc = "records", !.ids = Live]
  <2>1. reindex' = [reindex EXCEPT ![r] = s] /\ reindex[r].pc = "ids"
    BY Zenon, <1>b, <1>5 DEF ReadIds, ReindexState
  <2>2. Live \in SUBSET Entities
    BY Zenon DEF Live
  <2>3. /\ s \in ReindexState /\ ReindexRead(s) /\ s.pc = "records" /\ s.ids = Live
        /\ s.rev = reindex[r].rev /\ s.prov = reindex[r].prov
        /\ s.fence = reindex[r].fence /\ s.content = reindex[r].content
    BY Zenon, <1>b, <2>1, <2>2 DEF ReindexState, ReindexRead
  <2> HIDE DEF s
  <2> QED BY Zenon, <2>1, <2>3
<1>6. CASE ReadRecords(r)
  <2> DEFINE ids == reindex[r].ids
             new == [e \in Entities |-> IF e \in ids THEN text[e] ELSE Absent]
             tok == [e \in Entities |-> IF e \in ids THEN token[e] ELSE 0]
  <2>1. CASE FailReindex(r)
    BY Zenon, <1>i, <2>1 DEF FailReindex
  <2>2. CASE ~FailReindex(r)
    <3>1. /\ reindex[r].pc = "records"
          /\ reindex' = [reindex EXCEPT ![r].pc = "publish", ![r].text = new, ![r].tok = tok]
      BY Zenon, <1>6, <2>2 DEF ReadRecords
    <3>2. new \in [Entities -> Contents \union {Absent}] /\ tok \in [Entities -> Nat]
      BY Zenon, <1>b DEF TypeOK
    <3>5. new = [e \in Entities |-> IF e \in reindex[r].ids THEN text[e] ELSE Absent]
      BY Zenon
    <3> HIDE DEF new, tok
    <3> DEFINE s == [reindex[r] EXCEPT !.pc = "publish", !.text = new, !.tok = tok]
    <3>3. reindex' = [reindex EXCEPT ![r] = s]
      BY Zenon, <1>b, <3>1 DEF ReindexState
    <3>4. /\ s \in ReindexState /\ ReindexRead(s) /\ s.pc = "publish"
          /\ s.ids = reindex[r].ids /\ s.text = new
          /\ s.rev = reindex[r].rev /\ s.prov = reindex[r].prov
          /\ s.fence = reindex[r].fence /\ s.content = reindex[r].content
      BY Zenon, <1>b, <3>1, <3>2 DEF ReindexState, ReindexRead
    <3> HIDE DEF s
    <3> QED BY Zenon, <3>1, <3>3, <3>4, <3>5
  <2> QED BY Zenon, <2>1, <2>2
<1>7. CASE PublishReindex(r)
  BY Zenon, <1>7, <1>i DEF PublishReindex, FailReindex
<1> QED BY Zenon, <1>1, <1>2, <1>3, <1>4, <1>5, <1>6, <1>7 DEF ReindexStep

LEMMA ReindexType == ASSUME Typed, NEW r \in Reindexers, ReindexStep(r) PROVE Typed'
<1>b. TypeOK /\ ReindexRead(reindex[r])
  BY Zenon DEF Typed, LocalsRead
<1> USE DEF rows, vectors, workspace, jobs
<1>1. PICK s \in ReindexState : reindex' = [reindex EXCEPT ![r] = s] /\ ReindexRead(s)
  BY Zenon, ReindexLocals
<1>2. ASSUME TakeReindex(r) PROVE Typed'
  <2>1. requests' \in Nat
    BY SMTT(20), <1>b, <1>2 DEF TakeReindex, TypeOK
  <2> QED BY Zenon, <1>b, <1>1, <1>2, <2>1, ReindexMoves DEF TakeReindex, TypeOK
<1>3. ASSUME ResolveReindex(r) \/ LockReindex(r) \/ ReadIds(r) PROVE Typed'
  BY Zenon, <1>b, <1>1, <1>3, ReindexMoves DEF ResolveReindex, LockReindex, ReadIds, TypeOK
<1>4. ASSUME ConfirmReindex(r) \/ ReadRecords(r) PROVE Typed'
  <2>1. UNCHANGED <<rows, vectors, workspace, jobs, sync, budget>>
    BY Zenon, <1>4 DEF ConfirmReindex, ReadRecords, FailReindex
  <2> QED BY Zenon, <1>b, <1>1, <2>1, ReindexMoves DEF TypeOK
<1>5. ASSUME BeginReindex(r) PROVE Typed'
  <2>1. /\ revision' \in {revision, revision + 1} /\ reindexing' \in BOOLEAN
        /\ UNCHANGED <<rows, vectors, assignment, stamp, jobs, sync, budget>>
    BY Zenon, <1>b, <1>5 DEF BeginReindex, FailReindex, TypeOK
  <2>2. revision' \in Nat
    BY <1>b, <2>1 DEF TypeOK
  <2> QED BY Zenon, <1>b, <1>1, <2>1, <2>2, ReindexMoves DEF TypeOK
<1>6. ASSUME PublishReindex(r) PROVE Typed'
  <2>1. reindex[r].prov \in Providers /\ ModelOf[reindex[r].prov] \in Models
    BY Zenon, <1>b, <1>6 DEF PublishReindex, ReindexRead, Models
  <2>2. /\ vtext' \in [Entities -> Texts \union {None}]
        /\ vprov' \in [Entities -> Providers \union {None}]
        /\ stamp' \in Models \union {None} /\ reindexing' \in BOOLEAN
    BY Zenon, <1>b, <1>6, <2>1 DEF PublishReindex, FailReindex, TypeOK
  <2>3. UNCHANGED <<rows, assignment, revision, jobs, sync, budget>>
    BY Zenon, <1>6 DEF PublishReindex, FailReindex
  <2> QED BY Zenon, <1>b, <1>1, <2>2, <2>3, ReindexMoves DEF TypeOK
<1> QED BY Zenon, <1>2, <1>3, <1>4, <1>5, <1>6 DEF ReindexStep

(* Errors and crashes of workers. *)
LEMMA FaultType == ASSUME Typed, FaultStep PROVE Typed'
<1> USE DEF rows, vectors, workspace, jobs
<1>b. budget \in [Kinds -> Nat] /\ "fail" \in Kinds /\ "crash" \in Kinds
  BY Zenon DEF Typed, TypeOK, Kinds
<1>1. ASSUME NEW w \in Syncers, SyncError(w) PROVE Typed'
  BY Zenon, <1>b, <1>1, SpendType, SyncEnds DEF SyncError
<1>2. ASSUME NEW w \in Syncers, CrashSync(w) PROVE Typed'
  <2>1. sync[w].entity \in Entities
    BY Zenon, <1>2 DEF CrashSync, Typed, LocalsRead, SyncRead
  <2>2. queued' \in [Entities -> Nat] /\ budget' \in [Kinds -> Nat]
    BY <1>b, <1>2, <2>1, SpendType DEF CrashSync, Typed, TypeOK
  <2> QED BY Zenon, <1>2, <2>2, IdleTypes, SyncMoves DEF CrashSync, Typed, TypeOK
<1>3. ASSUME NEW r \in Reindexers, ReindexError(r) PROVE Typed'
  BY Zenon, <1>b, <1>3, SpendType, ReindexEnds DEF ReindexError
<1>4. ASSUME NEW r \in Reindexers, CrashReindex(r) PROVE Typed'
  <2>1. requests' \in Nat /\ budget' \in [Kinds -> Nat]
    BY <1>b, <1>4, SpendType DEF CrashReindex, Typed, TypeOK
  <2> QED BY Zenon, <1>4, <2>1, IdleTypes, ReindexMoves DEF CrashReindex, Typed, TypeOK
<1> QED BY Zenon, <1>1, <1>2, <1>3, <1>4 DEF FaultStep

LEMMA TypedStep == Typed /\ [Next]_vars => Typed'
<1>1. ASSUME Typed, UNCHANGED vars PROVE Typed'
  BY Zenon, <1>1 DEF vars, rows, vectors, workspace, jobs, Typed, TypeOK, LocalsRead
<1> QED BY Zenon, <1>1, WriterType, OperatorType, SyncType, ReindexType, FaultType DEF Next

LEMMA TypedInit == Init => Typed
<1> SUFFICES ASSUME Init PROVE TypeOK /\ LocalsRead
  BY Zenon DEF Typed
<1>1. TypeOK
  BY Zenon, EmbeddingConstants, IdleTypes DEF Init, TypeOK
<1>2. LocalsRead
  BY Zenon, IdleTypes DEF Init, LocalsRead
<1> QED BY Zenon, <1>1, <1>2

(* Every column and every local of every behaviour is within its type, and a
   worker uses nothing it has not read. *)
THEOREM TypeCorrect == Spec => []TypeOK
<1>1. Typed => TypeOK
  BY Zenon DEF Typed
<1> QED BY <1>1, TypedInit, TypedStep, PTL DEF Spec

-----------------------------------------------------------------------------
(* Stamps, snapshots and the search gate. *)

(* The provider a worker resolved is the one the workspace resolves to, as long
   as the revision it read is the current one: eff is Effective. *)
SyncCurrent(s, rev, eff) ==
    /\ s.rev <= rev
    /\ s.pc \in {"confirm", "snapshot", "fence", "publish"} /\ s.rev = rev
            => s.prov \in eff

ReindexCurrent(s, rev, eff) ==
    /\ s.rev <= rev /\ s.fence <= rev
    /\ s.pc \in {"confirm", "lock", "begin"} /\ s.rev = rev => s.prov \in eff
    /\ s.pc \in {"ids", "records", "publish"} /\ s.fence = rev => s.prov \in eff

Generations ==
    /\ \A w \in Syncers : SyncCurrent(sync[w], revision, Effective)
    /\ \A r \in Reindexers : ReindexCurrent(reindex[r], revision, Effective)

(* What a reindex has read is what the workspace holds, as long as the content
   revision is the one it began with. *)
ReindexSees(s, con, live, txt) ==
    /\ s.content <= con
    /\ s.pc \in {"records", "publish"} /\ s.content = con => s.ids = live
    /\ s.pc = "publish" /\ s.content = con => s.text = txt

Snapshots == \A r \in Reindexers : ReindexSees(reindex[r], content, Live, text)

-----------------------------------------------------------------------------
(* The transactions that write vectors. *)
SyncPublishes(w) ==
    /\ sync[w].pc = "publish"
    /\ ~SyncFenced(w) /\ ModelExpected(sync[w].prov)
    /\ vtext' = [vtext EXCEPT ![sync[w].entity] = sync[w].text]
    /\ vprov' = [vprov EXCEPT ![sync[w].entity] = sync[w].prov]
    /\ stamp' = IF stamp = None THEN ModelOf[sync[w].prov] ELSE stamp
    /\ UNCHANGED <<assignment, revision, reindexing>>

ReindexPublishes(r) ==
    /\ reindex[r].pc = "publish" /\ Publishable(r)
    /\ vtext' = [e \in Entities |-> IF reindex[r].text[e] \in Texts
                                    THEN reindex[r].text[e] ELSE None]
    /\ vprov' = [e \in Entities |-> IF reindex[r].text[e] \in Texts
                                    THEN reindex[r].prov ELSE None]
    /\ stamp' = ModelOf[reindex[r].prov]
    /\ reindexing' = FALSE
    /\ UNCHANGED <<assignment, revision, text>>

ReindexBegins(r) ==
    /\ reindex[r].pc = "begin" /\ AssignmentHolds(reindex[r].rev, reindex[r].prov)
    /\ revision' = revision + 1 /\ reindexing' = TRUE
    /\ UNCHANGED <<vectors, assignment, stamp>>

(* Nothing else touches the vectors or the workspace row. *)
LEMMA VectorSteps ==
    ASSUME [Next]_vars
    PROVE  \/ UNCHANGED <<vectors, workspace>>
           \/ \E e \in Entities : DeleteEntity(e)
           \/ \E p \in Providers : ConfigureProvider(p)
           \/ RemoveProvider
           \/ \E w \in Syncers : SyncPublishes(w)
           \/ \E r \in Reindexers : ReindexBegins(r) \/ ReindexPublishes(r)
<1> USE DEF rows, vectors, workspace, jobs
<1> DEFINE Quiet == UNCHANGED <<vectors, workspace>>
<1>1. ASSUME WriterStep PROVE Quiet \/ \E e \in Entities : DeleteEntity(e)
  BY Zenon, <1>1 DEF WriterStep, CreateEntity, UpdateEntity, BulkWrite
<1>2. ASSUME OperatorStep
      PROVE  Quiet \/ RemoveProvider \/ \E p \in Providers : ConfigureProvider(p)
  BY Zenon, <1>2 DEF OperatorStep, ResyncEmbeddings, ScanForReindex, RequestReindex, RetrySync
<1>3. ASSUME NEW w \in Syncers, SyncStep(w) PROVE Quiet \/ SyncPublishes(w)
  <2>1. CASE \E e \in Entities : TakeSync(w, e)
    BY Zenon, <2>1 DEF TakeSync
  <2>2. CASE ResolveSync(w) \/ FenceSync(w)
    BY Zenon, <2>2 DEF ResolveSync, FenceSync
  <2>3. CASE ConfirmSync(w)
    BY Zenon, <2>3 DEF ConfirmSync, FailSync, DropSync
  <2>4. CASE SnapshotSync(w)
    BY Zenon, <2>4 DEF SnapshotSync, DropSync
  <2>5. CASE PublishSync(w)
    BY Zenon, <2>5 DEF PublishSync, FailSync, DropSync, SyncPublishes
  <2> QED BY Zenon, <1>3, <2>1, <2>2, <2>3, <2>4, <2>5 DEF SyncStep
<1>4. ASSUME NEW r \in Reindexers, ReindexStep(r)
      PROVE  Quiet \/ ReindexBegins(r) \/ ReindexPublishes(r)
  <2>1. CASE TakeReindex(r) \/ ResolveReindex(r) \/ LockReindex(r) \/ ReadIds(r)
    BY Zenon, <2>1 DEF TakeReindex, ResolveReindex, LockReindex, ReadIds
  <2>2. CASE ConfirmReindex(r)
    BY Zenon, <2>2 DEF ConfirmReindex, FailReindex
  <2>3. CASE BeginReindex(r)
    BY Zenon, <2>3 DEF BeginReindex, FailReindex, ReindexBegins
  <2>4. CASE ReadRecords(r)
    BY Zenon, <2>4 DEF ReadRecords, FailReindex
  <2>5. CASE PublishReindex(r)
    BY Zenon, <2>5 DEF PublishReindex, FailReindex, ReindexPublishes
  <2> QED BY Zenon, <1>4, <2>1, <2>2, <2>3, <2>4, <2>5 DEF ReindexStep
<1>5. ASSUME FaultStep PROVE Quiet
  BY Zenon, <1>5 DEF FaultStep, SyncError, FailSync, CrashSync, ReindexError, FailReindex,
     CrashReindex
<1>6. ASSUME UNCHANGED vars PROVE Quiet
  BY Zenon, <1>6 DEF vars
<1> HIDE DEF Quiet
<1>7. Quiet => UNCHANGED <<vectors, workspace>>
  BY Zenon DEF Quiet
<1> QED BY Zenon, <1>1, <1>2, <1>3, <1>4, <1>5, <1>6, <1>7 DEF Next

-----------------------------------------------------------------------------
(* No step mixes models. *)
LEMMA StampStep == Typed /\ StampCoversVectors /\ [Next]_vars => StampCoversVectors'
<1> SUFFICES ASSUME Typed, StampCoversVectors, [Next]_vars PROVE StampCoversVectors'
  BY Zenon
<1> USE DEF StampCoversVectors, vectors, workspace
<1>0. /\ vprov \in [Entities -> Providers \union {None}] /\ None \notin Models
      /\ \A p \in Providers : ModelOf[p] \in Models
  BY Zenon, EmbeddingConstants DEF Typed, TypeOK, Models
<1>1. CASE UNCHANGED <<vectors, workspace>>
  BY Zenon, <1>1
<1>2. ASSUME NEW e \in Entities, DeleteEntity(e) PROVE StampCoversVectors'
  BY Zenon, <1>0, <1>2 DEF DeleteEntity
<1>3. CASE RemoveProvider \/ \E p \in Providers : ConfigureProvider(p)
  BY Zenon, <1>3 DEF RemoveProvider, ConfigureProvider
<1>4. ASSUME NEW w \in Syncers, SyncPublishes(w) PROVE StampCoversVectors'
  <2> DEFINE p == sync[w].prov
  <2>1. p \in Providers
    BY Zenon, <1>4 DEF SyncPublishes, Typed, LocalsRead, SyncRead
  <2>2. ModelOf[p] = stamp'
    BY Zenon, <1>0, <1>4, <2>1 DEF SyncPublishes, ModelExpected
  <2>3. \A e \in Entities : vprov[e] # None => stamp # None
    BY Zenon, <1>0
  <2> QED BY Zenon, <1>0, <1>4, <2>2, <2>3 DEF SyncPublishes
<1>5. ASSUME NEW r \in Reindexers, ReindexBegins(r) \/ ReindexPublishes(r)
      PROVE  StampCoversVectors'
  BY Zenon, <1>5 DEF ReindexBegins, ReindexPublishes
<1> QED BY Zenon, <1>1, <1>2, <1>3, <1>4, <1>5, VectorSteps

(* Vectors of two models are never stored together: sync_embedding and
   reindex_workspace keep every vector of the model the workspace is stamped
   with. *)
THEOREM NoModelMix == Spec => []StampCoversVectors
<1>1. Init => StampCoversVectors
  BY DEF Init, StampCoversVectors
<1> QED BY <1>1, StampStep, TypedInit, TypedStep, PTL DEF Spec

-----------------------------------------------------------------------------
(* A later revision, or the same assignment, leaves the workers' locals true. *)
LEMMA CurrentKept ==
    ASSUME NEW rev \in Nat, NEW new \in Nat, new >= rev, NEW eff, NEW eff2,
           new > rev \/ eff2 = eff
    PROVE  /\ \A s \in SyncState : SyncCurrent(s, rev, eff) => SyncCurrent(s, new, eff2)
           /\ \A s \in ReindexState : ReindexCurrent(s, rev, eff) => ReindexCurrent(s, new, eff2)
<1>1. ASSUME NEW s \in SyncState, SyncCurrent(s, rev, eff) PROVE SyncCurrent(s, new, eff2)
  <2>1. s.rev \in Nat
    BY Zenon DEF SyncState
  <2> QED BY <1>1, <2>1 DEF SyncCurrent
<1>2. ASSUME NEW s \in ReindexState, ReindexCurrent(s, rev, eff)
      PROVE  ReindexCurrent(s, new, eff2)
  <2>1. s.rev \in Nat /\ s.fence \in Nat
    BY Zenon DEF ReindexState
  <2> QED BY <1>2, <2>1 DEF ReindexCurrent
<1> QED BY Zenon, <1>1, <1>2

(* No step changes what the workspace resolves to under the same revision. *)
LEMMA RevisionStep ==
    ASSUME Typed, [Next]_vars
    PROVE  revision' \in Nat /\ revision' >= revision
           /\ (revision' > revision \/ Effective' = Effective)
<1> USE DEF vectors, workspace
<1>0. revision \in Nat
  BY Zenon DEF Typed, TypeOK
<1>1. CASE UNCHANGED <<vectors, workspace>>
  BY <1>0, <1>1 DEF Effective
<1>2. CASE \E e \in Entities : DeleteEntity(e)
  BY <1>0, <1>2 DEF DeleteEntity, Effective
<1>3. CASE \E p \in Providers : ConfigureProvider(p)
  BY <1>0, <1>3 DEF ConfigureProvider
<1>4. CASE RemoveProvider
  BY <1>0, <1>4 DEF RemoveProvider, Effective
<1>5. CASE \E w \in Syncers : SyncPublishes(w)
  BY <1>0, <1>5 DEF SyncPublishes, Effective
<1>6. CASE \E r \in Reindexers : ReindexBegins(r)
  BY <1>0, <1>6 DEF ReindexBegins
<1>7. CASE \E r \in Reindexers : ReindexPublishes(r)
  BY <1>0, <1>7 DEF ReindexPublishes, Effective
<1> QED BY Zenon, <1>1, <1>2, <1>3, <1>4, <1>5, <1>6, <1>7, VectorSteps

(* Steps that leave the locals of the workers alone. *)
LEMMA BystanderSteps ==
    ASSUME WriterStep \/ OperatorStep \/ UNCHANGED vars
    PROVE  UNCHANGED <<sync, reindex>>
BY Zenon DEF WriterStep, CreateEntity, UpdateEntity, DeleteEntity, BulkWrite, OperatorStep,
   ResyncEmbeddings, ConfigureProvider, ScanForReindex, RemoveProvider,
   RequestReindex, RetrySync, vars

(* A sync worker that ends or moves on, and a reindex worker that does. *)
LEMMA SyncAlone ==
    ASSUME NEW w \in Syncers, SyncStep(w) \/ SyncError(w) \/ CrashSync(w)
    PROVE  UNCHANGED <<revision, assignment, rows, reindex>>
BY Zenon DEF SyncStep, TakeSync, ResolveSync, ConfirmSync, SnapshotSync, FenceSync,
   PublishSync, DropSync, FailSync, SyncError, CrashSync, rows, vectors, workspace, jobs

LEMMA ReindexAlone ==
    ASSUME NEW r \in Reindexers, ReindexStep(r) \/ ReindexError(r) \/ CrashReindex(r)
    PROVE  UNCHANGED <<assignment, rows, sync>>
BY Zenon DEF ReindexStep, TakeReindex, ResolveReindex, ConfirmReindex, LockReindex,
   BeginReindex, ReadIds, ReadRecords, PublishReindex, FailReindex, ReindexError,
   CrashReindex, rows, vectors, workspace, jobs

(* Every step keeps the resolutions current. *)
LEMMA GenerationStep == Typed /\ Generations /\ [Next]_vars => Generations'
<1> SUFFICES ASSUME Typed, Generations, [Next]_vars PROVE Generations'
  BY Zenon
<1>0. /\ revision \in Nat /\ sync \in [Syncers -> SyncState]
      /\ reindex \in [Reindexers -> ReindexState]
  BY Zenon DEF Typed, TypeOK
<1>a. /\ \A w \in Syncers : SyncCurrent(sync[w], revision', Effective')
      /\ \A r \in Reindexers : ReindexCurrent(reindex[r], revision', Effective')
  BY Zenon, <1>0, RevisionStep, CurrentKept DEF Generations
<1>b. /\ SyncCurrent(SyncIdle, revision', Effective')
      /\ ReindexCurrent(ReindexIdle, revision', Effective')
  BY RevisionStep DEF SyncIdle, ReindexIdle, SyncCurrent, ReindexCurrent
<1>1. CASE UNCHANGED <<sync, reindex>>
  BY Zenon, <1>a, <1>1 DEF Generations
<1>2. ASSUME NEW w \in Syncers, SyncStep(w) PROVE Generations'
  <2>1. UNCHANGED <<revision, assignment, reindex>> /\ Effective' = Effective
    BY Zenon, <1>2, SyncAlone DEF Effective
  <2>2. PICK s \in SyncState :
             /\ sync' = [sync EXCEPT ![w] = s]
             /\ \/ s = SyncIdle
                \/ s.pc = "resolve" /\ s.rev = revision
                \/ s.pc = "confirm" /\ s.rev = sync[w].rev /\ s.prov \in Effective
                \/ /\ sync[w].pc \in {"confirm", "snapshot", "fence"}
                   /\ s.pc \in {"snapshot", "fence", "publish"}
                   /\ s.rev = sync[w].rev /\ s.prov = sync[w].prov
    BY <1>2, SyncLocals
  <2>3. SyncCurrent(sync[w], revision, Effective)
    BY Zenon DEF Generations
  <2>4. SyncCurrent(s, revision, Effective)
    <3>1. CASE s = SyncIdle
      BY Zenon, <1>b, <2>1, <3>1
    <3>2. CASE s # SyncIdle
      BY <1>0, <2>2, <2>3, <3>2 DEF SyncCurrent
    <3> QED BY Zenon, <3>1, <3>2
  <2> QED BY Zenon, <1>0, <1>a, <2>1, <2>2, <2>4 DEF Generations
<1>3. ASSUME NEW r \in Reindexers, ReindexStep(r) PROVE Generations'
  <2>1. UNCHANGED <<assignment, sync>> /\ Effective' = Effective
    BY Zenon, <1>3, ReindexAlone DEF Effective
  <2>2. PICK s \in ReindexState :
             /\ reindex' = [reindex EXCEPT ![r] = s]
             /\ \/ s = ReindexIdle
                \/ /\ s.fence = reindex[r].fence
                   /\ \/ s.pc = "resolve" /\ s.rev = revision
                      \/ s.pc = "confirm" /\ s.rev = reindex[r].rev /\ s.prov \in Effective
                      \/ /\ reindex[r].pc \in {"confirm", "lock"} /\ s.pc \in {"lock", "begin"}
                         /\ s.rev = reindex[r].rev /\ s.prov = reindex[r].prov
                      \/ /\ reindex[r].pc \in {"ids", "records"} /\ s.pc \in {"records", "publish"}
                         /\ s.rev = reindex[r].rev /\ s.prov = reindex[r].prov
                \/ /\ reindex[r].pc = "begin" /\ s.pc = "ids" /\ revision' = revision + 1
                   /\ AssignmentHolds(reindex[r].rev, reindex[r].prov)
                   /\ s.fence = revision + 1
                   /\ s.rev = reindex[r].rev /\ s.prov = reindex[r].prov
    BY Zenon, <1>3, ReindexLocals
  <2>3. ReindexCurrent(reindex[r], revision, Effective)
    BY Zenon DEF Generations
  <2>4. ReindexCurrent(s, revision', Effective)
    <3>1. CASE s = ReindexIdle
      BY Zenon, <1>b, <2>1, <3>1
    <3>2. CASE s.pc = "ids" /\ s # ReindexIdle
      BY <1>0, <2>2, <2>3, <3>2 DEF ReindexCurrent, AssignmentHolds
    <3>3. CASE s.pc # "ids" /\ s # ReindexIdle
      <4>1. reindex[r] \in ReindexState
        BY Zenon, <1>0
      <4>2. ReindexCurrent(s, revision, Effective)
        BY <1>0, <2>2, <2>3, <3>3 DEF ReindexCurrent
      <4> QED BY Zenon, <1>0, <2>1, <4>2, CurrentKept, RevisionStep
    <3> QED BY Zenon, <3>1, <3>2, <3>3
  <2> QED BY Zenon, <1>0, <1>a, <2>1, <2>2, <2>4 DEF Generations
<1>4. ASSUME FaultStep PROVE Generations'
  <2>1. ASSUME NEW w \in Syncers, SyncError(w) \/ CrashSync(w) PROVE Generations'
    <3>1. sync' = [sync EXCEPT ![w] = SyncIdle] /\ UNCHANGED reindex
      BY Zenon, <2>1 DEF SyncError, CrashSync, FailSync
    <3> QED BY Zenon, <1>0, <1>a, <1>b, <3>1 DEF Generations
  <2>2. ASSUME NEW r \in Reindexers, ReindexError(r) \/ CrashReindex(r) PROVE Generations'
    <3>1. reindex' = [reindex EXCEPT ![r] = ReindexIdle] /\ UNCHANGED sync
      BY Zenon, <2>2 DEF ReindexError, CrashReindex, FailReindex
    <3> QED BY Zenon, <1>0, <1>a, <1>b, <3>1 DEF Generations
  <2> QED BY Zenon, <1>4, <2>1, <2>2 DEF FaultStep
<1> QED BY Zenon, <1>1, <1>2, <1>3, <1>4, BystanderSteps DEF Next

LEMMA GenerationInit == Init => Generations
BY DEF Init, Generations, SyncCurrent, ReindexCurrent, SyncIdle, ReindexIdle

(* No step leaves a vector of another provider behind an open gate. *)
LEMMA OpenGateStep ==
    Typed /\ Generations /\ OpenGateProvider /\ [Next]_vars => OpenGateProvider'
<1> SUFFICES ASSUME Typed, Generations, OpenGateProvider, [Next]_vars
             PROVE  OpenGateProvider'
  BY Zenon
<1> USE DEF OpenGateProvider, Effective, vectors, workspace
<1>0. vprov \in [Entities -> Providers \union {None}]
  BY Zenon DEF Typed, TypeOK
<1>1. CASE UNCHANGED <<vectors, workspace>>
  BY Zenon, <1>1
<1>2. ASSUME NEW e \in Entities, DeleteEntity(e) PROVE OpenGateProvider'
  BY Zenon, <1>0, <1>2 DEF DeleteEntity
<1>3. CASE \E p \in Providers : ConfigureProvider(p)
  BY Zenon, <1>3 DEF ConfigureProvider
<1>4. CASE RemoveProvider
  BY Zenon, <1>4 DEF RemoveProvider
<1>5. ASSUME NEW w \in Syncers, SyncPublishes(w) PROVE OpenGateProvider'
  <2>1. sync[w].prov \in Effective
    BY Zenon, <1>5 DEF SyncPublishes, SyncFenced, AssignmentHolds, Generations, SyncCurrent
  <2>2. ~reindexing /\ UNCHANGED assignment
    BY Zenon, <1>5 DEF SyncPublishes, SyncFenced
  <2>3. \A e \in Entities : vprov'[e] \in {vprov[e], sync[w].prov}
    BY Zenon, <1>0, <1>5 DEF SyncPublishes
  <2> QED BY Zenon, <2>1, <2>2, <2>3
<1>6. ASSUME NEW r \in Reindexers, ReindexBegins(r) PROVE OpenGateProvider'
  BY Zenon, <1>6 DEF ReindexBegins
<1>7. ASSUME NEW r \in Reindexers, ReindexPublishes(r) PROVE OpenGateProvider'
  <2>1. reindex[r].prov \in Effective
    BY Zenon, <1>7 DEF ReindexPublishes, Publishable, Generations, ReindexCurrent
  <2>2. \A e \in Entities : vprov'[e] \in {reindex[r].prov, None}
    BY Zenon, <1>7 DEF ReindexPublishes
  <2> QED BY Zenon, <1>7, <2>1, <2>2 DEF ReindexPublishes
<1> QED BY Zenon, <1>1, <1>2, <1>3, <1>4, <1>5, <1>6, <1>7, VectorSteps

(* Whatever provider a sync or a reindex resolved before the workspace switched,
   no vector of it is behind an open gate. *)
THEOREM GateShowsProvider == Spec => []OpenGateProvider
<1>1. Init => OpenGateProvider
  BY Zenon DEF Init, OpenGateProvider
<1> QED BY <1>1, GenerationInit, GenerationStep, OpenGateStep, TypedInit, TypedStep, PTL
        DEF Spec

-----------------------------------------------------------------------------
(* A write of entities raises the content revision; no other step changes it
   or the texts. *)
LEMMA ContentStep ==
    ASSUME Typed, [Next]_vars
    PROVE  content' \in Nat /\ (content' > content \/ UNCHANGED <<content, text>>)
<1> USE DEF rows, vectors, workspace, jobs
<1>0. content \in Nat
  BY Zenon DEF Typed, TypeOK
<1>1. ASSUME NEW e \in Entities, NEW t \in Contents, CreateEntity(e, t) \/ UpdateEntity(e, t)
      PROVE  content' = content + 1
  BY Zenon, <1>1 DEF CreateEntity, UpdateEntity
<1>2. ASSUME NEW e \in Entities, DeleteEntity(e) PROVE content' = content + 1
  BY Zenon, <1>2 DEF DeleteEntity
<1>3. ASSUME NEW S \in SUBSET Entities, NEW new \in [Entities -> Contents], BulkWrite(S, new)
      PROVE  content' \in Nat /\ content' > content
  BY <1>0, <1>3, BulkCounts DEF BulkWrite
<1>4. CASE WriterStep
  BY <1>0, <1>1, <1>2, <1>3, <1>4 DEF WriterStep
<1>5. CASE OperatorStep \/ UNCHANGED vars
  BY Zenon, <1>0, <1>5 DEF OperatorStep, ResyncEmbeddings, ConfigureProvider, ScanForReindex,
     RemoveProvider, RequestReindex, RetrySync, vars
<1>6. CASE FaultStep \/ (\E w \in Syncers : SyncStep(w)) \/ (\E r \in Reindexers : ReindexStep(r))
  BY Zenon, <1>0, <1>6, SyncAlone, ReindexAlone DEF FaultStep
<1> QED BY Zenon, <1>4, <1>5, <1>6 DEF Next

(* Every step keeps the snapshots of the reindexes. *)
LEMMA SnapshotStep == Typed /\ Snapshots /\ [Next]_vars => Snapshots'
<1> SUFFICES ASSUME Typed, Snapshots, [Next]_vars PROVE Snapshots'
  BY Zenon
<1>0. /\ content \in Nat /\ reindex \in [Reindexers -> ReindexState]
      /\ text \in [Entities -> Contents \union {Absent}]
  BY Zenon DEF Typed, TypeOK
<1>a. ASSUME NEW r \in Reindexers PROVE ReindexSees(reindex[r], content', Live', text')
  <2>1. reindex[r].content \in Nat /\ ReindexSees(reindex[r], content, Live, text)
    BY Zenon, <1>0 DEF Snapshots, ReindexState
  <2>2. CASE content' > content
    BY <1>0, <2>1, <2>2, ContentStep DEF ReindexSees
  <2>3. CASE UNCHANGED <<content, text>>
    BY Zenon, <2>1, <2>3 DEF Live
  <2> QED BY Zenon, <2>2, <2>3, ContentStep
<1>b. ReindexSees(ReindexIdle, content', Live', text')
  BY ContentStep DEF ReindexSees, ReindexIdle
<1>1. CASE UNCHANGED reindex
  BY Zenon, <1>a, <1>1 DEF Snapshots
<1>2. ASSUME NEW r \in Reindexers, ReindexStep(r) PROVE Snapshots'
  <2>1. UNCHANGED <<content, text>> /\ Live' = Live
    BY Zenon, <1>2, ReindexAlone DEF rows, Live
  <2>2. PICK s \in ReindexState :
             /\ reindex' = [reindex EXCEPT ![r] = s]
             /\ \/ s = ReindexIdle
                \/ /\ s.content = reindex[r].content
                   /\ \/ s.pc \in {"resolve", "confirm", "lock", "begin"}
                      \/ s.pc = "records" /\ s.ids = Live
                      \/ /\ reindex[r].pc = "records" /\ s.pc = "publish" /\ s.ids = reindex[r].ids
                         /\ s.text = [e \in Entities |->
                                        IF e \in reindex[r].ids THEN text[e] ELSE Absent]
                \/ s.pc = "ids" /\ s.content = content
    BY <1>2, ReindexLocals
  <2>3. ReindexSees(reindex[r], content, Live, text)
    BY Zenon DEF Snapshots
  <2>4. ReindexSees(s, content, Live, text)
    <3>1. CASE s = ReindexIdle
      BY Zenon, <1>b, <2>1, <3>1
    <3>2. CASE s.pc = "publish" /\ s # ReindexIdle
      <4>1. text = [e \in Entities |-> IF e \in Live THEN text[e] ELSE Absent]
        BY Zenon, <1>0 DEF Live
      <4> QED BY Zenon, <2>2, <2>3, <3>2, <4>1 DEF ReindexSees
    <3>3. CASE s.pc # "publish" /\ s # ReindexIdle
      BY <1>0, <2>2, <2>3, <3>3 DEF ReindexSees
    <3> QED BY Zenon, <3>1, <3>2, <3>3
  <2> QED BY Zenon, <1>0, <1>a, <2>1, <2>2, <2>4 DEF Snapshots
<1>3. ASSUME NEW r \in Reindexers, ReindexError(r) \/ CrashReindex(r) PROVE Snapshots'
  <2>1. reindex' = [reindex EXCEPT ![r] = ReindexIdle]
    BY Zenon, <1>3 DEF ReindexError, CrashReindex, FailReindex
  <2> QED BY Zenon, <1>0, <1>a, <1>b, <2>1 DEF Snapshots
<1> QED BY Zenon, <1>1, <1>2, <1>3, BystanderSteps, SyncAlone DEF Next, FaultStep

(* The gate opens only in the last transaction of a reindex whose snapshot is
   still the content of the workspace. *)
THEOREM GateOpensOnComplete == Spec => GateOpensComplete
<1>1. Init => Snapshots
  BY DEF Init, Snapshots, ReindexSees, ReindexIdle
<1>2. ASSUME Typed, Snapshots, [Next]_vars, reindexing, ~reindexing'
      PROVE  \A e \in Entities : vtext'[e] = IF text'[e] \in Texts THEN text'[e] ELSE None
  <2> USE DEF vectors, workspace
  <2>1. PICK r \in Reindexers : ReindexPublishes(r)
    BY Zenon, <1>2, VectorSteps
       DEF DeleteEntity, ConfigureProvider, RemoveProvider, SyncPublishes, ReindexBegins
  <2>2. reindex[r].text = text
    BY Zenon, <1>2, <2>1 DEF ReindexPublishes, Publishable, Snapshots, ReindexSees
  <2> QED BY Zenon, <2>1, <2>2 DEF ReindexPublishes
<1> QED BY <1>1, <1>2, SnapshotStep, TypedInit, TypedStep, PTL DEF Spec, GateOpensComplete

-----------------------------------------------------------------------------
(* No bulk writes, which queue nothing, and no deployment without a provider,
   whose workers complete a sync without writing. *)
SyncOnly ==
    /\ \A b \in Budgets : b["bulk"] = 0
    /\ Disabled \notin Deployments

(* A text is known by its token. *)
TokenTells(s, txt, tok) ==
    s.pc \in {"fence", "publish"} =>
        /\ s.tok <= tok[s.entity]
        /\ s.tok = tok[s.entity] /\ txt[s.entity] # Absent => s.text = txt[s.entity]

Tokens == \A w \in Syncers : TokenTells(sync[w], text, token)

(* A running sync that will write what the entity says, or fail visibly, unless
   the workspace row changes first. *)
Carries(s, e, rev, tok) ==
    /\ s.entity = e
    /\ \/ s.pc \in {"resolve", "confirm"}
       \/ s.pc = "snapshot" /\ s.rev = rev
       \/ s.pc = "fence" /\ s.rev = rev /\ s.tok = tok[e]
       \/ s.pc = "publish" /\ s.rev = rev /\ s.fence = rev /\ s.tok = tok[e]

Covered(e) ==
    \/ vtext[e] = text[e]
    \/ queued[e] > 0 \/ failed[e]
    \/ \E w \in Syncers : Carries(sync[w], e, revision, token)

Coverage ==
    /\ SyncOnly /\ budget["bulk"] = 0
    /\ ~reindexing => \A e \in Entities : text[e] \in Texts => Covered(e)

(* Tokens only grow, and a row that keeps its token keeps its text. *)
LEMMA TokenStep ==
    ASSUME Typed, [Next]_vars, NEW e \in Entities
    PROVE  /\ token'[e] \in Nat /\ token'[e] >= token[e]
           /\ token'[e] = token[e] => text'[e] \in {text[e], Absent}
<1> USE DEF rows, vectors, workspace, jobs
<1>0. /\ token \in [Entities -> Nat] /\ text \in [Entities -> Contents \union {Absent}]
  BY Zenon DEF Typed, TypeOK
<1>1. CASE UNCHANGED rows
  BY <1>0, <1>1
<1>2. ASSUME NEW f \in Entities, NEW t \in Contents, CreateEntity(f, t) \/ UpdateEntity(f, t)
      PROVE  /\ token'[e] \in Nat /\ token'[e] >= token[e]
             /\ token'[e] = token[e] => text'[e] = text[e]
  BY <1>0, <1>2 DEF CreateEntity, UpdateEntity
<1>3. ASSUME NEW f \in Entities, DeleteEntity(f)
      PROVE  token' = token /\ text'[e] \in {text[e], Absent}
  BY Zenon, <1>0, <1>3 DEF DeleteEntity
<1>4. ASSUME NEW S \in SUBSET Entities, NEW new \in [Entities -> Contents], BulkWrite(S, new)
      PROVE  /\ token'[e] \in Nat /\ token'[e] >= token[e]
             /\ token'[e] = token[e] => text'[e] = text[e]
  BY <1>0, <1>4 DEF BulkWrite
<1>5. CASE OperatorStep \/ UNCHANGED vars
  <2>1. UNCHANGED rows
    BY Zenon, <1>5 DEF OperatorStep, ResyncEmbeddings, ConfigureProvider, ScanForReindex,
       RemoveProvider, RequestReindex, RetrySync, vars
  <2> QED BY Zenon, <1>1, <2>1
<1>6. CASE FaultStep \/ (\E w \in Syncers : SyncStep(w)) \/ (\E r \in Reindexers : ReindexStep(r))
  <2>1. UNCHANGED rows
    BY Zenon, <1>6, SyncAlone, ReindexAlone DEF FaultStep
  <2> QED BY Zenon, <1>1, <2>1
<1>7. CASE WriterStep
  BY <1>0, <1>2, <1>3, <1>4, <1>7 DEF WriterStep
<1> QED BY Zenon, <1>5, <1>6, <1>7 DEF Next

(* Every step keeps the snapshots of the syncs true to their tokens. *)
LEMMA TokensStep == Typed /\ Tokens /\ [Next]_vars => Tokens'
<1> SUFFICES ASSUME Typed, Tokens, [Next]_vars PROVE Tokens'
  BY Zenon
<1>0. /\ sync \in [Syncers -> SyncState] /\ token \in [Entities -> Nat]
      /\ \A w \in Syncers : SyncRead(sync[w])
  BY Zenon DEF Typed, TypeOK, LocalsRead
<1>a. ASSUME NEW s \in SyncState, SyncRead(s), TokenTells(s, text, token)
      PROVE  TokenTells(s, text', token')
  <2> SUFFICES ASSUME s.pc \in {"fence", "publish"} PROVE TokenTells(s, text', token')
    BY Zenon DEF TokenTells
  <2>1. s.entity \in Entities /\ s.tok \in Nat
    BY Zenon, <1>a DEF SyncRead, SyncState
  <2>2. /\ token[s.entity] \in Nat /\ token'[s.entity] \in Nat
        /\ token'[s.entity] >= token[s.entity]
        /\ token'[s.entity] = token[s.entity] => text'[s.entity] \in {text[s.entity], Absent}
    BY Zenon, <1>0, <2>1, TokenStep
  <2> QED BY <1>a, <2>1, <2>2 DEF TokenTells
<1>b. \A w \in Syncers : TokenTells(sync[w], text', token')
  BY Zenon, <1>0, <1>a DEF Tokens
<1>i. TokenTells(SyncIdle, text', token')
  BY Zenon DEF TokenTells, SyncIdle
<1>1. CASE UNCHANGED sync
  BY Zenon, <1>b, <1>1 DEF Tokens
<1>2. ASSUME NEW w \in Syncers, SyncStep(w) PROVE Tokens'
  <2>1. UNCHANGED <<text, token>>
    BY Zenon, <1>2, SyncAlone DEF rows
  <2>2. PICK s \in SyncState :
             /\ sync' = [sync EXCEPT ![w] = s] /\ SyncRead(s)
             /\ \/ s = SyncIdle
                \/ s.pc \in {"resolve", "confirm", "snapshot"}
                \/ /\ s.entity = sync[w].entity
                   /\ \/ s.pc = "fence" /\ s.text = text[s.entity] /\ s.tok = token[s.entity]
                      \/ /\ sync[w].pc = "fence" /\ s.pc = "publish"
                         /\ s.text = sync[w].text /\ s.tok = sync[w].tok
    BY <1>2, SyncLocals
  <2>3. TokenTells(s, text, token)
    <3>1. CASE s = SyncIdle
      BY Zenon, <1>i, <2>1, <3>1
    <3>2. CASE s.pc \in {"resolve", "confirm", "snapshot"}
      BY Zenon, <3>2 DEF TokenTells
    <3>3. CASE s.pc = "fence" /\ s.text = text[s.entity] /\ s.tok = token[s.entity]
      <4>1. s.entity \in Entities
        BY Zenon, <2>2, <3>3 DEF SyncRead
      <4> QED BY <1>0, <3>3, <4>1 DEF TokenTells
    <3>4. CASE /\ s.entity = sync[w].entity /\ sync[w].pc = "fence" /\ s.pc = "publish"
               /\ s.text = sync[w].text /\ s.tok = sync[w].tok
      BY Zenon, <3>4 DEF Tokens, TokenTells
    <3> QED BY Zenon, <2>2, <3>1, <3>2, <3>3, <3>4
  <2> QED BY Zenon, <1>0, <1>b, <2>1, <2>2, <2>3 DEF Tokens
<1>3. ASSUME NEW w \in Syncers, SyncError(w) \/ CrashSync(w) PROVE Tokens'
  <2>1. sync' = [sync EXCEPT ![w] = SyncIdle]
    BY Zenon, <1>3 DEF SyncError, CrashSync, FailSync
  <2> QED BY Zenon, <1>0, <1>b, <1>i, <2>1 DEF Tokens
<1> QED BY Zenon, <1>1, <1>2, <1>3, BystanderSteps, ReindexAlone DEF Next, FaultStep

(* There are never bulk writes to spend. *)
LEMMA NoBulk ==
    ASSUME budget \in [Kinds -> Nat], budget["bulk"] = 0, [Next]_vars
    PROVE  budget'["bulk"] = 0 /\ ~ \E S \in SUBSET Entities, new \in [Entities -> Contents] :
                                        BulkWrite(S, new)
<1>0. "bulk" \in Kinds
  BY Zenon DEF Kinds
<1>1. ASSUME NEW k \in Kinds, Spend(k) PROVE budget'["bulk"] = 0 /\ k # "bulk"
  BY <1>0, <1>1 DEF Spend
<1>2. CASE WriterStep
  BY Zenon, <1>1, <1>2 DEF WriterStep, CreateEntity, UpdateEntity, DeleteEntity, BulkWrite, Kinds
<1>3. CASE OperatorStep
  BY Zenon, <1>1, <1>3 DEF OperatorStep, ResyncEmbeddings, ConfigureProvider, ScanForReindex,
     RemoveProvider, RequestReindex, RetrySync, BulkWrite, Kinds
<1>4. CASE FaultStep
  BY Zenon, <1>1, <1>4 DEF FaultStep, SyncError, CrashSync, ReindexError, CrashReindex, BulkWrite, Kinds
<1>5. ASSUME NEW w \in Syncers, SyncStep(w) PROVE UNCHANGED budget
  BY Zenon, <1>5 DEF SyncStep, TakeSync, ResolveSync, ConfirmSync, SnapshotSync, FenceSync,
     PublishSync, DropSync, FailSync
<1>6. ASSUME NEW r \in Reindexers, ReindexStep(r) PROVE UNCHANGED budget
  BY Zenon, <1>6 DEF ReindexStep, TakeReindex, ResolveReindex, ConfirmReindex, LockReindex,
     BeginReindex, ReadIds, ReadRecords, PublishReindex
<1>7. ASSUME UNCHANGED vars PROVE UNCHANGED budget
  BY Zenon, <1>7 DEF vars
<1>8. ~ \E S \in SUBSET Entities, new \in [Entities -> Contents] : BulkWrite(S, new)
  BY <1>0 DEF BulkWrite, Spend
<1> QED BY Zenon, <1>2, <1>3, <1>4, <1>5, <1>6, <1>7, <1>8 DEF Next

(* While the gate is open before and after a step, the revision stays. *)
LEMMA OpenGateSteps ==
    ASSUME Typed, [Next]_vars, ~reindexing'
    PROVE  (\E r \in Reindexers : ReindexPublishes(r)) \/ (~reindexing /\ revision' = revision)
<1> USE DEF vectors, workspace
<1>0. revision \in Nat
  BY Zenon DEF Typed, TypeOK
<1>1. CASE UNCHANGED <<vectors, workspace>>
  BY Zenon, <1>1
<1>2. CASE \E e \in Entities : DeleteEntity(e)
  BY <1>2 DEF DeleteEntity
<1>3. CASE \E p \in Providers : ConfigureProvider(p)
  BY Zenon, <1>3 DEF ConfigureProvider
<1>4. CASE RemoveProvider
  <2>1. ~reindexing /\ assignment = None
    BY Zenon, <1>4 DEF RemoveProvider
  <2>2. revision' = revision + 0
    BY Zenon, <1>4, <2>1 DEF RemoveProvider
  <2> QED BY <1>0, <2>1, <2>2
<1>5. CASE \E w \in Syncers : SyncPublishes(w)
  BY <1>5 DEF SyncPublishes
<1>6. CASE \E r \in Reindexers : ReindexBegins(r)
  BY Zenon, <1>6 DEF ReindexBegins
<1> QED BY Zenon, <1>1, <1>2, <1>3, <1>4, <1>5, <1>6, VectorSteps

(* Every step leaves each entity covered. *)
LEMMA CoverageStep ==
    Typed /\ Generations /\ Snapshots /\ Tokens /\ Coverage /\ [Next]_vars => Coverage'
<1> SUFFICES ASSUME Typed, Generations, Snapshots, Tokens, Coverage, [Next]_vars
             PROVE  Coverage'
  BY Zenon
<1>0. /\ sync \in [Syncers -> SyncState] /\ token \in [Entities -> Nat]
      /\ text \in [Entities -> Contents \union {Absent}]
      /\ vtext \in [Entities -> Texts \union {None}]
      /\ queued \in [Entities -> Nat] /\ failed \in [Entities -> BOOLEAN]
      /\ budget \in [Kinds -> Nat] /\ revision \in Nat
      /\ Absent \notin Texts
      /\ \A w \in Syncers : SyncRead(sync[w])
  BY Zenon, EmbeddingConstants DEF Typed, TypeOK, LocalsRead
<1>1. /\ budget'["bulk"] = 0
      /\ ~ \E S \in SUBSET Entities, new \in [Entities -> Contents] : BulkWrite(S, new)
  BY Zenon, <1>0, NoBulk DEF Coverage
<1> SUFFICES ASSUME ~reindexing', NEW e \in Entities, text'[e] \in Texts PROVE Covered(e)'
  BY Zenon, <1>1 DEF Coverage, SyncOnly
<1>2. ASSUME NEW r \in Reindexers, ReindexPublishes(r) PROVE Covered(e)'
  <2>1. reindex[r].text = text /\ text' = text
    BY Zenon, <1>2 DEF ReindexPublishes, Publishable, Snapshots, ReindexSees
  <2> QED BY Zenon, <1>2, <2>1 DEF ReindexPublishes, Covered
<1> SUFFICES ASSUME ~reindexing, revision' = revision,
                    ~ \E r \in Reindexers : ReindexPublishes(r)
             PROVE  Covered(e)'
  BY Zenon, <1>2, OpenGateSteps
<1>3. text[e] \in Texts => Covered(e)
  BY Zenon DEF Coverage
<1> DEFINE Same == /\ text'[e] = text[e] /\ token'[e] = token[e] /\ vtext'[e] = vtext[e]
                   /\ queued'[e] >= queued[e] /\ failed'[e] = failed[e] /\ sync' = sync
<1>4. ASSUME Same PROVE Covered(e)'
  <2>1. \A w \in Syncers : Carries(sync[w], e, revision, token)
                              => Carries(sync'[w], e, revision', token')
    BY Zenon, <1>4 DEF Carries
  <2>2. queued[e] \in Nat /\ queued'[e] \in Nat /\ queued'[e] >= queued[e]
    BY Zenon, <1>0, <1>4, TypedStep DEF Typed, TypeOK
  <2>3. queued[e] > 0 => queued'[e] > 0
    BY <2>2
  <2> QED BY Zenon, <1>3, <1>4, <2>1, <2>3 DEF Covered
<1>5. CASE WriterStep
  <2>1. ASSUME NEW f \in Entities, NEW t \in Contents, CreateEntity(f, t) \/ UpdateEntity(f, t)
        PROVE  Covered(e)'
    <3>1. CASE e = f
      <4>1. queued'[e] > 0
        BY <1>0, <2>1, <3>1 DEF CreateEntity, UpdateEntity
      <4> QED BY Zenon, <4>1 DEF Covered
    <3>2. CASE e # f
      <4>1. Same
        BY <1>0, <2>1, <3>2 DEF CreateEntity, UpdateEntity, vectors
      <4> QED BY Zenon, <1>4, <4>1
    <3> QED BY Zenon, <3>1, <3>2
  <2>2. ASSUME NEW f \in Entities, DeleteEntity(f) PROVE Covered(e)'
    <3>1. e # f
      BY Zenon, <1>0, <2>2 DEF DeleteEntity
    <3>2. Same
      BY <1>0, <2>2, <3>1 DEF DeleteEntity, jobs
    <3> QED BY Zenon, <1>4, <3>2
  <2> HIDE DEF Same
  <2> QED BY Zenon, <1>1, <1>5, <2>1, <2>2 DEF WriterStep
<1>6. CASE OperatorStep \/ UNCHANGED vars
  <2>1. UNCHANGED <<text, token, vtext, sync>>
    BY Zenon, <1>6 DEF OperatorStep, ResyncEmbeddings, ConfigureProvider, ScanForReindex,
       RemoveProvider, RequestReindex, RetrySync, vars, rows, vectors
  <2>2. CASE RetrySync(e)
    <3>1. queued'[e] > 0
      BY <1>0, <2>2 DEF RetrySync
    <3> QED BY Zenon, <3>1 DEF Covered
  <2>3. CASE ~RetrySync(e)
    <3>1. failed'[e] = failed[e]
      BY Zenon, <1>0, <1>6, <2>3 DEF OperatorStep, ResyncEmbeddings, ConfigureProvider,
         ScanForReindex, RemoveProvider, RequestReindex, RetrySync, vars, jobs
    <3>2. queued'[e] >= queued[e]
      <4>1. ASSUME NEW S \in SUBSET Entities, ResyncEmbeddings(S) PROVE queued'[e] >= queued[e]
        BY <1>0, <4>1 DEF ResyncEmbeddings
      <4>2. ASSUME NEW f \in Entities, f # e, RetrySync(f) PROVE queued'[e] = queued[e]
        BY Zenon, <1>0, <4>2 DEF RetrySync
      <4>3. CASE UNCHANGED queued
        BY <1>0, <4>3
      <4> QED BY <1>0, <1>6, <2>3, <4>1, <4>2, <4>3 DEF OperatorStep, ConfigureProvider,
              ScanForReindex, RemoveProvider, RequestReindex, vars, jobs
    <3> QED BY Zenon, <1>4, <2>1, <3>1, <3>2
  <2> QED BY Zenon, <2>2, <2>3
<1>7. CASE \E r \in Reindexers : ReindexStep(r) \/ ReindexError(r) \/ CrashReindex(r)
  <2>1. UNCHANGED <<text, token, sync, queued, failed>>
    BY Zenon, <1>7 DEF ReindexStep, TakeReindex, ResolveReindex, ConfirmReindex, LockReindex,
       BeginReindex, ReadIds, ReadRecords, PublishReindex, FailReindex, ReindexError,
       CrashReindex, rows, jobs
  <2>2. UNCHANGED vtext
    BY Zenon, <1>7 DEF ReindexStep, TakeReindex, ResolveReindex, ConfirmReindex, LockReindex,
       BeginReindex, ReadIds, ReadRecords, PublishReindex, FailReindex, ReindexError,
       CrashReindex, vectors, rows, ReindexPublishes
  <2>3. queued'[e] >= queued[e]
    <3>1. queued'[e] = queued[e] /\ queued[e] \in Nat
      BY Zenon, <1>0, <2>1
    <3> QED BY <3>1
  <2>4. vtext'[e] = vtext[e] /\ failed'[e] = failed[e]
    BY Zenon, <2>1, <2>2
  <2> QED BY Zenon, <1>4, <2>1, <2>3, <2>4
<1>8. ASSUME NEW w \in Syncers, SyncStep(w) \/ SyncError(w) \/ CrashSync(w) PROVE Covered(e)'
  <2> USE DEF rows, vectors, workspace, jobs
  <2>0. UNCHANGED <<text, token>>
    BY Zenon, <1>8, SyncAlone DEF SyncError, CrashSync, FailSync
  <2>1. Covered(e)
    BY Zenon, <1>3, <2>0
  <2>2. vtext'[e] \in {vtext[e], text[e]}
    <3>1. CASE PublishSync(w) /\ TokenHolds(sync[w].entity, sync[w].tok)
      <4>1. sync[w].text = text[sync[w].entity]
        BY Zenon, <3>1 DEF PublishSync, TokenHolds, Tokens, TokenTells
      <4> QED BY Zenon, <1>0, <3>1, <4>1 DEF PublishSync, DropSync, FailSync
    <3>2. CASE PublishSync(w) /\ ~TokenHolds(sync[w].entity, sync[w].tok)
      BY Zenon, <3>2 DEF PublishSync, DropSync, FailSync
    <3>3. CASE ~PublishSync(w)
      BY Zenon, <1>8, <3>3 DEF SyncStep, TakeSync, ResolveSync, ConfirmSync, SnapshotSync,
         FenceSync, DropSync, FailSync, SyncError, CrashSync
    <3> QED BY <3>1, <3>2, <3>3
  <2>3. CASE vtext[e] = text[e]
    BY Zenon, <2>0, <2>2, <2>3 DEF Covered
  <2>4. CASE failed[e]
    <3>1. failed'[e]
      BY Zenon, <1>0, <1>8, <2>4 DEF SyncStep, TakeSync, ResolveSync, ConfirmSync, SnapshotSync,
         FenceSync, PublishSync, DropSync, FailSync, SyncError, CrashSync
    <3> QED BY Zenon, <3>1 DEF Covered
  <2>5. CASE queued[e] > 0
    <3>1. CASE TakeSync(w, e)
      <4>1. sync'[w].entity = e /\ sync'[w].pc = "resolve"
        BY Zenon, <1>0, <3>1 DEF TakeSync, SyncState
      <4> QED BY <4>1 DEF Covered, Carries
    <3>2. CASE ~TakeSync(w, e)
      <4>1. CASE \E f \in Entities : TakeSync(w, f)
        <5>1. queued'[e] = queued[e]
          BY Zenon, <1>0, <3>2, <4>1 DEF TakeSync
        <5> QED BY <2>5, <5>1 DEF Covered
      <4>2. CASE CrashSync(w)
        <5>1. queued'[e] > 0
          BY <1>0, <2>5, <4>2 DEF CrashSync, SyncRead
        <5> QED BY Zenon, <5>1 DEF Covered
      <4>3. CASE ~CrashSync(w) /\ ~ \E f \in Entities : TakeSync(w, f)
        <5>1. queued' = queued
          BY Zenon, <1>8, <4>3 DEF SyncStep, ResolveSync, ConfirmSync, SnapshotSync,
             FenceSync, PublishSync, DropSync, FailSync, SyncError
        <5> QED BY Zenon, <2>5, <5>1 DEF Covered
      <4> QED BY Zenon, <4>1, <4>2, <4>3
    <3> QED BY Zenon, <3>1, <3>2
  <2>6. ASSUME NEW v \in Syncers, v # w, Carries(sync[v], e, revision, token)
        PROVE  Covered(e)'
    <3>1. sync'[v] = sync[v]
      BY <1>0, <1>8, <2>6, SyncLocals DEF SyncError, CrashSync, FailSync
    <3> QED BY Zenon, <2>0, <2>6, <3>1 DEF Covered, Carries
  <2>7. ASSUME Carries(sync[w], e, revision, token) PROVE Covered(e)'
    <3>1. /\ sync[w].entity = e /\ sync[w].pc # "idle" /\ sync[w] \in SyncState
          /\ SyncRead(sync[w]) /\ SyncCurrent(sync[w], revision, Effective)
      BY Zenon, <1>0, <2>7 DEF Carries, Generations
    <3>f. ASSUME FailSync(w) PROVE Covered(e)'
      BY Zenon, <1>0, <3>1, <3>f DEF FailSync, Covered
    <3>2. CASE SyncError(w)
      BY Zenon, <3>2, <3>f DEF SyncError
    <3>3. CASE CrashSync(w)
      <4>1. queued'[e] > 0
        BY <1>0, <3>1, <3>3 DEF CrashSync
      <4> QED BY Zenon, <4>1 DEF Covered
    <3>4. CASE ResolveSync(w)
      <4>1. sync'[w].entity = e /\ sync'[w].pc = "confirm"
        BY <1>0, <3>1, <3>4 DEF ResolveSync, SyncState
      <4> QED BY Zenon, <4>1 DEF Covered, Carries
    <3>5. CASE ConfirmSync(w)
      <4>1. sync[w].rev = revision => sync[w].prov # Disabled
        <5>1. Disabled \notin Effective
          BY Zenon, EmbeddingConstants DEF Effective, Coverage, SyncOnly, Typed, TypeOK
        <5> QED BY Zenon, <3>1, <3>5, <5>1 DEF ConfirmSync, SyncCurrent
      <4>2. CASE sync' = [sync EXCEPT ![w].pc = "snapshot"] /\ revision = sync[w].rev
        <5>1. sync'[w].entity = e /\ sync'[w].pc = "snapshot" /\ sync'[w].rev = revision'
          BY Zenon, <1>0, <3>1, <4>2 DEF SyncState
        <5> QED BY Zenon, <5>1 DEF Covered, Carries
      <4> QED BY Zenon, <3>5, <3>f, <4>1, <4>2 DEF ConfirmSync
    <3>6. CASE SnapshotSync(w)
      <4>1. /\ sync'[w].entity = e /\ sync'[w].pc = "fence"
            /\ sync'[w].rev = sync[w].rev /\ sync'[w].tok = token'[e]
        BY <1>0, <2>0, <3>1, <3>6 DEF SnapshotSync, SyncState
      <4>2. sync[w].rev = revision'
        BY Zenon, <2>7, <3>6 DEF SnapshotSync, Carries
      <4> QED BY Zenon, <4>1, <4>2 DEF Covered, Carries
    <3>7. CASE FenceSync(w)
      <4>1. /\ sync'[w].entity = e /\ sync'[w].pc = "publish" /\ sync'[w].fence = revision'
            /\ sync'[w].rev = sync[w].rev /\ sync'[w].tok = sync[w].tok
        BY Zenon, <1>0, <3>1, <3>7 DEF FenceSync, SyncState
      <4>2. sync[w].rev = revision' /\ sync[w].tok = token'[e]
        BY Zenon, <2>0, <2>7, <3>7 DEF FenceSync, Carries
      <4> QED BY Zenon, <4>1, <4>2 DEF Covered, Carries
    <3>8. CASE PublishSync(w)
      <4>1. /\ sync[w].pc = "publish" /\ sync[w].rev = revision /\ sync[w].fence = revision
            /\ sync[w].tok = token[e]
        BY Zenon, <2>7, <3>8 DEF PublishSync, Carries
      <4>2. ~SyncFenced(w)
        BY Zenon, <3>1, <4>1 DEF SyncFenced, AssignmentHolds, SyncCurrent, Effective
      <4>3. TokenHolds(e, sync[w].tok) /\ sync[w].text = text[e]
        BY Zenon, <1>0, <2>0, <3>1, <4>1 DEF TokenHolds, Tokens, TokenTells
      <4>4. CASE vtext' = [vtext EXCEPT ![e] = sync[w].text]
        BY Zenon, <1>0, <2>0, <4>3, <4>4 DEF Covered
      <4> QED BY Zenon, <3>1, <3>8, <3>f, <4>2, <4>3, <4>4 DEF PublishSync
    <3> QED BY Zenon, <1>8, <3>1, <3>2, <3>3, <3>4, <3>5, <3>6, <3>7, <3>8 DEF SyncStep, TakeSync
  <2> QED BY Zenon, <2>1, <2>3, <2>4, <2>5, <2>6, <2>7 DEF Covered
<1> QED BY Zenon, <1>5, <1>6, <1>7, <1>8 DEF Next, FaultStep

(* While search is open, an entity with text has its current vector, a sync job
   that waits or has failed visibly, or a sync that can still write it: no
   superseded or no-op completion of perform_embedding_sync drops the last one,
   whatever crashes, switches of provider and reindexes come between. *)
THEOREM NoEntityLeftBehind == SyncOnly /\ Spec => []NoneLeftBehind
<1> DEFINE Inv == Typed /\ Generations /\ Snapshots /\ Tokens /\ Coverage
<1>1. SyncOnly /\ Init => Inv
  <2> SUFFICES ASSUME SyncOnly, Init PROVE Inv
    BY Zenon
  <2>1. Typed /\ Generations
    BY Zenon, TypedInit, GenerationInit
  <2>2. Snapshots
    BY DEF Init, Snapshots, ReindexSees, ReindexIdle
  <2>3. Tokens
    BY Zenon DEF Init, Tokens, TokenTells, SyncIdle
  <2>4. Coverage
    BY Zenon, EmbeddingConstants DEF Init, Coverage, SyncOnly
  <2> QED BY Zenon, <2>1, <2>2, <2>3, <2>4
<1>2. Inv /\ [Next]_vars => Inv'
  BY Zenon, TypedStep, GenerationStep, SnapshotStep, TokensStep, CoverageStep
<1>3. Inv => NoneLeftBehind
  <2> SUFFICES ASSUME Coverage, ~reindexing, NEW e \in Entities, text[e] \in Texts
               PROVE  \/ vtext[e] = text[e]
                      \/ queued[e] > 0 \/ failed[e]
                      \/ \E w \in Syncers : WillWrite(w, e)
    BY Zenon DEF NoneLeftBehind
  <2> QED BY DEF Coverage, Covered, Carries, WillWrite
<1> HIDE DEF Inv
<1> QED BY <1>1, <1>2, <1>3, PTL DEF Spec
=============================================================================

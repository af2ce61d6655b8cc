------------------------------- MODULE Reading --------------------------------
(***************************************************************************)
(* The readers that walk all of a workspace's content: export and recall.  *)
(***************************************************************************)
EXTENDS BulkJobs, SequencesExt

CONSTANTS
    MaxRelations,   \* the most neighbours one lookup returns
    MaxDepth        \* the most hops a recall walks

-----------------------------------------------------------------------------
(* Export: schema versions, entities, relations.  Within a name, later ids *)
(* are later versions, so the order of ids is the order of versions.       *)
Ordered(ids) == SetToSortSeq(ids, <)

export_jsonl(S, E, R) ==
  LET lines(ids, line(_)) == [i \in DOMAIN Ordered(ids) |-> line(Ordered(ids)[i])]
  IN lines({s \in SchemaIds : Stored(S, s)}, LAMBDA s : [kind |-> "schema", id |-> s, def |-> S[s].def])
       \o lines(LiveIn(E), LAMBDA e : [kind |-> "entity", id |-> e, schema |-> E[e].schema,
                                       type |-> E[e].type, data |-> E[e].data])
       \o lines(LiveIn(R), LAMBDA x : [kind |-> "relation", source |-> R[x].source,
                                       target |-> R[x].target, type |-> R[x].type])

-----------------------------------------------------------------------------
(* Recall: the entity's surroundings, hop by hop.                           *)
(* The relations of a pivot that are active, newest first, from either end, *)
(* and never more than the maximum however many were asked for.             *)
Edges(p) == {x \in LiveRelations : relations[x].status = "active"
                                   /\ p \in {relations[x].source, relations[x].target}}

OtherEnd(x, p) == IF relations[x].source = p THEN relations[x].target ELSE relations[x].source

neighbors_batch(p, limit) ==
  LET newest == Reverse(Ordered(Edges(p)))
  IN SubSeq(newest, 1, Min({Len(newest), limit, MaxRelations}))

RecallHop_of_limit(acc, limit) ==
  LET fetched(p) == neighbors_batch(p, limit)
      next == UNION {{OtherEnd(x, p) : x \in ToSet(fetched(p))} : p \in acc.frontier} \ acc.visited
  IN [frontier |-> next, visited |-> acc.visited \cup next,
      hops |-> [f \in DOMAIN acc.hops \cup next |-> IF f \in next THEN acc.hop ELSE acc.hops[f]],
      hop |-> acc.hop + 1,
      truncated |-> acc.truncated \/ \E p \in acc.frontier : Len(fetched(p)) > limit]

(* One hop asks for one neighbour more than the limit to learn whether there *)
(* are more; what was seen on an earlier hop is not reported again.          *)
RecallHop(acc, limit) ==
  LET fetched(p) == neighbors_batch(p, limit + 1)
      kept(p) == SubSeq(fetched(p), 1, Min({Len(fetched(p)), limit}))
      next == UNION {{OtherEnd(x, p) : x \in ToSet(kept(p))} : p \in acc.frontier} \ acc.visited
  IN [frontier |-> next, visited |-> acc.visited \cup next,
      hops |-> [f \in DOMAIN acc.hops \cup next |-> IF f \in next THEN acc.hop ELSE acc.hops[f]],
      hop |-> acc.hop + 1,
      truncated |-> acc.truncated \/ \E p \in acc.frontier : Len(fetched(p)) > limit]

recall_context(e, limit, depth) ==
  LET lim == Max({1, Min({limit, MaxRelations})})
      start == [frontier |-> {e}, visited |-> {e}, hops |-> <<>>, hop |-> 1, truncated |-> FALSE]
      walk[h \in 0..MaxDepth] == IF h = 0 THEN start ELSE RecallHop(walk[h - 1], lim)
  IN walk[Max({1, Min({depth, MaxDepth})})]
===============================================================================

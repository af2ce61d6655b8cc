-------------------------- MODULE MCQueryEmbedding --------------------------
(* Model-checking instance of QueryEmbedding. *)
EXTENDS QueryEmbedding

CONSTANTS q1, w1, w2
=============================================================================

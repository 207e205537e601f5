----------------------------- MODULE Iteration ------------------------------
(***************************************************************************)
(* Repeated application.  The value reached so far is a bound variable:    *)
(* TLC then computes it once per step, also where it evaluates ENABLED,    *)
(* which it does for a fairness condition and without remembering what an  *)
(* argument came to.                                                       *)
(***************************************************************************)
EXTENDS SequencesExt

TheOnly(S) == CHOOSE x \in S : TRUE

(* FoldLeft, step by step.                                                 *)
Accumulate(Op(_, _), base, seq) ==
  LET value[k \in 0 .. Len(seq)] ==
        IF k = 0 THEN base ELSE TheOnly({Op(v, seq[k]) : v \in {value[k - 1]}})
  IN  value[Len(seq)]

(* Everything that edges, pairs, lead to from a set: so many steps as      *)
(* there are edges.                                                        *)
ClosureOf(from, edges) ==
  LET known[k \in 0 .. Cardinality(edges)] ==
        IF k = 0 THEN from
        ELSE UNION {v \cup {e[2] : e \in {e \in edges : e[1] \in v}} : v \in {known[k - 1]}}
  IN  known[Cardinality(edges)]

(* The edges the other way.                                                *)
Reversed(edges) == {<<e[2], e[1]>> : e \in edges}
=============================================================================

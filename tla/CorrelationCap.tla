--------------------------- MODULE CorrelationCap ---------------------------
(***************************************************************************)
(* CorrelationCap.filter of core/correlation.py: candidates whose returns  *)
(* correlate are grouped, transitively, and each group keeps its best one. *)
(* The correlations are data; which pairs correlate is a symmetric         *)
(* relation, empty between frames too short to tell (_pair_corr).          *)
(***************************************************************************)
EXTENDS Naturals, FiniteSetsExt, SequencesExt

CONSTANT Correlated(_, _)   \* abs(corr) >= threshold, of two pairs

\* Variant: a candidate that has found its group joins no other.
JoinOnce(groups, i, j, cands) ==
    LET touched == {g \in groups : i \in g \/ j \in g}
    IN  IF Correlated(cands[i].pair, cands[j].pair) /\ \A g \in touched : Cardinality(g) = 1
        THEN (groups \ touched) \cup {UNION touched} ELSE groups

\* One pass of the union-find: the groups two candidates of which correlate
\* are joined.
Join(groups, i, j, cands) ==
    LET touched == {g \in groups : i \in g \/ j \in g}
    IN  IF Correlated(cands[i].pair, cands[j].pair)
        THEN (groups \ touched) \cup {UNION touched} ELSE groups

PairsOf(n) == SetToSeq({p \in (1..n) \X (1..n) : p[1] < p[2]})

Clusters(cands) ==
    FoldLeft(LAMBDA groups, p : Join(groups, p[1], p[2], cands),
             {{i} : i \in DOMAIN cands}, PairsOf(Len(cands)))

\* _better_candidate: the earlier of two equals stays.
Best(group, cands) ==
    CHOOSE i \in group : \A j \in group :
        cands[i].score > cands[j].score \/ (cands[i].score = cands[j].score /\ i <= j)

Survivors(cands) == {Best(g, cands) : g \in Clusters(cands)}

\* The survivors, best score first.  Equal scores keep the order in which the
\* groups were met, of which any order stands for.
Kept(cands) ==
    LET survivors == {cands[i] : i \in Survivors(cands)}
    IN  {s \in [1..Cardinality(survivors) -> survivors] :
            /\ \A a, b \in DOMAIN s : a < b => s[a] # s[b] /\ s[a].score >= s[b].score}
=============================================================================

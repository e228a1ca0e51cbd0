---------------------------- MODULE MCMatchStore ----------------------------
EXTENDS MatchStore, MCReverseMatch

\* Requests below the rule's threshold, one of them with a min_similarity
\* above it, and requests that raise the threshold: to a level that rounds
\* down and to one that rounds up.
Request(v, t, m) ==
    [alert : Alerts, query : {v}, threshold : {t}, min_similarity : {m}]
MCEvaluateRequests ==
    UNION {IF v = FirstVector THEN Request(v, 0, 0) \cup Request(v, 4, 0)
                              ELSE Request(v, 0, 6) \cup Request(v, 5, 0) : v \in Vectors}

EvaluationSymmetry == Permutations(Evaluations)
=============================================================================

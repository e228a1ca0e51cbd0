----------------------------- MODULE MatchStore -----------------------------
(***************************************************************************)
(* Both paths on one database: reverse deliveries, historical ingests and  *)
(* evaluations, and alert revisions that come and go.                      *)
(***************************************************************************)
EXTENDS ReverseMatch, HistoricalMatch

vars == <<tables, reverseVars, historicalVars>>

Init == ReverseInit /\ HistoricalInit

Next ==
    \/ ReverseStep /\ UNCHANGED historicalVars
    \/ HistoricalStep /\ UNCHANGED reverseVars
    \/ AlertStep /\ UNCHANGED <<reverseVars, historicalVars>>

Spec == Init /\ [][Next]_vars

(* The database executes an ingest and the crawler repeats a failed one.   *)
FairSpec == Spec /\ \A i \in Ingests : WF_vars(IngestStep(i) /\ UNCHANGED reverseVars)

-----------------------------------------------------------------------------
TypeOK ==
    /\ ReverseTypeOK
    /\ page \in [Ingests -> Requests]
    /\ ipc \in [Ingests -> {"idle", "executing", "indexed", "failed"}]
    /\ seen \in [Ingests -> [pages : SUBSET Pages, revisions : SUBSET Revisions,
                             latest : [Pages -> Revisions \cup {None}]]]
    /\ query \in [Evaluations -> EvaluateRequests]
    /\ epc \in [Evaluations -> {"idle", "loaded", "searched", "upserting", "answered",
                                "refused", "norow", "failed"}]
    /\ hits \in [Evaluations -> SUBSET Revisions]
    /\ current \in [Evaluations -> MatchKeys \cup {None}]
    /\ known \in [Evaluations -> SUBSET MatchKeys]
    /\ answer \in [Evaluations -> SUBSET MatchKeys]
    /\ announced \in SUBSET MatchKeys

(***************************************************************************)
(* The two paths compute the same match key, so they meet on one row: a    *)
(* key never changes path.  Whichever path was first, the other one stops  *)
(* with an error, and neither reports the other's row as its own.          *)
(***************************************************************************)
PathsKeepApart ==
    /\ \A d \in Deliveries, a \in Alerts :
          rpc[d] \in {"committed", "accepted"} /\ a \in reported[d] =>
              KeyOf(d, a) \notin announced \cup UNION {answer[e] : e \in Evaluations}
    /\ \A e \in Evaluations :
          epc[e] = "norow" => candidates[current[e]] # None
=============================================================================

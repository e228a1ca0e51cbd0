----------------------------- MODULE ReverseMatch -----------------------------
(***************************************************************************)
(* The reverse-alert hot path: src/reverse_match.rs and the handler        *)
(* reverse_match_page.  A delivery is a call of the crawler; it may be     *)
(* repeated, concurrently or after a failure.  One delivery is one         *)
(* transaction under READ COMMITTED:                                       *)
(*                                                                         *)
(*   - the first statement takes its snapshot, then waits for the page's   *)
(*     row, which stays locked until the transaction ends; the conflict    *)
(*     check sees what is committed NOW, the fallback SELECT sees the      *)
(*     snapshot;                                                           *)
(*   - every later statement takes a fresh snapshot when it starts, and    *)
(*     has the same two views of the rows: its ON CONFLICT arbiter waits   *)
(*     and sees what is committed NOW, its fallback SELECT the snapshot.   *)
(***************************************************************************)
EXTENDS PageStore

CONSTANTS
    Deliveries,      \* calls of the crawler
    MaxCandidates,   \* max_candidates of the request (at most 500)
    MaxFaults        \* bound on faults: aborted transactions and lost answers

VARIABLES
    request,    \* request[d] = [page, content, vector]
    rpc,        \* rpc[d]: position of delivery d
    snapshot,   \* snapshot[d]: revisions its first statement sees
    armed,      \* armed[d]: alerts with a vector when d began (history)
    staged,     \* staged[d]: its uncommitted rows
    todo,       \* todo[d]: candidate rows still to persist
    statement,  \* statement[d]: the insert it is executing
    reported,   \* reported[d]: candidates of its response
    faults      \* faults so far

reverseVars ==
    <<request, rpc, snapshot, armed, staged, todo, statement, reported, faults>>

ASSUME ReverseAssumption ==
    /\ None \notin Deliveries
    /\ MaxCandidates \in Nat \ {0}
    /\ MaxFaults \in Nat

RevisionOf(d) == <<request[d].page, request[d].content>>
KeyOf(d, a) == <<a, RevisionOf(d)>>

NothingStaged == [inserted |-> FALSE, predecessor |-> None, keys |-> {}]

(* An insert: the alert of its row and the match keys its snapshot shows.  *)
NoStatement == [alert |-> None, visible |-> {}]

Open == {"upserting", "upserted", "matching", "persisting"}
Answers == {"accepted", "failed", "norevision", "conflict", "lost"}

ReverseInit ==
    /\ StoreInit
    /\ request \in [Deliveries -> Requests]
    /\ rpc = [d \in Deliveries |-> "idle"]
    /\ snapshot = [d \in Deliveries |-> {}]
    /\ armed = [d \in Deliveries |-> {}]
    /\ staged = [d \in Deliveries |-> NothingStaged]
    /\ todo = [d \in Deliveries |-> {}]
    /\ statement = [d \in Deliveries |-> NoStatement]
    /\ reported = [d \in Deliveries |-> {}]
    /\ faults = 0

-----------------------------------------------------------------------------
(* The similarity of alert a to the page's vector.                         *)
Score(d, a) == Similarity[<<alertVector[a], request[d].vector>>]
Scores(d) == [a \in {b \in Alerts : alertVector[b] # None} |-> Score(d, a)]

(***************************************************************************)
(* The evidence of a reverse candidate.                                    *)
(***************************************************************************)
ReverseEvidence(d, a) ==
    [mode |-> "reverse", vector |-> request[d].vector,
     against |-> alertVector[a], threshold |-> Threshold[a]]

(* The transaction ends: its staged rows, row lock, keys and statement are *)
(* gone.                                                                   *)
EndTransaction(d) ==
    /\ pageLock' = [p \in Pages |-> IF pageLock[p] = d THEN None ELSE pageLock[p]]
    /\ pendingKeys' = pendingKeys \ staged[d].keys
    /\ staged' = [staged EXCEPT ![d] = NothingStaged]
    /\ todo' = [todo EXCEPT ![d] = {}]
    /\ statement' = [statement EXCEPT ![d] = NoStatement]

(* Mutant: a repeated call keeps the snapshot of the failed one.           *)
Deliver_OldSnapshot(d) ==
    /\ rpc[d] = "idle"
    /\ rpc' = [rpc EXCEPT ![d] = "upserting"]
    /\ armed' = [armed EXCEPT ![d] = {a \in Alerts : alertVector[a] # None}]
    /\ reported' = [reported EXCEPT ![d] = {}]
    /\ UNCHANGED <<tables, request, snapshot, staged, todo, statement, faults>>

(* begin; the upsert statement starts and takes its snapshot.              *)
Deliver(d) ==
    /\ rpc[d] = "idle"
    /\ rpc' = [rpc EXCEPT ![d] = "upserting"]
    /\ snapshot' = [snapshot EXCEPT ![d] = revisions]
    /\ armed' = [armed EXCEPT ![d] = {a \in Alerts : alertVector[a] # None}]
    /\ reported' = [reported EXCEPT ![d] = {}]
    /\ UNCHANGED <<tables, request, staged, todo, statement, faults>>

(* Mutants: the predecessor is dropped; the page's row is not locked.      *)
upsert_page_revision_NoPredecessor(d) ==
    LET p == request[d].page IN
    /\ rpc[d] = "upserting"
    /\ pageLock[p] = None
    /\ RevisionOf(d) \in revisions => RevisionOf(d) \in snapshot[d]
    /\ pageLock' = [pageLock EXCEPT ![p] = d]
    /\ staged' = [staged EXCEPT ![d] =
                    [inserted |-> RevisionOf(d) \notin revisions,
                     predecessor |-> None, keys |-> {}]]
    /\ rpc' = [rpc EXCEPT ![d] = "upserted"]
    /\ snapshot' = [snapshot EXCEPT ![d] = {}]
    /\ UNCHANGED <<pageTables, embeddings, alertTables, candidates, pendingKeys,
                   request, armed, todo, statement, reported, faults>>

upsert_page_revision_NoLock(d) ==
    LET p == request[d].page IN
    /\ rpc[d] = "upserting"
    /\ RevisionOf(d) \in revisions => RevisionOf(d) \in snapshot[d]
    /\ pageLock' = [pageLock EXCEPT ![p] = d]
    /\ staged' = [staged EXCEPT ![d] =
                    [inserted |-> RevisionOf(d) \notin revisions,
                     predecessor |-> latest[p], keys |-> {}]]
    /\ rpc' = [rpc EXCEPT ![d] = "upserted"]
    /\ snapshot' = [snapshot EXCEPT ![d] = {}]
    /\ UNCHANGED <<pageTables, embeddings, alertTables, candidates, pendingKeys,
                   request, armed, todo, statement, reported, faults>>

(***************************************************************************)
(* upsert_page_revision.  INSERT ... ON CONFLICT DO UPDATE waits for the   *)
(* page's row and returns its current latest_revision_id; the revision is  *)
(* inserted with it as predecessor unless the content is already known.    *)
(* The UPDATE of latest_revision_id follows in the same transaction, on    *)
(* the row already locked.                                                 *)
(***************************************************************************)
upsert_page_revision(d) ==
    LET p == request[d].page IN
    /\ rpc[d] = "upserting"
    /\ pageLock[p] = None
    /\ RevisionOf(d) \in revisions => RevisionOf(d) \in snapshot[d]
    /\ pageLock' = [pageLock EXCEPT ![p] = d]
    /\ staged' = [staged EXCEPT ![d] =
                    [inserted |-> RevisionOf(d) \notin revisions,
                     predecessor |-> latest[p], keys |-> {}]]
    /\ rpc' = [rpc EXCEPT ![d] = "upserted"]
    /\ snapshot' = [snapshot EXCEPT ![d] = {}]
    /\ UNCHANGED <<pageTables, embeddings, alertTables, candidates, pendingKeys,
                   request, armed, todo, statement, reported, faults>>

(***************************************************************************)
(* The same content was committed by another delivery after this one took  *)
(* its snapshot: the insert conflicts, the fallback does not see the row,  *)
(* and the call ends with 500 and a rollback.                              *)
(***************************************************************************)
NoDurableRevision(d) ==
    /\ rpc[d] = "upserting"
    /\ pageLock[request[d].page] = None
    /\ RevisionOf(d) \in revisions \ snapshot[d]
    /\ rpc' = [rpc EXCEPT ![d] = "norevision"]
    /\ snapshot' = [snapshot EXCEPT ![d] = {}]
    /\ UNCHANGED <<tables, request, armed, staged, todo, statement, reported, faults>>

(* Mutant: the threshold is not part of the query.                         *)
Qualifying_AnySimilarity(d) ==
    {a \in Alerts : alert[a] = "active" /\ alertVector[a] # None}

(* The alerts find_alert_candidates selects before ORDER BY and LIMIT.     *)
Qualifying(d) ==
    {a \in Alerts : /\ alert[a] = "active"
                    /\ alertVector[a] # None
                    /\ Score(d, a) >= Threshold[a]}

(* Mutant: the threshold is applied to the rows left by LIMIT.             *)
find_alert_candidates_FilterLater(d) ==
    /\ rpc[d] = "upserted"
    /\ \E T \in TopK({a \in Alerts : alert[a] = "active" /\ alertVector[a] # None},
                     Scores(d), MaxCandidates) :
            todo' = [todo EXCEPT ![d] = T \cap Qualifying(d)]
    /\ rpc' = [rpc EXCEPT ![d] = "matching"]
    /\ UNCHANGED <<tables, request, snapshot, armed, staged, statement, reported, faults>>

find_alert_candidates(d) ==
    /\ rpc[d] = "upserted"
    /\ \E T \in TopK(Qualifying(d), Scores(d), MaxCandidates) :
            todo' = [todo EXCEPT ![d] = T]
    /\ rpc' = [rpc EXCEPT ![d] = "matching"]
    /\ UNCHANGED <<tables, request, snapshot, armed, staged, statement, reported, faults>>

(***************************************************************************)
(* persist_reverse_candidate, nearest first.  The statement of the next    *)
(* row starts and takes its snapshot.                                      *)
(***************************************************************************)
PersistStart(d, a) ==
    /\ rpc[d] = "matching"
    /\ a \in Nearest(todo[d], Scores(d))
    /\ statement' = [statement EXCEPT ![d] =
                        [alert |-> a,
                         visible |-> {k \in MatchKeys : candidates[k] # None}]]
    /\ rpc' = [rpc EXCEPT ![d] = "persisting"]
    /\ UNCHANGED <<tables, request, snapshot, armed, staged, todo, reported, faults>>

(* Mutant: the fallback selects by key alone.                              *)
Selects_AnyEvidence(d) ==
    LET k == KeyOf(d, statement[d].alert) IN
    k \in statement[d].visible /\ candidates[k] # None

(* The fallback selects a row it sees that has this delivery's evidence.   *)
Selects(d) ==
    LET a == statement[d].alert IN
    /\ KeyOf(d, a) \in statement[d].visible
    /\ candidates[KeyOf(d, a)] = ReverseEvidence(d, a)

(***************************************************************************)
(* The arbiter waits for an open transaction that has inserted the key.    *)
(* Then the row is inserted, or the fallback selects the one there is.     *)
(***************************************************************************)
persist_reverse_candidate(d) ==
    LET a == statement[d].alert
        k == KeyOf(d, a) IN
    /\ rpc[d] = "persisting"
    /\ k \notin pendingKeys
    /\ candidates[k] = None \/ Selects(d)
    /\ IF candidates[k] = None
       THEN /\ staged' = [staged EXCEPT ![d].keys = @ \cup {k}]
            /\ pendingKeys' = pendingKeys \cup {k}
       ELSE UNCHANGED <<staged, pendingKeys>>
    /\ todo' = [todo EXCEPT ![d] = @ \ {a}]
    /\ reported' = [reported EXCEPT ![d] = @ \cup {a}]
    /\ statement' = [statement EXCEPT ![d] = NoStatement]
    /\ rpc' = [rpc EXCEPT ![d] = "matching"]
    /\ UNCHANGED <<pageTables, embeddings, alertTables, candidates, pageLock,
                   request, snapshot, armed, faults>>

(* Neither: 409, and everything is rolled back.                            *)
EvidenceConflict(d) ==
    LET k == KeyOf(d, statement[d].alert) IN
    /\ rpc[d] = "persisting"
    /\ k \notin pendingKeys
    /\ candidates[k] # None
    /\ ~Selects(d)
    /\ rpc' = [rpc EXCEPT ![d] = "conflict"]
    /\ EndTransaction(d)
    /\ UNCHANGED <<pageTables, embeddings, alertTables, candidates,
                   request, snapshot, armed, reported, faults>>

(* Mutant: latest_revision_id is not updated.                              *)
CommitDelivery_NoPointer(d) ==
    LET r == RevisionOf(d) IN
    /\ rpc[d] = "matching"
    /\ todo[d] = {}
    /\ pages' = pages \cup {r[1]}
    /\ revisions' = revisions \cup {r}
    /\ candidates' = [k \in MatchKeys |-> IF k \in staged[d].keys
                                          THEN ReverseEvidence(d, k[1])
                                          ELSE candidates[k]]
    /\ EndTransaction(d)
    /\ rpc' = [rpc EXCEPT ![d] = "committed"]
    /\ UNCHANGED <<latest, predecessor, embeddings, alertTables,
                   request, snapshot, armed, reported, faults>>

(* COMMIT installs the page, its revision and pointer, and the candidates. *)
CommitDelivery(d) ==
    LET p == request[d].page
        r == RevisionOf(d) IN
    /\ rpc[d] = "matching"
    /\ todo[d] = {}
    /\ pages' = pages \cup {p}
    /\ latest' = [latest EXCEPT ![p] = r]
    /\ revisions' = revisions \cup {r}
    /\ predecessor' = IF staged[d].inserted
                      THEN [predecessor EXCEPT ![r] = staged[d].predecessor]
                      ELSE predecessor
    /\ candidates' = [k \in MatchKeys |-> IF k \in staged[d].keys
                                          THEN ReverseEvidence(d, k[1])
                                          ELSE candidates[k]]
    /\ EndTransaction(d)
    /\ rpc' = [rpc EXCEPT ![d] = "committed"]
    /\ UNCHANGED <<embeddings, alertTables, request, snapshot, armed, reported, faults>>

(* page.reverse_match_completed is published and 201 or 200 returned.      *)
AnswerDelivery(d) ==
    /\ rpc[d] = "committed"
    /\ rpc' = [rpc EXCEPT ![d] = "accepted"]
    /\ UNCHANGED <<tables, request, snapshot, armed, staged, todo, statement, reported, faults>>

(* The answer to COMMIT, or the one to the crawler, is lost.               *)
LoseAnswer(d) ==
    /\ rpc[d] = "committed"
    /\ faults < MaxFaults
    /\ faults' = faults + 1
    /\ rpc' = [rpc EXCEPT ![d] = "lost"]
    /\ UNCHANGED <<tables, request, snapshot, armed, staged, todo, statement, reported>>

(* Any statement may fail, or the server stop: the transaction rolls back. *)
AbortDelivery(d) ==
    /\ rpc[d] \in Open
    /\ faults < MaxFaults
    /\ faults' = faults + 1
    /\ rpc' = [rpc EXCEPT ![d] = "failed"]
    /\ EndTransaction(d)
    /\ UNCHANGED <<pageTables, embeddings, alertTables, candidates,
                   request, snapshot, armed, reported>>

(* The crawler repeats a call that was not acknowledged.                   *)
Redeliver(d) ==
    /\ rpc[d] \in Answers \ {"accepted"}
    /\ rpc' = [rpc EXCEPT ![d] = "idle"]
    /\ UNCHANGED <<tables, request, snapshot, armed, staged, todo, statement, reported, faults>>

ProceedDelivery(d) ==
    \/ Deliver(d)
    \/ upsert_page_revision(d)
    \/ NoDurableRevision(d)
    \/ find_alert_candidates(d)
    \/ \E a \in Alerts : PersistStart(d, a)
    \/ persist_reverse_candidate(d)
    \/ EvidenceConflict(d)
    \/ CommitDelivery(d)
    \/ AnswerDelivery(d)
    \/ Redeliver(d)

(* Nothing is left to deliver.                                             *)
AllAccepted ==
    /\ \A d \in Deliveries : rpc[d] = "accepted"
    /\ UNCHANGED <<tables, reverseVars>>

ReverseStep ==
    \E d \in Deliveries : ProceedDelivery(d) \/ LoseAnswer(d) \/ AbortDelivery(d)

(***************************************************************************)
(* The reverse path alone, the only path that completes in this version of *)
(* the code (see HistoricalMatch).                                         *)
(***************************************************************************)
ReverseNext ==
    \/ ReverseStep
    \/ AlertStep /\ UNCHANGED reverseVars
    \/ AllAccepted

ReverseSpec == ReverseInit /\ [][ReverseNext]_<<tables, reverseVars>>

(***************************************************************************)
(* The server and PostgreSQL go on with an open transaction, and the       *)
(* crawler sends and repeats its calls.  Row locks are granted in order,   *)
(* but weak fairness is enough: a delivery is accepted once.               *)
(***************************************************************************)
ReverseFairSpec ==
    ReverseSpec /\ \A d \in Deliveries : WF_<<tables, reverseVars>>(ProceedDelivery(d))

-----------------------------------------------------------------------------
ReverseTypeOK ==
    /\ StoreTypeOK
    /\ pageLock \in [Pages -> Deliveries \cup {None}]
    /\ request \in [Deliveries -> Requests]
    /\ rpc \in [Deliveries -> {"idle", "committed"} \cup Open \cup Answers]
    /\ snapshot \in [Deliveries -> SUBSET Revisions]
    /\ armed \in [Deliveries -> SUBSET Alerts]
    /\ staged \in [Deliveries -> [inserted : BOOLEAN,
                                  predecessor : Revisions \cup {None},
                                  keys : SUBSET MatchKeys]]
    /\ todo \in [Deliveries -> SUBSET Alerts]
    /\ statement \in [Deliveries -> [alert : Alerts \cup {None},
                                     visible : SUBSET MatchKeys]]
    /\ reported \in [Deliveries -> SUBSET Alerts]
    /\ faults \in 0..MaxFaults

(***************************************************************************)
(* What an accepted delivery reported is durable: the page revision, and   *)
(* every candidate with the evidence of THIS delivery, whichever delivery  *)
(* inserted it.                                                            *)
(***************************************************************************)
AcceptedIsDurable ==
    \A d \in Deliveries :
        rpc[d] = "accepted" =>
            /\ RevisionOf(d) \in revisions
            /\ \A a \in reported[d] : candidates[KeyOf(d, a)] = ReverseEvidence(d, a)

(***************************************************************************)
(* No match is missed: an alert that had its vector before the delivery    *)
(* began, is still active and qualifies is reported by the accepted        *)
(* delivery, unless max_candidates alerts at least as similar fill the     *)
(* response.                                                               *)
(***************************************************************************)
NoMissedMatch ==
    \A d \in Deliveries :
        rpc[d] = "accepted" =>
            \A a \in (armed[d] \cap Qualifying(d)) \ reported[d] :
                Cardinality({b \in reported[d] : Score(d, b) >= Score(d, a)}) = MaxCandidates

(***************************************************************************)
(* 409 means other evidence.  The fallback of persist_reverse_candidate    *)
(* overlooks a row that was committed after its statement started, also    *)
(* one with this delivery's own evidence.  That never makes a delivery     *)
(* fail with 409: when it does, a row of its page revision is durable      *)
(* whose evidence is another's.  Concurrent copies of a delivery would     *)
(* break this but for the page's row, which one of them holds all along.   *)
(***************************************************************************)
ConflictsAreGenuine ==
    \A d \in Deliveries :
        rpc[d] = "conflict" =>
            \E a \in Alerts : candidates[KeyOf(d, a)] \notin {None, ReverseEvidence(d, a)}

(***************************************************************************)
(* While a delivery holds the page's row, the predecessor it read is not   *)
(* stale: it is still the latest revision when the delivery commits.       *)
(***************************************************************************)
PredecessorIsFresh ==
    \A d \in Deliveries :
        rpc[d] \in {"upserted", "matching", "persisting"} =>
            staged[d].predecessor = latest[request[d].page]

(***************************************************************************)
(* Every delivery is accepted in the end when the crawler repeats it, even *)
(* if duplicates of it run concurrently, as long as one content always     *)
(* comes with one vector.                                                  *)
(***************************************************************************)
EveryDeliveryAccepted == \A d \in Deliveries : <>(rpc[d] = "accepted")
=============================================================================

------------------------------ MODULE EventBus ------------------------------
(***************************************************************************)
(* Live events: publish_event, the broadcast channel created in main, and  *)
(* the two tasks of a WebSocket (src/server_websocket.rs).                 *)
(*                                                                         *)
(* The channel keeps the last Capacity events.  A receiver starts at the   *)
(* end of the channel; one that falls behind is told how many events it    *)
(* has missed and continues with the oldest event kept.  Publishing never  *)
(* waits.  Events are named by their position among all events sent.       *)
(***************************************************************************)
EXTENDS Naturals, Sequences, SequencesExt

CONSTANTS
    Sockets,        \* WebSocket sessions
    Tenants,
    Subjects,
    Identity,       \* Identity[s]: the AuthContext of the session
    Capacity,       \* slots of the channel (512)
    Published,      \* the events handlers may publish
    MaxEvents,      \* bound on the number of events published
    Administrators  \* the audience TenantAdministrators

AuthContext == [tenant : Tenants, subject : Subjects, tenant_admin : BOOLEAN]
TenantEvent == [tenant : Tenants, audience : Subjects \cup {Administrators}]

ASSUME BusAssumption ==
    /\ Identity \in [Sockets -> AuthContext]
    /\ Administrators \notin Subjects
    /\ Published \subseteq TenantEvent
    /\ Capacity \in Nat \ {0}
    /\ MaxEvents \in Nat

VARIABLES
    sent,       \* every event that entered the channel
    sender,     \* sender[s]: send_task of session s
    receiver,   \* receiver[s]: receive_task of session s
    cursor,     \* cursor[s]: position of the next event it will receive
    start,      \* start[s]: position at which it subscribed
    delivered,  \* delivered[s]: positions written to the socket, in order
    skipped     \* skipped[s]: positions it was told it had missed

vars == <<sent, sender, receiver, cursor, start, delivered, skipped>>

(* A send_task that has not ended holds a receiver of the channel.         *)
Subscribed(s) == sender[s] \in {"receiving", "sending"}

TypeOK ==
    /\ sent \in Seq(Published) /\ Len(sent) <= MaxEvents
    /\ sender \in [Sockets -> {"absent", "receiving", "sending", "done"}]
    /\ receiver \in [Sockets -> {"absent", "reading", "done"}]
    /\ \A s \in Sockets :
          /\ start[s] \in 1..Len(sent) + 1
          /\ cursor[s] \in start[s]..Len(sent) + 1
          /\ delivered[s] \in Seq(start[s]..Len(sent))
          /\ skipped[s] \subseteq start[s]..Len(sent)

Init ==
    /\ sent = <<>>
    /\ sender = [s \in Sockets |-> "absent"]
    /\ receiver = [s \in Sockets |-> "absent"]
    /\ cursor = [s \in Sockets |-> 1]
    /\ start = [s \in Sockets |-> 1]
    /\ delivered = [s \in Sockets |-> <<>>]
    /\ skipped = [s \in Sockets |-> {}]

-----------------------------------------------------------------------------
(* Mutant: an administrator is not bound to the tenant.                    *)
event_visible_to_AnyTenant(event, auth) ==
    \/ auth.tenant_admin
    \/ event.tenant = auth.tenant /\ event.audience = auth.subject

event_visible_to(event, auth) ==
    /\ event.tenant = auth.tenant
    /\ auth.tenant_admin \/ event.audience = auth.subject

Visible(s, i) == event_visible_to(sent[i], Identity[s])

(***************************************************************************)
(* publish_event.  Without a subscriber send returns an error, which is    *)
(* ignored, and the event is gone.                                         *)
(***************************************************************************)
publish_event(event) ==
    /\ Len(sent) < MaxEvents
    /\ \E s \in Sockets : Subscribed(s)
    /\ sent' = Append(sent, event)
    /\ UNCHANGED <<sender, receiver, cursor, start, delivered, skipped>>

(* After the upgrade: subscribe, then spawn both tasks.                    *)
Subscribe(s) ==
    /\ sender[s] = "absent"
    /\ cursor' = [cursor EXCEPT ![s] = Len(sent) + 1]
    /\ start' = [start EXCEPT ![s] = Len(sent) + 1]
    /\ sender' = [sender EXCEPT ![s] = "receiving"]
    /\ receiver' = [receiver EXCEPT ![s] = "reading"]
    /\ UNCHANGED <<sent, delivered, skipped>>

(* Mutant: one event more than is kept.                                    *)
Oldest_OneMore == IF Len(sent) >= Capacity THEN Len(sent) - Capacity + 2 ELSE 1

(* The oldest event the channel keeps.                                     *)
Oldest == IF Len(sent) > Capacity THEN Len(sent) - Capacity + 1 ELSE 1

(* Mutant: what is received while another event is being sent is dropped.  *)
Receive_Drops(s) ==
    /\ sender[s] = "receiving"
    /\ cursor[s] \in Oldest..Len(sent)
    /\ cursor' = [cursor EXCEPT ![s] = Len(sent) + 1]
    /\ sender' = [sender EXCEPT ![s] = IF Visible(s, Len(sent)) THEN "sending" ELSE @]
    /\ UNCHANGED <<sent, receiver, start, delivered, skipped>>

(* recv returns the next event; one for another audience is left out.      *)
Receive(s) ==
    /\ sender[s] = "receiving"
    /\ cursor[s] \in Oldest..Len(sent)
    /\ cursor' = [cursor EXCEPT ![s] = @ + 1]
    /\ sender' = [sender EXCEPT ![s] = IF Visible(s, cursor[s]) THEN "sending" ELSE @]
    /\ UNCHANGED <<sent, receiver, start, delivered, skipped>>

(* Mutant: the loop asks again for the event that is gone.                 *)
Lagged_Stays(s) ==
    /\ sender[s] = "receiving"
    /\ cursor[s] < Oldest
    /\ UNCHANGED vars

(* recv returns Lagged: a warning, and the loop goes on.                   *)
Lagged(s) ==
    /\ sender[s] = "receiving"
    /\ cursor[s] < Oldest
    /\ skipped' = [skipped EXCEPT ![s] = @ \cup cursor[s]..(Oldest - 1)]
    /\ cursor' = [cursor EXCEPT ![s] = Oldest]
    /\ UNCHANGED <<sent, sender, receiver, start, delivered>>

(* sender.send completes.  It may take as long as the peer likes.          *)
SendOk(s) ==
    /\ sender[s] = "sending"
    /\ delivered' = [delivered EXCEPT ![s] = Append(@, cursor[s] - 1)]
    /\ sender' = [sender EXCEPT ![s] = "receiving"]
    /\ UNCHANGED <<sent, receiver, cursor, start, skipped>>

(* sender.send fails.  (RecvError::Closed cannot happen: websocket owns a  *)
(* sender of the channel, in its AppState, until it returns.)              *)
SendError(s) ==
    /\ sender[s] = "sending"
    /\ sender' = [sender EXCEPT ![s] = "done"]
    /\ UNCHANGED <<sent, receiver, cursor, start, delivered, skipped>>

(* A Close frame, an error or the end of the stream.                       *)
PeerCloses(s) ==
    /\ receiver[s] = "reading"
    /\ receiver' = [receiver EXCEPT ![s] = "done"]
    /\ UNCHANGED <<sent, sender, cursor, start, delivered, skipped>>

(* Mutant: only the end of send_task is waited for.                        *)
Select_SenderOnly(s) ==
    /\ sender[s] = "done"
    /\ receiver[s] # "done"
    /\ receiver' = [receiver EXCEPT ![s] = "done"]
    /\ UNCHANGED <<sent, sender, cursor, start, delivered, skipped>>

(* select!: when one task has ended the other is aborted, whatever it is   *)
(* doing.                                                                  *)
Select(s) ==
    /\ (sender[s] = "done") # (receiver[s] = "done")
    /\ sender' = [sender EXCEPT ![s] = "done"]
    /\ receiver' = [receiver EXCEPT ![s] = "done"]
    /\ UNCHANGED <<sent, cursor, start, delivered, skipped>>

SocketStep(s) ==
    \/ Subscribe(s) \/ Receive(s) \/ Lagged(s) \/ SendOk(s) \/ SendError(s)
    \/ PeerCloses(s) \/ Select(s)

Next == (\E event \in Published : publish_event(event)) \/ (\E s \in Sockets : SocketStep(s))

Spec == Init /\ [][Next]_vars

(***************************************************************************)
(* tokio runs ready tasks, and a peer that stays connected reads.          *)
(***************************************************************************)
FairSpec ==
    /\ Spec
    /\ \A s \in Sockets : WF_vars(Receive(s) \/ Lagged(s) \/ SendOk(s)) /\ WF_vars(Select(s))

-----------------------------------------------------------------------------
(* The event a sending task has in hand.                                   *)
InHand(s) == IF sender[s] = "sending" THEN {cursor[s] - 1} ELSE {}

(***************************************************************************)
(* Cross-tenant events and events for other subjects never reach a socket, *)
(* even one that lags or was told it missed events; events arrive once and *)
(* in the order of publication (README.md, WebSocket boundary).            *)
(***************************************************************************)
OnlyAudience ==
    \A s \in Sockets : LET d == delivered[s] IN
        /\ \A i \in Range(d) :
              /\ sent[i].tenant = Identity[s].tenant
              /\ sent[i].audience = Administrators => Identity[s].tenant_admin
              /\ sent[i].audience \in {Administrators, Identity[s].subject} \/ Identity[s].tenant_admin
        /\ \A j, k \in DOMAIN d : j < k => d[j] < d[k]

(***************************************************************************)
(* Nothing is lost silently: while a session is open, every event of its   *)
(* audience between the subscription and the cursor is on the socket, in   *)
(* hand, or among those the task was told it had missed.                   *)
(***************************************************************************)
NoSilentLoss ==
    \A s \in Sockets :
        Subscribed(s) =>
            {i \in start[s]..(cursor[s] - 1) : Visible(s, i)} \ skipped[s]
                = Range(delivered[s]) \cup InHand(s)

(***************************************************************************)
(* Only a subscriber more than Capacity behind misses events: each missed  *)
(* event was followed by Capacity later ones, its own audience's or not.   *)
(***************************************************************************)
MissedWereOverwritten ==
    \A s \in Sockets : \A i \in skipped[s] : i + Capacity <= Len(sent)

(* A session as EventFeed sees it.                                         *)
Phase == [absent |-> "new", receiving |-> "open", sending |-> "open", done |-> "closed"]

Feed == INSTANCE EventFeed WITH
    log <- sent,
    session <- [s \in Sockets |-> Phase[sender[s]]],
    joined <- start,
    feed <- delivered,
    missed <- [s \in Sockets |-> {i \in skipped[s] : Visible(s, i)}],
    Audience <- [s \in Sockets |-> {e \in Published : event_visible_to(e, Identity[s])}]

(***************************************************************************)
(* The channel, the cursors and both tasks of every socket implement the   *)
(* feed: each session gets the events of its audience one by one and in    *)
(* order, an event that is due is passed over only when Capacity events    *)
(* followed it, and nothing is written after the session has ended.        *)
(***************************************************************************)
ImplementsFeed == Feed!FSpec

(***************************************************************************)
(* A socket ends whole: when either task ends the other one ends too, so   *)
(* no task and no receiver of the channel is leaked.                       *)
(***************************************************************************)
EndsWhole ==
    \A s \in Sockets :
        (sender[s] = "done" \/ receiver[s] = "done") ~> (sender[s] = "done" /\ receiver[s] = "done")

(***************************************************************************)
(* Every event of the audience of an open session is settled: delivered,   *)
(* reported as missed, or the session ends.                                *)
(***************************************************************************)
EventsSettle ==
    \A s \in Sockets, i \in 1..MaxEvents :
        (Subscribed(s) /\ i \in start[s]..Len(sent) /\ Visible(s, i))
            ~> (i \in Range(delivered[s]) \cup skipped[s] \/ sender[s] = "done")
=============================================================================

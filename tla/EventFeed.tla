----------------------------- MODULE EventFeed -----------------------------
(***************************************************************************)
(* What live events promise: one log, and for each session a feed of the   *)
(* events of its audience that were published after it joined.  An event   *)
(* is delivered in one step, the earliest that is due first; a session     *)
(* that is behind may lose what is due and followed by Capacity later      *)
(* events, all of it at once, and only that; a session leaves once.        *)
(* EventBus implements it (see Feed there): its channel positions, the     *)
(* event a task has in hand and the two tasks of a socket do not show.     *)
(***************************************************************************)
EXTENDS Naturals, Sequences, SequencesExt

CONSTANTS
    Sockets,
    Published,
    Capacity,
    Audience    \* Audience[s]: the events session s may see

VARIABLES
    log,        \* every event published while somebody listened
    session,    \* session[s]: new, open or closed
    joined,     \* joined[s]: position of the first event after it joined
    feed,       \* feed[s]: positions delivered, in order
    missed      \* missed[s]: positions lost to it

feeds == <<log, session, joined, feed, missed>>

Due(s) ==
    {i \in joined[s]..Len(log) : log[i] \in Audience[s]} \ (Range(feed[s]) \cup missed[s])

FInit ==
    /\ log = <<>>
    /\ session = [s \in Sockets |-> "new"]
    /\ joined = [s \in Sockets |-> 1]
    /\ feed = [s \in Sockets |-> <<>>]
    /\ missed = [s \in Sockets |-> {}]

Publish(event) ==
    /\ \E s \in Sockets : session[s] = "open"
    /\ log' = Append(log, event)
    /\ UNCHANGED <<session, joined, feed, missed>>

Join(s) ==
    /\ session[s] = "new"
    /\ session' = [session EXCEPT ![s] = "open"]
    /\ joined' = [joined EXCEPT ![s] = Len(log) + 1]
    /\ UNCHANGED <<log, feed, missed>>

Deliver(s) ==
    /\ session[s] = "open"
    /\ \E i \in Due(s) :
          /\ \A j \in Due(s) : i <= j
          /\ feed' = [feed EXCEPT ![s] = Append(@, i)]
    /\ UNCHANGED <<log, session, joined, missed>>

Lose(s) ==
    /\ session[s] = "open"
    /\ missed' = [missed EXCEPT ![s] = @ \cup {i \in Due(s) : i + Capacity <= Len(log)}]
    /\ UNCHANGED <<log, session, joined, feed>>

Leave(s) ==
    /\ session[s] = "open"
    /\ session' = [session EXCEPT ![s] = "closed"]
    /\ UNCHANGED <<log, joined, feed, missed>>

FNext ==
    \/ \E event \in Published : Publish(event)
    \/ \E s \in Sockets : Join(s) \/ Deliver(s) \/ Lose(s) \/ Leave(s)

FSpec == FInit /\ [][FNext]_feeds
=============================================================================

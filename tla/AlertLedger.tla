----------------------------- MODULE AlertLedger -----------------------------
(***************************************************************************)
(* What durable alert rules promise: a ledger in which each transaction    *)
(* takes effect in one step.  A create adds the rule unless it is enabled  *)
(* and the owner has Limit others enabled; a transaction is refused for    *)
(* the limit only at a moment when the limit is really reached; any        *)
(* transaction may fail without a trace; an announcement follows the       *)
(* creation.  AlertRules implements it (see Ledger there).                 *)
(***************************************************************************)
EXTENDS Naturals, FiniteSets

CONSTANTS Requests, Clients, Inputs, Limit

VARIABLES
    input,      \* input[t] = [owner, enabled, rule]
    rules,      \* the rules that exist
    on,         \* the rules that are enabled
    verdict,    \* verdict[t]: what became of transaction t
    events      \* the rules announced

ledger == <<input, rules, on, verdict, events>>

Others(t) == {r \in on : input[r].owner = input[t].owner} \ {input[t].rule}

LInit ==
    /\ input \in Inputs
    /\ rules = {}
    /\ on = {}
    /\ verdict = [t \in Requests \cup Clients |-> "open"]
    /\ events = {}

Store(t) ==
    /\ verdict[t] = "open"
    /\ t \in Clients => input[t].rule \in rules
    /\ input[t].enabled => Cardinality(Others(t)) < Limit
    /\ rules' = rules \cup {input[t].rule}
    /\ on' = IF input[t].enabled THEN on \cup {input[t].rule}
                                 ELSE on \ {input[t].rule}
    /\ verdict' = [verdict EXCEPT ![t] = "stored"]
    /\ UNCHANGED <<input, events>>

Refuse(t) ==
    /\ verdict[t] = "open"
    /\ input[t].enabled
    /\ Cardinality(Others(t)) >= Limit
    /\ verdict' = [verdict EXCEPT ![t] = "limit"]
    /\ UNCHANGED <<input, rules, on, events>>

Fail(t) ==
    /\ verdict[t] = "open"
    /\ verdict' = [verdict EXCEPT ![t] = "fault"]
    /\ UNCHANGED <<input, rules, on, events>>

Announce(t) ==
    /\ t \in Requests
    /\ verdict[t] = "stored"
    /\ t \notin events
    /\ events' = events \cup {t}
    /\ UNCHANGED <<input, rules, on, verdict>>

LNext == \E t \in Requests \cup Clients : Store(t) \/ Refuse(t) \/ Fail(t) \/ Announce(t)

LSpec == LInit /\ [][LNext]_ledger
=============================================================================

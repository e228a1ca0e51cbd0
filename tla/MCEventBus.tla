------------------------------ MODULE MCEventBus ------------------------------
EXTENDS EventBus

\* A member and an administrator of one tenant, with the same subject.
CONSTANT Admin
MCIdentity ==
    [s \in Sockets |-> [tenant |-> "acme", subject |-> "ann", tenant_admin |-> s = Admin]]

\* For the administrators, for the member, for a colleague, and for the
\* member's namesake in another tenant.
MCPublished ==
    {[tenant |-> "acme", audience |-> a] : a \in Subjects \cup {Administrators}}
        \cup {[tenant |-> "beta", audience |-> "ann"]}
=============================================================================

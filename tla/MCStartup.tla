------------------------------ MODULE MCStartup ------------------------------
EXTENDS Startup

\* The intended production settings, each with one thing missing, and two
\* development environments that need less.
Production ==
    [production |-> TRUE, auth |-> "jwt", database |-> TRUE,
     migrate |-> FALSE, ingest |-> TRUE, origins |-> TRUE]
MCSettings ==
    {Production, [Production EXCEPT !.migrate = TRUE],
     [Production EXCEPT !.auth = "headers"], [Production EXCEPT !.database = FALSE],
     [Production EXCEPT !.ingest = FALSE], [Production EXCEPT !.origins = FALSE],
     [Production EXCEPT !.production = FALSE, !.auth = "headers", !.origins = FALSE],
     [Production EXCEPT !.production = FALSE, !.database = FALSE, !.migrate = TRUE]}
=============================================================================

----------------------------- MODULE MCLifecycle -----------------------------
\* Two ticks of grace against a request timeout below it and one equal to it;
\* every role, with and without a replica, migrations and market jobs.
EXTENDS Lifecycle

MCConfig ==
  {c \in [role : Role, migrations : {FALSE, TRUE}, replica : {FALSE, TRUE},
          market : {FALSE, TRUE}, bhavcopy : {FALSE, TRUE},
          requestTimeout : {1, 2}] :
     \* what a role does not read is left at one value
     /\ c.role \in {"api", "migrate"} => ~c.market
     /\ ~c.market => ~c.bhavcopy
     /\ c.role \in {"worker", "migrate"} => ~c.replica
     /\ c.role = "migrate" => c.migrations /\ c.requestTimeout = 1
     /\ c.role \in {"all", "worker"} => ~c.migrations
     /\ c.role = "worker" => c.requestTimeout = 1
     /\ c.role = "all" => c.replica /\ c.requestTimeout = 1}
=============================================================================

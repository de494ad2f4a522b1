------------------------------ MODULE Lifecycle ------------------------------
(***************************************************************************)
(* One process from main to exit (cmd/stocky-api/main.go): migrations,     *)
(* connection pools, background services, HTTP server, and the shutdown    *)
(* that takes them down again.                                             *)
(*                                                                         *)
(* main runs alone; every service, the price service's cycle, the HTTP     *)
(* server and every request's handler are goroutines of their own.  Time   *)
(* passes only where an order depends on it: a request's age against its   *)
(* timeout, and the grace Shutdown gives.  A service's pass is opaque: it  *)
(* begins, uses the jobs pool, and ends (its context carries a timeout of  *)
(* minutes and is cancelled with the root context).                        *)
(***************************************************************************)
EXTENDS Naturals, Sequences

CONSTANTS Config,    \* the configurations a process may be started with
          Request,   \* requests clients may send
          Grace      \* what srv.Shutdown waits for open requests, in ticks

Role == {"api", "worker", "all", "migrate"}
Pool == {"api", "jobs", "read"}
Service == {"price", "bhavcopy", "corporate", "refresh", "reconciliation"}

\* config.go: what main reads of the configuration.  bhavcopy stands for
\* "enabled and the provider is yahoo", requestTimeout is greater than zero.
ASSUME ConfigAssumption ==
  /\ Config \subseteq [role : Role, migrations : BOOLEAN, replica : BOOLEAN,
                       market : BOOLEAN, bhavcopy : BOOLEAN,
                       requestTimeout : Nat \ {0}]
  /\ Grace \in Nat \ {0}

VARIABLES conf,
          pc,        \* where main stands
          joined,    \* services main has waited for so far
          pool,      \* "none", "open" or "closed"
          service,   \* "off", "pass", "idle", "stopping" or "done"
          cycle,     \* the price service's cycle goroutine runs
          cancelled, \* the root context
          signal,    \* a signal waits in quit
          http,      \* "off", "starting", "listening", "failed" or "closed"
          request,   \* "unsent", "active" or "answered"
          age,       \* ticks an active request has run
          grace,     \* what is left of Shutdown's grace
          forced,    \* Shutdown gave up on open requests
          exit       \* "running", "ok", "fatal" or "killed"

vars == <<conf, pc, joined, pool, service, cycle, cancelled, signal, http,
          request, age, grace, forced, exit>>
mainVars == <<conf, pc, joined, pool, exit>>
jobVars == <<service, cycle>>
requestVars == <<request, age>>

PC == {"migrate", "openApi", "openJobs", "openRead", "calendar", "startPrice",
       "startBhavcopy", "startCorporate", "startRefresh",
       "startReconciliation", "listen", "notify", "select", "join",
       "shutdown", "closeRead", "closeJobs", "closeApi", "exited"}

TypeOK ==
  /\ conf \in Config /\ pc \in PC /\ joined \in 0..5
  /\ pool \in [Pool -> {"none", "open", "closed"}]
  /\ service \in [Service -> {"off", "pass", "idle", "stopping", "done"}]
  /\ cycle \in BOOLEAN /\ cancelled \in BOOLEAN /\ signal \in BOOLEAN
  /\ http \in {"off", "starting", "listening", "failed", "closed"}
  /\ request \in [Request -> {"unsent", "active", "answered"}]
  /\ age \in [Request -> Nat]
  /\ grace \in 0..Grace /\ forced \in BOOLEAN
  /\ exit \in {"running", "ok", "fatal", "killed"}

runAPI == conf.role \in {"api", "all"}
runJobs == conf.role \in {"worker", "all"}
Running == exit = "running"

Init ==
  /\ conf \in Config
  /\ pc = "migrate" /\ joined = 0
  /\ pool = [p \in Pool |-> "none"]
  /\ service = [s \in Service |-> "off"] /\ cycle = FALSE
  /\ cancelled = FALSE /\ signal = FALSE /\ http = "off"
  /\ request = [r \in Request |-> "unsent"] /\ age = [r \in Request |-> 0]
  /\ grace = Grace /\ forced = FALSE /\ exit = "running"

-----------------------------------------------------------------------------
(* main, down to its select                                                *)
End(how) ==
  /\ exit' = how /\ pc' = "exited"
  /\ UNCHANGED <<conf, joined, pool, service, cycle, cancelled, signal, http,
                 request, age, grace, forced>>

\* logrus.Fatalf exits without running a deferred Close.
FatalAt(step) == Running /\ pc = step /\ End("fatal")

Migrate ==
  /\ Running /\ pc = "migrate"
  /\ IF conf.role = "migrate" THEN End("ok")
     ELSE /\ pc' = "openApi"
          /\ UNCHANGED <<conf, joined, pool, exit, jobVars, requestVars,
                         cancelled, signal, http, grace, forced>>

MigrationFails ==
  /\ conf.migrations \/ conf.role = "migrate"
  /\ FatalAt("migrate")

Wanted(p) == CASE p = "api"  -> runAPI
               [] p = "jobs" -> runJobs
               [] p = "read" -> runAPI /\ conf.replica

\* database.Open and OpenDSN: the pool exists once its ping was answered.
OpenPool(p, step, next) ==
  /\ Running /\ pc = step
  /\ pool' = IF Wanted(p) THEN [pool EXCEPT ![p] = "open"] ELSE pool
  /\ pc' = next
  /\ UNCHANGED <<conf, joined, exit, jobVars, requestVars, cancelled, signal,
                 http, grace, forced>>

OpenFails(p, step) == Wanted(p) /\ FatalAt(step)

Calendar ==
  /\ Running /\ pc = "calendar" /\ pc' = "startPrice"
  /\ UNCHANGED <<conf, joined, pool, exit, jobVars, requestVars, cancelled,
                 signal, http, grace, forced>>

Started(s) == CASE s = "price"    -> runJobs /\ conf.market
                [] s = "bhavcopy" -> runJobs /\ conf.market /\ conf.bhavcopy
                [] OTHER          -> runJobs

\* A service begins with its first pass (the price service with the loading
\* of its cache, bhavcopy with its first wait); what is not started has its
\* done channel closed at once and stays "off".
StartService(s, step, next) ==
  /\ Running /\ pc = step
  /\ service' = IF Started(s)
                THEN [service EXCEPT ![s] =
                        IF s = "bhavcopy" THEN "idle" ELSE "pass"]
                ELSE service
  /\ pc' = next
  /\ UNCHANGED <<conf, joined, pool, exit, cycle, requestVars, cancelled,
                 signal, http, grace, forced>>

\* The provider of the price service is set up before it starts; bhavcopy's
\* is set up while the price service already runs.
StartFails(s, step) == Started(s) /\ FatalAt(step)

Listen ==
  /\ Running /\ pc = "listen" /\ pc' = "notify" /\ http' = "starting"
  /\ UNCHANGED <<conf, joined, pool, exit, jobVars, requestVars, cancelled,
                 signal, grace, forced>>

Notify ==
  /\ Running /\ pc = "notify" /\ pc' = "select"
  /\ UNCHANGED <<conf, joined, pool, exit, jobVars, requestVars, cancelled,
                 signal, http, grace, forced>>

-----------------------------------------------------------------------------
(* main, from its select to its return                                     *)
Cancel ==
  /\ Running /\ pc = "select" /\ (signal \/ http = "failed")
  /\ cancelled' = TRUE /\ pc' = "join"
  /\ signal' = FALSE \/ (http = "failed" /\ signal' = signal)
  /\ UNCHANGED <<conf, joined, pool, exit, jobVars, requestVars, http, grace,
                 forced>>

WaitOrder == <<"price", "bhavcopy", "corporate", "refresh", "reconciliation">>

Join ==
  /\ Running /\ pc = "join" /\ joined < 5
  /\ service[WaitOrder[joined + 1]] \in {"off", "done"}
  /\ joined' = joined + 1
  /\ UNCHANGED <<conf, pc, pool, exit, jobVars, requestVars, cancelled,
                 signal, http, grace, forced>>

Shutdown ==
  /\ Running /\ pc = "join" /\ joined = 5
  /\ pc' = "shutdown" /\ grace' = Grace
  /\ http' = IF http = "failed" THEN "failed" ELSE "closed"
  /\ UNCHANGED <<conf, joined, pool, exit, jobVars, requestVars, cancelled,
                 signal, forced>>

Active == {r \in Request : request[r] = "active"}

\* Mutant: the server is closed, not drained.
ShutdownAtOnce ==
  /\ Running /\ pc = "shutdown"
  /\ pc' = "closeRead"
  /\ UNCHANGED <<conf, joined, pool, exit, jobVars, requestVars, cancelled,
                 signal, http, grace, forced>>

\* Shutdown returns when the last open request has ended, or with an error
\* when its grace is over; main goes on either way.
ShutdownReturns ==
  /\ Running /\ pc = "shutdown" /\ (Active = {} \/ grace = 0)
  /\ forced' = (Active # {})
  /\ pc' = "closeRead"
  /\ UNCHANGED <<conf, joined, pool, exit, jobVars, requestVars, cancelled,
                 signal, http, grace>>

\* The deferred Close calls, last opened first.
ClosePool(p, step, next) ==
  /\ Running /\ pc = step
  /\ pool' = IF pool[p] = "open" THEN [pool EXCEPT ![p] = "closed"] ELSE pool
  /\ pc' = next
  /\ exit' = IF next = "exited" THEN "ok" ELSE exit
  /\ UNCHANGED <<conf, joined, jobVars, requestVars, cancelled, signal, http,
                 grace, forced>>

Main ==
  \/ Migrate \/ MigrationFails
  \/ OpenPool("api", "openApi", "openJobs") \/ OpenFails("api", "openApi")
  \/ OpenPool("jobs", "openJobs", "openRead") \/ OpenFails("jobs", "openJobs")
  \/ OpenPool("read", "openRead", "calendar") \/ OpenFails("read", "openRead")
  \/ Calendar \/ FatalAt("calendar")
  \/ StartService("price", "startPrice", "startBhavcopy")
  \/ StartFails("price", "startPrice")
  \/ StartService("bhavcopy", "startBhavcopy", "startCorporate")
  \/ StartFails("bhavcopy", "startBhavcopy")
  \/ StartService("corporate", "startCorporate", "startRefresh")
  \/ StartService("refresh", "startRefresh", "startReconciliation")
  \/ StartService("reconciliation", "startReconciliation", "listen")
  \/ Listen \/ Notify
  \/ Cancel \/ Join \/ Shutdown \/ ShutdownReturns
  \/ ClosePool("read", "closeRead", "closeJobs")
  \/ ClosePool("jobs", "closeJobs", "closeApi")
  \/ ClosePool("api", "closeApi", "exited")

-----------------------------------------------------------------------------
(* The services' loops                                                     *)
JobsUnchanged == UNCHANGED <<mainVars, requestVars, cancelled, signal, http,
                             grace, forced>>

\* A tick that is ready together with ctx.Done may be chosen: the ticker loops
\* may begin a pass after the cancellation.  bhavcopy looks at ctx.Err before
\* every attempt.  The price service's wake starts a cycle beside its loop,
\* unless the last one still runs.
BeginPass(s) ==
  /\ Running /\ service[s] = "idle" /\ s # "price"
  /\ s = "bhavcopy" => ~cancelled
  /\ service' = [service EXCEPT ![s] = "pass"]
  /\ UNCHANGED cycle /\ JobsUnchanged

BeginCycle ==
  /\ Running /\ service["price"] = "idle" /\ ~cycle
  /\ cycle' = TRUE
  /\ UNCHANGED service /\ JobsUnchanged

EndPass(s) ==
  /\ Running /\ service[s] = "pass"
  /\ service' = [service EXCEPT ![s] = "idle"]
  \* after loading its cache the price service may catch up at once
  /\ UNCHANGED cycle \/ (s = "price" /\ cycle' = TRUE)
  /\ JobsUnchanged

EndCycle ==
  /\ Running /\ cycle /\ cycle' = FALSE
  /\ UNCHANGED service /\ JobsUnchanged

\* Mutant: Start runs its loop without a way out.
LeaveNever(s) ==
  /\ Running /\ service[s] = "idle" /\ s = "bhavcopy"
  /\ service' = [service EXCEPT ![s] = "done"]
  /\ UNCHANGED cycle /\ JobsUnchanged

\* select takes ctx.Done; bhavcopy may also stop because its calendar has no
\* trading day left.
Leave(s) ==
  /\ Running /\ service[s] = "idle"
  /\ cancelled \/ s = "bhavcopy"
  /\ service' = [service EXCEPT ![s] =
                   IF s = "price" THEN "stopping" ELSE "done"]
  /\ UNCHANGED cycle /\ JobsUnchanged

\* Mutant: it does not wait for the cycle.
PriceStoppedAtOnce ==
  /\ Running /\ service["price"] = "stopping"
  /\ service' = [service EXCEPT !["price"] = "done"]
  /\ UNCHANGED cycle /\ JobsUnchanged

\* The price service polls running until its cycle has ended.
PriceStopped ==
  /\ Running /\ service["price"] = "stopping" /\ ~cycle
  /\ service' = [service EXCEPT !["price"] = "done"]
  /\ UNCHANGED cycle /\ JobsUnchanged

Services ==
  \/ \E s \in Service : BeginPass(s) \/ EndPass(s) \/ Leave(s)
  \/ BeginCycle \/ EndCycle \/ PriceStopped

-----------------------------------------------------------------------------
(* The HTTP server and its clients                                         *)
ServeUnchanged == UNCHANGED <<mainVars, jobVars, cancelled, signal, grace,
                              forced>>

\* ListenAndServe binds its port, or fails; Accept may fail later.
Serve ==
  /\ Running /\ http = "starting" /\ http' = "listening"
  /\ UNCHANGED requestVars /\ ServeUnchanged

ServerFails ==
  /\ Running /\ http \in {"starting", "listening"} /\ http' = "failed"
  /\ UNCHANGED requestVars /\ ServeUnchanged

Accept(r) ==
  /\ Running /\ http = "listening" /\ request[r] = "unsent"
  /\ request' = [request EXCEPT ![r] = "active"]
  /\ UNCHANGED <<age, http>> /\ ServeUnchanged

Answer(r) ==
  /\ Running /\ request[r] = "active"
  /\ request' = [request EXCEPT ![r] = "answered"]
  /\ age' = [age EXCEPT ![r] = 0]
  /\ UNCHANGED http /\ ServeUnchanged

\* RequestTimeout cancels the context of a request at its timeout, and its
\* handler is taken to answer within that tick; Shutdown's timer is as
\* prompt.  Time does not matter while nothing waits for it.
Tick ==
  /\ Running /\ Active # {}
  /\ \A r \in Active : age[r] < conf.requestTimeout
  /\ pc = "shutdown" => grace > 0
  /\ age' = [r \in Request |-> IF r \in Active THEN age[r] + 1 ELSE 0]
  /\ grace' = IF pc = "shutdown" THEN grace - 1 ELSE grace
  /\ UNCHANGED <<mainVars, jobVars, cancelled, signal, http, request, forced>>

\* SIGINT or SIGTERM once the handler is installed; quit holds one, and what
\* comes after main's select is never read.
Signal ==
  /\ Running /\ ~signal
  /\ pc \in {"select", "join", "shutdown", "closeRead", "closeJobs",
             "closeApi"}
  /\ signal' = TRUE
  /\ UNCHANGED <<mainVars, jobVars, requestVars, cancelled, http, grace,
                 forced>>

\* A signal before signal.Notify, SIGKILL, a panic of a service: no deferred
\* call runs.
Die == Running /\ End("killed")

Next ==
  \/ Main \/ Services
  \/ Serve \/ ServerFails
  \/ \E r \in Request : Accept(r) \/ Answer(r)
  \/ Tick \/ Signal \/ Die

\* Goroutines that can run do run; a pass ends, because its context times out
\* and its statements fail once the context is cancelled; select picks among
\* its ready cases at random, so ctx.Done is not passed over for ever.
Fairness ==
  /\ WF_vars(Main)
  /\ \A s \in Service : WF_vars(EndPass(s)) /\ SF_vars(cancelled /\ Leave(s))
  /\ WF_vars(EndCycle) /\ WF_vars(PriceStopped)
  /\ WF_vars(Serve \/ ServerFails)
  /\ \A r \in Request : WF_vars(Answer(r))

Spec == Init /\ [][Next]_vars
FairSpec == Spec /\ Fairness

-----------------------------------------------------------------------------
(* Properties                                                              *)

\* Whatever still runs finds its pool open: a service's pass and the price
\* cycle the jobs pool, a request the api pool and, with a replica, the read
\* pool.  Only requests Shutdown gave up on may lose theirs.  This is about
\* the order of main's deferred Close calls, its waits and the starts.
PoolsOutliveUsers ==
  Running =>
    /\ \A s \in Service :
         service[s] \in {"pass", "idle", "stopping"} => pool["jobs"] = "open"
    /\ cycle => pool["jobs"] = "open"
    /\ Active # {} /\ ~forced =>
         \A p \in {"api", "read"} : Wanted(p) => pool[p] = "open"

\* A process that reports success has stopped every service, closed every
\* pool it opened and, where its requests end before Shutdown's grace does,
\* answered every request it accepted.  With a request timeout of the grace's
\* length (the defaults are 10 s and 10 s) the last part is not promised.
OrderlyExit ==
  exit = "ok" =>
    /\ \A s \in Service : service[s] \in {"off", "done"}
    /\ ~cycle
    /\ \A p \in Pool : pool[p] # "open"
    /\ conf.requestTimeout < Grace => Active = {}

\* A process told to stop (a signal its handler has seen, or a server that
\* failed) does exit: no service, cycle or request holds it up for ever.
StopsWhenTold == (signal \/ http = "failed") ~> (exit # "running")

\* The converse of OrderlyExit's exception, for the default configuration:
\* every accepted request is answered before a process exits with success.
NothingDropped == exit = "ok" => Active = {}
=============================================================================

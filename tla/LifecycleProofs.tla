--------------------------- MODULE LifecycleProofs ---------------------------
(***************************************************************************)
(* Theorems about the two programs of cmd/.                                *)
(*                                                                         *)
(* Lifecycle, the server: for every set of configurations, every number of *)
(* requests, every request timeout and every grace, nothing that runs      *)
(* loses its pool, and an exit that reports success is an orderly one.     *)
(*                                                                         *)
(* Rebuild, the rebuild command: for every set of users, rewards, writers  *)
(* and commands and every batch size, a backfill loses no write of a live  *)
(* transaction, the gate of migration 0027 lets the reads switch to a      *)
(* complete projection only, and a repair that ends has repaired all.      *)
(***************************************************************************)
EXTENDS Lifecycle, Rebuild, DataFacts, TLAPS

\* Where main stands from the opening of each pool, the first start of a
\* service, the listening server and the beginning of Shutdown on.
Closing    == {"closeRead", "closeJobs", "closeApi", "exited"}
Drained    == {"shutdown"} \cup Closing
Listened   == {"notify", "select", "join"} \cup Drained
Starting   == {"startBhavcopy", "startCorporate", "startRefresh",
               "startReconciliation", "listen"} \cup Listened
ReadOpened == {"calendar", "startPrice"} \cup Starting
JobsOpened == {"openRead"} \cup ReadOpened
ApiOpened  == {"openJobs"} \cup JobsOpened

Alive(s) == service[s] \in {"pass", "idle", "stopping"}

\* A pool the role wants is open from its opening to its deferred Close.
PoolsInv ==
  Running =>
    /\ pc # "exited"
    /\ pc \in ApiOpened /\ Wanted("api") => pool["api"] = "open"
    /\ pc \in JobsOpened \ {"closeApi"} /\ Wanted("jobs") => pool["jobs"] = "open"
    /\ pc \in ReadOpened \ {"closeJobs", "closeApi"} /\ Wanted("read") =>
         pool["read"] = "open"

\* Services live only in a process that runs jobs, between their start and
\* main's wait for them; a cycle lives inside the price service.
ServicesInv ==
  /\ \A s \in Service : Alive(s) => runJobs /\ pc \in Starting
  /\ cycle => service["price"] \in {"idle", "stopping"}
  /\ pc \notin {"join"} \cup Drained => joined = 0
  /\ \A i \in 1..5 : (pc = "join" /\ i <= joined) \/ pc \in Drained \ {"exited"} =>
        ~Alive(WaitOrder[i])

\* Requests live only while the server listened; none is accepted once
\* Shutdown began, and after it only those it gave up on are left.
RequestsInv ==
  /\ http # "off" => pc \in Listened
  /\ Active # {} => http # "off"
  /\ Running /\ pc \in Drained => http \in {"failed", "closed"}
  /\ Running /\ pc \in Closing /\ Active # {} => forced
  /\ \A r \in Request : age[r] <= conf.requestTimeout
  /\ Running /\ pc = "shutdown" => \A r \in Active : age[r] + grace >= Grace
  /\ Running /\ pc \in Closing /\ conf.requestTimeout < Grace => Active = {}

\* What main closes it closes before it exits.
ClosedInv ==
  /\ Running /\ pc \in {"migrate", "openApi"} => \A p \in Pool : pool[p] # "open"
  /\ Running /\ pc \in {"closeJobs", "closeApi"} => pool["read"] # "open"
  /\ Running /\ pc = "closeApi" => pool["jobs"] # "open"

IInv == TypeOK /\ PoolsInv /\ ServicesInv /\ RequestsInv /\ ClosedInv /\ OrderlyExit

-----------------------------------------------------------------------------
(* Facts about the constants and the order main waits in *)

\* The request timeout of a configuration is a number of ticks.
LEMMA TimeoutIsNat == TypeOK => conf.requestTimeout \in Nat /\ Grace \in Nat
BY ConfigAssumption DEF TypeOK

\* main waits for every service.
LEMMA OrderCovers ==
  /\ \A i \in 1..5 : WaitOrder[i] \in Service
  /\ \A s \in Service : \E i \in 1..5 : WaitOrder[i] = s
<1>1. \A i \in 1..5 : i = 1 \/ i = 2 \/ i = 3 \/ i = 4 \/ i = 5
  OBVIOUS
<1>2. /\ WaitOrder[1] = "price" /\ WaitOrder[2] = "bhavcopy"
      /\ WaitOrder[3] = "corporate" /\ WaitOrder[4] = "refresh"
      /\ WaitOrder[5] = "reconciliation"
  BY DEF WaitOrder
<1>3. QED BY <1>1, <1>2 DEF Service

\* What the role wants does not change with the state.
LEMMA WantedStable ==
  ASSUME conf' = conf
  PROVE  /\ runJobs' <=> runJobs
         /\ \A p \in Pool : Wanted(p)' <=> Wanted(p)
         /\ \A s \in Service : Started(s)' <=> Started(s)
BY DEF Wanted, Started, runJobs, runAPI

\* The jobs pool and the services are wanted by the same roles.
LEMMA WantedJobs ==
  /\ Wanted("jobs") <=> runJobs
  /\ \A s \in Service : Started(s) => runJobs
BY DEF Wanted, Started, Service

-----------------------------------------------------------------------------
(* The actions of one kind, each as one lemma *)

\* Going through the calendar, the listener and the signal handler keeps it.
LEMMA StraightOK ==
  ASSUME IInv, Calendar \/ Listen \/ Notify
  PROVE  IInv'
<1> USE DEF IInv, Running, Service, Pool, Closing, Drained, Listened, Starting, ReadOpened,
            JobsOpened, ApiOpened, mainVars, jobVars, requestVars, JobsUnchanged, ServeUnchanged
<1>1. conf' = conf /\ TypeOK'
  BY DEF Calendar, Listen, Notify, TypeOK, PC
<1>2. PoolsInv'
  BY <1>1, WantedStable, WantedJobs
     DEF Calendar, Listen, Notify, TypeOK, PoolsInv
<1>3. ServicesInv'
  BY <1>1, WantedStable, WantedJobs, OrderCovers
     DEF Calendar, Listen, Notify, TypeOK, ServicesInv, Alive
<1>4. RequestsInv'
  BY <1>1, TimeoutIsNat
     DEF Calendar, Listen, Notify, TypeOK, RequestsInv, Active
<1>5. ClosedInv'
  BY <1>1, WantedStable
     DEF Calendar, Listen, Notify, TypeOK, ClosedInv
<1>6. OrderlyExit'
  BY <1>1
     DEF Calendar, Listen, Notify, TypeOK, OrderlyExit, Active
<1>7. QED BY <1>1, <1>2, <1>3, <1>4, <1>5, <1>6

\* Opening a pool keeps it.
LEMMA OpenOK ==
  ASSUME IInv,
         \/ OpenPool("api", "openApi", "openJobs")
         \/ OpenPool("jobs", "openJobs", "openRead")
         \/ OpenPool("read", "openRead", "calendar")
  PROVE  IInv'
<1> USE DEF IInv, Running, Service, Pool, Closing, Drained, Listened, Starting, ReadOpened,
            JobsOpened, ApiOpened, mainVars, jobVars, requestVars, JobsUnchanged, ServeUnchanged
<1>1. conf' = conf /\ TypeOK'
  BY DEF OpenPool, TypeOK, PC
<1>2. PoolsInv'
  BY <1>1, WantedStable, WantedJobs
     DEF OpenPool, TypeOK, PoolsInv
<1>3. ServicesInv'
  BY <1>1, WantedStable, WantedJobs, OrderCovers
     DEF OpenPool, TypeOK, ServicesInv, Alive
<1>4. RequestsInv'
  BY <1>1, TimeoutIsNat
     DEF OpenPool, TypeOK, RequestsInv, Active
<1>5. ClosedInv'
  BY <1>1, WantedStable
     DEF OpenPool, TypeOK, ClosedInv
<1>6. OrderlyExit'
  BY <1>1
     DEF OpenPool, TypeOK, OrderlyExit, Active
<1>7. QED BY <1>1, <1>2, <1>3, <1>4, <1>5, <1>6

\* Starting a service keeps it.
LEMMA StartOK ==
  ASSUME IInv, NEW s \in Service, NEW step, NEW next,
         \/ s = "price" /\ step = "startPrice" /\ next = "startBhavcopy"
         \/ s = "bhavcopy" /\ step = "startBhavcopy" /\ next = "startCorporate"
         \/ s = "corporate" /\ step = "startCorporate" /\ next = "startRefresh"
         \/ s = "refresh" /\ step = "startRefresh" /\ next = "startReconciliation"
         \/ s = "reconciliation" /\ step = "startReconciliation" /\ next = "listen",
         StartService(s, step, next)
  PROVE  IInv'
<1> USE DEF IInv, Running, Service, Pool, Closing, Drained, Listened, Starting, ReadOpened,
            JobsOpened, ApiOpened, mainVars, jobVars, requestVars, JobsUnchanged, ServeUnchanged
<1>1. conf' = conf /\ TypeOK'
  BY DEF StartService, TypeOK, PC
<1>2. PoolsInv'
  BY <1>1, WantedStable, WantedJobs
     DEF StartService, TypeOK, PoolsInv
<1>3. ServicesInv'
  BY <1>1, WantedStable, WantedJobs, OrderCovers
     DEF StartService, TypeOK, ServicesInv, Alive
<1>4. RequestsInv'
  BY <1>1, TimeoutIsNat
     DEF StartService, TypeOK, RequestsInv, Active
<1>5. ClosedInv'
  BY <1>1, WantedStable
     DEF StartService, TypeOK, ClosedInv
<1>6. OrderlyExit'
  BY <1>1
     DEF StartService, TypeOK, OrderlyExit, Active
<1>7. QED BY <1>1, <1>2, <1>3, <1>4, <1>5, <1>6

\* Cancelling the root context and waiting for the services keeps it.
LEMMA JoinOK ==
  ASSUME IInv, Cancel \/ Join
  PROVE  IInv'
<1> USE DEF IInv, Running, Service, Pool, Closing, Drained, Listened, Starting, ReadOpened,
            JobsOpened, ApiOpened, mainVars, jobVars, requestVars, JobsUnchanged, ServeUnchanged
<1>1. conf' = conf /\ TypeOK'
  <2>1. /\ conf' = conf /\ conf' \in Config /\ pc' \in PC /\ joined' \in 0..5
        /\ pool' \in [Pool -> {"none", "open", "closed"}]
        /\ service' \in [Service -> {"off", "pass", "idle", "stopping", "done"}]
        /\ http' \in {"off", "starting", "listening", "failed", "closed"}
        /\ request' \in [Request -> {"unsent", "active", "answered"}]
        /\ exit' \in {"running", "ok", "fatal", "killed"}
    BY DEF Cancel, Join, TypeOK, PC
  <2>2. age' \in [Request -> Nat] /\ grace' \in 0..Grace
    BY TimeoutIsNat
       DEF Cancel, Join, TypeOK
  <2>3. cycle' \in BOOLEAN /\ cancelled' \in BOOLEAN /\ signal' \in BOOLEAN
    BY Zenon DEF Cancel, Join, TypeOK
  <2>4. forced' \in BOOLEAN
    BY DEF Cancel, Join, TypeOK
  <2>5. QED BY <2>1, <2>2, <2>3, <2>4 DEF TypeOK
<1>2. PoolsInv'
  BY <1>1, WantedStable, WantedJobs
     DEF Cancel, Join, TypeOK, PoolsInv
<1>3. ServicesInv'
  BY <1>1, WantedStable, WantedJobs, OrderCovers
     DEF Cancel, Join, TypeOK, ServicesInv, Alive
<1>4. RequestsInv'
  BY <1>1, TimeoutIsNat
     DEF Cancel, Join, TypeOK, RequestsInv, Active
<1>5. ClosedInv'
  BY <1>1, WantedStable
     DEF Cancel, Join, TypeOK, ClosedInv
<1>6. OrderlyExit'
  BY <1>1
     DEF Cancel, Join, TypeOK, OrderlyExit, Active
<1>7. QED BY <1>1, <1>2, <1>3, <1>4, <1>5, <1>6

\* Shutdown and its return keep it: whoever is still open has outlived the grace.
LEMMA ShutdownOK ==
  ASSUME IInv, Shutdown \/ ShutdownReturns
  PROVE  IInv'
<1> USE DEF IInv, Running, Service, Pool, Closing, Drained, Listened, Starting, ReadOpened,
            JobsOpened, ApiOpened, mainVars, jobVars, requestVars, JobsUnchanged, ServeUnchanged
<1>1. conf' = conf /\ TypeOK'
  <2>1. /\ conf' = conf /\ conf' \in Config /\ pc' \in PC /\ joined' \in 0..5
        /\ pool' \in [Pool -> {"none", "open", "closed"}]
        /\ service' \in [Service -> {"off", "pass", "idle", "stopping", "done"}]
        /\ http' \in {"off", "starting", "listening", "failed", "closed"}
        /\ request' \in [Request -> {"unsent", "active", "answered"}]
        /\ exit' \in {"running", "ok", "fatal", "killed"}
    BY DEF Shutdown, ShutdownReturns, TypeOK, PC
  <2>2. age' \in [Request -> Nat] /\ grace' \in 0..Grace
    BY TimeoutIsNat
       DEF Shutdown, ShutdownReturns, TypeOK
  <2>3. cycle' \in BOOLEAN /\ cancelled' \in BOOLEAN /\ signal' \in BOOLEAN
    BY Zenon DEF Shutdown, ShutdownReturns, TypeOK
  <2>4. forced' \in BOOLEAN
    BY DEF Shutdown, ShutdownReturns, TypeOK
  <2>5. QED BY <2>1, <2>2, <2>3, <2>4 DEF TypeOK
<1>2. PoolsInv'
  BY <1>1, WantedStable, WantedJobs
     DEF Shutdown, ShutdownReturns, TypeOK, PoolsInv
<1>3. ServicesInv'
  BY <1>1, WantedStable, WantedJobs, OrderCovers
     DEF Shutdown, ShutdownReturns, TypeOK, ServicesInv, Alive
<1>4. RequestsInv'
  BY <1>1, TimeoutIsNat
     DEF Shutdown, ShutdownReturns, TypeOK, RequestsInv, Active
<1>5. ClosedInv'
  BY <1>1, WantedStable
     DEF Shutdown, ShutdownReturns, TypeOK, ClosedInv
<1>6. OrderlyExit'
  BY <1>1
     DEF Shutdown, ShutdownReturns, TypeOK, OrderlyExit, Active
<1>7. QED BY <1>1, <1>2, <1>3, <1>4, <1>5, <1>6

\* The deferred Close calls keep it: every service has been waited for.
LEMMA CloseOK ==
  ASSUME IInv,
         \/ ClosePool("read", "closeRead", "closeJobs")
         \/ ClosePool("jobs", "closeJobs", "closeApi")
         \/ ClosePool("api", "closeApi", "exited")
  PROVE  IInv'
<1> USE DEF IInv, Running, Service, Pool, Closing, Drained, Listened, Starting, ReadOpened,
            JobsOpened, ApiOpened, mainVars, jobVars, requestVars, JobsUnchanged, ServeUnchanged
<1>1. conf' = conf /\ TypeOK'
  BY DEF ClosePool, TypeOK, PC
<1>2. PoolsInv'
  BY <1>1, WantedStable, WantedJobs
     DEF ClosePool, TypeOK, PoolsInv
<1>3. ServicesInv'
  BY <1>1, WantedStable, WantedJobs, OrderCovers
     DEF ClosePool, TypeOK, ServicesInv, Alive
<1>4. RequestsInv'
  BY <1>1, TimeoutIsNat
     DEF ClosePool, TypeOK, RequestsInv, Active
<1>5. ClosedInv'
  BY <1>1, WantedStable
     DEF ClosePool, TypeOK, ClosedInv
<1>6. OrderlyExit'
  BY <1>1, OrderCovers
     DEF ClosePool, TypeOK, OrderlyExit, ServicesInv, RequestsInv, ClosedInv, Alive, Drained,
         Closing, Active
<1>7. QED BY <1>1, <1>2, <1>3, <1>4, <1>5, <1>6

\* The loops of the services keep it: none comes back after its end.
LEMMA ServicesOK ==
  ASSUME IInv, NEW s \in Service,
         \/ BeginPass(s)
         \/ EndPass(s)
         \/ Leave(s)
         \/ BeginCycle
         \/ EndCycle
         \/ PriceStopped
  PROVE  IInv'
<1> USE DEF IInv, Running, Service, Pool, Closing, Drained, Listened, Starting, ReadOpened,
            JobsOpened, ApiOpened, mainVars, jobVars, requestVars, JobsUnchanged, ServeUnchanged
<1>1. conf' = conf /\ TypeOK'
  <2>1. /\ conf' = conf /\ conf' \in Config /\ pc' \in PC /\ joined' \in 0..5
        /\ pool' \in [Pool -> {"none", "open", "closed"}]
        /\ service' \in [Service -> {"off", "pass", "idle", "stopping", "done"}]
        /\ http' \in {"off", "starting", "listening", "failed", "closed"}
        /\ request' \in [Request -> {"unsent", "active", "answered"}]
        /\ exit' \in {"running", "ok", "fatal", "killed"}
    BY DEF BeginPass, EndPass, Leave, BeginCycle, EndCycle, PriceStopped, TypeOK, PC
  <2>2. age' \in [Request -> Nat] /\ grace' \in 0..Grace
    BY TimeoutIsNat
       DEF BeginPass, EndPass, Leave, BeginCycle, EndCycle, PriceStopped, TypeOK
  <2>3. cycle' \in BOOLEAN /\ cancelled' \in BOOLEAN /\ signal' \in BOOLEAN
    BY Zenon DEF BeginPass, EndPass, Leave, BeginCycle, EndCycle, PriceStopped, TypeOK
  <2>4. forced' \in BOOLEAN
    BY DEF BeginPass, EndPass, Leave, BeginCycle, EndCycle, PriceStopped, TypeOK
  <2>5. QED BY <2>1, <2>2, <2>3, <2>4 DEF TypeOK
<1>2. PoolsInv'
  BY <1>1, WantedStable, WantedJobs
     DEF BeginPass, EndPass, Leave, BeginCycle, EndCycle, PriceStopped, TypeOK, PoolsInv
<1>3. ServicesInv'
  BY <1>1, WantedStable, WantedJobs, OrderCovers
     DEF BeginPass, EndPass, Leave, BeginCycle, EndCycle, PriceStopped, TypeOK, ServicesInv, Alive
<1>4. RequestsInv'
  BY <1>1, TimeoutIsNat
     DEF BeginPass, EndPass, Leave, BeginCycle, EndCycle, PriceStopped, TypeOK, RequestsInv,
         Active
<1>5. ClosedInv'
  BY <1>1, WantedStable
     DEF BeginPass, EndPass, Leave, BeginCycle, EndCycle, PriceStopped, TypeOK, ClosedInv
<1>6. OrderlyExit'
  BY <1>1
     DEF BeginPass, EndPass, Leave, BeginCycle, EndCycle, PriceStopped, TypeOK, OrderlyExit,
         Active
<1>7. QED BY <1>1, <1>2, <1>3, <1>4, <1>5, <1>6

\* A tick keeps it.
LEMMA TickOK ==
  ASSUME IInv, Tick
  PROVE  IInv'
<1> USE DEF IInv, Running, Service, Pool, Closing, Drained, Listened, Starting, ReadOpened,
            JobsOpened, ApiOpened, mainVars, jobVars, requestVars, JobsUnchanged, ServeUnchanged
<1>1. conf' = conf /\ TypeOK'
  <2>1. /\ conf' = conf /\ conf' \in Config /\ pc' \in PC /\ joined' \in 0..5
        /\ pool' \in [Pool -> {"none", "open", "closed"}]
        /\ service' \in [Service -> {"off", "pass", "idle", "stopping", "done"}]
        /\ http' \in {"off", "starting", "listening", "failed", "closed"}
        /\ request' \in [Request -> {"unsent", "active", "answered"}]
        /\ exit' \in {"running", "ok", "fatal", "killed"}
    BY DEF Tick, TypeOK, PC
  <2>2. age' \in [Request -> Nat] /\ grace' \in 0..Grace
    BY TimeoutIsNat
       DEF Tick, TypeOK
  <2>3. cycle' \in BOOLEAN /\ cancelled' \in BOOLEAN /\ signal' \in BOOLEAN
    BY Zenon DEF Tick, TypeOK
  <2>4. forced' \in BOOLEAN
    BY DEF Tick, TypeOK
  <2>5. QED BY <2>1, <2>2, <2>3, <2>4 DEF TypeOK
<1>2. PoolsInv'
  BY <1>1, WantedStable, WantedJobs
     DEF Tick, TypeOK, PoolsInv
<1>3. ServicesInv'
  BY <1>1, WantedStable, WantedJobs, OrderCovers
     DEF Tick, TypeOK, ServicesInv, Alive
<1>4. RequestsInv'
  BY <1>1, TimeoutIsNat
     DEF Tick, TypeOK, RequestsInv, Active
<1>5. ClosedInv'
  BY <1>1, WantedStable
     DEF Tick, TypeOK, ClosedInv
<1>6. OrderlyExit'
  BY <1>1
     DEF Tick, TypeOK, OrderlyExit, Active
<1>7. QED BY <1>1, <1>2, <1>3, <1>4, <1>5, <1>6

\* The server and the signal keep it.
LEMMA ServerOK ==
  ASSUME IInv, Serve \/ ServerFails \/ Signal
  PROVE  IInv'
<1> USE DEF IInv, Running, Service, Pool, Closing, Drained, Listened, Starting, ReadOpened,
            JobsOpened, ApiOpened, mainVars, jobVars, requestVars, JobsUnchanged, ServeUnchanged
<1>1. conf' = conf /\ TypeOK'
  <2>1. /\ conf' = conf /\ conf' \in Config /\ pc' \in PC /\ joined' \in 0..5
        /\ pool' \in [Pool -> {"none", "open", "closed"}]
        /\ service' \in [Service -> {"off", "pass", "idle", "stopping", "done"}]
        /\ http' \in {"off", "starting", "listening", "failed", "closed"}
        /\ request' \in [Request -> {"unsent", "active", "answered"}]
        /\ exit' \in {"running", "ok", "fatal", "killed"}
    BY DEF Serve, ServerFails, Signal, TypeOK, PC
  <2>2. age' \in [Request -> Nat] /\ grace' \in 0..Grace
    BY TimeoutIsNat
       DEF Serve, ServerFails, Signal, TypeOK
  <2>3. cycle' \in BOOLEAN /\ cancelled' \in BOOLEAN /\ signal' \in BOOLEAN
    BY Zenon DEF Serve, ServerFails, Signal, TypeOK
  <2>4. forced' \in BOOLEAN
    BY DEF Serve, ServerFails, Signal, TypeOK
  <2>5. QED BY <2>1, <2>2, <2>3, <2>4 DEF TypeOK
<1>2. PoolsInv'
  BY <1>1, WantedStable, WantedJobs
     DEF Serve, ServerFails, Signal, TypeOK, PoolsInv
<1>3. ServicesInv'
  BY <1>1, WantedStable, WantedJobs, OrderCovers
     DEF Serve, ServerFails, Signal, TypeOK, ServicesInv, Alive
<1>4. RequestsInv'
  BY <1>1, TimeoutIsNat
     DEF Serve, ServerFails, Signal, TypeOK, RequestsInv, Active
<1>5. ClosedInv'
  BY <1>1, WantedStable
     DEF Serve, ServerFails, Signal, TypeOK, ClosedInv
<1>6. OrderlyExit'
  BY <1>1
     DEF Serve, ServerFails, Signal, TypeOK, OrderlyExit, Active
<1>7. QED BY <1>1, <1>2, <1>3, <1>4, <1>5, <1>6

\* The clients and their handlers keep it: no request is accepted after Shutdown.
LEMMA ClientOK ==
  ASSUME IInv, NEW r \in Request, Accept(r) \/ Answer(r)
  PROVE  IInv'
<1> USE DEF IInv, Running, Service, Pool, Closing, Drained, Listened, Starting, ReadOpened,
            JobsOpened, ApiOpened, mainVars, jobVars, requestVars, JobsUnchanged, ServeUnchanged
<1>1. conf' = conf /\ TypeOK'
  <2>1. /\ conf' = conf /\ conf' \in Config /\ pc' \in PC /\ joined' \in 0..5
        /\ pool' \in [Pool -> {"none", "open", "closed"}]
        /\ service' \in [Service -> {"off", "pass", "idle", "stopping", "done"}]
        /\ http' \in {"off", "starting", "listening", "failed", "closed"}
        /\ request' \in [Request -> {"unsent", "active", "answered"}]
        /\ exit' \in {"running", "ok", "fatal", "killed"}
    BY DEF Accept, Answer, TypeOK, PC
  <2>2. age' \in [Request -> Nat] /\ grace' \in 0..Grace
    BY TimeoutIsNat
       DEF Accept, Answer, TypeOK
  <2>3. cycle' \in BOOLEAN /\ cancelled' \in BOOLEAN /\ signal' \in BOOLEAN
    BY Zenon DEF Accept, Answer, TypeOK
  <2>4. forced' \in BOOLEAN
    BY DEF Accept, Answer, TypeOK
  <2>5. QED BY <2>1, <2>2, <2>3, <2>4 DEF TypeOK
<1>2. PoolsInv'
  BY <1>1, WantedStable, WantedJobs
     DEF Accept, Answer, TypeOK, PoolsInv
<1>3. ServicesInv'
  BY <1>1, WantedStable, WantedJobs, OrderCovers
     DEF Accept, Answer, TypeOK, ServicesInv, Alive
<1>4. RequestsInv'
  BY <1>1, TimeoutIsNat
     DEF Accept, Answer, TypeOK, RequestsInv, Active
<1>5. ClosedInv'
  BY <1>1, WantedStable
     DEF Accept, Answer, TypeOK, ClosedInv
<1>6. OrderlyExit'
  BY <1>1
     DEF Accept, Answer, TypeOK, OrderlyExit, Active
<1>7. QED BY <1>1, <1>2, <1>3, <1>4, <1>5, <1>6

\* An end of the process before its last Close reports no success.
LEMMA EndOK ==
  ASSUME IInv, NEW how \in {"fatal", "killed"}, Running, End(how)
  PROVE  IInv'
<1> USE DEF IInv, Running, Service, Pool, Closing, Drained, Listened, Starting, ReadOpened,
            JobsOpened, ApiOpened, mainVars, jobVars, requestVars, JobsUnchanged, ServeUnchanged
<1>1. conf' = conf /\ TypeOK'
  BY DEF End, TypeOK, PC
<1>2. PoolsInv'
  BY <1>1, WantedStable, WantedJobs
     DEF End, TypeOK, PoolsInv
<1>3. ServicesInv'
  BY <1>1, WantedStable, WantedJobs, OrderCovers
     DEF End, TypeOK, ServicesInv, Alive
<1>4. RequestsInv'
  BY <1>1, TimeoutIsNat
     DEF End, TypeOK, RequestsInv, Active
<1>5. ClosedInv'
  BY <1>1, WantedStable
     DEF End, TypeOK, ClosedInv
<1>6. OrderlyExit'
  BY <1>1
     DEF End, TypeOK, OrderlyExit, Active
<1>7. QED BY <1>1, <1>2, <1>3, <1>4, <1>5, <1>6

\* So does the migration, after which the migrate role has nothing to close.
LEMMA MigrateOK ==
  ASSUME IInv, Migrate
  PROVE  IInv'
<1> USE DEF IInv, Running, Service, Pool, Closing, Drained, Listened, Starting, ReadOpened,
            JobsOpened, ApiOpened, mainVars, jobVars, requestVars, JobsUnchanged, ServeUnchanged
<1>1. conf' = conf /\ TypeOK'
  BY DEF Migrate, End, TypeOK, PC
<1>2. PoolsInv'
  BY <1>1, WantedStable, WantedJobs
     DEF Migrate, End, TypeOK, PoolsInv
<1>3. ServicesInv'
  BY <1>1, WantedStable, WantedJobs, OrderCovers
     DEF Migrate, End, TypeOK, ServicesInv, Alive
<1>4. RequestsInv'
  BY <1>1, TimeoutIsNat
     DEF Migrate, End, TypeOK, RequestsInv, Active
<1>5. ClosedInv'
  BY <1>1, WantedStable
     DEF Migrate, End, TypeOK, ClosedInv
<1>6. OrderlyExit'
  BY <1>1
     DEF Migrate, End, TypeOK, OrderlyExit, ServicesInv, RequestsInv, ClosedInv, Alive, Drained,
         Closing, Starting, Listened, Active
<1>7. QED BY <1>1, <1>2, <1>3, <1>4, <1>5, <1>6

\* A step that changes nothing keeps it.
LEMMA StutterOK ==
  ASSUME IInv, UNCHANGED vars
  PROVE  IInv'
<1> USE DEF IInv, Running, Service, Pool, Closing, Drained, Listened, Starting, ReadOpened,
            JobsOpened, ApiOpened, mainVars, jobVars, requestVars, JobsUnchanged, ServeUnchanged
<1>1. conf' = conf /\ TypeOK'
  BY DEF vars, TypeOK, PC
<1>2. PoolsInv'
  BY <1>1, WantedStable, WantedJobs
     DEF vars, TypeOK, PoolsInv
<1>3. ServicesInv'
  BY <1>1, WantedStable, WantedJobs, OrderCovers
     DEF vars, TypeOK, ServicesInv, Alive
<1>4. RequestsInv'
  BY <1>1, TimeoutIsNat
     DEF vars, TypeOK, RequestsInv, Active
<1>5. ClosedInv'
  BY <1>1, WantedStable
     DEF vars, TypeOK, ClosedInv
<1>6. OrderlyExit'
  BY <1>1
     DEF vars, TypeOK, OrderlyExit, Active
<1>7. QED BY <1>1, <1>2, <1>3, <1>4, <1>5, <1>6

-----------------------------------------------------------------------------
(* The theorems *)

\* Initial states satisfy the invariant.
LEMMA InitOK == Init => IInv
<1> SUFFICES ASSUME Init PROVE IInv
  OBVIOUS
<1>1. TypeOK
  <2>1. grace \in 0..Grace
    BY ConfigAssumption DEF Init
  <2>2. /\ conf \in Config /\ pc \in PC /\ joined \in 0..5
        /\ pool \in [Pool -> {"none", "open", "closed"}]
        /\ service \in [Service -> {"off", "pass", "idle", "stopping", "done"}]
        /\ request \in [Request -> {"unsent", "active", "answered"}]
        /\ age \in [Request -> Nat]
        /\ http = "off" /\ exit = "running"
    BY DEF Init, PC
  <2>3. cycle = FALSE /\ cancelled = FALSE /\ signal = FALSE /\ forced = FALSE
    BY DEF Init
  <2>4. QED BY <2>1, <2>2, <2>3 DEF TypeOK
<1>2. PoolsInv /\ ClosedInv /\ OrderlyExit
  BY DEF Init, PoolsInv, ClosedInv, OrderlyExit, Running, ApiOpened, JobsOpened, ReadOpened,
         Starting, Listened, Drained, Closing
<1>3. ServicesInv
  BY OrderCovers DEF Init, ServicesInv, Alive, Drained, Closing
<1>4. RequestsInv
  BY <1>1, TimeoutIsNat DEF Init, RequestsInv, Active, Drained, Closing
<1>5. QED BY <1>1, <1>2, <1>3, <1>4 DEF IInv

\* What is alive finds its pool open.
LEMMA PoolsFollow == IInv => PoolsOutliveUsers
<1> SUFFICES ASSUME IInv, Running PROVE PoolsOutliveUsers
  BY DEF PoolsOutliveUsers
<1>1. ASSUME NEW s \in Service, Alive(s) PROVE pool["jobs"] = "open"
  <2>1. PICK i \in 1..5 : WaitOrder[i] = s
    BY OrderCovers
  <2>2. pc \in Starting /\ pc \notin Drained \ {"exited"} /\ runJobs
    BY <1>1, <2>1 DEF IInv, ServicesInv
  <2>3. QED
    BY <2>2, WantedJobs
       DEF IInv, PoolsInv, JobsOpened, ReadOpened, Starting, Listened, Drained, Closing
<1>2. cycle => pool["jobs"] = "open"
  BY <1>1 DEF IInv, ServicesInv, Alive, Service
<1>3. ASSUME Active # {}, ~forced, NEW p \in {"api", "read"}, Wanted(p)
      PROVE  pool[p] = "open"
  <2>1. pc \in Listened \ Closing
    BY <1>3 DEF IInv, RequestsInv
  <2>2. QED
    BY <1>3, <2>1
       DEF IInv, PoolsInv, ApiOpened, JobsOpened, ReadOpened, Starting, Listened, Drained, Closing
<1>4. QED BY <1>1, <1>2, <1>3 DEF PoolsOutliveUsers, Alive

\* The invariant holds in every reachable state.
THEOREM LifecycleInvariant == Spec => []IInv
<1>1. IInv /\ [Next]_vars => IInv'
  <2> SUFFICES ASSUME IInv, [Next]_vars PROVE IInv'
    OBVIOUS
  <2>1. CASE Main
    <3>1. ASSUME NEW step, FatalAt(step) PROVE IInv'
      BY <3>1, EndOK DEF FatalAt
    <3>2. CASE Migrate \/ MigrationFails
      BY <3>1, <3>2, MigrateOK DEF MigrationFails
    <3>3. CASE \E p, step : OpenFails(p, step) \/ StartFails(p, step)
      BY <3>1, <3>3 DEF OpenFails, StartFails
    <3>4. CASE \/ StartService("price", "startPrice", "startBhavcopy")
               \/ StartService("bhavcopy", "startBhavcopy", "startCorporate")
               \/ StartService("corporate", "startCorporate", "startRefresh")
               \/ StartService("refresh", "startRefresh", "startReconciliation")
               \/ StartService("reconciliation", "startReconciliation", "listen")
      BY <3>4, StartOK DEF Service
    <3>5. QED
      BY <2>1, <3>1, <3>2, <3>3, <3>4, OpenOK, StraightOK, JoinOK, ShutdownOK, CloseOK DEF Main
  <2>2. CASE Services
    <3>1. "price" \in Service
      BY DEF Service
    <3>2. QED BY <2>2, <3>1, ServicesOK DEF Services
  <2>3. ASSUME Serve \/ ServerFails \/ Signal PROVE IInv'
    BY <2>3, ServerOK
  <2>4. ASSUME NEW r \in Request, Accept(r) \/ Answer(r) PROVE IInv'
    BY <2>4, ClientOK
  <2>5. CASE Tick
    BY <2>5, TickOK
  <2>6. CASE Die
    BY <2>6, EndOK DEF Die
  <2>7. CASE UNCHANGED vars
    BY <2>7, StutterOK
  <2>8. QED BY <2>1, <2>2, <2>3, <2>4, <2>5, <2>6, <2>7 DEF Next
<1>2. QED BY <1>1, InitOK, PTL DEF Spec

\* No service, cycle or request that still runs finds its pool closed, in any
\* configuration and whatever fails on the way.
THEOREM PoolsAreOpen == Spec => []PoolsOutliveUsers
BY LifecycleInvariant, PoolsFollow, PTL

\* An exit that reports success left no service running, no pool open and,
\* with a request timeout below the grace, no request unanswered.
THEOREM ExitIsOrderly == Spec => []OrderlyExit
<1>1. IInv => OrderlyExit
  BY DEF IInv
<1>2. QED BY <1>1, LifecycleInvariant, PTL

-----------------------------------------------------------------------------
(* The rebuild command *)

\* Functions on a subset of K into V: the rows of a table.
Table(K, V) == UNION {[S -> V] : S \in SUBSET K}

States       == Table(Reward, SUBSET Writer)
PositionRows == Table(User \X Symbol, States)
CashRows     == Table(User, States)
FactorRows   == Table(Symbol, SUBSET Writer)

ProcPC == {"idle", "refresh", "delete", "insert", "commit", "done"}
JobPC  == {"off", "factors", "writeFactors", "maxReward", "readRewards", "writeRewards", "maxUser",
           "readPositions", "writePositions", "readCash", "writeCash", "finish", "done"}

ProcRow == [pc : ProcPC, todo : SUBSET Reward, users : SUBSET User, held : SUBSET User,
            deleted : SUBSET (User \X Symbol), state : States,
            positions : PositionRows, cash : CashRows]

JobRow == [pc : JobPC, runs : Nat, lo : Nat, top : Nat,
           state : States \cup PositionRows \cup FactorRows,
           positions : PositionRows, cash : CashRows]

\* What a statement of the command has read.
ReadInv(c) ==
  /\ job[c].pc = "writeFactors" => job[c].state \in FactorRows
  /\ job[c].pc = "writeRewards" => job[c].state \in States
  /\ job[c].pc = "writePositions" => job[c].state \in PositionRows

TablesInv ==
  /\ committed \in SUBSET Writer
  /\ rewardState \in States /\ positions \in PositionRows /\ cash \in CashRows
  /\ factors \in FactorRows
  /\ proc \in [Writer -> ProcRow] /\ job \in [Command -> JobRow]
  /\ \A t \in Writer : proc[t].pc \in {"delete", "insert"} => proc[t].users # {}
  /\ \A c \in Command : ReadInv(c)
  /\ switched \in BOOLEAN /\ drift \in BOOLEAN

\* The committed grant and adjustments of r.
Written(r) == {t \in committed : Affects(t, r) /\ Kind[t] # "event"}

Replayed == {"delete", "insert", "commit"}

\* A row a transaction has replayed is its own until it ends, and has all that
\* was written to its reward.
ReplayInv(t) ==
  /\ proc[t].pc \notin Replayed => DOMAIN proc[t].state = {}
  /\ t \in committed => proc[t].pc = "done"
  /\ proc[t].pc = "refresh" /\ Kind[t] # "event" => proc[t].todo = {On[t]}
  /\ InTransaction(t) /\ Kind[t] = "adjust" => Exists(On[t], committed)
  /\ proc[t].pc \in Replayed /\ Kind[t] # "event" =>
       On[t] \in Future \/ (On[t] \in DOMAIN proc[t].state /\ t \in proc[t].state[On[t]])
  /\ \A r \in DOMAIN proc[t].state :
       /\ r \in Reward \ Future /\ Exists(r, committed \cup {t})
       /\ Written(r) \subseteq proc[t].state[r]

OwnRows == \A t, o \in Writer : t # o => DOMAIN proc[t].state \cap DOMAIN proc[o].state = {}

ProcInv == OwnRows /\ \A t \in Writer : ReplayInv(t)

\* One command runs at a time, and a repair runs alone.
LockInv ==
  /\ \A c, o \in Command : Rebuilding(c) /\ Rebuilding(o) => c = o
  /\ \A c \in Command, t \in Writer : Mode[c] = "offline" /\ Rebuilding(c) => ~InTransaction(t)

\* Rows are of rewards there are; unless they were wrong before, of current ones,
\* and have all that was written.
RowInv ==
  /\ \A r \in DOMAIN rewardState : r \in Reward /\ Exists(r, committed)
  /\ drift \/ \A r \in DOMAIN rewardState : r \notin Future /\ Written(r) \subseteq rewardState[r]

\* A batch was read when its rewards were there; what was written since has
\* left a row.
BatchInv(c) ==
  job[c].pc = "writeRewards" =>
    \A r \in DOMAIN job[c].state :
      /\ r \in Reward \ Future /\ Exists(r, committed)
      /\ r \in DOMAIN rewardState \/ Written(r) \subseteq job[c].state[r]

\* The rows of r are those of a replay of all that committed.
RewardRight(r) ==
  /\ r \in DOMAIN rewardState <=> r \in DOMAIN Truth
  /\ r \in DOMAIN Truth => rewardState[r] = Truth[r]

UserRight(u) ==
  /\ \A s \in Symbol :
       /\ <<u, s>> \in DOMAIN positions <=> <<u, s>> \in DOMAIN PositionsOf(User, Truth)
       /\ <<u, s>> \in DOMAIN positions => positions[<<u, s>>] = PositionsOf(User, Truth)[<<u, s>>]
  /\ u \in DOMAIN cash <=> u \in DOMAIN CashOf(User, Truth)
  /\ u \in DOMAIN cash => cash[u] = CashOf(User, Truth)[u]

UserPhase == {"maxUser", "readPositions", "writePositions", "readCash", "writeCash", "finish"}

\* What a repair has done: the rewards and then the users below lo.
RepairInv(c) ==
  Mode[c] = "offline" =>
    LET at == job[c].pc
        lo == job[c].lo
    IN /\ at \in {"readRewards", "writeRewards"} =>
            /\ job[c].top = MaxID({r \in Reward : Exists(r, committed)})
            /\ \A r \in Reward : r < lo => RewardRight(r)
       /\ at = "writeRewards" => job[c].state = Outcomes(RewardBatch(c), committed)
       /\ at \in UserPhase => \A r \in Reward : RewardRight(r)
       /\ at \in {"readPositions", "writePositions", "readCash", "writeCash"} =>
            /\ job[c].top = MaxID(User)
            /\ \A u \in User : u < lo => UserRight(u)
       /\ at = "writePositions" => job[c].state = PositionsOf(UserBatchOf(c), rewardState)
       /\ at \in {"readCash", "writeCash"} => job[c].positions = PositionsOf(UserBatchOf(c), rewardState)
       /\ at = "writeCash" => job[c].cash = CashOf(UserBatchOf(c), rewardState)
       /\ at = "finish" => \A u \in User : UserRight(u)

SwitchInv == switched /\ ~drift => Current \subseteq DOMAIN rewardState

RInv ==
  /\ TablesInv /\ ProcInv /\ LockInv /\ RowInv /\ SwitchInv
  /\ \A c \in Command : BatchInv(c) /\ RepairInv(c)

-----------------------------------------------------------------------------
(* Tables *)

\* A table is a function with its keys in K and its rows in V.
LEMMA InTable ==
  ASSUME NEW K, NEW V, NEW f
  PROVE  f \in Table(K, V) <=> /\ DOMAIN f \subseteq K /\ f = [k \in DOMAIN f |-> f[k]]
                               /\ \A k \in DOMAIN f : f[k] \in V
<1>1. ASSUME f \in Table(K, V)
      PROVE  /\ DOMAIN f \subseteq K /\ f = [k \in DOMAIN f |-> f[k]]
             /\ \A k \in DOMAIN f : f[k] \in V
  <2>1. PICK S \in SUBSET K : f \in [S -> V]
    BY <1>1 DEF Table
  <2> QED BY <2>1
<1>2. ASSUME DOMAIN f \subseteq K, f = [k \in DOMAIN f |-> f[k]], \A k \in DOMAIN f : f[k] \in V
      PROVE  f \in Table(K, V)
  <2>1. f \in [DOMAIN f -> V] /\ DOMAIN f \in SUBSET K
    BY <1>2
  <2> QED BY <2>1 DEF Table
<1> QED BY <1>1, <1>2

\* Two tables with the same rows are one.
LEMMA SameTable ==
  ASSUME NEW K, NEW V, NEW f \in Table(K, V), NEW g \in Table(K, V),
         \A k \in K : /\ k \in DOMAIN f <=> k \in DOMAIN g
                      /\ k \in DOMAIN g => f[k] = g[k]
  PROVE  f = g
<1>1. /\ DOMAIN f \subseteq K /\ f = [k \in DOMAIN f |-> f[k]]
      /\ DOMAIN g \subseteq K /\ g = [k \in DOMAIN g |-> g[k]]
  BY InTable
<1>2. DOMAIN f = DOMAIN g
  BY <1>1
<1>3. \A k \in DOMAIN g : f[k] = g[k]
  BY <1>1
<1>4. [k \in DOMAIN f |-> f[k]] = [k \in DOMAIN g |-> g[k]]
  BY <1>2, <1>3
<1> QED BY <1>1, <1>4

\* The empty table.
LEMMA EmptyTable == ASSUME NEW K, NEW V PROVE NoRows \in Table(K, V) /\ DOMAIN NoRows = {}
<1>1. DOMAIN NoRows = {} /\ NoRows = [k \in DOMAIN NoRows |-> NoRows[k]]
  BY DEF NoRows
<1> QED BY <1>1, InTable

\* Which rows Over has.
LEMMA OverRows ==
  ASSUME NEW f, NEW g
  PROVE  /\ DOMAIN Over(f, g) = DOMAIN f \cup DOMAIN g
         /\ \A k \in DOMAIN f : Over(f, g)[k] = f[k]
         /\ \A k \in DOMAIN g \ DOMAIN f : Over(f, g)[k] = g[k]
BY DEF Over

\* Rows written over a table are a table.
LEMMA OverTable ==
  ASSUME NEW K, NEW V, NEW f \in Table(K, V), NEW g \in Table(K, V)
  PROVE  Over(f, g) \in Table(K, V)
<1> DEFINE h == Over(f, g)
<1>1. /\ DOMAIN f \subseteq K /\ DOMAIN g \subseteq K
      /\ \A k \in DOMAIN f : f[k] \in V
      /\ \A k \in DOMAIN g : g[k] \in V
  BY InTable
<1>2. /\ DOMAIN h = DOMAIN f \cup DOMAIN g
      /\ \A k \in DOMAIN f : h[k] = f[k]
      /\ \A k \in DOMAIN g \ DOMAIN f : h[k] = g[k]
  BY OverRows
<1>3. h = [k \in DOMAIN h |-> h[k]]
  BY DEF Over
<1> HIDE DEF h
<1>4. DOMAIN h \subseteq K /\ \A k \in DOMAIN h : h[k] \in V
  BY <1>1, <1>2
<1>5. h \in Table(K, V)
  BY <1>3, <1>4, InTable
<1> QED BY <1>5 DEF h

\* Which rows Without has.
LEMMA WithoutRows ==
  ASSUME NEW f, NEW S
  PROVE  /\ DOMAIN Without(f, S) = DOMAIN f \ S
         /\ \A k \in DOMAIN f \ S : Without(f, S)[k] = f[k]
BY DEF Without

\* A table without some rows is one.
LEMMA WithoutTable ==
  ASSUME NEW K, NEW V, NEW f \in Table(K, V), NEW S
  PROVE  Without(f, S) \in Table(K, V)
<1> DEFINE h == Without(f, S)
<1>1. DOMAIN f \subseteq K /\ \A k \in DOMAIN f : f[k] \in V
  BY InTable
<1>2. DOMAIN h = DOMAIN f \ S /\ \A k \in DOMAIN f \ S : h[k] = f[k]
  BY WithoutRows
<1>3. h = [k \in DOMAIN h |-> h[k]]
  BY DEF Without
<1> HIDE DEF h
<1>4. DOMAIN h \subseteq K /\ \A k \in DOMAIN h : h[k] \in V
  BY <1>1, <1>2
<1>5. h \in Table(K, V)
  BY <1>3, <1>4, InTable
<1> QED BY <1>5 DEF h

\* A replay has a row for each current reward of its batch.
LEMMA OutcomesTable ==
  ASSUME NEW batch \in SUBSET Reward, NEW seen \in SUBSET Writer
  PROVE  /\ Outcomes(batch, seen) \in States
         /\ DOMAIN Outcomes(batch, seen) = {x \in batch \ Future : Exists(x, seen)}
         /\ \A r \in DOMAIN Outcomes(batch, seen) :
              Outcomes(batch, seen)[r] = {t \in seen : Affects(t, r)}
<1> DEFINE h == Outcomes(batch, seen)
<1>1. /\ DOMAIN h = {x \in batch \ Future : Exists(x, seen)}
      /\ \A r \in DOMAIN h : h[r] = {t \in seen : Affects(t, r)}
      /\ h = [k \in DOMAIN h |-> h[k]]
  BY DEF Outcomes
<1>2. DOMAIN h \subseteq Reward /\ \A r \in DOMAIN h : h[r] \in SUBSET Writer
  BY <1>1
<1> HIDE DEF h
<1>3. h \in Table(Reward, SUBSET Writer)
  BY <1>1, <1>2, InTable
<1> QED BY <1>1, <1>3 DEF h, States

\* An active reward's key is a user and a symbol.
LEMMA KeyType ==
  ASSUME NEW st \in States, NEW r \in DOMAIN st, IsActive(r, st)
  PROVE  r \in Reward /\ Key(r, st) = <<Owner[r], Terminal(r, st[r])>>
         /\ Owner[r] \in User /\ Terminal(r, st[r]) \in Symbol
<1>1. r \in Reward
  BY InTable DEF States
<1>2. Owner[r] \in User /\ Origin[r] \in Symbol /\ Successor[Origin[r]] \in Symbol \cup {None}
      /\ None \notin Symbol
  BY <1>1, ConstantsAssumption
<1>3. Terminal(r, st[r]) \in Symbol
  BY <1>2 DEF IsActive, Terminal
<1> QED BY <1>1, <1>2, <1>3 DEF Key

\* The rows of a set of users are those keys of theirs that all users have.
LEMMA PositionsTable ==
  ASSUME NEW users \in SUBSET User, NEW st \in States
  PROVE  /\ PositionsOf(users, st) \in PositionRows
         /\ \A u \in users, s \in Symbol :
              /\ <<u, s>> \in DOMAIN PositionsOf(users, st)
                   <=> <<u, s>> \in DOMAIN PositionsOf(User, st)
              /\ <<u, s>> \in DOMAIN PositionsOf(users, st) =>
                   PositionsOf(users, st)[<<u, s>>] = PositionsOf(User, st)[<<u, s>>]
         /\ \A k \in DOMAIN PositionsOf(users, st) : k[1] \in users
<1> DEFINE all   == {r \in OwnedBy(User, st) : IsActive(r, st)}
           some  == {r \in OwnedBy(users, st) : IsActive(r, st)}
           All   == PositionsOf(User, st)
           Some  == PositionsOf(users, st)
           Of(S, k) == [r \in {x \in S : Key(x, st) = k} |-> st[r]]
<1>1. /\ DOMAIN All = {Key(r, st) : r \in all}
      /\ \A k \in DOMAIN All : All[k] = Of(all, k)
  BY DEF PositionsOf
<1>2. /\ DOMAIN Some = {Key(r, st) : r \in some}
      /\ \A k \in DOMAIN Some : Some[k] = Of(some, k)
      /\ Some = [k \in DOMAIN Some |-> Some[k]]
  BY DEF PositionsOf
<1>3. \A r \in all : /\ r \in DOMAIN st /\ Key(r, st) = <<Owner[r], Terminal(r, st[r])>>
                     /\ Owner[r] \in User /\ Terminal(r, st[r]) \in Symbol
  BY KeyType DEF OwnedBy
<1>4. some = {r \in all : Owner[r] \in users}
  BY DEF OwnedBy
<1>5. \A k : Of(some, k) \in States
  <2> SUFFICES ASSUME NEW k PROVE Of(some, k) \in Table(Reward, SUBSET Writer)
    BY DEF States
  <2> DEFINE h == Of(some, k)
  <2>1. DOMAIN h \subseteq DOMAIN st /\ \A r \in DOMAIN h : h[r] = st[r]
    BY <1>3, <1>4
  <2>2. DOMAIN st \subseteq Reward /\ \A r \in DOMAIN st : st[r] \in SUBSET Writer
    BY InTable DEF States
  <2>3. h = [r \in DOMAIN h |-> h[r]]
    OBVIOUS
  <2> HIDE DEF h
  <2>4. h \in Table(Reward, SUBSET Writer)
    BY <2>1, <2>2, <2>3, InTable
  <2> QED BY <2>4 DEF h
<1> HIDE DEF all, some, All, Some
<1>6. \A k \in DOMAIN Some : k[1] \in users /\ k \in User \X Symbol
  <2> SUFFICES ASSUME NEW k \in DOMAIN Some PROVE k[1] \in users /\ k \in User \X Symbol
    OBVIOUS
  <2>1. PICK r \in some : k = Key(r, st)
    BY <1>2
  <2> QED BY <1>3, <1>4, <2>1
<1>7. Some \in Table(User \X Symbol, States)
  <2> HIDE DEF Of
  <2>1. \A k \in DOMAIN Some : Some[k] \in States
    BY <1>2, <1>5
  <2> QED BY <1>2, <1>6, <2>1, InTable
<1>8. ASSUME NEW u \in users, NEW s \in Symbol
      PROVE  /\ <<u, s>> \in DOMAIN Some <=> <<u, s>> \in DOMAIN All
             /\ <<u, s>> \in DOMAIN Some => Some[<<u, s>>] = All[<<u, s>>]
  <2>1. {x \in some : Key(x, st) = <<u, s>>} = {x \in all : Key(x, st) = <<u, s>>}
    BY <1>3, <1>4
  <2>2. Of(some, <<u, s>>) = Of(all, <<u, s>>)
    BY <2>1
  <2>3. <<u, s>> \in DOMAIN Some <=> \E x \in some : Key(x, st) = <<u, s>>
    BY <1>2
  <2>4. <<u, s>> \in DOMAIN All <=> \E x \in all : Key(x, st) = <<u, s>>
    BY <1>1
  <2>5. <<u, s>> \in DOMAIN Some <=> <<u, s>> \in DOMAIN All
    BY <2>1, <2>3, <2>4
  <2> HIDE DEF Of
  <2> QED BY <1>1, <1>2, <2>2, <2>5
<1> QED BY <1>6, <1>7, <1>8 DEF PositionRows, All, Some

\* The same of the cash rows.
LEMMA CashTable ==
  ASSUME NEW users \in SUBSET User, NEW st \in States
  PROVE  /\ CashOf(users, st) \in CashRows
         /\ \A u \in users :
              /\ u \in DOMAIN CashOf(users, st) <=> u \in DOMAIN CashOf(User, st)
              /\ u \in DOMAIN CashOf(users, st) => CashOf(users, st)[u] = CashOf(User, st)[u]
         /\ DOMAIN CashOf(users, st) \subseteq users
<1> DEFINE all   == OwnedBy(User, st)
           some  == OwnedBy(users, st)
           All   == CashOf(User, st)
           Some  == CashOf(users, st)
           Of(S, u) == [r \in {x \in S : Owner[x] = u} |-> st[r]]
<1>1. /\ DOMAIN All = {Owner[r] : r \in all}
      /\ \A u \in DOMAIN All : All[u] = Of(all, u)
  BY DEF CashOf
<1>2. /\ DOMAIN Some = {Owner[r] : r \in some}
      /\ \A u \in DOMAIN Some : Some[u] = Of(some, u)
      /\ Some = [u \in DOMAIN Some |-> Some[u]]
  BY DEF CashOf
<1>3. some = {r \in all : Owner[r] \in users} /\ \A r \in some : r \in DOMAIN st
  BY DEF OwnedBy
<1>4. \A u : Of(some, u) \in States
  <2> SUFFICES ASSUME NEW u PROVE Of(some, u) \in Table(Reward, SUBSET Writer)
    BY DEF States
  <2> DEFINE h == Of(some, u)
  <2>1. DOMAIN h \subseteq DOMAIN st /\ \A r \in DOMAIN h : h[r] = st[r]
    BY <1>3
  <2>2. DOMAIN st \subseteq Reward /\ \A r \in DOMAIN st : st[r] \in SUBSET Writer
    BY InTable DEF States
  <2>3. h = [r \in DOMAIN h |-> h[r]]
    OBVIOUS
  <2> HIDE DEF h
  <2>4. h \in Table(Reward, SUBSET Writer)
    BY <2>1, <2>2, <2>3, InTable
  <2> QED BY <2>4 DEF h
<1> HIDE DEF all, some, All, Some
<1>5. DOMAIN Some \subseteq users
  BY <1>2, <1>3
<1>6. Some \in Table(User, States)
  <2> HIDE DEF Of
  <2>1. DOMAIN Some \subseteq User /\ \A u \in DOMAIN Some : Some[u] \in States
    BY <1>2, <1>4, <1>5
  <2> QED BY <1>2, <2>1, InTable
<1>7. ASSUME NEW u \in users
      PROVE  /\ u \in DOMAIN Some <=> u \in DOMAIN All
             /\ u \in DOMAIN Some => Some[u] = All[u]
  <2>1. {x \in some : Owner[x] = u} = {x \in all : Owner[x] = u}
    BY <1>3
  <2>2. Of(some, u) = Of(all, u)
    BY <2>1
  <2>3. u \in DOMAIN Some <=> \E x \in some : Owner[x] = u
    BY <1>2
  <2>4. u \in DOMAIN All <=> \E x \in all : Owner[x] = u
    BY <1>1
  <2>5. u \in DOMAIN Some <=> u \in DOMAIN All
    BY <2>1, <2>3, <2>4
  <2> HIDE DEF Of
  <2> QED BY <1>1, <1>2, <2>2, <2>5
<1> QED BY <1>5, <1>6, <1>7 DEF CashRows, All, Some

\* A finite set of numbers has a largest one.
LEMMA LastOfFinite ==
  ASSUME NEW ids \in SUBSET Nat, IsFiniteSet(ids), ids # {}
  PROVE  \E m \in ids : \A i \in ids : i <= m
<1> DEFINE Above(m) == {i \in ids : m < i}
           Bad == {Above(m) : m \in ids}
<1>1. Bad \in SUBSET SUBSET ids /\ Bad # {}
  <2>1. \A m \in ids : Above(m) \in SUBSET ids
    OBVIOUS
  <2>2. PICK m \in ids : TRUE
    OBVIOUS
  <2>3. Above(m) \in Bad
    BY <2>2
  <2> QED BY <2>1, <2>3
<1> HIDE DEF Bad
<1>2. PICK T \in Bad : \A U \in Bad : U \subseteq T => U = T
  <2> DEFINE N == ids
  <2>1. IsFiniteSet(N)
    OBVIOUS
  <2>2. Bad \in SUBSET SUBSET N
    BY <1>1
  <2>3. Bad # {}
    BY <1>1
  <2> HIDE DEF N
  <2> QED BY <2>1, <2>2, <2>3, SmallestSubset
<1> USE DEF Bad
<1>3. PICK m \in ids : T = Above(m)
  OBVIOUS
<1>4. ASSUME NEW i \in ids, m < i PROVE FALSE
  <2>1. i \in T /\ i \notin Above(i) /\ Above(i) \in Bad
    BY <1>3, <1>4
  <2>2. Above(i) \subseteq T
    <3> SUFFICES ASSUME NEW j \in ids, i < j PROVE j \in T
      OBVIOUS
    <3>1. m \in Nat /\ i \in Nat /\ j \in Nat
      OBVIOUS
    <3> QED BY <1>3, <1>4, <3>1
  <2> QED BY <1>2, <2>1, <2>2
<1> QED BY <1>4

\* A finite set of numbers has a smallest one.
LEMMA FirstOfFinite ==
  ASSUME NEW ids \in SUBSET Nat, IsFiniteSet(ids), ids # {}
  PROVE  \E m \in ids : \A i \in ids : m <= i
<1> DEFINE Below(m) == {i \in ids : i < m}
           Bad == {Below(m) : m \in ids}
<1>1. Bad \in SUBSET SUBSET ids /\ Bad # {}
  <2>1. \A m \in ids : Below(m) \in SUBSET ids
    OBVIOUS
  <2>2. PICK m \in ids : TRUE
    OBVIOUS
  <2>3. Below(m) \in Bad
    BY <2>2
  <2> QED BY <2>1, <2>3
<1> HIDE DEF Bad
<1>2. PICK T \in Bad : \A U \in Bad : U \subseteq T => U = T
  <2> DEFINE N == ids
  <2>1. IsFiniteSet(N)
    OBVIOUS
  <2>2. Bad \in SUBSET SUBSET N
    BY <1>1
  <2>3. Bad # {}
    BY <1>1
  <2> HIDE DEF N
  <2> QED BY <2>1, <2>2, <2>3, SmallestSubset
<1> USE DEF Bad
<1>3. PICK m \in ids : T = Below(m)
  OBVIOUS
<1>4. ASSUME NEW i \in ids, i < m PROVE FALSE
  <2>1. i \in T /\ i \notin Below(i) /\ Below(i) \in Bad
    BY <1>3, <1>4
  <2>2. Below(i) \subseteq T
    <3> SUFFICES ASSUME NEW j \in ids, j < i PROVE j \in T
      OBVIOUS
    <3>1. m \in Nat /\ i \in Nat /\ j \in Nat
      OBVIOUS
    <3> QED BY <1>3, <1>4, <3>1
  <2> QED BY <1>2, <2>1, <2>2
<1> QED BY <1>4

\* The largest id of a finite set is below no other.
LEMMA LargestID ==
  ASSUME NEW ids \in SUBSET Nat, IsFiniteSet(ids)
  PROVE  MaxID(ids) \in Nat /\ \A i \in ids : i <= MaxID(ids)
<1>1. CASE ids = {}
  BY <1>1 DEF MaxID
<1>2. CASE ids # {}
  <2>2. \E m \in ids : \A i \in ids : i <= m
    BY <1>2, LastOfFinite
  <2>3. \E m \in ids : \A i \in ids : m >= i
    BY <2>2
  <2> HIDE DEF MaxID
  <2>4. Max(ids) \in ids /\ \A i \in ids : Max(ids) >= i
    BY <2>3 DEF Max
  <2>5. MaxID(ids) = Max(ids)
    BY <1>2 DEF MaxID
  <2> QED BY <2>4, <2>5
<1> QED BY <1>1, <1>2

-----------------------------------------------------------------------------
(* The writers: what each step does *)

\* A transaction before and after, and a command before it starts.
LEMMA NoneWaits ==
  /\ Waiting \in ProcRow /\ NoJob \in JobRow
  /\ [Waiting EXCEPT !.pc = "done"] \in ProcRow
  /\ [Waiting EXCEPT !.pc = "done"].pc = "done"
  /\ [Waiting EXCEPT !.pc = "done"].state = NoRows
<1>1. NoRows \in States /\ NoRows \in PositionRows /\ NoRows \in CashRows
  BY EmptyTable DEF States, PositionRows, CashRows
<1> QED BY <1>1 DEF Waiting, NoJob, ProcRow, JobRow, ProcPC, JobPC

\* Transaction t moves, and no other.
Moves(t) ==
  /\ proc' \in [Writer -> ProcRow] /\ \A o \in Writer \ {t} : proc'[o] = proc[o]
  /\ proc'[t].pc \in {"delete", "insert"} => proc'[t].users # {}

\* What UpdateProc does.
LEMMA SetProc ==
  ASSUME TablesInv, NEW t \in Writer, NEW x \in ProcRow, UpdateProc(t, x),
         x.pc \in {"delete", "insert"} => x.users # {}
  PROVE  Moves(t) /\ proc'[t] = x
BY DEF UpdateProc, Moves, TablesInv

\* What a writer concerns.
LEMMA Concerns ==
  ASSUME NEW t \in Writer
  PROVE  /\ Kind[t] \in {"grant", "adjust", "event"}
         /\ Kind[t] # "event" => On[t] \in Reward
         /\ Kind[t] = "event" => On[t] \in Symbol
BY ConstantsAssumption

LEMMA BeginDoes ==
  ASSUME TablesInv, NEW t \in Writer, Begin(t)
  PROVE  /\ Moves(t) /\ UNCHANGED <<rows, job, rollout>>
         /\ proc[t].pc = "idle" /\ proc'[t].pc = "refresh"
         /\ proc'[t].state = proc[t].state
         /\ Kind[t] # "event" => proc'[t].todo = {On[t]}
         /\ Kind[t] = "adjust" => Exists(On[t], committed)
         /\ Quiesced
<1> DEFINE x(S) == [proc[t] EXCEPT !.pc = "refresh", !.todo = S]
<1>1. proc[t] \in ProcRow /\ DOMAIN rewardState \subseteq Reward
  BY InTable DEF TablesInv, States
<1>2. ASSUME NEW S \in SUBSET Reward
      PROVE  /\ x(S) \in ProcRow /\ x(S).pc = "refresh" /\ x(S).todo = S
             /\ x(S).state = proc[t].state
  BY <1>1, <1>2 DEF ProcRow, ProcPC
<1>3. PICK S \in SUBSET Reward :
        /\ UpdateProc(t, x(S))
        /\ Kind[t] # "event" => S = {On[t]}
  <2>1. CASE Kind[t] = "event"
    <3>1. {r \in DOMAIN rewardState : Affects(t, r)} \in SUBSET Reward
      BY <1>1
    <3>2. UpdateProc(t, x({r \in DOMAIN rewardState : Affects(t, r)}))
      BY <2>1 DEF Begin
    <3> HIDE DEF x
    <3> QED BY <2>1, <3>1, <3>2
  <2>2. CASE Kind[t] # "event"
    <3>1. {On[t]} \in SUBSET Reward
      BY <2>2, Concerns
    <3>2. UpdateProc(t, x({On[t]}))
      BY <2>2 DEF Begin
    <3> HIDE DEF x
    <3> QED BY <2>2, <3>1, <3>2
  <2> QED BY <2>1, <2>2
<1>4. Kind[t] = "adjust" => Exists(On[t], committed)
  BY DEF Begin
<1> HIDE DEF x
<1>5. Moves(t) /\ proc'[t] = x(S)
  BY <1>2, <1>3, SetProc
<1> QED BY <1>2, <1>3, <1>4, <1>5 DEF Begin

LEMMA RefreshDoes ==
  ASSUME TablesInv, NEW t \in Writer, RefreshRewards(t)
  PROVE  /\ Moves(t) /\ UNCHANGED <<rows, job, rollout>>
         /\ proc[t].pc = "refresh" /\ proc'[t].pc \in Replayed
         /\ proc'[t].state = Outcomes(proc[t].todo, committed \cup {t})
         /\ \A o \in Writer \ {t} : proc[t].todo \cap DOMAIN proc[o].state = {}
<1> DEFINE state == Outcomes(proc[t].todo, committed \cup {t})
           users == {Owner[r] : r \in proc[t].todo}
           x == [proc[t] EXCEPT !.pc = IF users = {} THEN "commit" ELSE "delete",
                                !.state = state, !.users = users, !.todo = {}]
<1>1. /\ proc[t] \in ProcRow /\ committed \in SUBSET Writer
      /\ proc[t].todo \in SUBSET Reward
  BY DEF TablesInv, ProcRow
<1>2. state \in States
  <2>1. committed \cup {t} \in SUBSET Writer
    BY <1>1
  <2> QED BY <1>1, <2>1, OutcomesTable
<1>3. users \in SUBSET User
  <2>1. \A r \in Reward : Owner[r] \in User
    BY ConstantsAssumption
  <2> QED BY <1>1, <2>1
<1>4. UpdateProc(t, x)
  BY DEF RefreshRewards
<1> HIDE DEF state, users
<1>5. /\ x \in ProcRow /\ x.pc \in Replayed /\ x.state = state
      /\ x.pc \in {"delete", "insert"} => x.users # {}
  BY <1>1, <1>2, <1>3 DEF ProcRow, ProcPC, Replayed
<1> HIDE DEF x
<1>6. Moves(t) /\ proc'[t] = x
  BY <1>4, <1>5, SetProc
<1> QED BY <1>5, <1>6 DEF RefreshRewards, state

\* The next user of a refresh is one of its users.
LEMMA FirstUser ==
  ASSUME NEW S \in SUBSET User, S # {}
  PROVE  Min(S) \in S
<1>1. IsFiniteSet(S) /\ S \in SUBSET Nat
  BY ConstantsAssumption, FS_Subset
<1>2. PICK m \in S : \A i \in S : m <= i
  BY <1>1, FirstOfFinite
<1> QED BY <1>2 DEF Min

LEMMA DeleteDoes ==
  ASSUME TablesInv, NEW t \in Writer, DeleteUser(t)
  PROVE  /\ Moves(t) /\ UNCHANGED <<rows, job, rollout>>
         /\ proc[t].pc \in Replayed /\ proc'[t].pc \in Replayed
         /\ proc'[t].state = proc[t].state
<1> DEFINE u == Min(proc[t].users)
           gone == KeysOf({u}, positions)
           x == [proc[t] EXCEPT !.pc = "insert", !.held = @ \cup {u}, !.deleted = @ \cup gone]
<1>1. proc[t] \in ProcRow /\ proc[t].users \in SUBSET User /\ proc[t].pc = "delete"
  BY DEF TablesInv, ProcRow, DeleteUser
<1>2. proc[t].users # {} /\ u \in User
  BY <1>1, FirstUser DEF TablesInv
<1>3. gone \in SUBSET (User \X Symbol)
  BY InTable DEF TablesInv, PositionRows, KeysOf
<1>4. UpdateProc(t, x)
  BY DEF DeleteUser
<1> HIDE DEF u, gone
<1>5. x \in ProcRow /\ x.pc = "insert" /\ x.state = proc[t].state /\ x.users = proc[t].users
  BY <1>1, <1>2, <1>3 DEF ProcRow, ProcPC
<1> HIDE DEF x
<1>6. Moves(t) /\ proc'[t] = x
  BY <1>2, <1>4, <1>5, SetProc
<1> QED BY <1>1, <1>5, <1>6 DEF DeleteUser, Replayed

\* An INSERT refreshes its user, or fails.
LEMMA InsertDoes ==
  ASSUME TablesInv, NEW t \in Writer, InsertUser(t)
  PROVE  /\ Moves(t) /\ UNCHANGED <<rows, job, rollout>>
         /\ proc[t].pc \in Replayed
         /\ \/ proc'[t] = [Waiting EXCEPT !.pc = "done"]
            \/ proc'[t].pc \in Replayed /\ proc'[t].state = proc[t].state
<1> DEFINE u     == Min(proc[t].users)
           state == Over(proc[t].state, rewardState)
           new   == PositionsOf({u}, state)
           owed  == CashOf({u}, state)
           rest  == proc[t].users \ {u}
           done  == [Waiting EXCEPT !.pc = "done"]
           x     == [proc[t] EXCEPT !.pc = IF rest = {} THEN "commit" ELSE "delete",
                                    !.users = rest, !.positions = Over(new, @),
                                    !.cash = Over(owed, @)]
<1>1. /\ proc[t] \in ProcRow /\ proc[t].users \in SUBSET User /\ proc[t].pc = "insert"
      /\ proc[t].state \in States /\ rewardState \in States
      /\ proc[t].positions \in PositionRows /\ proc[t].cash \in CashRows
  BY DEF TablesInv, ProcRow, InsertUser
<1>2. proc[t].users # {} /\ {u} \in SUBSET User
  BY <1>1, FirstUser DEF TablesInv
<1>3. state \in States
  BY <1>1, OverTable DEF States
<1>4. new \in PositionRows /\ owed \in CashRows
  <2> HIDE DEF u, state
  <2> QED BY <1>2, <1>3, PositionsTable, CashTable
<1>5. Over(new, proc[t].positions) \in PositionRows /\ Over(owed, proc[t].cash) \in CashRows
  BY <1>1, <1>4, OverTable DEF PositionRows, CashRows
<1>6. UpdateProc(t, done) \/ UpdateProc(t, x)
  BY DEF InsertUser
<1>7. rest \in SUBSET User
  BY <1>1
<1> HIDE DEF u, state, new, owed, rest
<1>8. /\ x \in ProcRow /\ x.pc \in Replayed /\ x.state = proc[t].state
      /\ x.pc \in {"delete", "insert"} => x.users # {}
  BY <1>1, <1>5, <1>7 DEF ProcRow, ProcPC, Replayed
<1>9. done \in ProcRow /\ done.pc \notin {"delete", "insert"}
  BY NoneWaits
<1> HIDE DEF x, done
<1>10. Moves(t) /\ (proc'[t] = x \/ proc'[t] = done)
  BY <1>6, <1>8, <1>9, SetProc
<1>11. proc[t].pc \in Replayed /\ UNCHANGED <<rows, job, rollout>>
  BY <1>1 DEF InsertUser, Replayed
<1> QED BY <1>8, <1>10, <1>11 DEF done

LEMMA AbortDoes ==
  ASSUME TablesInv, NEW t \in Writer, Abort(t)
  PROVE  /\ Moves(t) /\ UNCHANGED <<rows, job, rollout>>
         /\ InTransaction(t) /\ proc'[t] = [Waiting EXCEPT !.pc = "done"]
<1>1. UpdateProc(t, [Waiting EXCEPT !.pc = "done"])
  BY DEF Abort
<1>2. [Waiting EXCEPT !.pc = "done"] \in ProcRow
      /\ [Waiting EXCEPT !.pc = "done"].pc \notin {"delete", "insert"}
  BY NoneWaits
<1>3. Moves(t) /\ proc'[t] = [Waiting EXCEPT !.pc = "done"]
  BY <1>1, <1>2, SetProc
<1> QED BY <1>3 DEF Abort

\* The factors of some symbols are rows of instrument_factor.
LEMMA FactorType ==
  ASSUME TablesInv, NEW S \in SUBSET Symbol, NEW seen \in SUBSET Writer
  PROVE  [s \in S |-> FactorOf(s, seen)] \in FactorRows
<1> DEFINE f == [s \in S |-> FactorOf(s, seen)]
<1>1. /\ DOMAIN f \subseteq Symbol /\ f = [s \in DOMAIN f |-> f[s]]
      /\ \A s \in DOMAIN f : f[s] \in SUBSET Writer
  BY DEF FactorOf
<1> HIDE DEF f
<1>2. f \in Table(Symbol, SUBSET Writer)
  BY <1>1, InTable
<1> QED BY <1>2 DEF f, FactorRows

LEMMA CommitDoes ==
  ASSUME TablesInv, NEW t \in Writer, Commit(t)
  PROVE  /\ Moves(t) /\ UNCHANGED <<job, rollout>>
         /\ proc[t].pc = "commit" /\ proc'[t] = [Waiting EXCEPT !.pc = "done"]
         /\ committed' = committed \cup {t} /\ committed' \in SUBSET Writer
         /\ rewardState' = Over(proc[t].state, rewardState)
         /\ rewardState' \in States /\ positions' \in PositionRows /\ cash' \in CashRows
         /\ factors' \in FactorRows
<1>1. UpdateProc(t, [Waiting EXCEPT !.pc = "done"])
  BY DEF Commit
<1>2. [Waiting EXCEPT !.pc = "done"] \in ProcRow
      /\ [Waiting EXCEPT !.pc = "done"].pc \notin {"delete", "insert"}
  BY NoneWaits
<1>3. Moves(t) /\ proc'[t] = [Waiting EXCEPT !.pc = "done"]
  BY <1>1, <1>2, SetProc
<1>4. committed' = committed \cup {t} /\ committed' \in SUBSET Writer
  BY DEF Commit, TablesInv
<1>5. /\ proc[t] \in ProcRow
      /\ proc[t].state \in States /\ rewardState \in States
      /\ proc[t].positions \in PositionRows /\ positions \in PositionRows
      /\ proc[t].cash \in CashRows /\ cash \in CashRows /\ factors \in FactorRows
  BY DEF TablesInv, ProcRow
<1>6. /\ rewardState' = Over(proc[t].state, rewardState)
      /\ positions' = Over(proc[t].positions, Without(positions, proc[t].deleted))
      /\ cash' = Over(proc[t].cash, Without(cash, proc[t].held))
  BY DEF Commit
<1>7. Over(proc[t].state, rewardState) \in States
  BY <1>5, OverTable DEF States
<1>8. Over(proc[t].positions, Without(positions, proc[t].deleted)) \in PositionRows
  BY <1>5, OverTable, WithoutTable DEF PositionRows
<1>9. Over(proc[t].cash, Without(cash, proc[t].held)) \in CashRows
  BY <1>5, OverTable, WithoutTable DEF CashRows
<1>10. factors' \in FactorRows
  <2>1. CASE Kind[t] = "event"
    <3>1. factors' = Over([s \in {On[t]} |-> FactorOf(s, committed')], factors)
      BY <2>1 DEF Commit
    <3>2. {On[t]} \in SUBSET Symbol
      BY <2>1, Concerns
    <3>3. [s \in {On[t]} |-> FactorOf(s, committed')] \in FactorRows
      BY <1>4, <3>2, FactorType
    <3>4. Over([s \in {On[t]} |-> FactorOf(s, committed')], factors) \in FactorRows
      BY <1>5, <3>3, OverTable DEF FactorRows
    <3> QED BY <3>1, <3>4
  <2>2. CASE Kind[t] # "event"
    BY <1>5, <2>2 DEF Commit
  <2> QED BY <2>1, <2>2
<1> QED BY <1>3, <1>4, <1>6, <1>7, <1>8, <1>9, <1>10 DEF Commit

-----------------------------------------------------------------------------
(* The writers: what each step keeps *)

\* The invariants about the tables and the commands do not look at the
\* transactions.
LEMMA TransactionOK ==
  ASSUME RInv, NEW t \in Writer, Moves(t), UNCHANGED <<rows, job, rollout>>, ProcInv', LockInv'
  PROVE  RInv'
<1>1. /\ committed' = committed /\ rewardState' = rewardState /\ positions' = positions
      /\ cash' = cash /\ factors' = factors /\ job' = job /\ switched' = switched /\ drift' = drift
  BY DEF rows, rollout
<1>2. TablesInv'
  BY <1>1 DEF RInv, TablesInv, Moves, ReadInv
<1>3. RowInv' /\ SwitchInv' /\ \A c \in Command : BatchInv(c)'
  BY <1>1 DEF RInv, RowInv, BatchInv, SwitchInv, Current, Written
<1>4. \A c \in Command : RepairInv(c)'
  BY <1>1 DEF RInv, RepairInv, RewardRight, UserRight, Truth, RewardBatch, UserBatchOf
<1> QED BY <1>2, <1>3, <1>4 DEF RInv

\* Only the transaction that moves can break what is said of the transactions.
LEMMA OthersOK ==
  ASSUME ProcInv, NEW t \in Writer, Moves(t), committed' = committed, ReplayInv(t)',
         \A o \in Writer \ {t} : DOMAIN proc'[t].state \cap DOMAIN proc[o].state = {}
  PROVE  ProcInv'
<1>1. ASSUME NEW o \in Writer PROVE ReplayInv(o)'
  <2>1. CASE o = t
    BY <2>1
  <2>2. CASE o # t
    BY <2>2 DEF ProcInv, ReplayInv, Moves, InTransaction, Written
  <2> QED BY <2>1, <2>2
<1>2. OwnRows'
  <2> SUFFICES ASSUME NEW o \in Writer, NEW p \in Writer, o # p
               PROVE  DOMAIN proc'[o].state \cap DOMAIN proc'[p].state = {}
    BY DEF OwnRows
  <2>1. CASE o = t
    BY <2>1 DEF Moves
  <2>2. CASE p = t
    BY <2>2 DEF Moves
  <2>3. CASE o # t /\ p # t
    BY <2>3 DEF Moves, ProcInv, OwnRows
  <2> QED BY <2>1, <2>2, <2>3
<1> QED BY <1>1, <1>2 DEF ProcInv

\* A transaction begins where no repair runs (Quiesced), and its row is still empty.
LEMMA BeginOK ==
  ASSUME RInv, NEW t \in Writer, Begin(t)
  PROVE  RInv'
<1>1. /\ Moves(t) /\ UNCHANGED <<rows, job, rollout>>
      /\ proc[t].pc = "idle" /\ proc'[t].pc = "refresh"
      /\ proc'[t].state = proc[t].state
      /\ Kind[t] # "event" => proc'[t].todo = {On[t]}
      /\ Kind[t] = "adjust" => Exists(On[t], committed)
      /\ Quiesced
  BY BeginDoes DEF RInv
<1>2. committed' = committed /\ job' = job
  BY <1>1 DEF rows
<1>3. ReplayInv(t) /\ DOMAIN proc[t].state = {} /\ t \notin committed
  BY <1>1 DEF RInv, ProcInv, ReplayInv, Replayed
<1>4. ReplayInv(t)'
  BY <1>1, <1>2, <1>3 DEF ReplayInv, Replayed
<1>5. ProcInv'
  BY <1>1, <1>2, <1>3, <1>4, OthersOK DEF RInv
<1>6. LockInv'
  BY <1>1, <1>2 DEF RInv, LockInv, Rebuilding, InTransaction, Moves, Quiesced
<1> QED BY <1>1, <1>5, <1>6, TransactionOK

\* The snapshot of a refresh has all that committed, and its own write.
LEMMA RefreshOK ==
  ASSUME RInv, NEW t \in Writer, RefreshRewards(t)
  PROVE  RInv'
<1> DEFINE todo == proc[t].todo
           seen == committed \cup {t}
           state == Outcomes(todo, seen)
<1>1. /\ Moves(t) /\ UNCHANGED <<rows, job, rollout>>
      /\ proc[t].pc = "refresh" /\ proc'[t].pc \in Replayed
      /\ proc'[t].state = state
      /\ \A o \in Writer \ {t} : todo \cap DOMAIN proc[o].state = {}
  BY RefreshDoes DEF RInv
<1>2. committed' = committed /\ job' = job
  BY <1>1 DEF rows
<1>3. ReplayInv(t) /\ todo \in SUBSET Reward /\ seen \in SUBSET Writer
  BY DEF RInv, ProcInv, TablesInv, ProcRow
<1>4. /\ DOMAIN state = {x \in todo \ Future : Exists(x, seen)}
      /\ \A r \in DOMAIN state : state[r] = {x \in seen : Affects(x, r)}
  <2> HIDE DEF todo, seen
  <2> QED BY <1>3, OutcomesTable
<1>5. InTransaction(t) /\ t \notin committed
  BY <1>1, <1>3 DEF InTransaction, ReplayInv
<1>6. Kind[t] # "event" => Exists(On[t], seen)
  <2>1. CASE Kind[t] = "grant"
    BY <2>1, ConstantsAssumption DEF Exists
  <2>2. CASE Kind[t] = "adjust"
    BY <1>3, <1>5, <2>2 DEF ReplayInv, Exists
  <2> QED BY <2>1, <2>2, Concerns
<1>7. Kind[t] # "event" => On[t] \in Future \/ (On[t] \in DOMAIN state /\ t \in state[On[t]])
  <2> SUFFICES ASSUME Kind[t] # "event", On[t] \notin Future
               PROVE  On[t] \in DOMAIN state /\ t \in state[On[t]]
    OBVIOUS
  <2>1. On[t] \in todo
    BY <1>1, <1>3 DEF ReplayInv
  <2>2. On[t] \in DOMAIN state
    BY <1>4, <1>6, <2>1
  <2> QED BY <1>4, <2>2 DEF Affects
<1>8. \A r \in DOMAIN state : /\ r \in Reward \ Future /\ Exists(r, seen)
                              /\ Written(r) \subseteq state[r]
  BY <1>3, <1>4 DEF Written
<1> HIDE DEF state
<1>9. ReplayInv(t)'
  <2>1. Kind[t] = "adjust" => Exists(On[t], committed)
    BY <1>3, <1>5 DEF ReplayInv
  <2>2. \A r : Written(r)' = Written(r)
    BY <1>2 DEF Written
  <2> QED BY <1>1, <1>2, <1>5, <1>7, <1>8, <2>1, <2>2 DEF ReplayInv, Replayed
<1>10. \A o \in Writer \ {t} : DOMAIN proc'[t].state \cap DOMAIN proc[o].state = {}
  BY <1>1, <1>4
<1>11. ProcInv'
  BY <1>1, <1>2, <1>9, <1>10, OthersOK DEF RInv
<1>12. LockInv'
  BY <1>1, <1>2, <1>5 DEF RInv, LockInv, Rebuilding, InTransaction, Moves
<1> QED BY <1>1, <1>11, <1>12, TransactionOK

\* The delete and insert steps of refresh_user_projections keep what was replayed.
LEMMA KeepOK ==
  ASSUME RInv, NEW t \in Writer, Moves(t), UNCHANGED <<rows, job, rollout>>,
         proc[t].pc \in Replayed, proc'[t].pc \in Replayed, proc'[t].state = proc[t].state
  PROVE  RInv'
<1>1. committed' = committed /\ job' = job
  BY DEF rows
<1>2. ReplayInv(t) /\ OwnRows
  BY DEF RInv, ProcInv
<1>3. ReplayInv(t)'
  BY <1>1, <1>2 DEF ReplayInv, Replayed, InTransaction, Written
<1>4. ProcInv'
  <2>1. \A o \in Writer \ {t} : DOMAIN proc'[t].state \cap DOMAIN proc[o].state = {}
    BY <1>2 DEF OwnRows
  <2> QED BY <1>1, <1>3, <2>1, OthersOK DEF RInv
<1>5. LockInv'
  BY <1>1 DEF RInv, LockInv, Rebuilding, InTransaction, Moves, Replayed
<1> QED BY <1>4, <1>5, TransactionOK

\* A transaction that fails leaves nothing.
LEMMA StopOK ==
  ASSUME RInv, NEW t \in Writer, Moves(t), UNCHANGED <<rows, job, rollout>>,
         proc'[t] = [Waiting EXCEPT !.pc = "done"]
  PROVE  RInv'
<1>1. committed' = committed /\ job' = job
  BY DEF rows
<1>2. proc'[t].pc = "done" /\ DOMAIN proc'[t].state = {}
  BY NoneWaits, EmptyTable
<1>3. ReplayInv(t)'
  BY <1>1, <1>2 DEF ReplayInv, Replayed, InTransaction
<1>4. ProcInv'
  BY <1>1, <1>2, <1>3, OthersOK DEF RInv
<1>5. LockInv'
  BY <1>1, <1>2 DEF RInv, LockInv, Rebuilding, InTransaction, Moves
<1> QED BY <1>4, <1>5, TransactionOK

\* A commit leaves a row with all that was written for every current reward it
\* concerns.
LEMMA CommitOK ==
  ASSUME RInv, NEW t \in Writer, Commit(t)
  PROVE  RInv'
<1> DEFINE state == proc[t].state
<1>1. /\ Moves(t) /\ UNCHANGED <<job, rollout>>
      /\ proc[t].pc = "commit" /\ proc'[t] = [Waiting EXCEPT !.pc = "done"]
      /\ committed' = committed \cup {t} /\ committed' \in SUBSET Writer
      /\ rewardState' = Over(state, rewardState)
      /\ rewardState' \in States /\ positions' \in PositionRows /\ cash' \in CashRows
      /\ factors' \in FactorRows
  BY CommitDoes DEF RInv
<1>2. job' = job /\ switched' = switched /\ drift' = drift
  BY <1>1 DEF rollout
<1>3. TablesInv'
  BY <1>1, <1>2 DEF RInv, TablesInv, Moves, ReadInv
<1>4. InTransaction(t) /\ ReplayInv(t) /\ t \notin committed
  BY <1>1 DEF InTransaction, RInv, ProcInv, ReplayInv
<1>5. proc'[t].pc = "done" /\ DOMAIN proc'[t].state = {}
  BY <1>1, NoneWaits, EmptyTable
<1>6. /\ DOMAIN rewardState' = DOMAIN state \cup DOMAIN rewardState
      /\ \A r \in DOMAIN state : rewardState'[r] = state[r]
      /\ \A r \in DOMAIN rewardState \ DOMAIN state : rewardState'[r] = rewardState[r]
  <2> HIDE DEF state
  <2>1. /\ DOMAIN Over(state, rewardState) = DOMAIN state \cup DOMAIN rewardState
        /\ \A r \in DOMAIN state : Over(state, rewardState)[r] = state[r]
        /\ \A r \in DOMAIN rewardState \ DOMAIN state :
             Over(state, rewardState)[r] = rewardState[r]
    BY OverRows
  <2> HIDE DEF Over
  <2> QED BY <1>1, <2>1
<1>7. \A r \in DOMAIN state : /\ r \in Reward \ Future /\ Exists(r, committed')
                              /\ Written(r) \subseteq state[r]
  BY <1>1, <1>4 DEF ReplayInv
<1>8. \A r : /\ Written(r)' \subseteq Written(r) \cup {t}
             /\ t \in Written(r)' => Kind[t] # "event" /\ On[t] = r
  BY <1>1, <1>4 DEF Written, Affects
<1>9. Kind[t] # "event" => On[t] \in Future \/ (On[t] \in DOMAIN state /\ t \in state[On[t]])
  BY <1>1, <1>4 DEF ReplayInv, Replayed
<1>10. \A r : Exists(r, committed) => Exists(r, committed')
  BY <1>1 DEF Exists
<1> HIDE DEF state
<1>11. \A r \in DOMAIN state : Written(r)' \subseteq state[r]
  BY <1>7, <1>8, <1>9
<1>12. \A r \in Reward \ Future : r \notin DOMAIN state => Written(r)' \subseteq Written(r)
  BY <1>8, <1>9
<1>13. ProcInv'
  <2>1. ASSUME NEW o \in Writer, o # t PROVE ReplayInv(o)'
    <3>1. proc'[o] = proc[o] /\ ReplayInv(o)
      BY <1>1, <2>1 DEF Moves, RInv, ProcInv
    <3>2. \A r \in DOMAIN proc[o].state : r \notin DOMAIN state
      BY <2>1 DEF RInv, ProcInv, OwnRows, state
    <3>3. \A r \in DOMAIN proc'[o].state : Exists(r, committed \cup {o}) => Exists(r, committed' \cup {o})
      BY <1>1 DEF Exists
    <3>4. \A r \in DOMAIN proc'[o].state :
            /\ r \in Reward \ Future /\ Exists(r, committed' \cup {o})
            /\ Written(r)' \subseteq proc'[o].state[r]
      BY <1>12, <3>1, <3>2, <3>3 DEF ReplayInv
    <3>5. o \in committed' => o \in committed
      BY <1>1, <2>1
    <3> QED BY <1>10, <3>1, <3>4, <3>5 DEF ReplayInv, InTransaction
  <2>2. ReplayInv(t)'
    BY <1>5 DEF ReplayInv, Replayed, InTransaction
  <2>3. OwnRows'
    <3> SUFFICES ASSUME NEW o \in Writer, NEW p \in Writer, o # p
                 PROVE  DOMAIN proc'[o].state \cap DOMAIN proc'[p].state = {}
      BY DEF OwnRows
    <3>1. CASE o = t \/ p = t
      BY <1>5, <3>1
    <3>2. CASE o # t /\ p # t
      BY <1>1, <3>2 DEF Moves, RInv, ProcInv, OwnRows
    <3> QED BY <3>1, <3>2
  <2> QED BY <2>1, <2>2, <2>3 DEF ProcInv
<1>14. LockInv'
  BY <1>1, <1>2, <1>5 DEF RInv, LockInv, Rebuilding, InTransaction, Moves
<1>15. RowInv'
  <2>1. \A r \in DOMAIN rewardState' : r \in Reward /\ Exists(r, committed')
    BY <1>6, <1>7, <1>10 DEF RInv, RowInv
  <2>2. ASSUME ~drift, NEW r \in DOMAIN rewardState'
        PROVE  r \notin Future /\ Written(r)' \subseteq rewardState'[r]
    <3>1. CASE r \in DOMAIN state
      BY <1>6, <1>7, <1>11, <3>1
    <3>2. CASE r \notin DOMAIN state
      <4>1. r \in DOMAIN rewardState /\ r \in Reward \ Future /\ Written(r) \subseteq rewardState[r]
        BY <1>6, <2>2, <3>2 DEF RInv, RowInv
      <4> QED BY <1>6, <1>12, <3>2, <4>1
    <3> QED BY <3>1, <3>2
  <2> QED BY <1>2, <2>1, <2>2 DEF RowInv
<1>16. \A c \in Command : BatchInv(c)'
  <2> SUFFICES ASSUME NEW c \in Command, job[c].pc = "writeRewards", NEW r \in DOMAIN job[c].state
               PROVE  /\ r \in Reward \ Future /\ Exists(r, committed')
                      /\ r \in DOMAIN rewardState' \/ Written(r)' \subseteq job[c].state[r]
    BY <1>2 DEF BatchInv
  <2>1. /\ r \in Reward \ Future /\ Exists(r, committed)
        /\ r \in DOMAIN rewardState \/ Written(r) \subseteq job[c].state[r]
    BY DEF RInv, BatchInv
  <2> QED BY <1>6, <1>10, <1>12, <2>1
<1>17. \A c \in Command : RepairInv(c)'
  <2>1. \A c \in Command : Mode[c] = "offline" => job'[c].pc \in {"off", "done"}
    BY <1>2, <1>4 DEF RInv, LockInv, Rebuilding
  <2> QED BY <2>1 DEF RepairInv, UserPhase
<1>18. SwitchInv'
  <2> SUFFICES ASSUME switched, ~drift, NEW r \in Reward \ Future, Exists(r, committed')
               PROVE  r \in DOMAIN rewardState'
    BY <1>2 DEF SwitchInv, Current
  <2>1. CASE Exists(r, committed)
    BY <1>6, <2>1 DEF RInv, SwitchInv, Current
  <2>2. CASE ~Exists(r, committed)
    <3>1. Kind[t] = "grant" /\ On[t] = r
      BY <1>1, <2>2 DEF Exists
    <3> QED BY <1>6, <1>9, <3>1
  <2> QED BY <2>1, <2>2
<1> QED BY <1>3, <1>13, <1>14, <1>15, <1>16, <1>17, <1>18 DEF RInv

-----------------------------------------------------------------------------
(* The command: what each step does *)

\* Command c moves, and no other.
Turns(c) ==
  /\ job' \in [Command -> JobRow] /\ \A o \in Command \ {c} : job'[o] = job[o]
  /\ ReadInv(c)'

\* What UpdateJob does.
LEMMA SetJob ==
  ASSUME TablesInv, NEW c \in Command, NEW x \in JobRow, UpdateJob(c, x),
         x.pc = "writeFactors" => x.state \in FactorRows,
         x.pc = "writeRewards" => x.state \in States,
         x.pc = "writePositions" => x.state \in PositionRows
  PROVE  Turns(c) /\ job'[c] = x
BY DEF UpdateJob, Turns, TablesInv, ReadInv

\* Where a loop goes on, or ends.
LEMMA LoopTurns ==
  ASSUME TablesInv, NEW c \in Command, NEW lo \in Nat, NEW top \in Nat, NEW again, NEW after,
         {again, after} \subseteq JobPC \ {"writeFactors", "writeRewards", "writePositions"},
         UpdateJob(c, Loop(c, lo, top, again, after))
  PROVE  /\ Turns(c)
         /\ lo <= top => job'[c].pc = again /\ job'[c].lo = lo /\ job'[c].top = top
         /\ ~ (lo <= top) => job'[c].pc = after
<1> DEFINE x == [NoJob EXCEPT !.pc = again, !.runs = job[c].runs, !.lo = lo, !.top = top]
           y == [NoJob EXCEPT !.pc = after, !.runs = job[c].runs]
<1>1. job[c].runs \in Nat
  BY DEF TablesInv, JobRow
<1>2. NoRows \in States /\ NoRows \in PositionRows /\ NoRows \in CashRows
  BY EmptyTable DEF States, PositionRows, CashRows
<1>3. /\ x \in JobRow /\ x.pc = again /\ x.lo = lo /\ x.top = top
      /\ y \in JobRow /\ y.pc = after
  BY <1>1, <1>2 DEF NoJob, JobRow
<1>4. CASE lo <= top
  <2>1. UpdateJob(c, x)
    BY <1>4 DEF Loop
  <2> HIDE DEF x
  <2>2. Turns(c) /\ job'[c] = x
    BY <1>3, <2>1, SetJob
  <2> QED BY <1>3, <1>4, <2>2
<1>5. CASE ~ (lo <= top)
  <2>1. UpdateJob(c, y)
    BY <1>5 DEF Loop
  <2> HIDE DEF y
  <2>2. Turns(c) /\ job'[c] = y
    BY <1>3, <2>1, SetJob
  <2> QED BY <1>3, <1>5, <2>2
<1> QED BY <1>4, <1>5

\* What a conflict clause makes of the rows.
LEMMA MergeTable ==
  ASSUME NEW c \in Command, NEW K, NEW V, NEW f \in Table(K, V), NEW g \in Table(K, V)
  PROVE  Merge(c, f, g) \in Table(K, V)
<1>1. Over(f, g) \in Table(K, V) /\ Over(g, f) \in Table(K, V)
  BY OverTable
<1> QED BY <1>1 DEF Merge

-----------------------------------------------------------------------------
(* The command: what each step keeps *)

\* A command is a backfill or a repair.
LEMMA Modes == \A c \in Command : Mode[c] \in {"online", "offline"}
BY ConstantsAssumption

\* While a command runs no other does, and what is said of the transactions
\* stands as long as nothing commits.
LEMMA CommandOK ==
  ASSUME RInv, NEW c \in Command, Turns(c), Rebuilding(c),
         committed' = committed, proc' = proc, switched' = switched, drift' \in BOOLEAN,
         rewardState' \in States, positions' \in PositionRows, cash' \in CashRows,
         factors' \in FactorRows,
         RowInv', SwitchInv', BatchInv(c)', RepairInv(c)'
  PROVE  RInv'
<1>1. TablesInv'
  <2>1. \A o \in Command : ReadInv(o)'
    BY DEF Turns, RInv, TablesInv, ReadInv
  <2> QED BY <2>1 DEF RInv, TablesInv, Turns
<1>2. ProcInv'
  BY DEF RInv, ProcInv, OwnRows, ReplayInv, InTransaction, Written
<1>3. \A o \in Command \ {c} : job'[o] = job[o] /\ job[o].pc \in {"off", "done"}
  BY DEF Turns, RInv, LockInv, Rebuilding
<1>4. LockInv'
  <2>1. \A o \in Command : Rebuilding(o)' => o = c
    BY <1>3 DEF Rebuilding
  <2> QED BY <2>1 DEF RInv, LockInv, InTransaction
<1>5. \A o \in Command : BatchInv(o)' /\ RepairInv(o)'
  <2>1. \A o \in Command \ {c} : BatchInv(o)'
    BY <1>3 DEF BatchInv
  <2>2. \A o \in Command \ {c} : RepairInv(o)'
    BY <1>3 DEF RepairInv, UserPhase
  <2> QED BY <2>1, <2>2
<1> QED BY <1>1, <1>2, <1>4, <1>5 DEF RInv

\* A step that only reads.
LEMMA ReadOK ==
  ASSUME RInv, NEW c \in Command, Turns(c), Rebuilding(c),
         UNCHANGED <<committed, rewardState, positions, cash, proc, rollout>>,
         factors' \in FactorRows, BatchInv(c)', RepairInv(c)'
  PROVE  RInv'
<1>1. switched' = switched /\ drift' = drift
  BY DEF rollout
<1>2. RowInv' /\ SwitchInv'
  BY <1>1 DEF RInv, RowInv, SwitchInv, Current, Written
<1>3. /\ drift' \in BOOLEAN /\ rewardState' \in States /\ positions' \in PositionRows
      /\ cash' \in CashRows
  BY <1>1 DEF RInv, TablesInv
<1> QED BY <1>1, <1>2, <1>3, CommandOK

\* A command takes the lock, or ends.
LEMMA StartCommandOK ==
  ASSUME RInv, NEW c \in Command, Start(c)
  PROVE  RInv'
<1> DEFINE at == IF Locked(c) THEN "off" ELSE "factors"
           x  == [job[c] EXCEPT !.pc = at, !.runs = @ + 1]
<1>1. UNCHANGED <<rows, proc, rollout>> /\ UpdateJob(c, x) /\ job[c].pc = "off"
  BY DEF Start
<1>2. x \in JobRow /\ x.pc \in {"off", "factors"} /\ (x.pc = "factors" => ~ Locked(c))
  <2>1. at \in {"off", "factors"}
    OBVIOUS
  <2>2. job[c] \in JobRow
    BY DEF RInv, TablesInv
  <2>3. at = "factors" => ~ Locked(c)
    OBVIOUS
  <2> HIDE DEF at
  <2>4. job[c].runs + 1 \in Nat
    BY <2>2 DEF JobRow
  <2>5. x.pc = at /\ x \in JobRow
    BY <2>1, <2>2, <2>4 DEF JobRow, JobPC
  <2> HIDE DEF x
  <2> QED BY <2>1, <2>3, <2>5
<1> HIDE DEF x
<1>3. Turns(c) /\ job'[c] = x
  BY <1>1, <1>2, SetJob DEF RInv
<1>4. /\ committed' = committed /\ rewardState' = rewardState /\ positions' = positions
      /\ cash' = cash /\ factors' = factors /\ proc' = proc /\ switched' = switched /\ drift' = drift
  BY <1>1 DEF rows, rollout
<1>5. TablesInv'
  <2>1. \A o \in Command : ReadInv(o)'
    BY <1>3 DEF Turns, RInv, TablesInv, ReadInv
  <2> QED BY <1>3, <1>4, <2>1 DEF RInv, TablesInv, Turns
<1>6. ProcInv'
  BY <1>4 DEF RInv, ProcInv, OwnRows, ReplayInv, InTransaction, Written
<1>7. LockInv'
  <2>1. Rebuilding(c)' => ~ Locked(c)
    BY <1>2, <1>3 DEF Rebuilding
  <2>2. \A o \in Command \ {c} : Rebuilding(o)' <=> Rebuilding(o)
    BY <1>3 DEF Turns, Rebuilding
  <2>3. Mode[c] = "offline" => \A t \in Writer : ~ InTransaction(t)
    BY DEF Start
  <2> QED BY <1>4, <2>1, <2>2, <2>3 DEF RInv, LockInv, Locked, InTransaction
<1>8. RowInv' /\ SwitchInv'
  BY <1>4 DEF RInv, RowInv, SwitchInv, Current, Written
<1>9. \A o \in Command : BatchInv(o)'
  <2>1. BatchInv(c)'
    BY <1>2, <1>3 DEF BatchInv
  <2>2. \A o \in Command \ {c} : BatchInv(o)'
    BY <1>3, <1>4 DEF RInv, BatchInv, Turns, Written
  <2> QED BY <2>1, <2>2
<1>10. \A o \in Command : RepairInv(o)'
  <2>1. RepairInv(c)'
    BY <1>2, <1>3 DEF RepairInv, UserPhase
  <2>2. ASSUME NEW o \in Command, o # c PROVE RepairInv(o)'
    <3>1. job'[o] = job[o] /\ RepairInv(o)
      BY <1>3, <2>2 DEF Turns, RInv
    <3>2. \A r : RewardRight(r)' <=> RewardRight(r)
      BY <1>4 DEF RewardRight, Truth
    <3>3. \A u : UserRight(u)' <=> UserRight(u)
      BY <1>4 DEF UserRight, Truth
    <3>4. RewardBatch(o)' = RewardBatch(o) /\ UserBatchOf(o)' = UserBatchOf(o)
      BY <3>1 DEF RewardBatch, UserBatchOf
    <3> QED BY <1>4, <3>1, <3>2, <3>3, <3>4 DEF RepairInv
  <2> QED BY <2>1, <2>2
<1> QED BY <1>5, <1>6, <1>7, <1>8, <1>9, <1>10 DEF RInv

\* A batch that is cut short is rolled back.
LEMMA CrashOK ==
  ASSUME RInv, NEW c \in Command, Crash(c)
  PROVE  RInv'
<1> DEFINE x == [NoJob EXCEPT !.runs = job[c].runs]
<1>1. UNCHANGED <<rows, proc, rollout>> /\ UpdateJob(c, x) /\ Rebuilding(c)
  BY DEF Crash
<1>2. x \in JobRow /\ x.pc = "off"
  <2>1. job[c].runs \in Nat
    BY DEF RInv, TablesInv, JobRow
  <2> QED BY <2>1, NoneWaits DEF NoJob, JobRow
<1> HIDE DEF x
<1>3. Turns(c) /\ job'[c] = x
  BY <1>1, <1>2, SetJob DEF RInv
<1>4. BatchInv(c)' /\ RepairInv(c)'
  BY <1>2, <1>3 DEF BatchInv, RepairInv, UserPhase
<1>5. factors' \in FactorRows
  BY <1>1 DEF RInv, TablesInv, rows
<1> QED BY <1>1, <1>3, <1>4, <1>5, ReadOK DEF rows

\* The factors are no part of what the rewards and the users are made of.
LEMMA FactorsOK ==
  ASSUME RInv, NEW c \in Command, ReadFactors(c) \/ WriteFactors(c)
  PROVE  RInv'
<1>1. CASE ReadFactors(c)
  <2> DEFINE f == [s \in Symbol |-> FactorOf(s, committed)]
             x == [job[c] EXCEPT !.pc = "writeFactors", !.state = f]
  <2>1. UNCHANGED <<rows, proc, rollout>> /\ UpdateJob(c, x) /\ job[c].pc = "factors"
    BY <1>1 DEF ReadFactors
  <2>2. f \in FactorRows
    BY FactorType DEF RInv, TablesInv
  <2> HIDE DEF f
  <2>3. x \in JobRow /\ x.pc = "writeFactors" /\ x.state = f
    BY <2>2 DEF RInv, TablesInv, JobRow, JobPC
  <2> HIDE DEF x
  <2>4. Turns(c) /\ job'[c] = x
    BY <2>1, <2>2, <2>3, SetJob DEF RInv
  <2>5. BatchInv(c)' /\ RepairInv(c)'
    BY <2>3, <2>4 DEF BatchInv, RepairInv, UserPhase
  <2>6. factors' \in FactorRows /\ Rebuilding(c)
    BY <2>1 DEF RInv, TablesInv, rows, Rebuilding
  <2> QED BY <2>1, <2>4, <2>5, <2>6, ReadOK DEF rows
<1>2. CASE WriteFactors(c)
  <2> DEFINE x == [job[c] EXCEPT !.pc = "maxReward", !.state = NoRows]
  <2>1. /\ UNCHANGED <<committed, rewardState, positions, cash, proc, rollout>>
        /\ UpdateJob(c, x) /\ job[c].pc = "writeFactors"
        /\ factors' = Merge(c, factors, job[c].state)
    BY <1>2 DEF WriteFactors
  <2>2. job[c].state \in FactorRows /\ factors \in FactorRows
    BY <2>1 DEF RInv, TablesInv, ReadInv
  <2>3. factors' \in FactorRows
    BY <2>1, <2>2, MergeTable DEF FactorRows
  <2>4. x \in JobRow /\ x.pc = "maxReward"
    <3>1. NoRows \in States
      BY EmptyTable DEF States
    <3> QED BY <3>1 DEF RInv, TablesInv, JobRow, JobPC
  <2> HIDE DEF x
  <2>5. Turns(c) /\ job'[c] = x
    BY <2>1, <2>4, SetJob DEF RInv
  <2>6. BatchInv(c)' /\ RepairInv(c)' /\ Rebuilding(c)
    BY <2>1, <2>4, <2>5 DEF BatchInv, RepairInv, UserPhase, Rebuilding
  <2> QED BY <2>1, <2>3, <2>5, <2>6, ReadOK
<1> QED BY <1>1, <1>2

\* The ids the batches walk are found by MaxID.
LEMMA BatchedIDs ==
  /\ \A S \in SUBSET Reward : MaxID(S) \in Nat /\ \A r \in S : r <= MaxID(S)
  /\ MaxID(User) \in Nat /\ \A u \in User : u <= MaxID(User)
  /\ BatchSize \in Nat \ {0} /\ UserBatch \in Nat \ {0}
<1>1. ASSUME NEW S \in SUBSET Reward PROVE MaxID(S) \in Nat /\ \A r \in S : r <= MaxID(S)
  <2>1. S \in SUBSET Nat /\ IsFiniteSet(S)
    BY ConstantsAssumption, FS_Subset
  <2> QED BY <2>1, LargestID
<1>2. User \in SUBSET Nat /\ IsFiniteSet(User)
  BY ConstantsAssumption
<1>3. MaxID(User) \in Nat /\ \A u \in User : u <= MaxID(User)
  BY <1>2, LargestID
<1> QED BY <1>1, <1>3, ConstantsAssumption

\* What a replay of all that committed makes of the rewards.
LEMMA TruthIs ==
  ASSUME RInv
  PROVE  /\ Truth \in States /\ DOMAIN Truth = {r \in Reward \ Future : Exists(r, committed)}
         /\ \A r \in DOMAIN Truth : Truth[r] = {t \in committed : Affects(t, r)}
<1>1. committed \in SUBSET Writer /\ Reward \in SUBSET Reward
  BY DEF RInv, TablesInv
<1>2. /\ Outcomes(Reward, committed) \in States
      /\ DOMAIN Outcomes(Reward, committed) = {r \in Reward \ Future : Exists(r, committed)}
      /\ \A r \in DOMAIN Outcomes(Reward, committed) :
           Outcomes(Reward, committed)[r] = {t \in committed : Affects(t, r)}
  BY <1>1, OutcomesTable
<1> QED BY <1>2 DEF Truth

\* The rewards loop begins with the first id, or there is no reward.
LEMMA StartRewardsOK ==
  ASSUME RInv, NEW c \in Command, StartRewards(c)
  PROVE  RInv'
<1> DEFINE ids == {r \in Reward : Exists(r, committed)}
<1>1. /\ UNCHANGED <<rows, proc, rollout>> /\ job[c].pc = "maxReward"
      /\ UpdateJob(c, Loop(c, 1, MaxID(ids), "readRewards", "maxUser"))
  BY DEF StartRewards
<1>2. MaxID(ids) \in Nat /\ \A r \in ids : r <= MaxID(ids)
  BY BatchedIDs
<1>3. /\ Turns(c)
      /\ 1 <= MaxID(ids) => job'[c].pc = "readRewards" /\ job'[c].lo = 1 /\ job'[c].top = MaxID(ids)
      /\ ~ (1 <= MaxID(ids)) => job'[c].pc = "maxUser"
  <2> HIDE DEF ids
  <2> QED BY <1>1, <1>2, LoopTurns DEF RInv, JobPC
<1>4. /\ committed' = committed /\ rewardState' = rewardState /\ factors' = factors
  BY <1>1 DEF rows
<1>5. \A r \in Reward : r \in Nat /\ r >= 1
  BY ConstantsAssumption
<1>6. RepairInv(c)'
  <2>1. CASE 1 <= MaxID(ids)
    <3>1. \A r \in Reward : ~ (r < 1)
      BY <1>5
    <3>2. ids' = ids
      BY <1>4
    <3> HIDE DEF ids
    <3>3. job'[c].top = MaxID(ids')
      BY <1>3, <2>1, <3>2
    <3>4. job'[c].pc = "readRewards" /\ \A r \in Reward : ~ (r < job'[c].lo)
      BY <1>3, <2>1, <3>1
    <3> QED BY <3>3, <3>4 DEF RepairInv, UserPhase, ids
  <2>2. CASE ~ (1 <= MaxID(ids))
    <3>1. ASSUME NEW r \in Reward PROVE ~ Exists(r, committed)
      <4>1. r \notin ids
        BY <1>2, <1>5, <2>2
      <4> QED BY <4>1
    <3>2. ASSUME NEW r \in Reward PROVE RewardRight(r)'
      <4>1. r \notin DOMAIN rewardState
        BY <3>1 DEF RInv, RowInv
      <4>2. r \notin DOMAIN Truth
        BY <3>1, TruthIs
      <4>3. Truth' = Truth
        BY <1>4 DEF Truth
      <4> QED BY <1>4, <4>1, <4>2, <4>3 DEF RewardRight
    <3> QED BY <1>3, <2>2, <3>2 DEF RepairInv, UserPhase
  <2> QED BY <2>1, <2>2
<1>7. BatchInv(c)' /\ Rebuilding(c)
  BY <1>1, <1>3 DEF BatchInv, Rebuilding
<1>8. factors' \in FactorRows
  BY <1>4 DEF RInv, TablesInv
<1> QED BY <1>1, <1>3, <1>6, <1>7, <1>8, ReadOK DEF rows

\* A batch of rewards is read with all that was written to them.
LEMMA ReadRewardsOK ==
  ASSUME RInv, NEW c \in Command, ReadRewards(c)
  PROVE  RInv'
<1> DEFINE f == Outcomes(RewardBatch(c), committed)
           x == [job[c] EXCEPT !.pc = "writeRewards", !.state = f]
<1>1. UNCHANGED <<rows, proc, rollout>> /\ job[c].pc = "readRewards" /\ UpdateJob(c, x)
  BY DEF ReadRewards
<1>2. /\ f \in States /\ DOMAIN f = {r \in RewardBatch(c) \ Future : Exists(r, committed)}
      /\ \A r \in DOMAIN f : f[r] = {t \in committed : Affects(t, r)}
  <2>1. RewardBatch(c) \in SUBSET Reward /\ committed \in SUBSET Writer
    BY DEF RInv, TablesInv, RewardBatch
  <2> QED BY <2>1, OutcomesTable
<1>3. RewardBatch(c) \subseteq Reward
  BY DEF RewardBatch
<1> HIDE DEF f
<1>4. /\ x \in JobRow /\ x.pc = "writeRewards" /\ x.state = f
      /\ x.lo = job[c].lo /\ x.top = job[c].top
  <2>1. job[c] \in JobRow
    BY DEF RInv, TablesInv
  <2> QED BY <1>2, <2>1 DEF JobRow, JobPC
<1> HIDE DEF x
<1>5. Turns(c) /\ job'[c] = x
  BY <1>1, <1>2, <1>4, SetJob DEF RInv
<1>6. /\ committed' = committed /\ rewardState' = rewardState /\ factors' = factors
  BY <1>1 DEF rows
<1>7. BatchInv(c)'
  BY <1>2, <1>3, <1>4, <1>5, <1>6 DEF BatchInv, Written
<1>8. RepairInv(c)'
  <2>1. RewardBatch(c)' = RewardBatch(c) /\ \A r : RewardRight(r)' <=> RewardRight(r)
    BY <1>4, <1>5, <1>6 DEF RewardBatch, RewardRight, Truth
  <2>2. f = Outcomes(RewardBatch(c)', committed')
    BY <1>6, <2>1 DEF f
  <2>3. RepairInv(c)
    BY DEF RInv
  <2> QED BY <1>1, <1>4, <1>5, <1>6, <2>1, <2>2, <2>3 DEF RepairInv, UserPhase
<1>9. factors' \in FactorRows /\ Rebuilding(c)
  BY <1>1, <1>6 DEF RInv, TablesInv, Rebuilding
<1> QED BY <1>1, <1>5, <1>7, <1>8, <1>9, ReadOK DEF rows

\* A batch writes no row over a fresher one, and a repair makes its rewards right.
LEMMA WriteRewardsOK ==
  ASSUME RInv, NEW c \in Command, WriteRewards(c)
  PROVE  RInv'
<1> DEFINE batch == RewardBatch(c)
           f     == job[c].state
           lo    == job[c].lo + BatchSize
           top   == job[c].top
           gone  == Stale(c, batch \cap Future)
           merged == Merge(c, rewardState, f)
<1>1. /\ UNCHANGED <<committed, positions, cash, factors, proc, rollout>>
      /\ job[c].pc = "writeRewards"
      /\ rewardState' = Without(merged, gone)
      /\ UpdateJob(c, Loop(c, lo, top, "readRewards", "maxUser"))
  BY DEF WriteRewards
<1>2. /\ job[c].lo \in Nat /\ top \in Nat /\ f \in States /\ rewardState \in States
      /\ committed \in SUBSET Writer /\ batch \in SUBSET Reward
  BY <1>1 DEF RInv, TablesInv, JobRow, ReadInv, RewardBatch
<1>3. /\ merged \in States /\ DOMAIN merged = DOMAIN rewardState \cup DOMAIN f
      /\ Mode[c] = "online" =>
           /\ \A k \in DOMAIN rewardState : merged[k] = rewardState[k]
           /\ \A k \in DOMAIN f \ DOMAIN rewardState : merged[k] = f[k]
      /\ Mode[c] # "online" =>
           /\ \A k \in DOMAIN f : merged[k] = f[k]
           /\ \A k \in DOMAIN rewardState \ DOMAIN f : merged[k] = rewardState[k]
  <2> HIDE DEF f
  <2>1. merged \in States
    BY <1>2, MergeTable DEF States
  <2>2. /\ DOMAIN Over(rewardState, f) = DOMAIN rewardState \cup DOMAIN f
        /\ \A k \in DOMAIN rewardState : Over(rewardState, f)[k] = rewardState[k]
        /\ \A k \in DOMAIN f \ DOMAIN rewardState : Over(rewardState, f)[k] = f[k]
    BY OverRows
  <2>3. /\ DOMAIN Over(f, rewardState) = DOMAIN f \cup DOMAIN rewardState
        /\ \A k \in DOMAIN f : Over(f, rewardState)[k] = f[k]
        /\ \A k \in DOMAIN rewardState \ DOMAIN f : Over(f, rewardState)[k] = rewardState[k]
    BY OverRows
  <2>4. merged = IF Mode[c] = "online" THEN Over(rewardState, f) ELSE Over(f, rewardState)
    BY DEF Merge
  <2> HIDE DEF merged, Over
  <2>5. CASE Mode[c] = "online"
    BY <2>1, <2>2, <2>4, <2>5
  <2>6. CASE Mode[c] # "online"
    BY <2>1, <2>3, <2>4, <2>6
  <2> QED BY <2>5, <2>6
<1> HIDE DEF merged
<1>4. /\ rewardState' \in States /\ DOMAIN rewardState' = DOMAIN merged \ gone
      /\ \A k \in DOMAIN rewardState' : rewardState'[k] = merged[k]
  <2> HIDE DEF gone
  <2>1. /\ DOMAIN Without(merged, gone) = DOMAIN merged \ gone
        /\ \A k \in DOMAIN merged \ gone : Without(merged, gone)[k] = merged[k]
    BY WithoutRows
  <2>2. Without(merged, gone) \in States
    BY <1>3, WithoutTable DEF States
  <2> QED BY <1>1, <2>1, <2>2
<1>5. gone \subseteq Future /\ (Mode[c] = "offline" => gone = batch \cap Future)
  BY DEF Stale
<1>6. lo \in Nat
  BY <1>2, BatchedIDs
<1>7. /\ Turns(c)
      /\ lo <= top => job'[c].pc = "readRewards" /\ job'[c].lo = lo /\ job'[c].top = top
      /\ ~ (lo <= top) => job'[c].pc = "maxUser"
  <2> HIDE DEF lo, top
  <2> QED BY <1>1, <1>2, <1>6, LoopTurns DEF RInv, JobPC
<1>8. /\ committed' = committed /\ proc' = proc /\ positions' = positions /\ cash' = cash
      /\ factors' = factors /\ switched' = switched /\ drift' = drift
  BY <1>1 DEF rollout
<1>9. Mode[c] = "offline" => f = Outcomes(batch, committed)
  BY <1>1 DEF RInv, RepairInv
<1>10. /\ DOMAIN Outcomes(batch, committed) = {r \in batch \ Future : Exists(r, committed)}
       /\ \A r \in DOMAIN Outcomes(batch, committed) :
            Outcomes(batch, committed)[r] = {t \in committed : Affects(t, r)}
  <2> HIDE DEF batch
  <2> QED BY <1>2, OutcomesTable
<1>11. \A r \in DOMAIN f : /\ r \in Reward \ Future /\ Exists(r, committed)
                           /\ r \in DOMAIN rewardState \/ Written(r) \subseteq f[r]
  BY <1>1 DEF RInv, BatchInv
<1>12. Mode[c] \in {"online", "offline"}
  BY Modes
<1> HIDE DEF batch, f, lo, top, gone
<1>13. Mode[c] = "offline" => \A r \in DOMAIN f : Written(r) \subseteq f[r]
  BY <1>9, <1>10 DEF Written
<1>14. \A r \in DOMAIN f : r \in DOMAIN rewardState' => merged[r] = f[r] \/ r \in DOMAIN rewardState
  BY <1>3
<1>15. RowInv'
  <2>1. \A r \in DOMAIN rewardState' : r \in Reward /\ Exists(r, committed)
    BY <1>3, <1>4, <1>11 DEF RInv, RowInv
  <2>2. ASSUME ~ drift, NEW r \in DOMAIN rewardState'
        PROVE  r \notin Future /\ Written(r) \subseteq rewardState'[r]
    <3>1. r \in DOMAIN rewardState => r \notin Future /\ Written(r) \subseteq rewardState[r]
      BY <2>2 DEF RInv, RowInv
    <3>2. rewardState'[r] = merged[r] /\ r \in DOMAIN merged
      BY <1>4
    <3>3. CASE Mode[c] = "online"
      BY <1>3, <1>11, <3>1, <3>2, <3>3
    <3>4. CASE Mode[c] = "offline"
      BY <1>3, <1>11, <1>13, <3>1, <3>2, <3>4
    <3> QED BY <1>12, <3>3, <3>4
  <2>3. \A r : Written(r)' = Written(r)
    BY <1>8 DEF Written
  <2> QED BY <1>8, <2>1, <2>2, <2>3 DEF RowInv
<1>16. SwitchInv'
  <2>1. Current' = Current /\ Current \cap Future = {}
    BY <1>8 DEF Current
  <2>2. DOMAIN rewardState \ Future \subseteq DOMAIN rewardState'
    BY <1>3, <1>4, <1>5
  <2> QED BY <1>8, <2>1, <2>2 DEF RInv, SwitchInv
<1>17. BatchInv(c)'
  BY <1>7 DEF BatchInv
<1>18. ASSUME Mode[c] = "offline" PROVE \A r \in Reward : r < lo => RewardRight(r)'
  <2> SUFFICES ASSUME NEW r \in Reward, r < lo PROVE RewardRight(r)'
    OBVIOUS
  <2>1. Truth' = Truth
    BY <1>8 DEF Truth
  <2>2. /\ DOMAIN Truth = {x \in Reward \ Future : Exists(x, committed)}
        /\ \A x \in DOMAIN Truth : Truth[x] = {t \in committed : Affects(t, x)}
    BY TruthIs
  <2>3. r \in Nat
    BY ConstantsAssumption
  <2>4. CASE r < job[c].lo
    <3>1. RewardRight(r)
      BY <1>1, <1>18, <2>4 DEF RInv, RepairInv
    <3>2. r \notin batch
      BY <1>2, <2>3, <2>4 DEF batch, RewardBatch
    <3>3. r \notin DOMAIN f /\ r \notin gone
      BY <1>5, <1>9, <1>10, <1>18, <3>2
    <3>4. /\ r \in DOMAIN rewardState' <=> r \in DOMAIN rewardState
          /\ r \in DOMAIN rewardState => rewardState'[r] = rewardState[r]
      BY <1>3, <1>4, <1>18, <3>3
    <3> QED BY <2>1, <3>1, <3>4 DEF RewardRight
  <2>5. CASE ~ (r < job[c].lo)
    <3>1. r \in batch
      BY <1>2, <2>3, <2>5, BatchedIDs DEF batch, RewardBatch, lo
    <3>2. r \in DOMAIN rewardState => Exists(r, committed)
      BY DEF RInv, RowInv
    <3>3. r \in DOMAIN f <=> r \in DOMAIN Truth
      BY <1>9, <1>10, <1>18, <2>2, <3>1
    <3>4. r \in DOMAIN rewardState' <=> r \in DOMAIN Truth
      BY <1>3, <1>4, <1>5, <1>18, <2>2, <3>1, <3>2, <3>3
    <3>5. r \in DOMAIN Truth => rewardState'[r] = Truth[r]
      BY <1>3, <1>4, <1>9, <1>10, <1>18, <2>2, <3>3, <3>4
    <3> QED BY <2>1, <3>4, <3>5 DEF RewardRight
  <2> QED BY <2>4, <2>5
<1>19. RepairInv(c)'
  <2> SUFFICES ASSUME Mode[c] = "offline" PROVE RepairInv(c)'
    BY DEF RepairInv
  <2> DEFINE ids == {r \in Reward : Exists(r, committed)}
  <2>1. top = MaxID(ids) /\ ids' = ids
    BY <1>1, <1>8 DEF RInv, RepairInv, top
  <2>2. CASE lo <= top
    <3> HIDE DEF ids
    <3>1. job'[c].top = MaxID(ids')
      BY <1>7, <2>1, <2>2
    <3>2. job'[c].pc = "readRewards" /\ \A r \in Reward : r < job'[c].lo => RewardRight(r)'
      BY <1>7, <1>18, <2>2
    <3> QED BY <3>1, <3>2 DEF RepairInv, UserPhase, ids
  <2>3. CASE ~ (lo <= top)
    <3>1. ASSUME NEW r \in Reward PROVE RewardRight(r)'
      <4>1. CASE r < lo
        BY <1>18, <4>1
      <4>2. CASE ~ (r < lo)
        <5>1. ~ Exists(r, committed)
          <6>1. r \in Nat /\ (r \in ids => r <= top)
            BY <2>1, BatchedIDs, ConstantsAssumption
          <6>2. r \notin ids
            BY <1>2, <1>6, <2>3, <4>2, <6>1
          <6> QED BY <6>2
        <5>2. r \notin DOMAIN rewardState'
          BY <1>8, <1>15, <5>1 DEF RowInv
        <5>3. r \notin DOMAIN Truth
          BY <5>1, TruthIs
        <5>4. Truth' = Truth
          BY <1>8 DEF Truth
        <5> QED BY <5>2, <5>3, <5>4 DEF RewardRight
      <4> QED BY <4>1, <4>2
    <3> QED BY <1>7, <2>3, <3>1 DEF RepairInv, UserPhase
  <2> QED BY <2>2, <2>3
<1>20. /\ Rebuilding(c) /\ drift' \in BOOLEAN
       /\ positions' \in PositionRows /\ cash' \in CashRows /\ factors' \in FactorRows
  BY <1>1, <1>8 DEF Rebuilding, RInv, TablesInv
<1> QED BY <1>4, <1>7, <1>8, <1>15, <1>16, <1>17, <1>19, <1>20, CommandOK

\* The users loop begins with the first id, or there is no user.
LEMMA StartUsersOK ==
  ASSUME RInv, NEW c \in Command, StartUsers(c)
  PROVE  RInv'
<1> DEFINE top == MaxID(User)
<1>1. /\ UNCHANGED <<rows, proc, rollout>> /\ job[c].pc = "maxUser"
      /\ UpdateJob(c, Loop(c, 1, top, "readPositions", "finish"))
  BY DEF StartUsers
<1>2. top \in Nat /\ \A u \in User : u <= top /\ u \in Nat /\ u >= 1
  BY BatchedIDs, ConstantsAssumption
<1> HIDE DEF top
<1>3. /\ Turns(c)
      /\ 1 <= top => job'[c].pc = "readPositions" /\ job'[c].lo = 1 /\ job'[c].top = top
      /\ ~ (1 <= top) => job'[c].pc = "finish"
  BY <1>1, <1>2, LoopTurns DEF RInv, JobPC
<1>4. /\ committed' = committed /\ rewardState' = rewardState /\ factors' = factors
  BY <1>1 DEF rows
<1>5. \A r : RewardRight(r)' <=> RewardRight(r)
  BY <1>4 DEF RewardRight, Truth
<1>6. RepairInv(c)'
  <2>1. Mode[c] = "offline" => \A r \in Reward : RewardRight(r)'
    BY <1>1, <1>5 DEF RInv, RepairInv, UserPhase
  <2>2. CASE 1 <= top
    <3>1. job'[c].pc = "readPositions" /\ job'[c].top = MaxID(User)
      BY <1>3, <2>2 DEF top
    <3>2. \A u \in User : ~ (u < job'[c].lo)
      BY <1>2, <1>3, <2>2
    <3> QED BY <2>1, <3>1, <3>2 DEF RepairInv, UserPhase
  <2>3. CASE ~ (1 <= top)
    <3>1. User = {}
      BY <1>2, <2>3
    <3> QED BY <1>3, <2>1, <2>3, <3>1 DEF RepairInv, UserPhase
  <2> QED BY <2>2, <2>3
<1>7. BatchInv(c)' /\ Rebuilding(c)
  BY <1>1, <1>3 DEF BatchInv, Rebuilding
<1>8. factors' \in FactorRows
  BY <1>4 DEF RInv, TablesInv
<1> QED BY <1>1, <1>3, <1>6, <1>7, <1>8, ReadOK DEF rows

\* A read of the user batch: the rest of the command's state stands.
LEMMA ReadUsersOK ==
  ASSUME RInv, NEW c \in Command, Turns(c), UNCHANGED <<rows, proc, rollout>>,
         job[c].pc \in {"readPositions", "writePositions", "readCash"},
         job'[c].pc \in {"writePositions", "readCash", "writeCash"},
         job'[c].lo = job[c].lo, job'[c].top = job[c].top,
         Mode[c] = "offline" /\ job'[c].pc = "writePositions" =>
           job'[c].state = PositionsOf(UserBatchOf(c), rewardState),
         Mode[c] = "offline" /\ job'[c].pc \in {"readCash", "writeCash"} =>
           job'[c].positions = PositionsOf(UserBatchOf(c), rewardState),
         Mode[c] = "offline" /\ job'[c].pc = "writeCash" =>
           job'[c].cash = CashOf(UserBatchOf(c), rewardState)
  PROVE  RInv'
<1>1. /\ committed' = committed /\ rewardState' = rewardState /\ factors' = factors
      /\ positions' = positions /\ cash' = cash
  BY DEF rows
<1>2. \A r : RewardRight(r)' <=> RewardRight(r)
  BY <1>1 DEF RewardRight, Truth
<1>3. \A u : UserRight(u)' <=> UserRight(u)
  BY <1>1 DEF UserRight, Truth
<1>4. UserBatchOf(c)' = UserBatchOf(c)
  BY DEF UserBatchOf
<1>5. RepairInv(c)'
  <2> SUFFICES ASSUME Mode[c] = "offline" PROVE RepairInv(c)'
    BY DEF RepairInv
  <2>1. /\ \A r \in Reward : RewardRight(r)
        /\ job[c].top = MaxID(User) /\ \A u \in User : u < job[c].lo => UserRight(u)
    BY DEF RInv, RepairInv, UserPhase
  <2> QED BY <1>1, <1>2, <1>3, <1>4, <2>1 DEF RepairInv, UserPhase
<1>6. BatchInv(c)' /\ Rebuilding(c)
  BY DEF BatchInv, Rebuilding
<1>7. factors' \in FactorRows
  BY <1>1 DEF RInv, TablesInv
<1> QED BY <1>1, <1>5, <1>6, <1>7, ReadOK

LEMMA ReadPositionsOK ==
  ASSUME RInv, NEW c \in Command, ReadPositions(c)
  PROVE  RInv'
<1> DEFINE f == PositionsOf(UserBatchOf(c), rewardState)
           x == [job[c] EXCEPT !.pc = "writePositions", !.state = f]
<1>1. UNCHANGED <<rows, proc, rollout>> /\ job[c].pc = "readPositions" /\ UpdateJob(c, x)
  BY DEF ReadPositions
<1>2. f \in PositionRows
  <2>1. UserBatchOf(c) \in SUBSET User /\ rewardState \in States
    BY DEF RInv, TablesInv, UserBatchOf
  <2> QED BY <2>1, PositionsTable
<1> HIDE DEF f
<1>3. /\ x \in JobRow /\ x.pc = "writePositions" /\ x.state = f
      /\ x.lo = job[c].lo /\ x.top = job[c].top
  <2>1. job[c] \in JobRow
    BY DEF RInv, TablesInv
  <2> QED BY <1>2, <2>1 DEF JobRow, JobPC
<1> HIDE DEF x
<1>4. Turns(c) /\ job'[c] = x
  BY <1>1, <1>2, <1>3, SetJob DEF RInv
<1>5. job'[c].state = PositionsOf(UserBatchOf(c), rewardState)
  BY <1>3, <1>4 DEF f
<1> QED BY <1>1, <1>3, <1>4, <1>5, ReadUsersOK

\* A repair keeps every row it has read.
LEMMA WritePositionsOK ==
  ASSUME RInv, NEW c \in Command, WritePositions(c)
  PROVE  RInv'
<1> DEFINE f == job[c].state
           kept == Without(f, {k \in DOMAIN f : Merge(c, positions, f)[k] # f[k]})
           x == [job[c] EXCEPT !.pc = "readCash", !.state = NoRows, !.positions = kept]
<1>1. UNCHANGED <<rows, proc, rollout>> /\ job[c].pc = "writePositions" /\ UpdateJob(c, x)
  BY DEF WritePositions
<1>2. f \in PositionRows /\ job[c] \in JobRow
  BY <1>1 DEF RInv, TablesInv, ReadInv
<1> HIDE DEF f
<1>3. kept \in PositionRows
  BY <1>2, WithoutTable DEF PositionRows
<1>4. Mode[c] = "offline" => kept = f
  <2> SUFFICES ASSUME Mode[c] = "offline" PROVE kept = f
    OBVIOUS
  <2>1. Merge(c, positions, f) = Over(f, positions)
    BY DEF Merge
  <2>2. \A k \in DOMAIN f : Over(f, positions)[k] = f[k]
    BY OverRows
  <2>3. {k \in DOMAIN f : Merge(c, positions, f)[k] # f[k]} = {}
    BY <2>1, <2>2
  <2>4. kept = Without(f, {})
    BY <2>3
  <2>5. f = [k \in DOMAIN f |-> f[k]]
    BY <1>2, InTable DEF PositionRows
  <2> HIDE DEF kept
  <2> QED BY <2>4, <2>5 DEF Without
<1> HIDE DEF kept
<1>5. /\ x \in JobRow /\ x.pc = "readCash" /\ x.positions = kept
      /\ x.lo = job[c].lo /\ x.top = job[c].top
  <2>1. NoRows \in States
    BY EmptyTable DEF States
  <2> QED BY <1>2, <1>3, <2>1 DEF JobRow, JobPC
<1> HIDE DEF x
<1>6. Turns(c) /\ job'[c] = x
  BY <1>1, <1>5, SetJob DEF RInv
<1>7. Mode[c] = "offline" => f = PositionsOf(UserBatchOf(c), rewardState)
  BY <1>1 DEF RInv, RepairInv, f
<1> QED BY <1>1, <1>4, <1>5, <1>6, <1>7, ReadUsersOK

LEMMA ReadCashOK ==
  ASSUME RInv, NEW c \in Command, ReadCash(c)
  PROVE  RInv'
<1> DEFINE f == CashOf(UserBatchOf(c), rewardState)
           x == [job[c] EXCEPT !.pc = "writeCash", !.cash = f]
<1>1. UNCHANGED <<rows, proc, rollout>> /\ job[c].pc = "readCash" /\ UpdateJob(c, x)
  BY DEF ReadCash
<1>2. f \in CashRows
  <2>1. UserBatchOf(c) \in SUBSET User /\ rewardState \in States
    BY DEF RInv, TablesInv, UserBatchOf
  <2> QED BY <2>1, CashTable
<1> HIDE DEF f
<1>3. /\ x \in JobRow /\ x.pc = "writeCash" /\ x.cash = f /\ x.positions = job[c].positions
      /\ x.lo = job[c].lo /\ x.top = job[c].top
  <2>1. job[c] \in JobRow
    BY DEF RInv, TablesInv
  <2> QED BY <1>2, <2>1 DEF JobRow, JobPC
<1> HIDE DEF x
<1>4. Turns(c) /\ job'[c] = x
  BY <1>1, <1>3, SetJob DEF RInv
<1>5. job'[c].cash = CashOf(UserBatchOf(c), rewardState)
  BY <1>3, <1>4 DEF f
<1>6. Mode[c] = "offline" => job[c].positions = PositionsOf(UserBatchOf(c), rewardState)
  BY <1>1 DEF RInv, RepairInv
<1> QED BY <1>1, <1>3, <1>4, <1>5, <1>6, ReadUsersOK

\* Rewards that are all right are the replay of all that committed.
LEMMA RewardsAreTruth ==
  ASSUME RInv, \A r \in Reward : RewardRight(r)
  PROVE  rewardState = Truth
<1>1. rewardState \in Table(Reward, SUBSET Writer) /\ Truth \in Table(Reward, SUBSET Writer)
  BY TruthIs DEF RInv, TablesInv, States
<1>2. \A r \in Reward : /\ r \in DOMAIN rewardState <=> r \in DOMAIN Truth
                        /\ r \in DOMAIN Truth => rewardState[r] = Truth[r]
  BY DEF RewardRight
<1> HIDE DEF Truth
<1> DEFINE V == SUBSET Writer
<1> HIDE DEF V
<1>3. rewardState \in Table(Reward, V) /\ Truth \in Table(Reward, V)
  BY <1>1 DEF V
<1> QED BY <1>2, <1>3, SameTable

\* A repair makes the rows of its users right.
LEMMA WriteCashOK ==
  ASSUME RInv, NEW c \in Command, WriteCash(c)
  PROVE  RInv'
<1> DEFINE users == UserBatchOf(c)
           held  == PositionsOf(users, rewardState)
           owed  == CashOf(users, rewardState)
           lo    == job[c].lo + UserBatch
           top   == job[c].top
           gone  == Stale(c, KeysOf(users, positions) \ DOMAIN held)
           left  == Stale(c, users \ DOMAIN owed)
           pos   == Over(job[c].positions, positions)
           csh   == Merge(c, cash, job[c].cash)
<1>1. /\ UNCHANGED <<committed, rewardState, factors, proc, rollout>>
      /\ job[c].pc = "writeCash"
      /\ positions' = Without(pos, gone)
      /\ cash' = Without(csh, left)
      /\ UpdateJob(c, Loop(c, lo, top, "readPositions", "finish"))
  BY DEF WriteCash
<1>2. /\ job[c].lo \in Nat /\ top \in Nat /\ job[c].positions \in PositionRows
      /\ job[c].cash \in CashRows /\ positions \in PositionRows /\ cash \in CashRows
      /\ rewardState \in States /\ users \in SUBSET User
  BY DEF RInv, TablesInv, JobRow, UserBatchOf
<1>3. pos \in PositionRows /\ csh \in CashRows
  BY <1>2, OverTable, MergeTable DEF PositionRows, CashRows
<1>4. positions' \in PositionRows /\ cash' \in CashRows
  <2> HIDE DEF pos, csh, gone, left
  <2>1. Without(pos, gone) \in PositionRows
    BY <1>3, WithoutTable DEF PositionRows
  <2>2. Without(csh, left) \in CashRows
    BY <1>3, WithoutTable DEF CashRows
  <2> QED BY <1>1, <2>1, <2>2
<1>5. lo \in Nat
  BY <1>2, BatchedIDs
<1>6. /\ Turns(c)
      /\ lo <= top => job'[c].pc = "readPositions" /\ job'[c].lo = lo /\ job'[c].top = top
      /\ ~ (lo <= top) => job'[c].pc = "finish"
  <2> HIDE DEF lo, top
  <2> QED BY <1>1, <1>2, <1>5, LoopTurns DEF RInv, JobPC
<1>7. /\ committed' = committed /\ rewardState' = rewardState /\ factors' = factors
      /\ proc' = proc /\ switched' = switched /\ drift' = drift
  BY <1>1 DEF rollout
<1>8. RowInv' /\ SwitchInv' /\ BatchInv(c)' /\ Rebuilding(c)
  BY <1>1, <1>6, <1>7
  DEF RInv, RowInv, SwitchInv, Current, Written, BatchInv, Rebuilding
<1>9. ASSUME Mode[c] = "offline" PROVE \A u \in User : u < lo => UserRight(u)'
  <2> SUFFICES ASSUME NEW u \in User, u < lo PROVE UserRight(u)'
    OBVIOUS
  <2>1. /\ job[c].positions = held /\ job[c].cash = owed
        /\ \A x \in User : x < job[c].lo => UserRight(x)
        /\ \A r \in Reward : RewardRight(r)
    BY <1>1, <1>9 DEF RInv, RepairInv, UserPhase
  <2>2. rewardState = Truth /\ Truth' = Truth
    BY <1>7, <2>1, RewardsAreTruth DEF Truth
  <2>3. pos = Over(held, positions) /\ csh = Over(owed, cash)
    BY <1>9, <2>1 DEF Merge
  <2>4. gone = KeysOf(users, positions) \ DOMAIN held /\ left = users \ DOMAIN owed
    BY <1>9 DEF Stale
  <2>5. /\ DOMAIN Over(held, positions) = DOMAIN held \cup DOMAIN positions
        /\ \A k \in DOMAIN held : Over(held, positions)[k] = held[k]
        /\ \A k \in DOMAIN positions \ DOMAIN held : Over(held, positions)[k] = positions[k]
    <3> HIDE DEF held
    <3> QED BY OverRows
  <2>6. /\ DOMAIN Over(owed, cash) = DOMAIN owed \cup DOMAIN cash
        /\ \A k \in DOMAIN owed : Over(owed, cash)[k] = owed[k]
        /\ \A k \in DOMAIN cash \ DOMAIN owed : Over(owed, cash)[k] = cash[k]
    <3> HIDE DEF owed
    <3> QED BY OverRows
  <2> DEFINE All == PositionsOf(User, rewardState)
             Sum == CashOf(User, rewardState)
  <2>7. /\ \A x \in users, s \in Symbol :
             /\ <<x, s>> \in DOMAIN held <=> <<x, s>> \in DOMAIN All
             /\ <<x, s>> \in DOMAIN held => held[<<x, s>>] = All[<<x, s>>]
        /\ \A k \in DOMAIN held : k[1] \in users
    <3> HIDE DEF users
    <3> QED BY <1>2, PositionsTable
  <2>8. /\ \A x \in users : /\ x \in DOMAIN owed <=> x \in DOMAIN Sum
                            /\ x \in DOMAIN owed => owed[x] = Sum[x]
        /\ DOMAIN owed \subseteq users
    <3> HIDE DEF users
    <3> QED BY <1>2, CashTable
  <2>9. UserRight(u) <=>
          /\ \A s \in Symbol :
               /\ <<u, s>> \in DOMAIN positions <=> <<u, s>> \in DOMAIN All
               /\ <<u, s>> \in DOMAIN positions => positions[<<u, s>>] = All[<<u, s>>]
          /\ u \in DOMAIN cash <=> u \in DOMAIN Sum
          /\ u \in DOMAIN cash => cash[u] = Sum[u]
    BY <2>2 DEF UserRight
  <2>10. UserRight(u)' <=>
          /\ \A s \in Symbol :
               /\ <<u, s>> \in DOMAIN positions' <=> <<u, s>> \in DOMAIN All
               /\ <<u, s>> \in DOMAIN positions' => positions'[<<u, s>>] = All[<<u, s>>]
          /\ u \in DOMAIN cash' <=> u \in DOMAIN Sum
          /\ u \in DOMAIN cash' => cash'[u] = Sum[u]
    BY <2>2 DEF UserRight
  <2> HIDE DEF All, Sum, held, owed, gone, left, pos, csh
  <2>11. /\ DOMAIN positions' = DOMAIN pos \ gone
         /\ \A k \in DOMAIN pos \ gone : positions'[k] = pos[k]
         /\ DOMAIN cash' = DOMAIN csh \ left
         /\ \A k \in DOMAIN csh \ left : cash'[k] = csh[k]
    <3>1. /\ DOMAIN Without(pos, gone) = DOMAIN pos \ gone
          /\ \A k \in DOMAIN pos \ gone : Without(pos, gone)[k] = pos[k]
      BY WithoutRows
    <3>2. /\ DOMAIN Without(csh, left) = DOMAIN csh \ left
          /\ \A k \in DOMAIN csh \ left : Without(csh, left)[k] = csh[k]
      BY WithoutRows
    <3> QED BY <1>1, <3>1, <3>2
  <2>12. /\ DOMAIN positions' = (DOMAIN held \cup DOMAIN positions) \ gone
         /\ \A k \in DOMAIN held \ gone : positions'[k] = held[k]
         /\ \A k \in DOMAIN positions \ (DOMAIN held \cup gone) : positions'[k] = positions[k]
    <3> HIDE DEF Over
    <3> QED BY <2>3, <2>5, <2>11
  <2>13. /\ DOMAIN cash' = (DOMAIN owed \cup DOMAIN cash) \ left
         /\ \A k \in DOMAIN owed \ left : cash'[k] = owed[k]
         /\ \A k \in DOMAIN cash \ (DOMAIN owed \cup left) : cash'[k] = cash[k]
    <3> HIDE DEF Over
    <3> QED BY <2>3, <2>6, <2>11
  <2> HIDE DEF users
  <2>14. CASE u \in users
    <3>1. ASSUME NEW s \in Symbol
          PROVE  /\ <<u, s>> \in DOMAIN positions' <=> <<u, s>> \in DOMAIN All
                 /\ <<u, s>> \in DOMAIN positions' => positions'[<<u, s>>] = All[<<u, s>>]
      <4>1. <<u, s>> \in gone <=> <<u, s>> \in DOMAIN positions /\ <<u, s>> \notin DOMAIN held
        BY <2>4, <2>14 DEF KeysOf
      <4> QED BY <2>7, <2>12, <2>14, <4>1
    <3>2. /\ u \in DOMAIN cash' <=> u \in DOMAIN Sum
          /\ u \in DOMAIN cash' => cash'[u] = Sum[u]
      BY <2>4, <2>8, <2>13, <2>14
    <3> QED BY <2>10, <3>1, <3>2
  <2>15. CASE u \notin users
    <3>1. u \in Nat
      BY ConstantsAssumption
    <3>2. u < job[c].lo
      BY <1>2, <2>15, <3>1, BatchedIDs DEF users, UserBatchOf, lo
    <3>3. UserRight(u)
      BY <2>1, <3>2
    <3>4. ASSUME NEW s \in Symbol
          PROVE  /\ <<u, s>> \in DOMAIN positions' <=> <<u, s>> \in DOMAIN positions
                 /\ <<u, s>> \in DOMAIN positions => positions'[<<u, s>>] = positions[<<u, s>>]
      <4>1. <<u, s>> \notin DOMAIN held /\ <<u, s>> \notin gone
        BY <2>4, <2>7, <2>15 DEF KeysOf
      <4> QED BY <2>12, <4>1
    <3>5. /\ u \in DOMAIN cash' <=> u \in DOMAIN cash
          /\ u \in DOMAIN cash => cash'[u] = cash[u]
      BY <2>4, <2>8, <2>13, <2>15
    <3> QED BY <2>9, <2>10, <3>3, <3>4, <3>5
  <2> QED BY <2>14, <2>15
<1>10. RepairInv(c)'
  <2> SUFFICES ASSUME Mode[c] = "offline" PROVE RepairInv(c)'
    BY DEF RepairInv
  <2>1. top = MaxID(User) /\ \A r \in Reward : RewardRight(r)
    BY <1>1 DEF RInv, RepairInv, UserPhase
  <2>2. \A r \in Reward : RewardRight(r)'
    BY <1>7, <2>1 DEF RewardRight, Truth
  <2> HIDE DEF lo, top
  <2>3. CASE lo <= top
    <3>1. job'[c].pc = "readPositions" /\ job'[c].top = MaxID(User)
      BY <1>6, <2>1, <2>3
    <3>2. \A u \in User : u < job'[c].lo => UserRight(u)'
      BY <1>6, <1>9, <2>3
    <3> QED BY <2>2, <3>1, <3>2 DEF RepairInv, UserPhase
  <2>4. CASE ~ (lo <= top)
    <3>1. \A u \in User : u \in Nat /\ u <= top
      BY <2>1, BatchedIDs, ConstantsAssumption
    <3>2. \A u \in User : u < lo
      BY <1>2, <1>5, <2>4, <3>1
    <3>3. \A u \in User : UserRight(u)'
      BY <1>9, <3>2
    <3> QED BY <1>6, <2>2, <2>4, <3>3 DEF RepairInv, UserPhase
  <2> QED BY <2>3, <2>4
<1>11. /\ drift' \in BOOLEAN /\ factors' \in FactorRows /\ rewardState' \in States
  BY <1>7 DEF RInv, TablesInv
<1> QED BY <1>4, <1>6, <1>7, <1>8, <1>10, <1>11, CommandOK

\* What a repair leaves when it ends: every row is right.
LEMMA RepairedIsRight ==
  ASSUME RInv, NEW c \in Command, Mode[c] = "offline", job[c].pc = "finish"
  PROVE  AllRight
<1>1. (\A r \in Reward : RewardRight(r)) /\ \A u \in User : UserRight(u)
  BY DEF RInv, RepairInv, UserPhase
<1>2. rewardState = Truth
  BY <1>1, RewardsAreTruth
<1> DEFINE All == PositionsOf(User, Truth)
           Sum == CashOf(User, Truth)
<1>3. All \in PositionRows /\ Sum \in CashRows /\ positions \in PositionRows /\ cash \in CashRows
  BY TruthIs, PositionsTable, CashTable DEF RInv, TablesInv
<1>4. \A k \in User \X Symbol : /\ k \in DOMAIN positions <=> k \in DOMAIN All
                                /\ k \in DOMAIN All => positions[k] = All[k]
  <2> SUFFICES ASSUME NEW u \in User, NEW s \in Symbol
               PROVE  /\ <<u, s>> \in DOMAIN positions <=> <<u, s>> \in DOMAIN All
                      /\ <<u, s>> \in DOMAIN All => positions[<<u, s>>] = All[<<u, s>>]
    OBVIOUS
  <2> QED BY <1>1 DEF UserRight
<1>5. \A u \in User : /\ u \in DOMAIN cash <=> u \in DOMAIN Sum
                      /\ u \in DOMAIN Sum => cash[u] = Sum[u]
  BY <1>1 DEF UserRight
<1> HIDE DEF All, Sum
<1>6. positions = All
  <2> DEFINE K == User \X Symbol
  <2>1. positions \in Table(K, States) /\ All \in Table(K, States)
    BY <1>3 DEF PositionRows
  <2>2. \A k \in K : /\ k \in DOMAIN positions <=> k \in DOMAIN All
                     /\ k \in DOMAIN All => positions[k] = All[k]
    BY <1>4
  <2> HIDE DEF K
  <2> QED BY <2>1, <2>2, SameTable
<1>7. cash = Sum
  BY <1>3, <1>5, SameTable DEF CashRows
<1> QED BY <1>2, <1>6, <1>7 DEF AllRight, All, Sum

LEMMA FinishDoes ==
  ASSUME RInv, NEW c \in Command, Finish(c)
  PROVE  /\ Turns(c) /\ job'[c].pc = "done" /\ job[c].pc = "finish"
         /\ UNCHANGED <<rows, proc, switched>>
         /\ drift' = (drift /\ Mode[c] = "online")
<1> DEFINE x == [job[c] EXCEPT !.pc = "done"]
<1>1. UNCHANGED <<rows, proc, switched>> /\ job[c].pc = "finish" /\ UpdateJob(c, x)
  BY DEF Finish
<1>2. x \in JobRow /\ x.pc = "done"
  BY DEF RInv, TablesInv, JobRow, JobPC
<1> HIDE DEF x
<1>3. Turns(c) /\ job'[c] = x
  BY <1>1, <1>2, SetJob DEF RInv
<1> QED BY <1>1, <1>2, <1>3 DEF Finish

\* The end of a repair: the rows are right from here on.
LEMMA FinishOK ==
  ASSUME RInv, NEW c \in Command, Finish(c)
  PROVE  RInv'
<1>1. /\ Turns(c) /\ job'[c].pc = "done" /\ job[c].pc = "finish"
      /\ UNCHANGED <<rows, proc, switched>>
      /\ drift' = (drift /\ Mode[c] = "online")
  BY FinishDoes
<1>2. /\ committed' = committed /\ rewardState' = rewardState /\ positions' = positions
      /\ cash' = cash /\ factors' = factors
  BY <1>1 DEF rows
<1>3. RowInv' /\ SwitchInv' /\ drift' \in BOOLEAN
  <2>1. CASE Mode[c] = "online"
    <3>1. drift' = drift
      BY <1>1, <2>1 DEF RInv, TablesInv
    <3> QED BY <1>1, <1>2, <3>1 DEF RInv, TablesInv, RowInv, SwitchInv, Current, Written
  <2>2. CASE Mode[c] # "online"
    <3>1. rewardState = Truth
      BY <1>1, <2>2, Modes, RepairedIsRight DEF AllRight
    <3>2. /\ DOMAIN rewardState = {r \in Reward \ Future : Exists(r, committed)}
          /\ \A r \in DOMAIN rewardState : rewardState[r] = {t \in committed : Affects(t, r)}
      BY <3>1, TruthIs
    <3>3. DOMAIN rewardState = Current
      BY <3>2 DEF Current
    <3>4. RowInv'
      BY <1>2, <3>2 DEF RowInv, Written
    <3>5. SwitchInv'
      BY <1>2, <3>3 DEF SwitchInv, Current
    <3>6. drift' \in BOOLEAN
      BY <1>1, <2>2
    <3> QED BY <3>4, <3>5, <3>6
  <2> QED BY <2>1, <2>2
<1>4. BatchInv(c)' /\ RepairInv(c)' /\ Rebuilding(c)
  BY <1>1 DEF BatchInv, RepairInv, UserPhase, Rebuilding
<1>5. /\ rewardState' \in States /\ positions' \in PositionRows /\ cash' \in CashRows
      /\ factors' \in FactorRows
  BY <1>2 DEF RInv, TablesInv
<1> QED BY <1>1, <1>2, <1>3, <1>4, <1>5, CommandOK

\* Rows are of current rewards only, so as many rows as current rewards are all.
LEMMA SwitchOK ==
  ASSUME RInv, Switch
  PROVE  RInv'
<1>1. UNCHANGED <<rows, proc, job, drift>> /\ switched' = TRUE /\ GateOpen
  BY DEF Switch
<1>2. /\ committed' = committed /\ rewardState' = rewardState /\ positions' = positions
      /\ cash' = cash /\ factors' = factors /\ proc' = proc /\ job' = job /\ drift' = drift
  BY <1>1 DEF rows
<1>3. SwitchInv'
  <2> SUFFICES ASSUME ~ drift PROVE Current \subseteq DOMAIN rewardState
    BY <1>2 DEF SwitchInv, Current
  <2>1. DOMAIN rewardState \subseteq Current
    BY DEF RInv, RowInv, Current
  <2>2. IsFiniteSet(Current)
    BY ConstantsAssumption, FS_Subset DEF Current
  <2>3. /\ Cardinality(Current) \in Nat /\ Cardinality(DOMAIN rewardState) \in Nat
        /\ Cardinality(DOMAIN rewardState) <= Cardinality(Current)
        /\ Cardinality(DOMAIN rewardState) = Cardinality(Current) => DOMAIN rewardState = Current
    BY <2>1, <2>2, FS_Subset, FS_CardinalityType
  <2>4. Cardinality(DOMAIN rewardState) >= Cardinality(Current)
    BY <1>1 DEF GateOpen
  <2> QED BY <2>3, <2>4
<1>4. TablesInv'
  BY <1>1, <1>2 DEF RInv, TablesInv, ReadInv
<1>5. ProcInv' /\ LockInv' /\ RowInv'
  BY <1>2 DEF RInv, ProcInv, OwnRows, ReplayInv, LockInv, RowInv, InTransaction, Rebuilding, Written
<1>6. \A c \in Command : BatchInv(c)'
  BY <1>2 DEF RInv, BatchInv, Written
<1>7. \A c \in Command : RepairInv(c)'
  BY <1>2 DEF RInv, RepairInv, RewardRight, UserRight, Truth, RewardBatch, UserBatchOf
<1> QED BY <1>3, <1>4, <1>5, <1>6, <1>7 DEF RInv

LEMMA RebuildStutterOK == RInv /\ UNCHANGED rebuildVars => RInv'
<1> SUFFICES ASSUME RInv, UNCHANGED rebuildVars PROVE RInv'
  OBVIOUS
<1>1. /\ committed' = committed /\ rewardState' = rewardState /\ positions' = positions
      /\ cash' = cash /\ factors' = factors /\ proc' = proc /\ job' = job
      /\ switched' = switched /\ drift' = drift
  BY DEF rebuildVars
<1>2. TablesInv'
  BY <1>1 DEF RInv, TablesInv, ReadInv
<1>3. ProcInv' /\ LockInv' /\ RowInv' /\ SwitchInv'
  BY <1>1 DEF RInv, ProcInv, OwnRows, ReplayInv, LockInv, RowInv, SwitchInv, Current, InTransaction,
              Rebuilding, Written
<1>4. \A c \in Command : BatchInv(c)'
  BY <1>1 DEF RInv, BatchInv, Written
<1>5. \A c \in Command : RepairInv(c)'
  BY <1>1 DEF RInv, RepairInv, RewardRight, UserRight, Truth, RewardBatch, UserBatchOf
<1> QED BY <1>2, <1>3, <1>4, <1>5 DEF RInv

-----------------------------------------------------------------------------
(* The rebuild command: what holds *)

\* Right after 0026 the tables are empty; later their rows may be wrong (drift).
LEMMA RebuildInitOK == RebuildInit => RInv
<1> SUFFICES ASSUME RebuildInit PROVE RInv
  OBVIOUS
<1>1. /\ committed = Before /\ job = [c \in Command |-> NoJob]
      /\ proc = [t \in Writer |-> [Waiting EXCEPT !.pc = IF t \in Before THEN "done" ELSE "idle"]]
      /\ factors = [s \in {Origin[r] : r \in {x \in Reward : Exists(x, Before)}} |-> FactorOf(s, Before)]
  BY DEF RebuildInit
<1>2. Before \in SUBSET Writer
  BY ConstantsAssumption
<1>3. factors \in FactorRows
  <2> DEFINE S == {Origin[r] : r \in {x \in Reward : Exists(x, Before)}}
             f == [s \in S |-> FactorOf(s, Before)]
  <2>1. S \subseteq Symbol
    <3>1. \A r \in Reward : Origin[r] \in Symbol
      BY ConstantsAssumption
    <3> QED BY <3>1
  <2> HIDE DEF S
  <2>2. /\ DOMAIN f \subseteq Symbol /\ f = [s \in DOMAIN f |-> f[s]]
        /\ \A s \in DOMAIN f : f[s] \in SUBSET Writer
    BY <1>2, <2>1 DEF FactorOf
  <2> HIDE DEF f
  <2>3. f \in Table(Symbol, SUBSET Writer)
    BY <2>2, InTable
  <2>4. factors = f
    BY <1>1 DEF f, S
  <2> QED BY <2>3, <2>4 DEF FactorRows
<1>4. \A t \in Writer : /\ proc[t] \in ProcRow /\ proc[t].pc \in {"idle", "done"}
                        /\ t \in committed => proc[t].pc = "done"
                        /\ DOMAIN proc[t].state = {}
  <2> SUFFICES ASSUME NEW t \in Writer, NEW p \in {"idle", "done"},
                      proc[t] = [Waiting EXCEPT !.pc = p], t \in committed => p = "done"
               PROVE  /\ proc[t] \in ProcRow /\ proc[t].pc \in {"idle", "done"}
                      /\ t \in committed => proc[t].pc = "done"
                      /\ DOMAIN proc[t].state = {}
    BY <1>1
  <2>1. NoRows \in States /\ NoRows \in PositionRows /\ NoRows \in CashRows /\ DOMAIN NoRows = {}
    BY EmptyTable DEF States, PositionRows, CashRows
  <2> QED BY <2>1 DEF Waiting, ProcRow, ProcPC
<1>5. proc \in [Writer -> ProcRow]
  <2>1. proc = [t \in Writer |-> proc[t]]
    BY <1>1
  <2> QED BY <1>4, <2>1
<1>6. job \in [Command -> JobRow] /\ \A c \in Command : job[c].pc = "off"
  BY <1>1, NoneWaits DEF NoJob
<1>7. /\ rewardState \in States /\ positions \in PositionRows /\ cash \in CashRows
      /\ switched \in BOOLEAN /\ drift \in BOOLEAN /\ RowInv /\ SwitchInv
  <2>1. CASE /\ rewardState = NoRows /\ positions = NoRows /\ cash = NoRows
             /\ switched = FALSE /\ drift = FALSE
    <3>1. NoRows \in States /\ NoRows \in PositionRows /\ NoRows \in CashRows /\ DOMAIN NoRows = {}
      BY EmptyTable DEF States, PositionRows, CashRows
    <3> QED BY <2>1, <3>1 DEF RowInv, SwitchInv
  <2>2. ASSUME NEW d \in Drifts, switched = TRUE, drift = TRUE,
               rewardState = [r \in d.known |-> IF r \in d.old \cup Future THEN {}
                                                ELSE Outcomes(Reward, Before)[r]],
               positions = PositionsOf(User, [r \in d.old |-> {}]),
               cash = CashOf(User, [r \in d.old |-> {}])
        PROVE  /\ rewardState \in States /\ positions \in PositionRows /\ cash \in CashRows
               /\ RowInv /\ SwitchInv
    <3>1. d.known \subseteq Reward /\ d.old \subseteq Reward
      BY ConstantsAssumption
    <3>2. \A r \in d.known : Exists(r, Before)
      BY ConstantsAssumption DEF Exists
    <3> DEFINE now   == Outcomes(Reward, Before)
               wrong == [r \in d.old |-> {}]
    <3>3. /\ DOMAIN now = {x \in Reward \ Future : Exists(x, Before)}
          /\ \A r \in DOMAIN now : now[r] = {t \in Before : Affects(t, r)}
      BY DEF Outcomes
    <3> HIDE DEF now
    <3>4. DOMAIN rewardState = d.known /\ rewardState = [r \in DOMAIN rewardState |-> rewardState[r]]
      BY <2>2
    <3>5. \A r \in DOMAIN rewardState : rewardState[r] \in SUBSET Writer
      <4> SUFFICES ASSUME NEW r \in d.known
                   PROVE  (IF r \in d.old \cup Future THEN {} ELSE now[r]) \in SUBSET Writer
        BY <2>2 DEF now
      <4>1. r \notin Future => r \in DOMAIN now
        BY <3>1, <3>2, <3>3
      <4> QED BY <1>2, <3>3, <4>1
    <3>6. rewardState \in States
      BY <3>1, <3>4, <3>5, InTable DEF States
    <3>7. wrong \in States
      <4>1. /\ DOMAIN wrong \subseteq Reward /\ wrong = [r \in DOMAIN wrong |-> wrong[r]]
            /\ \A r \in DOMAIN wrong : wrong[r] \in SUBSET Writer
        BY <3>1
      <4> HIDE DEF wrong
      <4> QED BY <4>1, InTable DEF States
    <3>8. positions \in PositionRows /\ cash \in CashRows
      <4> HIDE DEF wrong
      <4>1. PositionsOf(User, wrong) \in PositionRows /\ CashOf(User, wrong) \in CashRows
        BY <3>7, PositionsTable, CashTable
      <4> QED BY <2>2, <4>1 DEF wrong
    <3>9. RowInv /\ SwitchInv
      BY <1>1, <2>2, <3>1, <3>2, <3>4 DEF RowInv, SwitchInv
    <3> QED BY <3>6, <3>8, <3>9
  <2> QED BY <2>1, <2>2 DEF RebuildInit
<1>8. TablesInv
  BY <1>1, <1>2, <1>3, <1>4, <1>5, <1>6, <1>7 DEF TablesInv, ReadInv
<1>9. ProcInv
  BY <1>4 DEF ProcInv, OwnRows, ReplayInv, Replayed, InTransaction
<1>10. LockInv /\ \A c \in Command : BatchInv(c) /\ RepairInv(c)
  BY <1>6 DEF LockInv, Rebuilding, BatchInv, RepairInv, UserPhase
<1> QED BY <1>7, <1>8, <1>9, <1>10 DEF RInv

LEMMA RebuildNextOK == RInv /\ [RebuildNext]_rebuildVars => RInv'
<1> SUFFICES ASSUME RInv, [RebuildNext]_rebuildVars PROVE RInv'
  OBVIOUS
<1>1. ASSUME NEW t \in Writer, WriterStep(t) \/ Abort(t) PROVE RInv'
  <2>1. CASE Begin(t)
    BY <2>1, BeginOK
  <2>2. CASE RefreshRewards(t)
    BY <2>2, RefreshOK
  <2>3. CASE DeleteUser(t)
    BY <2>3, DeleteDoes, KeepOK DEF RInv
  <2>4. CASE InsertUser(t)
    <3>1. TablesInv
      BY DEF RInv
    <3> QED BY <2>4, <3>1, InsertDoes, KeepOK, StopOK
  <2>5. CASE Commit(t)
    BY <2>5, CommitOK
  <2>6. CASE Abort(t)
    BY <2>6, AbortDoes, StopOK DEF RInv
  <2> QED BY <1>1, <2>1, <2>2, <2>3, <2>4, <2>5, <2>6 DEF WriterStep
<1>2. ASSUME NEW c \in Command, Start(c) \/ JobStep(c) \/ Crash(c) PROVE RInv'
  BY <1>2, StartCommandOK, CrashOK, FactorsOK, StartRewardsOK, ReadRewardsOK, WriteRewardsOK,
     StartUsersOK, ReadPositionsOK, WritePositionsOK, ReadCashOK, WriteCashOK, FinishOK DEF JobStep
<1>3. CASE Switch
  BY <1>3, SwitchOK
<1>4. CASE UNCHANGED rebuildVars
  BY <1>4, RebuildStutterOK
<1> QED BY <1>1, <1>2, <1>3, <1>4 DEF RebuildNext

\* The invariant is inductive: the rows, the transactions and the commands of a
\* rollout or of a repair are of their types, and each batch of the command
\* (rebuildRewardState, rebuildUserAggregates) was read from rows that still
\* hold all that was written to them.
THEOREM RebuildInvariant == RebuildSpec => []RInv
<1> QED BY RebuildInitOK, RebuildNextOK, PTL DEF RebuildSpec

\* A backfill that overlaps live transactions loses no grant and no adjustment,
\* for every number of rewards, every batch size and every interleaving with
\* the triggers of 0026 (ON CONFLICT DO NOTHING against DO UPDATE).
THEOREM BackfillLosesNothing == RebuildSpec => []LiveWritesStand
<1>1. RInv => LiveWritesStand
  BY DEF RInv, RowInv, Written, LiveWritesStand
<1> QED BY <1>1, RebuildInvariant, PTL

\* Once 0027 has switched the reads no current reward is without its row: its
\* gate compares two counts only, which is enough because no row is of a reward
\* that is not current.
THEOREM GateHolds == RebuildSpec => []SwitchedIsComplete
<1>1. RInv => SwitchedIsComplete
  BY DEF RInv, SwitchInv, SwitchedIsComplete
<1> QED BY <1>1, RebuildInvariant, PTL

\* Only Finish ends a command.
LEMMA OnlyFinishEnds ==
  ASSUME RInv, RebuildNext, NEW c \in Command, job[c].pc # "done", job'[c].pc = "done"
  PROVE  Finish(c)
<1>1. job \in [Command -> JobRow]
  BY DEF RInv, TablesInv
<1>2. ASSUME NEW o \in Command, NEW x, UpdateJob(o, x) PROVE o = c /\ x.pc = "done"
  BY <1>1, <1>2 DEF UpdateJob
<1>3. ASSUME NEW o \in Command, Start(o) \/ Crash(o) PROVE FALSE
  <2>1. job[o] \in JobRow
    BY <1>1
  <2>2. ASSUME Start(o) PROVE FALSE
    <3> DEFINE at == IF Locked(o) THEN "off" ELSE "factors"
               x  == [job[o] EXCEPT !.pc = at, !.runs = @ + 1]
    <3>1. UpdateJob(o, x)
      BY <2>2 DEF Start
    <3>2. at \in {"off", "factors"}
      OBVIOUS
    <3> HIDE DEF at
    <3>3. x.pc # "done"
      BY <2>1, <3>2 DEF JobRow
    <3> HIDE DEF x
    <3> QED BY <1>2, <3>1, <3>3
  <2>3. ASSUME Crash(o) PROVE FALSE
    <3> DEFINE x == [NoJob EXCEPT !.runs = job[o].runs]
    <3>1. UpdateJob(o, x)
      BY <2>3 DEF Crash
    <3>2. x.pc # "done"
      BY DEF NoJob
    <3> HIDE DEF x
    <3> QED BY <1>2, <3>1, <3>2
  <2> QED BY <1>3, <2>2, <2>3
<1>4. ASSUME NEW o \in Command, NEW lo, NEW top, NEW again, NEW after,
             UpdateJob(o, Loop(o, lo, top, again, after)), again # "done", after # "done"
      PROVE  FALSE
  <2> DEFINE x == [NoJob EXCEPT !.pc = again, !.runs = job[o].runs, !.lo = lo, !.top = top]
             y == [NoJob EXCEPT !.pc = after, !.runs = job[o].runs]
  <2>1. x.pc = again /\ y.pc = after
    BY DEF NoJob
  <2>2. UpdateJob(o, x) \/ UpdateJob(o, y)
    BY <1>4 DEF Loop
  <2> HIDE DEF x, y
  <2> QED BY <1>2, <1>4, <2>1, <2>2
<1>5. ASSUME NEW o \in Command, NEW p, NEW st, p # "done",
             UpdateJob(o, [job[o] EXCEPT !.pc = p, !.state = st])
      PROVE  FALSE
  <2> DEFINE x == [job[o] EXCEPT !.pc = p, !.state = st]
  <2>1. job[o] \in JobRow
    BY <1>1
  <2>2. x.pc = p
    BY <2>1 DEF JobRow
  <2>3. UpdateJob(o, x)
    BY <1>5
  <2> HIDE DEF x
  <2> QED BY <1>2, <1>5, <2>2, <2>3
<1>6. ASSUME NEW o \in Command, JobStep(o) PROVE Finish(c)
  <2>1. CASE ReadFactors(o) \/ WriteFactors(o) \/ ReadRewards(o) \/ ReadPositions(o)
    BY <1>5, <2>1 DEF ReadFactors, WriteFactors, ReadRewards, ReadPositions
  <2>2. CASE StartRewards(o) \/ WriteRewards(o) \/ StartUsers(o) \/ WriteCash(o)
    BY <1>4, <2>2 DEF StartRewards, WriteRewards, StartUsers, WriteCash
  <2>3. CASE WritePositions(o)
    <3> DEFINE kept == Without(job[o].state, {k \in DOMAIN job[o].state :
                         Merge(o, positions, job[o].state)[k] # job[o].state[k]})
               x == [job[o] EXCEPT !.pc = "readCash", !.state = NoRows, !.positions = kept]
    <3>1. UpdateJob(o, x)
      BY <2>3 DEF WritePositions
    <3> HIDE DEF kept
    <3>2. x.pc # "done"
      BY <1>1 DEF JobRow
    <3> HIDE DEF x
    <3> QED BY <1>2, <3>1, <3>2
  <2>4. CASE ReadCash(o)
    <3> DEFINE x == [job[o] EXCEPT !.pc = "writeCash", !.cash = CashOf(UserBatchOf(o), rewardState)]
    <3>1. UpdateJob(o, x)
      BY <2>4 DEF ReadCash
    <3>2. x.pc # "done"
      BY <1>1 DEF JobRow
    <3> HIDE DEF x
    <3> QED BY <1>2, <3>1, <3>2
  <2>5. CASE Finish(o)
    <3>1. UpdateJob(o, [job[o] EXCEPT !.pc = "done"])
      BY <2>5 DEF Finish
    <3>2. o = c
      BY <1>2, <3>1
    <3> QED BY <2>5, <3>2
  <2> QED BY <1>6, <2>1, <2>2, <2>3, <2>4, <2>5 DEF JobStep
<1>7. job' # job
  OBVIOUS
<1>8. ASSUME NEW t \in Writer PROVE ~ (WriterStep(t) \/ Abort(t))
  BY <1>7 DEF WriterStep, Abort, Begin, RefreshRewards, DeleteUser, InsertUser, Commit
<1>9. ~ Switch
  BY <1>7 DEF Switch
<1> QED BY <1>3, <1>6, <1>8, <1>9 DEF RebuildNext

\* An --offline rebuild that ends leaves every projection as a replay of all that
\* committed makes it, whatever the rows were before and however often the
\* command was cut short.
THEOREM RepairCompletes == RebuildSpec => RepairIsComplete
<1>1. RInv /\ [RebuildNext]_rebuildVars =>
        \A c \in Command : Mode[c] = "offline" /\ job[c].pc # "done" /\ job'[c].pc = "done" => AllRight'
  <2> SUFFICES ASSUME RInv, [RebuildNext]_rebuildVars, NEW c \in Command, Mode[c] = "offline",
                      job[c].pc # "done", job'[c].pc = "done"
               PROVE  AllRight'
    OBVIOUS
  <2>1. RebuildNext
    BY DEF rebuildVars
  <2>2. Finish(c)
    BY <2>1, OnlyFinishEnds
  <2>3. job[c].pc = "finish" /\ UNCHANGED rows
    BY <2>2, FinishDoes
  <2>4. AllRight
    BY <2>3, RepairedIsRight
  <2> QED BY <2>3, <2>4 DEF AllRight, Truth, rows
<1>2. RebuildSpec => [][RInv /\ [RebuildNext]_rebuildVars]_rebuildVars
  BY RebuildInvariant, PTL DEF RebuildSpec
<1> QED BY <1>1, <1>2, PTL DEF RepairIsComplete

=============================================================================

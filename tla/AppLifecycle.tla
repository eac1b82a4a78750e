---------------------------- MODULE AppLifecycle ----------------------------
(***************************************************************************)
(* One process from New to its exit: the HTTP server with the requests it  *)
(* serves, the job worker, the scheduler with its one job, the connections *)
(* they hold, and the shutdown that closes all this while it may still be  *)
(* running.  When the main goroutine returns the process exits and every   *)
(* other goroutine ends where it stands: no action is enabled any more.    *)
(***************************************************************************)
EXTENDS JobWorker

CONSTANTS
    Requests,    \* HTTP requests that may come
    Cleanup,     \* the scheduled job, cleanup.expired_password_resets
    Replicas     \* how many read pools there are

ASSUME AppAssumption ==
    /\ Cleanup \notin Requests
    /\ Replicas \in Nat

VARIABLES
    mode,        \* which command this is: RunAll, RunAPI or RunWorker
    phase,       \* how far its main goroutine is
    exit,        \* the exit status once it is decided
    server,      \* http.Server
    req,         \* what each request's handler is doing
    sched,       \* the goroutine of the scheduled job
    tick,        \* TRUE when the ticker's channel, which holds one, is full
    conn,        \* the pool whose connection a task holds, or 0
    closedTo     \* pools 1..closedTo give out no connections any more

lifeVars == <<mode, phase, exit, server, req, sched, tick, conn, closedTo>>
appVars == <<vars, lifeVars>>

Tasks == Requests \cup {Cleanup}
Pools == 1..Replicas + 1       \* in the order in which DB.Close closes them
WritePool == Replicas + 1

InUse(p) == p \in Pools /\ \E t \in Tasks : conn[t] = p
Serves == mode \in {"all", "api"}
Works == mode \in {"all", "worker"}
Alive == phase \notin {"new", "exited"}

-----------------------------------------------------------------------------
(* The main goroutine. *)

\* New, with the caller's jobs registered, and then RunAll, RunAPI or RunWorker.
Launch ==
    /\ phase = "new"
    /\ phase' = "running"
    /\ server' = IF Serves THEN "starting" ELSE "off"
    /\ sched' = IF Works THEN "waiting" ELSE "off"
    /\ UNCHANGED <<vars, mode, exit, req, tick, conn, closedTo>>

NewFails ==
    /\ phase = "new"
    /\ phase' = "exited"
    /\ exit' = "error"
    /\ UNCHANGED <<vars, mode, server, req, sched, tick, conn, closedTo>>

\* The select of RunAll and RunAPI: either branch when both are ready.
ServerError ==
    /\ phase = "running"
    /\ server = "failed"
    /\ phase' = "exited"
    /\ exit' = "error"
    /\ UNCHANGED <<vars, mode, server, req, sched, tick, conn, closedTo>>

\* Slip: the pools are closed ahead of the server.
ShutdownPoolsFirst ==
    /\ phase = "running"
    /\ Serves
    /\ ctx = "cancelled"
    /\ phase' = "draining"
    /\ server' = "shut"
    /\ closedTo' = WritePool
    /\ UNCHANGED <<vars, mode, exit, req, sched, tick, conn>>

Shutdown ==
    /\ phase = "running"
    /\ Serves
    /\ ctx = "cancelled"
    /\ phase' = "draining"
    /\ server' = "shut"
    /\ UNCHANGED <<vars, mode, exit, req, sched, tick, conn, closedTo>>

\* Slip: server.Shutdown under a context that never ends.
DrainForever ==
    /\ phase = "draining"
    /\ \A r \in Requests : req[r] # "busy"
    /\ phase' = "closing"
    /\ exit' = "ok"
    /\ UNCHANGED <<vars, mode, server, req, sched, tick, conn, closedTo>>

\* server.Shutdown is over: no request is being served, or ten seconds are up.
Drain ==
    /\ phase = "draining"
    /\ phase' = "closing"
    /\ exit' = IF \E r \in Requests : req[r] = "busy" THEN "error" ELSE "ok"
    /\ UNCHANGED <<vars, mode, server, req, sched, tick, conn, closedTo>>

\* DB.Close closes one pool after the other, each once the connections of the
\* one before have all been given back.
ClosePool ==
    /\ phase = "closing"
    /\ closedTo < WritePool
    /\ ~InUse(closedTo)
    /\ closedTo' = closedTo + 1
    /\ UNCHANGED <<vars, mode, phase, exit, server, req, sched, tick, conn>>

\* Slip: DB.Close forgets the write pool.
CloseReadPools ==
    /\ phase = "closing"
    /\ closedTo = WritePool
    /\ phase' = "exited"
    /\ UNCHANGED <<vars, mode, exit, server, req, sched, tick, conn, closedTo>>

ClosedAll ==
    /\ phase = "closing"
    /\ closedTo = WritePool
    /\ ~InUse(WritePool)
    /\ phase' = "exited"
    /\ UNCHANGED <<vars, mode, exit, server, req, sched, tick, conn, closedTo>>

\* RunWorker returns what Jobs.Run returns; there is no Shutdown.
WorkerReturns ==
    /\ phase = "running"
    /\ mode = "worker"
    /\ run = "returned"
    /\ phase' = "exited"
    /\ exit' = IF result = "nil" THEN "ok" ELSE "error"
    /\ UNCHANGED <<vars, mode, server, req, sched, tick, conn, closedTo>>

Main == \/ Launch \/ NewFails \/ ServerError \/ Shutdown \/ Drain
        \/ ClosePool \/ ClosedAll \/ WorkerReturns

-----------------------------------------------------------------------------
(* The server and its requests. *)

Listen ==
    /\ Alive
    /\ server = "starting"
    /\ server' = "listening"
    /\ UNCHANGED <<vars, mode, phase, exit, req, sched, tick, conn, closedTo>>

\* The port is taken, or Accept fails for good: the error goes to errCh.
ListenFails ==
    /\ Alive
    /\ server \in {"starting", "listening"}
    /\ server' = "failed"
    /\ UNCHANGED <<vars, mode, phase, exit, req, sched, tick, conn, closedTo>>

Arrive(r) ==
    /\ Alive
    /\ server = "listening"
    /\ req[r] = "idle"
    /\ req' = [req EXCEPT ![r] = "busy"]
    /\ UNCHANGED <<vars, mode, phase, exit, server, sched, tick, conn, closedTo>>

\* A statement takes a connection; a closed pool has none and the request
\* ends with status 500.
Query(r) ==
    /\ Alive
    /\ req[r] = "busy"
    /\ conn[r] = 0
    /\ \E p \in Pools :
         IF p <= closedTo
         THEN /\ req' = [req EXCEPT ![r] = "refused"]
              /\ conn' = conn
         ELSE /\ conn' = [conn EXCEPT ![r] = p]
              /\ req' = req
    /\ UNCHANGED <<vars, mode, phase, exit, server, sched, tick, closedTo>>

QueryDone(r) ==
    /\ Alive
    /\ conn[r] # 0
    /\ conn' = [conn EXCEPT ![r] = 0]
    /\ UNCHANGED <<vars, mode, phase, exit, server, req, sched, tick, closedTo>>

Answer(r) ==
    /\ Alive
    /\ req[r] = "busy"
    /\ conn[r] = 0
    /\ req' = [req EXCEPT ![r] = "answered"]
    /\ UNCHANGED <<vars, mode, phase, exit, server, sched, tick, conn, closedTo>>

-----------------------------------------------------------------------------
(* The scheduler. *)

\* A tick that finds the channel full is dropped.
Ticker ==
    /\ Alive
    /\ sched \in {"waiting", "running"}
    /\ tick' = TRUE
    /\ UNCHANGED <<vars, mode, phase, exit, server, req, sched, conn, closedTo>>

\* Slip: the loop ends at the first error of the handler.
RunCleanupOnce ==
    /\ Alive
    /\ sched = "waiting"
    /\ tick
    /\ tick' = FALSE
    /\ \/ sched' = "stopped" /\ conn' = conn
       \/ /\ ctx = "live"
          /\ closedTo < WritePool
          /\ sched' = "running"
          /\ conn' = [conn EXCEPT ![Cleanup] = WritePool]
    /\ UNCHANGED <<vars, mode, phase, exit, server, req, closedTo>>

\* The handler runs its DELETE, or fails for want of a connection: certainly
\* when ctx is cancelled or the pool closed.  The error is logged.
RunCleanup ==
    /\ Alive
    /\ sched = "waiting"
    /\ tick
    /\ tick' = FALSE
    /\ \/ UNCHANGED <<sched, conn>>
       \/ /\ ctx = "live"
          /\ closedTo < WritePool
          /\ sched' = "running"
          /\ conn' = [conn EXCEPT ![Cleanup] = WritePool]
    /\ UNCHANGED <<vars, mode, phase, exit, server, req, closedTo>>

CleanupDone ==
    /\ Alive
    /\ sched = "running"
    /\ sched' = "waiting"
    /\ conn' = [conn EXCEPT ![Cleanup] = 0]
    /\ UNCHANGED <<vars, mode, phase, exit, server, req, tick, closedTo>>

StopSched ==
    /\ Alive
    /\ sched = "waiting"
    /\ ctx = "cancelled"
    /\ sched' = "stopped"
    /\ UNCHANGED <<vars, mode, phase, exit, server, req, tick, conn, closedTo>>

-----------------------------------------------------------------------------
(* The job worker, one goroutine in RunAll and the main one in RunWorker. *)

RegisterJob(j) == phase = "new" /\ Register(j) /\ UNCHANGED lifeVars

\* signal.NotifyContext catches SIGINT and SIGTERM from Run on.
Signal == Alive /\ Cancel /\ UNCHANGED lifeVars

RunJobs == Alive /\ Works /\ Start /\ UNCHANGED lifeVars
RunStep == Alive /\ (WaitForCancel \/ Receive \/ Drained) /\ UNCHANGED lifeVars
CloseErrors == Alive /\ Close /\ UNCHANGED lifeVars
JobReturns(j) == Alive /\ (Stop(j) \/ Break(j)) /\ UNCHANGED lifeVars
JobSends(j) == Alive /\ Send(j) /\ UNCHANGED lifeVars

-----------------------------------------------------------------------------

AppInit ==
    /\ Init
    /\ mode \in {"all", "api", "worker"}
    /\ phase = "new"
    /\ exit = "none"
    /\ server = "off"
    /\ req = [r \in Requests |-> "idle"]
    /\ sched = "off"
    /\ tick = FALSE
    /\ conn = [t \in Tasks |-> 0]
    /\ closedTo = 0

AppNext ==
    \/ Main
    \/ Listen \/ ListenFails
    \/ \E r \in Requests : Arrive(r) \/ Query(r) \/ QueryDone(r) \/ Answer(r)
    \/ Ticker \/ RunCleanup \/ CleanupDone \/ StopSched
    \/ Signal \/ RunJobs \/ RunStep \/ CloseErrors
    \/ \E j \in Jobs : RegisterJob(j) \/ JobReturns(j) \/ JobSends(j)

AppSpec == AppInit /\ [][AppNext]_appVars

\* Go runs every goroutine that can go on; statements end, time passes, and a
\* job's handler returns once its context is cancelled.  No request has to
\* come or to be answered, and no signal has to come.
AppFairSpec ==
    /\ AppSpec
    /\ WF_appVars(Main)
    /\ WF_appVars(Listen)
    /\ \A r \in Requests : WF_appVars(QueryDone(r))
    /\ WF_appVars(Ticker)
    /\ WF_appVars(RunCleanup \/ StopSched)
    /\ WF_appVars(CleanupDone)
    /\ WF_appVars(RunJobs \/ RunStep)
    /\ WF_appVars(CloseErrors)
    /\ \A j \in Jobs : /\ WF_appVars(JobSends(j))
                       /\ WF_appVars(ctx = "cancelled" /\ JobReturns(j))

-----------------------------------------------------------------------------

AppTypeOK ==
    /\ TypeOK
    /\ mode \in {"all", "api", "worker"}
    /\ phase \in {"new", "running", "draining", "closing", "exited"}
    /\ exit \in {"none", "ok", "error"}
    /\ server \in {"off", "starting", "listening", "failed", "shut"}
    /\ req \in [Requests -> {"idle", "busy", "answered", "refused"}]
    /\ sched \in {"off", "waiting", "running", "stopped"}
    /\ tick \in BOOLEAN
    /\ conn \in [Tasks -> 0..WritePool]
    /\ closedTo \in 0..WritePool

\* A process that has shut down has cut nobody off in a statement, although
\* nobody waits for the scheduler and Shutdown may have given up on requests:
\* DB.Close waits for their connections (app.go:196-210, database.go:31-41).
NothingCut ==
    phase = "exited" /\ server = "shut" => \A t \in Tasks : conn[t] = 0

\* A server that exits with status 0 has answered every request it accepted,
\* and none met a closed pool (app.go:199-207).
RequestsServed ==
    phase = "exited" /\ Serves /\ exit = "ok" =>
        \A r \in Requests : req[r] \in {"idle", "answered"}

\* A job whose handler failed is rid of its error, also when Run has returned
\* and nobody receives any more, unless the process exits first
\* (worker.go:45, 51-63).
SendersGetThrough ==
    \A j \in Jobs : job[j] = "sending" ~> job[j] = "exited" \/ phase = "exited"

\* After a signal, or when the server cannot listen, the process exits: no
\* request, scheduled job or job of the worker can keep it, and the pools are
\* closed under tasks that still run (app.go:142-148, 192-210).
ExitsAfterSignal ==
    ctx = "cancelled" \/ (phase = "running" /\ server = "failed") ~> phase = "exited"

\* As long as nobody stops the process, ticks keep coming and keep being
\* served, whatever the handler returns and however long it takes
\* (scheduler.go:49-72).
SchedulerKeepsOn ==
    \A full \in BOOLEAN :
        sched # "off" /\ tick = full ~>
            tick # full \/ ctx = "cancelled" \/ phase = "exited"
=============================================================================

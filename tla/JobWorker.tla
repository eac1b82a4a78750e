----------------------------- MODULE JobWorker -----------------------------
(***************************************************************************)
(* jobs.Worker.Run: one goroutine per registered job, an error channel     *)
(* with room for every job, a goroutine that closes the channel when all   *)
(* jobs have exited, and Run itself, which returns the first error it      *)
(* receives.  AppLifecycle runs it inside a process.                       *)
(***************************************************************************)
EXTENDS Naturals, Sequences, FiniteSets

CONSTANT Jobs    \* the jobs there are to register

Words == {"none", "nil", "context canceled"}

\* A job's error is named after its job.
ASSUME JobsAssumption ==
    /\ IsFiniteSet(Jobs)
    /\ Jobs \cap Words = {}

VARIABLES
    jobs,      \* the jobs registered so far
    ctx,       \* "live", or "cancelled" by SIGTERM or SIGINT
    job,       \* what each job's goroutine is doing
    errCh,     \* errors in the channel, each named after its job
    closed,    \* TRUE once errCh is closed
    run,       \* "uncalled", "waiting", "receiving" or "returned"
    result,    \* what Run returned: a job whose error it is, or a word
    failed     \* history: jobs in the order their errors entered errCh

vars == <<jobs, ctx, job, errCh, closed, run, result, failed>>

JobStates == {"idle", "running", "sending", "exited"}

-----------------------------------------------------------------------------

Register(j) ==
    /\ run = "uncalled"
    /\ j \notin jobs
    /\ jobs' = jobs \cup {j}
    /\ UNCHANGED <<ctx, job, errCh, closed, run, result, failed>>

Cancel ==
    /\ ctx = "live"
    /\ ctx' = "cancelled"
    /\ UNCHANGED <<jobs, job, errCh, closed, run, result, failed>>

\* Run is called, once all jobs are registered.
Start ==
    /\ run = "uncalled"
    /\ run' = IF jobs = {} THEN "waiting" ELSE "receiving"
    /\ job' = [j \in Jobs |-> IF j \in jobs THEN "running" ELSE "idle"]
    /\ UNCHANGED <<jobs, ctx, errCh, closed, result, failed>>

\* No jobs: Run waits for ctx and returns its error.
WaitForCancel ==
    /\ run = "waiting"
    /\ ctx = "cancelled"
    /\ run' = "returned"
    /\ result' = "context canceled"
    /\ UNCHANGED <<jobs, ctx, job, errCh, closed, failed>>

\* The handler returns nil or context.Canceled.
Stop(j) ==
    /\ job[j] = "running"
    /\ job' = [job EXCEPT ![j] = "exited"]
    /\ UNCHANGED <<jobs, ctx, errCh, closed, run, result, failed>>

\* The handler returns another error.
Break(j) ==
    /\ job[j] = "running"
    /\ job' = [job EXCEPT ![j] = "sending"]
    /\ UNCHANGED <<jobs, ctx, errCh, closed, run, result, failed>>

\* Slips: the context's error sent in the job's place, and a channel without
\* buffer, which takes an error only while Run receives.
SendContextError(j) ==
    /\ job[j] = "sending"
    /\ Len(errCh) < Cardinality(jobs)
    /\ errCh' = Append(errCh, "context canceled")
    /\ failed' = Append(failed, j)
    /\ job' = [job EXCEPT ![j] = "exited"]
    /\ UNCHANGED <<jobs, ctx, closed, run, result>>

SendUnbuffered(j) ==
    /\ job[j] = "sending"
    /\ run = "receiving"
    /\ errCh = <<>>
    /\ errCh' = Append(errCh, j)
    /\ failed' = Append(failed, j)
    /\ job' = [job EXCEPT ![j] = "exited"]
    /\ UNCHANGED <<jobs, ctx, closed, run, result>>

\* errCh <- err blocks while the channel is full; wg.Done() follows.
Send(j) ==
    /\ job[j] = "sending"
    /\ Len(errCh) < Cardinality(jobs)
    /\ errCh' = Append(errCh, j)
    /\ failed' = Append(failed, j)
    /\ job' = [job EXCEPT ![j] = "exited"]
    /\ UNCHANGED <<jobs, ctx, closed, run, result>>

\* Slip: the channel is closed without waiting for the jobs.
CloseEarly ==
    /\ run \in {"receiving", "returned"}
    /\ jobs # {}
    /\ ~closed
    /\ closed' = TRUE
    /\ UNCHANGED <<jobs, ctx, job, errCh, run, result, failed>>

\* wg.Wait() is over: the closing goroutine closes the channel.
Close ==
    /\ run \in {"receiving", "returned"}
    /\ jobs # {}
    /\ ~closed
    /\ \A j \in jobs : job[j] = "exited"
    /\ closed' = TRUE
    /\ UNCHANGED <<jobs, ctx, job, errCh, run, result, failed>>

Receive ==
    /\ run = "receiving"
    /\ errCh # <<>>
    /\ errCh' = Tail(errCh)
    /\ result' = Head(errCh)
    /\ run' = "returned"
    /\ UNCHANGED <<jobs, ctx, job, closed, failed>>

\* Slip: an empty channel is taken for a closed one.
DrainedOpen ==
    /\ run = "receiving"
    /\ errCh = <<>>
    /\ result' = "nil"
    /\ run' = "returned"
    /\ UNCHANGED <<jobs, ctx, job, errCh, closed, failed>>

Drained ==
    /\ run = "receiving"
    /\ errCh = <<>>
    /\ closed
    /\ result' = "nil"
    /\ run' = "returned"
    /\ UNCHANGED <<jobs, ctx, job, errCh, closed, failed>>

-----------------------------------------------------------------------------

Init ==
    /\ jobs = {}
    /\ ctx = "live"
    /\ job = [j \in Jobs |-> "idle"]
    /\ errCh = <<>>
    /\ closed = FALSE
    /\ run = "uncalled"
    /\ result = "none"
    /\ failed = <<>>

Next ==
    \/ Cancel \/ WaitForCancel \/ Start \/ Close \/ Receive \/ Drained
    \/ \E j \in Jobs : Register(j) \/ Stop(j) \/ Break(j) \/ Send(j)

Spec == Init /\ [][Next]_vars

-----------------------------------------------------------------------------

TypeOK ==
    /\ jobs \subseteq Jobs
    /\ ctx \in {"live", "cancelled"}
    /\ job \in [Jobs -> JobStates]
    /\ errCh \in Seq(Jobs) /\ failed \in Seq(Jobs)
    /\ closed \in BOOLEAN
    /\ run \in {"uncalled", "waiting", "receiving", "returned"}
    /\ result \in Jobs \cup Words

\* Nobody sends on the closed channel, which would panic, and the channel has
\* room for whoever sends, also after Run has returned and nobody receives
\* any more (worker.go:45, 51-59, 67-70).
SendIsSafe ==
    \A j \in Jobs :
        job[j] = "sending" => ~closed /\ Len(errCh) < Cardinality(jobs)

\* Run returns the first error sent, and nil only when no job has failed and
\* all have exited (worker.go:73-78).
FirstErrorReturned ==
    run = "returned" /\ jobs # {} =>
        IF result = "nil" THEN failed = <<>> /\ \A j \in jobs : job[j] = "exited"
                          ELSE failed # <<>> /\ result = Head(failed)
=============================================================================

------------------------ MODULE AppLifecycleProofs ------------------------
(* The worker of jobs.Worker.Run, that a process runs it faithfully, and   *)
(* what the process has left undone when it exits.                         *)
EXTENDS AppLifecycle, FiniteSetTheorems, TLAPS

USE JobsAssumption, AppAssumption

-----------------------------------------------------------------------------
(* The worker: types. *)

\* Head and Tail of a nonempty sequence of jobs, and Append to it.
LEMMA ErrorQueue ==
    ASSUME NEW s \in Seq(Jobs)
    PROVE  /\ s # <<>> => Head(s) \in Jobs /\ Tail(s) \in Seq(Jobs)
           /\ \A j \in Jobs : Append(s, j) \in Seq(Jobs)
  OBVIOUS

\* The worker's state is well formed.
THEOREM WorkerTypeCorrect == Spec => []TypeOK
  <1>1. Init => TypeOK
    <2>1. <<>> \in Seq(Jobs)
      OBVIOUS
    <2> QED
      BY <2>1 DEF Init, TypeOK, JobStates, Words
  <1>2. TypeOK /\ [Next]_vars => TypeOK'
    <2> SUFFICES ASSUME TypeOK, [Next]_vars PROVE TypeOK'
      OBVIOUS
    <2> USE DEF TypeOK, JobStates, Words
    <2>1. CASE Cancel
      BY <2>1 DEF Cancel
    <2>2. CASE WaitForCancel
      BY <2>2 DEF WaitForCancel
    <2>3. CASE Start
      BY <2>3 DEF Start
    <2>4. CASE Close
      BY <2>4 DEF Close
    <2>5. CASE Receive
      BY <2>5, ErrorQueue DEF Receive
    <2>6. CASE Drained
      BY <2>6 DEF Drained
    <2>7. ASSUME NEW j \in Jobs, Register(j) \/ Stop(j) \/ Break(j)
          PROVE  TypeOK'
      BY <2>7 DEF Register, Stop, Break
    <2>8. ASSUME NEW j \in Jobs, Send(j)
          PROVE  TypeOK'
      BY <2>8, ErrorQueue DEF Send
    <2>9. CASE UNCHANGED vars
      BY <2>9 DEF vars
    <2> QED
      BY <2>1, <2>2, <2>3, <2>4, <2>5, <2>6, <2>7, <2>8, <2>9 DEF Next
  <1> QED
    BY <1>1, <1>2, PTL DEF Spec

-----------------------------------------------------------------------------
(* The worker: its channel. *)

Unsent == {j \in Jobs : job[j] \in {"running", "sending"}}

\* Every job that may still send has its place in the channel reserved, and
\* the channel is closed only once there is none.
RoomReserved ==
    /\ \A j \in Jobs : job[j] # "idle" => j \in jobs
    /\ Len(errCh) + Cardinality(Unsent) <= Cardinality(jobs)
    /\ run = "uncalled" =>
           ~closed /\ errCh = <<>> /\ failed = <<>> /\ \A j \in Jobs : job[j] = "idle"
    /\ closed => \A j \in jobs : job[j] = "exited"

LEMMA FiniteJobs ==
    ASSUME TypeOK
    PROVE  /\ IsFiniteSet(jobs) /\ Cardinality(jobs) \in Nat
           /\ IsFiniteSet(Unsent) /\ Cardinality(Unsent) \in Nat
  BY FS_Subset, FS_CardinalityType DEF TypeOK, Unsent

\* A job on its way from running to sending keeps its place, and one that has
\* exited has given it up.
LEMMA UnsentMoves ==
    ASSUME TypeOK, NEW j \in Unsent, NEW state \in JobStates,
           job' = [job EXCEPT ![j] = state]
    PROVE  Cardinality(Unsent') = IF state \in {"running", "sending"}
                                  THEN Cardinality(Unsent)
                                  ELSE Cardinality(Unsent) - 1
  <1>1. CASE state \in {"running", "sending"}
    <2>1. Unsent' = Unsent
      BY <1>1 DEF Unsent, TypeOK
    <2> QED
      BY <1>1, <2>1
  <1>2. CASE state \notin {"running", "sending"}
    <2>1. Unsent' = Unsent \ {j}
      BY <1>2 DEF Unsent, TypeOK
    <2> QED
      BY <1>2, <2>1, FiniteJobs, FS_RemoveElement
  <1> QED
    BY <1>1, <1>2

\* Every step of the worker keeps the places reserved.
LEMMA RoomStep ==
    ASSUME TypeOK, RoomReserved, [Next]_vars
    PROVE  RoomReserved'
  <1>a. /\ job \in [Jobs -> JobStates] /\ jobs \subseteq Jobs
        /\ errCh \in Seq(Jobs) /\ Len(errCh) \in Nat
    BY DEF TypeOK
  <1>b. /\ Cardinality(jobs) \in Nat /\ Cardinality(Unsent) \in Nat
        /\ IsFiniteSet(jobs)
    BY FiniteJobs
  <1>1. CASE Cancel \/ WaitForCancel \/ Drained \/ UNCHANGED vars
    <2>1. /\ UNCHANGED <<jobs, job, errCh, closed, failed>>
          /\ run' = "uncalled" => run = "uncalled"
      BY <1>1 DEF Cancel, WaitForCancel, Drained, vars
    <2>2. Unsent' = Unsent
      BY <2>1 DEF Unsent
    <2> QED
      BY <2>1, <2>2 DEF RoomReserved
  <1>2. CASE Start
    <2>1. Unsent' = jobs
      BY <1>2, <1>a DEF Start, Unsent
    <2>2. errCh' = <<>> /\ jobs' = jobs /\ ~closed'
      BY <1>2 DEF Start, RoomReserved
    <2> QED
      BY <1>2, <1>a, <1>b, <2>1, <2>2 DEF Start, RoomReserved
  <1>3. CASE Close
    BY <1>3 DEF Close, RoomReserved, Unsent
  <1>4. CASE Receive
    <2>1. Len(errCh') = Len(errCh) - 1
      BY <1>4, <1>a DEF Receive
    <2>2. Unsent' = Unsent /\ jobs' = jobs
      BY <1>4 DEF Receive, Unsent
    <2> QED
      BY <1>4, <1>a, <1>b, <2>1, <2>2 DEF Receive, RoomReserved
  <1>5. ASSUME NEW j \in Jobs, Register(j)
        PROVE  RoomReserved'
    <2>1. Cardinality(jobs') = Cardinality(jobs) + 1
      BY <1>5, <1>b, FS_AddElement DEF Register
    <2>2. Unsent' = Unsent /\ errCh' = errCh
      BY <1>5 DEF Register, Unsent
    <2> QED
      BY <1>5, <1>a, <1>b, <2>1, <2>2 DEF Register, RoomReserved
  <1>6. ASSUME NEW j \in Jobs, Stop(j) \/ Break(j)
        PROVE  RoomReserved'
    <2>1. j \in Unsent /\ jobs' = jobs /\ errCh' = errCh
      BY <1>6 DEF Stop, Break, Unsent
    <2>2. PICK state \in JobStates : job' = [job EXCEPT ![j] = state]
                                     /\ state # "idle"
      BY <1>6 DEF Stop, Break, JobStates
    <2>3. /\ Cardinality(Unsent') \in Nat
          /\ Cardinality(Unsent') <= Cardinality(Unsent)
      <3>1. Cardinality(Unsent) # 0
        BY <2>1, FiniteJobs, FS_EmptySet
      <3>2. \/ Cardinality(Unsent') = Cardinality(Unsent)
            \/ Cardinality(Unsent') = Cardinality(Unsent) - 1
        BY <2>1, <2>2, UnsentMoves
      <3> QED
        BY <1>b, <3>1, <3>2
    <2>4. j \in jobs /\ ~closed
      BY <1>6, <1>a DEF Stop, Break, RoomReserved
    <2> QED
      BY <1>6, <1>a, <1>b, <2>1, <2>2, <2>3, <2>4 DEF Stop, Break, RoomReserved
  <1>7. ASSUME NEW j \in Jobs, Send(j)
        PROVE  RoomReserved'
    <2>1. j \in Unsent /\ jobs' = jobs /\ job' = [job EXCEPT ![j] = "exited"]
      BY <1>7 DEF Send, Unsent
    <2>2. Cardinality(Unsent') = Cardinality(Unsent) - 1
      BY <2>1, UnsentMoves DEF JobStates
    <2>3. Len(errCh') = Len(errCh) + 1
      BY <1>7, <1>a DEF Send
    <2>4. j \in jobs /\ ~closed /\ run # "uncalled"
      BY <1>7, <1>a DEF Send, RoomReserved
    <2> QED
      BY <1>7, <1>a, <1>b, <2>1, <2>2, <2>3, <2>4 DEF Send, RoomReserved
  <1> QED
    BY <1>1, <1>2, <1>3, <1>4, <1>5, <1>6, <1>7 DEF Next

\* However many jobs fail, and whether Run still receives or has returned,
\* nobody sends on the closed channel or finds it full.
THEOREM WorkerSendIsSafe == Spec => []SendIsSafe
  <1>1. Init => RoomReserved
    <2> SUFFICES ASSUME Init PROVE RoomReserved
      OBVIOUS
    <2>1. Unsent = {} /\ jobs = {} /\ Len(errCh) = 0
      BY DEF Init, Unsent
    <2> QED
      BY <2>1, FS_EmptySet DEF Init, RoomReserved
  <1>2. TypeOK /\ RoomReserved => SendIsSafe
    <2> SUFFICES ASSUME TypeOK, RoomReserved, NEW j \in Jobs, job[j] = "sending"
                 PROVE  ~closed /\ Len(errCh) < Cardinality(jobs)
      BY DEF SendIsSafe
    <2>1. Cardinality(Unsent) # 0
      BY FiniteJobs, FS_EmptySet DEF Unsent
    <2>2. ~closed
      BY DEF RoomReserved
    <2> QED
      BY <2>1, <2>2, FiniteJobs DEF RoomReserved, TypeOK
  <1> QED
    BY <1>1, <1>2, RoomStep, WorkerTypeCorrect, PTL DEF Spec

-----------------------------------------------------------------------------
(* The worker: its result. *)

\* Until Run returns, the channel holds all errors in their order.
ErrorsKept ==
    /\ run = "waiting" => jobs = {}
    /\ run = "receiving" => errCh = failed
    /\ run = "uncalled" => failed = <<>> /\ errCh = <<>>
    /\ FirstErrorReturned

LEMMA ResultStep ==
    ASSUME TypeOK, RoomReserved, ErrorsKept, [Next]_vars
    PROVE  ErrorsKept'
  <1>a. /\ jobs \subseteq Jobs /\ errCh \in Seq(Jobs) /\ failed \in Seq(Jobs)
        /\ job \in [Jobs -> JobStates]
    BY DEF TypeOK
  <1> USE DEF ErrorsKept, FirstErrorReturned
  <1>1. CASE Cancel \/ Close \/ UNCHANGED vars
    BY <1>1 DEF Cancel, Close, vars
  <1>2. CASE WaitForCancel
    BY <1>2 DEF WaitForCancel
  <1>3. CASE Start
    BY <1>3 DEF Start
  <1>4. CASE Receive
    <2>1. Head(errCh) \in Jobs /\ Head(errCh) # "nil"
      BY <1>4, <1>a, ErrorQueue DEF Receive, Words
    <2> QED
      BY <1>4, <2>1 DEF Receive
  <1>5. CASE Drained
    BY <1>5 DEF Drained, RoomReserved
  <1>6. ASSUME NEW j \in Jobs, Register(j)
        PROVE  ErrorsKept'
    BY <1>6 DEF Register
  <1>7. ASSUME NEW j \in Jobs, Stop(j) \/ Break(j)
        PROVE  ErrorsKept'
    BY <1>7, <1>a DEF Stop, Break, RoomReserved
  <1>8. ASSUME NEW j \in Jobs, Send(j)
        PROVE  ErrorsKept'
    <2>1. j \in jobs /\ run # "uncalled"
      BY <1>8, <1>a DEF Send, RoomReserved
    <2>2. failed' # <<>> /\ (failed # <<>> => Head(failed') = Head(failed))
      BY <1>8, <1>a DEF Send
    <2> QED
      BY <1>8, <1>a, <2>1, <2>2 DEF Send
  <1> QED
    BY <1>1, <1>2, <1>3, <1>4, <1>5, <1>6, <1>7, <1>8 DEF Next

\* Run reports the first error that was sent, for any number of jobs.
THEOREM WorkerReturnsFirstError == Spec => []FirstErrorReturned
  <1>1. Init => RoomReserved /\ ErrorsKept
    <2> SUFFICES ASSUME Init PROVE RoomReserved /\ ErrorsKept
      OBVIOUS
    <2>1. Unsent = {} /\ jobs = {} /\ Len(errCh) = 0
      BY DEF Init, Unsent
    <2> QED
      BY <2>1, FS_EmptySet DEF Init, RoomReserved, ErrorsKept, FirstErrorReturned
  <1>2. ErrorsKept => FirstErrorReturned
    BY DEF ErrorsKept
  <1> QED
    BY <1>1, <1>2, RoomStep, ResultStep, WorkerTypeCorrect, PTL DEF Spec

-----------------------------------------------------------------------------
(* The process. *)

\* The process runs the worker as Run is written: whatever else it does, and
\* wherever its exit cuts the worker's goroutines.
THEOREM ProcessRunsWorker == AppSpec => Spec
  <1>1. AppInit => Init
    BY DEF AppInit
  <1>2. [AppNext]_appVars => [Next]_vars
    <2> SUFFICES ASSUME [AppNext]_appVars PROVE [Next]_vars
      OBVIOUS
    <2>1. CASE Main
      BY <2>1 DEF Main, Launch, NewFails, ServerError, Shutdown, Drain, ClosePool,
                  ClosedAll, WorkerReturns
    <2>2. CASE \E r \in Requests : Arrive(r) \/ Query(r) \/ QueryDone(r) \/ Answer(r)
      BY <2>2 DEF Arrive, Query, QueryDone, Answer
    <2>3. CASE Listen \/ ListenFails \/ Ticker \/ RunCleanup \/ CleanupDone \/ StopSched
      BY <2>3 DEF Listen, ListenFails, Ticker, RunCleanup, CleanupDone, StopSched
    <2>4. CASE Signal \/ RunJobs \/ RunStep \/ CloseErrors
      BY <2>4 DEF Signal, RunJobs, RunStep, CloseErrors, Next
    <2>5. CASE \E j \in Jobs : RegisterJob(j) \/ JobReturns(j) \/ JobSends(j)
      BY <2>5 DEF RegisterJob, JobReturns, JobSends, Next
    <2>6. CASE UNCHANGED appVars
      BY <2>6 DEF appVars
    <2> QED
      BY <2>1, <2>2, <2>3, <2>4, <2>5, <2>6 DEF AppNext
  <1> QED
    BY <1>1, <1>2, PTL DEF AppSpec, Spec

\* Inside a process, too, nobody sends on a closed or full channel.
THEOREM ProcessSendIsSafe == AppSpec => []SendIsSafe
  BY ProcessRunsWorker, WorkerSendIsSafe, PTL

\* The worker's steps leave the rest of the process alone.
WorkerStep ==
    \/ Signal \/ RunJobs \/ RunStep \/ CloseErrors
    \/ \E j \in Jobs : RegisterJob(j) \/ JobReturns(j) \/ JobSends(j)

LEMMA WorkerStepFrame == WorkerStep => UNCHANGED lifeVars
  BY DEF WorkerStep, Signal, RunJobs, RunStep, CloseErrors, RegisterJob, JobReturns,
         JobSends

\* The process's own part of AppTypeOK.
LifeTypeOK ==
    /\ mode \in {"all", "api", "worker"}
    /\ phase \in {"new", "running", "draining", "closing", "exited"}
    /\ exit \in {"none", "ok", "error"}
    /\ server \in {"off", "starting", "listening", "failed", "shut"}
    /\ req \in [Requests -> {"idle", "busy", "answered", "refused"}]
    /\ sched \in {"off", "waiting", "running", "stopped"}
    /\ tick \in BOOLEAN
    /\ conn \in [Tasks -> 0..WritePool]
    /\ closedTo \in 0..WritePool

LEMMA LifeTypeStep ==
    ASSUME LifeTypeOK, [AppNext]_appVars
    PROVE  LifeTypeOK'
  <1>a. /\ WritePool \in Nat /\ WritePool \in 0..WritePool /\ 0 \in 0..WritePool
        /\ Pools \subseteq 0..WritePool
        /\ Requests \subseteq Tasks /\ Cleanup \in Tasks
    BY DEF WritePool, Pools, Tasks
  <1> USE DEF LifeTypeOK
  <1>1. CASE Launch \/ NewFails \/ ServerError \/ Shutdown \/ Drain \/ ClosedAll
                \/ WorkerReturns
    BY <1>1 DEF Launch, NewFails, ServerError, Shutdown, Drain, ClosedAll, WorkerReturns
  <1>2. CASE ClosePool
    <2>1. closedTo' \in 0..WritePool
      BY <1>2, <1>a DEF ClosePool
    <2>2. UNCHANGED <<mode, phase, exit, server, req, sched, tick, conn>>
      BY <1>2 DEF ClosePool
    <2> QED
      BY <2>1, <2>2
  <1>3. CASE Listen \/ ListenFails \/ Ticker \/ StopSched
    <2>1. CASE Listen \/ ListenFails
      <3>1. /\ server' \in {"off", "starting", "listening", "failed", "shut"}
            /\ UNCHANGED <<mode, phase, exit, req, sched, tick, conn, closedTo>>
        BY <2>1 DEF Listen, ListenFails
      <3> QED
        BY <3>1
    <2>2. CASE Ticker
      <3>1. tick' = TRUE /\ UNCHANGED <<mode, phase, exit, server, req, sched, conn, closedTo>>
        BY <2>2 DEF Ticker
      <3> QED
        BY <3>1
    <2>3. CASE StopSched
      <3>1. /\ sched' = "stopped"
            /\ UNCHANGED <<mode, phase, exit, server, req, tick, conn, closedTo>>
        BY <2>3 DEF StopSched
      <3> QED
        BY <3>1
    <2> QED
      BY <1>3, <2>1, <2>2, <2>3
  <1>4. CASE RunCleanup
    BY <1>4, <1>a DEF RunCleanup
  <1>5. CASE CleanupDone
    BY <1>5, <1>a DEF CleanupDone
  <1>6. ASSUME NEW r \in Requests, Arrive(r) \/ Answer(r)
        PROVE  LifeTypeOK'
    BY <1>6 DEF Arrive, Answer
  <1>7. ASSUME NEW r \in Requests, Query(r)
        PROVE  LifeTypeOK'
    BY <1>7, <1>a DEF Query
  <1>8. ASSUME NEW r \in Requests, QueryDone(r)
        PROVE  LifeTypeOK'
    BY <1>8, <1>a DEF QueryDone
  <1>9. CASE WorkerStep \/ UNCHANGED appVars
    BY <1>9, WorkerStepFrame DEF appVars, lifeVars
  <1> QED
    BY <1>1, <1>2, <1>3, <1>4, <1>5, <1>6, <1>7, <1>8, <1>9
       DEF AppNext, Main, WorkerStep

LEMMA LifeTypeInit == AppInit => LifeTypeOK
  <1>1. 0 \in 0..WritePool
    BY DEF WritePool
  <1> QED
    BY <1>1 DEF AppInit, LifeTypeOK

\* The state of a process is well formed.
THEOREM AppTypeCorrect == AppSpec => []AppTypeOK
  <1>1. TypeOK /\ LifeTypeOK => AppTypeOK
    BY DEF LifeTypeOK, AppTypeOK
  <1> QED
    BY <1>1, LifeTypeInit, LifeTypeStep, ProcessRunsWorker, WorkerTypeCorrect, PTL
       DEF AppSpec

-----------------------------------------------------------------------------
(* The exit. *)

\* The pools are closed in order: no task holds a connection of a pool that
\* Close has gone past, and a server that has shut down exits only after that.
ClosedInOrder ==
    /\ \A t \in Tasks : conn[t] # 0 => conn[t] >= closedTo
    /\ server = "shut" => phase \in {"draining", "closing", "exited"}
    /\ server = "shut" /\ phase = "exited" => \A t \in Tasks : conn[t] = 0

LEMMA ClosedInOrderStep ==
    ASSUME LifeTypeOK, ClosedInOrder, [AppNext]_appVars
    PROVE  ClosedInOrder'
  <1>a. /\ WritePool \in Nat /\ closedTo \in Nat /\ closedTo <= WritePool
        /\ Pools = 1..WritePool
        /\ conn \in [Tasks -> 0..WritePool]
        /\ Requests \subseteq Tasks /\ Cleanup \in Tasks
    BY DEF WritePool, Pools, Tasks, LifeTypeOK
  <1> USE DEF ClosedInOrder
  <1>1. CASE Launch \/ NewFails \/ ServerError \/ Shutdown \/ Drain \/ WorkerReturns
    BY <1>1 DEF Launch, NewFails, ServerError, Shutdown, Drain, WorkerReturns
  <1>2. CASE ClosePool
    <2>1. ASSUME NEW t \in Tasks, conn[t] # 0 PROVE conn[t] >= closedTo + 1
      <3>1. conn[t] \in Pools /\ conn[t] >= closedTo
        BY <1>a, <2>1
      <3>2. conn[t] # closedTo
        BY <1>2, <3>1 DEF ClosePool, InUse
      <3> QED
        BY <1>a, <3>1, <3>2
    <2> QED
      BY <1>2, <2>1 DEF ClosePool
  <1>3. CASE ClosedAll
    <2>1. ASSUME NEW t \in Tasks PROVE conn[t] = 0
      <3>1. CASE conn[t] # 0
        <4>1. conn[t] = WritePool /\ WritePool \in Pools
          BY <1>3, <1>a, <3>1 DEF ClosedAll
        <4> QED
          BY <1>3, <4>1 DEF ClosedAll, InUse
      <3> QED
        BY <3>1
    <2> QED
      BY <1>3, <2>1 DEF ClosedAll
  <1>4. CASE Listen \/ ListenFails \/ Ticker \/ StopSched
    BY <1>4 DEF Listen, ListenFails, Ticker, StopSched
  <1>5. CASE RunCleanup
    BY <1>5, <1>a DEF RunCleanup, Alive
  <1>6. CASE CleanupDone
    BY <1>6, <1>a DEF CleanupDone, Alive
  <1>7. ASSUME NEW r \in Requests, Arrive(r) \/ Answer(r)
        PROVE  ClosedInOrder'
    BY <1>7 DEF Arrive, Answer
  <1>8. ASSUME NEW r \in Requests, Query(r)
        PROVE  ClosedInOrder'
    BY <1>8, <1>a DEF Query, Alive
  <1>9. ASSUME NEW r \in Requests, QueryDone(r)
        PROVE  ClosedInOrder'
    BY <1>9, <1>a DEF QueryDone, Alive
  <1>10. CASE WorkerStep \/ UNCHANGED appVars
    BY <1>10, WorkerStepFrame DEF appVars, lifeVars
  <1> QED
    BY <1>1, <1>2, <1>3, <1>4, <1>5, <1>6, <1>7, <1>8, <1>9, <1>10
       DEF AppNext, Main, WorkerStep

\* A process that shuts down cuts off no statement, with any number of pools,
\* requests and jobs, although it waits neither for the scheduler nor, after
\* ten seconds, for its requests.
THEOREM NothingCutSafe == AppSpec => []NothingCut
  <1>1. AppInit => ClosedInOrder
    BY DEF AppInit, ClosedInOrder
  <1>2. ClosedInOrder => NothingCut
    BY DEF ClosedInOrder, NothingCut
  <1> QED
    BY <1>1, <1>2, LifeTypeInit, LifeTypeStep, ClosedInOrderStep, PTL DEF AppSpec

\* The pools stay open until the server has shut down, and status 0 is decided
\* only when no request is being served.
ServedFirst ==
    /\ phase \in {"new", "running", "draining"} =>
           /\ closedTo = 0 /\ exit = "none"
           /\ \A r \in Requests : req[r] # "refused"
    /\ phase = "draining" => server = "shut"
    /\ phase \in {"closing", "exited"} /\ Serves /\ exit = "ok" =>
           /\ server = "shut"
           /\ \A r \in Requests : req[r] \in {"idle", "answered"}

LEMMA ServedFirstStep ==
    ASSUME LifeTypeOK, ServedFirst, [AppNext]_appVars
    PROVE  ServedFirst'
  <1>a. /\ Pools \subseteq Nat \ {0}
        /\ phase \in {"new", "running", "draining", "closing", "exited"}
        /\ req \in [Requests -> {"idle", "busy", "answered", "refused"}]
    BY DEF WritePool, Pools, LifeTypeOK
  <1> USE DEF ServedFirst, Serves
  <1>1. CASE Launch \/ NewFails \/ ServerError \/ WorkerReturns
    BY <1>1 DEF Launch, NewFails, ServerError, WorkerReturns
  <1>2. CASE Shutdown
    BY <1>2 DEF Shutdown
  <1>3. CASE Drain
    BY <1>3, <1>a DEF Drain
  <1>4. CASE ClosePool \/ ClosedAll
    BY <1>4 DEF ClosePool, ClosedAll
  <1>5. CASE Listen \/ ListenFails \/ Ticker \/ RunCleanup \/ CleanupDone \/ StopSched
    BY <1>5, <1>a DEF Listen, ListenFails, Ticker, RunCleanup, CleanupDone, StopSched,
                      Alive
  <1>6. ASSUME NEW r \in Requests, Arrive(r)
        PROVE  ServedFirst'
    BY <1>6, <1>a DEF Arrive, Alive
  <1>7. ASSUME NEW r \in Requests, Query(r)
        PROVE  ServedFirst'
    BY <1>7, <1>a DEF Query, Alive
  <1>8. ASSUME NEW r \in Requests, QueryDone(r) \/ Answer(r)
        PROVE  ServedFirst'
    BY <1>8, <1>a DEF QueryDone, Answer, Alive
  <1>9. CASE WorkerStep \/ UNCHANGED appVars
    BY <1>9, WorkerStepFrame DEF appVars, lifeVars
  <1> QED
    BY <1>1, <1>2, <1>3, <1>4, <1>5, <1>6, <1>7, <1>8, <1>9
       DEF AppNext, Main, WorkerStep

\* Exit status 0 of a server means that every accepted request was answered
\* and none met a closed pool.
THEOREM RequestsServedSafe == AppSpec => []RequestsServed
  <1>1. AppInit => ServedFirst
    BY DEF AppInit, ServedFirst
  <1>2. ServedFirst => RequestsServed
    BY DEF ServedFirst, RequestsServed
  <1> QED
    BY <1>1, <1>2, LifeTypeInit, LifeTypeStep, ServedFirstStep, PTL DEF AppSpec
=============================================================================

# A TLA+ model of go-with-me

go-with-me is a Go starter service: user accounts with password, lockout and a
mandatory second factor, user management, rate limiting and background jobs,
on PostgreSQL (a write pool and optional read replicas) and Redis. This
directory holds TLA+ modules translated from the code under `src/`, TLC
configurations that check them on small instances, and TLAPS proofs of the
main safety properties for every value of the constants.

    tlc -workers 2 -config Login.cfg MCLogin     # one run; PROJECT.json lists them
    tlapm LoginProofs.tla                        # one proof module

## The system

| component | source (`internal/`) | state | operations |
|---|---|---|---|
| user repository | `repository/implementation/user.go`, `migrations/002` | `users` table; writes to the write pool, reads from a replica, round robin | one SQL statement per method, none in a transaction |
| reset repository | `repository/implementation/password_reset.go` | `password_resets` table | Create (DELETE, then INSERT), FindByUserID, Consume, DeleteExpired; SetToken has no caller |
| tokens | `auth/token.go` | none: signed JWTs with a purpose and an expiry, never revoked | issue, parse |
| AuthService, login | `services/auth_service.go:81-133` | none of its own | Login: counter, lock, next token |
| AuthService, second factor and invitation | `:135-209`, `:312-359` | none | VerifyTOTP, SetupTOTP, ConfirmTOTP, AcceptInvite |
| AuthService, password reset | `:211-311` | none | ForgotPassword, VerifyResetEmail, CompletePasswordReset |
| UserService | `services/user_service.go` | none | Update, Invite, Deactivate (Get only reads) |
| user list | `api/handlers/user_handler.go:24-51`, `lib/pagination.go`, `user.go:78-131` | none | List: parse page and size, COUNT, one page, meta |
| bootstrap admin | `auth_service.go:394-429` from `bootstrap/app.go:69-74` | none | EnsureBootstrapAdmin in every process that starts |
| rate limiter | `api/middleware/rate_limit.go` | a Redis counter per route group and client | INCR, EXPIRE, fail open |
| job worker | `jobs/worker.go` | registered jobs, error channel, wait group | Register, Run |
| scheduler | `jobs/scheduler.go` | a goroutine and a ticker per job | Every, Run |
| process life cycle | `bootstrap/app.go`, `cmd/` | pools, server, worker, scheduler | New, RunAll, RunAPI, RunWorker, Shutdown |
| middleware chain | `api/middleware/auth.go`, `require_role.go`, `api/routes` | none | token, purpose and role, ahead of the handler |
| audit log | `api/middleware/audit.go`, `repository/implementation/audit.go` | append-only rows | one INSERT after the answer |
| event publisher | `events/` | a Redis stream | one XADD; no caller |
| pools | `bootstrap/database.go` | the pools, an atomic counter | Read (round robin), Close |
| configuration, responses, logging | `config/`, `lib/` | none | parsing; status codes |

The handlers call one service method each. The services keep nothing between
calls: they meet in the tables, through the replicas, and in the tokens that
clients carry from one call to the next. What is hard is therefore the
interleaving of statements of different requests and processes, reads that are
out of date (a lagging replica, or simply a read before somebody else's write),
statements whose errors are dropped, and the order in which tokens can be used.
The worker, the rate limiter and the shutdown of a process are small concurrent
algorithms of their own.

What makes each part correct:

- login: racing wrong passwords do not get far past `MAX_FAILED_ATTEMPTS`, and
  no account is locked before it;
- second factor: no session without a stored secret; a deactivated account gets
  no session, an enrolled one no setup token; an accepted invitation is usable;
- password reset: a code works once, only while it is the newest, and only it
  leads to a change of its owner's password; one code at a time;
- user management: the last active super admin stays; an invite token belongs
  to an inactive account; a process that starts comes up;
- rate limiter: a bound per window, one request in charge of EXPIRE, no client
  blocked for good;
- job worker: no send on a closed or full channel, the first error reported;
- process: it exits after a signal, cuts nobody off on the way, and reports
  success only when every request has been answered; the scheduler goes on
  until then;
- middleware and audit log: a lost role is good for no longer than a token
  lives; the rows of success in the log are what happened and nothing else;
- user list: pages partition the list, rows and meta agree, and a client that
  walks through the pages misses nobody.

## Modules

| module | models |
|---|---|
| `Accounts` | `users`, the tables the replicas have replayed, the clock, the tokens; the repository's statements as operators on tables |
| `Login` | `AuthService.Login` for several requests |
| `Enrolment` | VerifyTOTP, ConfirmTOTP, AcceptInvite |
| `UserService` | Update, Invite, Deactivate and the start of a process |
| `Roster` | abstract: the set of active super admins |
| `AuthSystem` | Login, Enrolment and UserService composed over one `Accounts` |
| `PasswordReset` | the reset flow and the cleanup job |
| `OneTimeCode` | abstract: codes that are made, taken once or lapse, and the passwords they change |
| `RateLimiter` | one key of the middleware |
| `JobWorker` | `jobs.Worker` |
| `AppLifecycle` | a process around `JobWorker`: New to exit, server, requests, scheduler, pools |
| `RequestPipeline` | the routes of user management around `UserService`: session tokens, roles, audit log |
| `UserListing` | GET /users: pagination, COUNT and page on the round robin of pools, a client that walks |
| `MCLogin`, `MCUserService`, `MCPasswordReset`, `MCAuthSystem`, `MCRequestPipeline`, `MCUserListing` | symmetry sets and enumerated inputs, for TLC |
| `AccountsProofs`, `LoginProofs`, `UserServiceProofs`, `PasswordResetProofs`, `AuthSystemProofs`, `AppLifecycleProofs` (with `JobWorker`), `RequestPipelineProofs`, `ListRouteProofs` | theorems |

`AuthSystem` takes Login, Enrolment and UserService by INSTANCE over one
`Accounts`; `RequestPipeline` and `AppLifecycle` EXTEND the module they wrap and
conjoin its actions with their own, so that a step of the whole is a step of the
part or leaves the part alone. `Roster` is implemented by `UserService`
(`ImplementsRoster`) and by `AuthSystem` (`KeepsRoster`), `OneTimeCode` by
`PasswordReset` (`ImplementsOneTimeCode`). `ListRouteProofs` is about the two
components GET /api/v1/users runs through (`routes.go:106-111`): the rate limiter
ahead of the handler and the user list.

**The abstract specifications.** In `Roster` somebody joins or leaves, one at a
time, and the last one does not leave unless `excused`; the refinement maps
`admins` to the active super admins of `users` and `excused` to `raced`, or to a
deployment with replicas. `OneTimeCode` knows neither requests nor rows nor
replicas: a code is made for somebody who has no open one, is taken while it is
open, or lapses, and a password changes for somebody whose code was taken.
`open` is mapped to the unused rows, expired ones included, `taken` to
`redeemed`, `excused` to `overlap`. DELETE and the cleanup job are lapses.

**State and actions.** `users` is the table on the write pool, `replica[r]` what
replica `r` has replayed. A write changes `users`; a read picks a view from
`ReadViews`: any configured replica, or `users` when there is none
(`database.go:22-28`). `CatchUp(r)` brings a replica up to date at any moment.
Which replicas are configured is chosen by `Init`, so one run covers the
deployments with and without replicas; the properties that only hold without
say `Configured = {} =>`. A replica replays a table as a whole, and a replica's
view never goes back; one client may still see an older view after a newer one,
as the round robin allows.

A request is a slot (`login`, `enrol`, `request`, `proc`) with a program counter
and the local variables the rest of the handler uses. Each action runs one SQL
statement and the computation up to the next, because no two statements share a
transaction. An error that the code drops (`_ = s.users...`) is `Exec`: the
write happens or it does not. Errors that end the request are `Abort` or
`Fail`, which also stand for a client that goes away (the statements run under
the request's context) and for a process that dies between two statements;
`Crash` in `UserService` also restarts the process.

A token is the latest expiry signed for a purpose and a user: tokens of one
user and purpose differ in nothing else that a check looks at, they are never
revoked, and whoever holds one may present it again. Session tokens also carry
the role of the row they were signed from: `RequestPipeline` keeps the latest
expiry per user and role (`session`). Passwords and
secrets are model values: bcrypt matches exactly the password stored, a code is
right when it was made from the secret it is checked against, and a
six-digit code is identified with the reset it was mailed for.
`totp_enabled` is left out, because SetTOTP always sets it with the secret.
Email addresses are compared lower-cased and trimmed in the repository, so a
user is one element of `Users`.

In `AppLifecycle` each goroutine has a variable of its own (`phase` for the main
one, `server`, `req`, `sched`, and those of `JobWorker`), and `conn` says whose
statement holds a connection of which pool. `DB.Close` blocks on a pool while
one is out (`InUse`). When the main goroutine returns the process exits and all
other goroutines stop where they are: every action but those of `new` asks for
`Alive`. The ticker's channel holds one tick (`tick`); one that finds it full is
dropped.

In `RequestPipeline` a request is admitted with a token and a role
(`Admit`, ahead of the handler's first read), runs through the statements of
`UserService`, and leaves its audit row in `pending`; a process serves the next
request once that row is written or lost. A row of a deactivation is kept by its
target (`trail`), those of invitations are counted (`invites`), because they
carry no `resource_id`.

In `UserListing` ints have the width `MaxInt` gives them and wrap; the round
robin counts modulo `CounterSize`. The list is the sequence of the rows the
client's filter selects; `Join` may put a row anywhere, because `created_at` is
the time a transaction began. `QueryFails` is a COUNT or a page that fails by
itself and ends the walk; a negative offset makes `GetPage` fail.

`misses`, `abandoned`, `owner`, `sent`, `redeemed`, `overlap`, `accepted`,
`stale`, `raced`, `admitted`, `lost`, `failed`, `grace`, `missed`, `counted`,
`same`, `seen`, `expected` and `shrunk` are history variables: no guard reads
them, except that `misses` and `abandoned` are capped (`FailureCap`) to keep the
instance finite and `owner` gives out ids in order. `overlap`, `raced`,
`missed` and `shrunk` say that an interleaving or a failure that the code does
not exclude has taken place; the properties that mention them say exactly when
the code's promise is lost.

## Runs

Passing runs:

- **login** (`AttemptsBeforeLock`, `NoPrematureLock`): three requests,
  limit 2, one account (requests for two accounts touch different rows), two
  plaintexts, one replica or none. Three requests are enough for two wrong
  passwords and a right one, or three wrong ones, to overlap; the clock's two
  ticks let a lock of one tick end and the account be tried again.
- **user_service** (`TypeOK`, `TokenAfterDisable`, `LastAdminLostOnlyToRace`,
  `ImplementsRoster`, `BootsEventually`): two processes and two accounts, which
  is what it takes to lose the last two super admins at once and to start
  together on an empty database; one replica or none, failures and crashes.
  Time plays no part there.
- **password_reset** (`TypeOK`, `CodeSingleUse`, `OnePending`, `OldCodeDead`,
  `ChangeNeedsCode`, `ImplementsOneTimeCode`): two users (one may type the other's code), two requests,
  two codes (one replaces the other), one replica or none. `OTPTTL` is 0 and the clock ticks
  once: a code can be used in the tick it is made in and is expired in the next.
- **rate_limiter** (`TypeOK`, `TwoWindowBound`, `OneExpirePending`,
  `KeyGoesAway`): three requests, limit 2, window 3 ticks. The counter is capped
  at 5, past twice the limit; `admitted` is the sequence of the ages of
  the requests let through, youngest first, without those a window old or
  more: its length is the number in a stretch of one window.
- **app_lifecycle** (`AppTypeOK`, `SendIsSafe`, `FirstErrorReturned`,
  `NothingCut`, `RequestsServed`, `SendersGetThrough`, `ExitsAfterSignal`,
  `SchedulerKeepsOn`): each command, up to two jobs (one error is received and
  one stays in the channel), two requests (one can be answered while the other
  outlives the ten seconds), the cleanup, one read pool and the write pool.
- **request_pipeline** (`PipelineTypeOK`, `ActsUnderRecentRole`,
  `TrailTruthful`, `TrailComplete`): two processes, two users of whom one signs
  in, two roles, a token that lives one tick of a clock with two values, crashes and
  failing statements. A token is signed, used, outlives its role and expires
  within that.
- **listing** (`ListTypeOK`, `PagesPartition`, `MetaAgrees`, `WalkMissesNobody`):
  four users, page sizes 1 to 3 (so that a last page is full, short or the only
  one), every `page` from -1 to `MaxInt` = 7, of which products with a size
  overflow; two changes of the list; no, one or two replicas.
- **auth_system** (`TypeOK`, `MandatoryTwoFactor`, `LockoutHolds`,
  `InviteOpensNothing`, `SessionForActive`, `SetupTokensStop`, `KeepsRoster`):
  one account, a super admin or not, two logins, two enrolment requests, one management request, one secret (a code is
  checked against the secret it comes with, so another one opens no branch), one
  replica or none, from an empty database or an existing account, with failures.
  With one account `KeepsRoster` is about the other services taking it off the
  roster; requests that race for the last of several are in **user_service**, and
  both together, for any number of accounts, in `SystemKeepsRoster`. The limit
  of failures is one here, so that a row that Invite has just inserted can be
  locked before it is deactivated; **login** has a limit of its own.
  `InviteOpensNothing` is about invitations not yet accepted, those included
  whose acceptance was cut off once the password was stored; what acceptance has
  to lead to is the question of **invite_accepted**. `TypeOK`
  includes that of `Login`, which no other run checks.

Runs that find the program to differ from what it says of itself:

- **invite_accepted** (`AcceptActivates`): `auth_service.go:347` says that
  AcceptInvite activates the user; it clears the lock only, and nothing in the
  program ever sets `is_active`. An invited user cannot get in.
- **last_admin_race** (`LastAdminKept`): the guards announced at
  `user_service.go:50` and `:133` count and write in two statements; two
  overlapping requests remove the last two super admins.
- **lost_expire** (`BlockEnds`): an EXPIRE that is lost is never repeated
  (`rate_limit.go:54-57`); once over the limit the client stays blocked. EXPIRE
  is the only command that is lost there (`Faults`); an INCR that creates the key
  and whose answer is lost (`:50-53`) leaves such a key too, as **rate_limiter**
  has it.
- **sliding_window** (`SlidingWindow`): the window is fixed from the first
  request on, not sliding (`rate_limit.go:14`, `docs/architecture.md:111`).

What else the exploration shows, and where it is visible in the properties:

- A login that saw no lock can clear one written meanwhile
  (`auth_service.go:96`, `:111`). The counter starts again with it, so
  `AttemptsBeforeLock` holds all the same, but a lock need not last its 30
  minutes.
- Behind lagging replicas a login rereads an old counter, and no bound on the
  tries before a lock holds; the same is true of the count of super admins.
- ConfirmTOTP can give a session to an account deactivated after its check, and
  a login that began before an enrolment can hand out a setup token after it.
  `SessionForActive` and `SetupTokensStop` show that these are the only ways
  without replicas. That AcceptInvite gives no enrolled account a setup token
  rests on accounts with an invitation staying inactive for good, the defect of
  **invite_accepted**: an acceptance that activated its account would have to
  look at the secret, or end the invitation, to keep `SetupTokensStop`.
- An Update that read its target before the target was promoted skips the guard
  (`user_service.go:52-58`) and can take the last super admin's role away. It is
  a request whose reading is out of date, so `LastAdminLostOnlyToRace` and
  `Roster` excuse it like any other overlap.
- Two ForgotPassword requests can leave two pending codes, and a failed DELETE
  does too; `OnePending` and `OldCodeDead` excuse exactly the users in `overlap`.
- Invite cut off between its INSERT and its Deactivate leaves an active row
  that has no usable password and no token.
- A process that starts while a replica has not replayed the bootstrap row
  exits, and so does each restart until the replica catches up;
  `BootsEventually` holds because it does catch up.
- With three processes or more, requests of two that are up can race the last admin away while
  the third starts; the account exists then but is not active, and
  EnsureBootstrapAdmin fails on the unique email from then on
  (`Seedable` excludes this state).
- Without registered jobs `Run` returns the cancellation, although
  `worker.go:35` speaks of the first non-cancellation error only, and `New`
  registers none: an orderly stop of the worker process ends in status 1.
- RunWorker has no Shutdown: a cleanup that is running is cut off with the
  process. RunAll and RunAPI close the pools first, which waits for it, and
  for requests that `server.Shutdown` has given up on.
- A `page_size` above the cap gives the default of 20, not the cap, although
  `pagination.go:35` says that it is capped at 100.
- `(page-1)*page_size` wraps for very large pages: a negative OFFSET fails with
  500, another shows rows of some other page (`Fits` in `MetaAgrees`).
- COUNT and the page are two statements. A row that joins between them in the
  last step of a walk makes the client stop one page early and miss somebody;
  with an even number of replicas and no other reads COUNT and page always go to
  two different ones. `WalkMissesNobody` excludes exactly these two cases, and
  TLC finds a missed user when either condition is dropped.
- An Invite that fails after its INSERT answers 500: the account is there and
  the audit log has no row of success for it; `missed` records it. The audit
  rows of requests that are refused (status 400, `audit.go:25-56`) are left out:
  `TrailTruthful` and `TrailComplete` speak of rows of success. A demoted or
  deactivated user keeps the old role until the token expires: no middleware
  looks at the table.

**Bounds.** `MaxTime` (ticks), `FailureCap` (wrong passwords and cut-off requests per account),
`MaxResets` (reset ids), `CountCap` (the Redis counter) and `MaxChanges` (rows that
join or leave the list) appear in guards or as the range of ids; they end a
behaviour and change no step. `Callers` bounds who signs in. `CounterSize` and
`MaxInt` are widths of integers, small ones so that wrapping happens. Time limits in a
configuration are small numbers of ticks; only their order matters to the
properties. Numbers read from the environment are taken to be naturals, and the
limit positive: `config.go` does not check that, and a limit of 0 locks at the
first failure. Deadlock checking is off where the clock, the ids or a process
that exits end a behaviour (**login**, **password_reset**, **auth_system**,
**request_pipeline**, **app_lifecycle**, **invite_accepted**), and on in the others.

**Fairness.** `UserService!FairSpec`: a process that has failed is restarted and
one that starts runs on (`WF`), its INSERT is not cut off by a fault every time
it is tried (`SF` of `BootCreate`), and a configured replica replays what it has
been sent (`WF`); no request has to come. `RateLimiter!FairSpec`: time passes,
and a request past INCR reaches its EXPIRE, which is the next line.
`AppLifecycle!AppFairSpec`: Go runs every goroutine that can go on, statements
end because their context or the server's timeouts end them, tickers tick, and a
handler of a job returns once its context is cancelled, which is what `Job` asks
of one. No request has to arrive or be answered and no signal has to come.

## Proofs

All theorems are of the form `Spec => []Inv`, `Spec => [][A]_vars` or, for a
refinement, `Spec => Abstract`, for any sets of users, requests, jobs and
processes, any limits and any bounds, with or without replicas and failures.
They rest on the modules' named assumptions (naturals, positive limits, finite
sets of logins and jobs, model values that differ, callers who are users, a
cleanup that is no request, no more users than an int counts), which TLC evaluates in the runs.

Types: `TypeOK` of each module is inductive. (`LoginTypeCorrect`,
`UserServiceTypeCorrect`, `PasswordResetTypeCorrect`, `AuthTypeCorrect`,
`WorkerTypeCorrect`, `AppTypeCorrect`, `PipelineTypeCorrect`,
`RateLimiterTypeCorrect`, `ListTypeCorrect`; `AccountsProofs` has what the statements do to a
row and to a table.)

- `AttemptsBounded` (`AttemptsBeforeLock`): inductive together with `TypeOK`. The work is in
  `PendingMoves`: an increment raises `failed` by one and adds one request to
  those about to lock; Recount drops a request only when the counter it read,
  which without replicas is the counter, is below the limit; Abort moves one
  from `Pending` to `abandoned`; Lock and Clear end the premise or reset the
  counter. The cardinalities are those of finite sets that gain or lose one
  element.
- `NoPrematureLockSafe`: `CountersHonest`, that no counter, on the table or on a
  replica, is ahead of the failures recorded (`misses`), and that a request about
  to lock has seen enough of them; a lock may come from an old reading.
- `SystemLockoutHolds` (`LockoutHolds`) carries both to `AuthSystem`. Every
  statement outside Login leaves `failed` and `locked` of a row alone or resets
  both (`StatementLockout`, `EnrolLockout`, `ServiceLockout`), and `CountersFrame`
  shows that this is all the two invariants need of the other services; a lock
  taken away without its counter would falsify `AttemptsBeforeLock`.
- `LastAdminSafe` (`LastAdminLostOnlyToRace`): the invariant is that, without
  replicas, a request past its guard whose reading is not `stale` has another
  active super admin beside its target, or a target that is not one
  (`FreshReadings`). It is needed because the guard and the write are two steps;
  `Outdate` makes every other reader stale when the roster changes, so a write
  of a fresh request finds what its guard has seen.
- `RosterImplemented` (`ImplementsRoster`): a step changes one row at most
  (`OneRowStep`), so one person moves on or off the roster (`OneMoves`), and the
  last one only as `LastAdminStep` allows (`RosterMoves`).
- `PipelineKeepsRoster` is that refinement after `PipelineRunsService`.
  `SystemKeepsRoster` (`KeepsRoster`) has a proof of its own, because in
  `AuthSystem` other services write the table between the guard and the write:
  `OnRoster` are the three columns the roster depends on, and no statement of
  Login (`LoginFrame`) or Enrolment (`EnrolFrame`) writes one of them, so
  `FreshReadings` survives their steps (`ReadingsFrame`); for the steps of
  UserService `RosterMoves` is cited through INSTANCE.
- `TokenAfterDisableSafe`: `InviteesDisabled` adds that whoever holds an invite
  token or is being disabled has a row, since an INSERT would make an active one.
- `CodeSingleUseSafe` (`CodeSingleUse`): the invariant says that every row on the write pool
  was created, that an id has one row at most, and that a code has been accepted
  only if its row is used or gone. Consume decides on the
  write pool, so replicas need no mention.
- `OldCodeDeadSafe`, `OnePendingSafe`: the invariant adds that, for users not in
  `overlap`, every row is the newest of its owner, and while a request is between its
  DELETE and its INSERT no row of its owner and no second such request exists.
- `ChangeNeedsCodeSafe`: `CodeBehind`, that a pwd_reset token, and a request
  about to store a password, have an accepted code of the same user behind them.
- `OneTimeCodeImplemented` (`ImplementsOneTimeCode`): the invariants above are
  what the refinement needs. The write pool is the only place a step is seen in
  (`OnlyStoreWrites`); DELETE and the cleanup job are lapses (`RowsLapse`), an
  INSERT of somebody who has a row left is excused by `overlap`
  (`InsertMakes`), Consume takes a row that is open at that moment
  (`ConsumeTakes`), and Complete changes a password behind a taken code
  (`StoreChanges`, from `CodeBehind`).
- `MandatoryTwoFactorSafe`: `Secured`, that only rows that exist have a secret,
  that replicas show no row and no secret the table lacks, and that a request at
  "reload" has stored one. No statement takes a secret away again.
- `SessionForActiveSafe` follows from the actions alone. `SetupTokensStopSafe`
  needs `Invited`: without replicas nobody holds a token for, logs in to or
  enrols an account that is not there or is being invited, and an account with an
  invite token stays inactive, without a secret and without a request that could
  store one (`InvitedHolds`). `InviteOpensNothingSafe` puts it together with
  `InviteesDisabled`, which the other services keep (`InviteesStepTogether`),
  `MandatoryTwoFactor` (no authenticator, hence no session) and `NoSetupYet`: an
  enrolment hands a setup token only to somebody it counts as accepted, Login to
  nobody who is invited, and Invite chooses nobody who has one (`NoSetupStep`).
  `AuthSystemProofs` cites the type lemmas of Login and UserService through INSTANCE.
- `WorkerSendIsSafe`: `RoomReserved`, that the errors in the channel and the
  jobs that may still send are no more than the registered jobs, and nobody
  sends after the close. `WorkerReturnsFirstError`: `ErrorsKept`, that until
  Run returns the channel holds every error in the order of `failed`.
- `ProcessRunsWorker` (`AppSpec => Spec`) and `PipelineRunsService`
  (`PipelineSpec => Spec`): the wrapped component behaves as its own
  specification, so its theorems hold in the composition (`ProcessSendIsSafe`).
- `NothingCutSafe`: `ClosedInOrder`, that a pool is closed only when it has no
  connection out and gives out none afterwards. `RequestsServedSafe`:
  `ServedFirst`, that status 0 is decided when no request is busy and nothing is
  accepted any more, and that nobody meets a closed pool before that.
- `RolesExpire` (`ActsUnderRecentRole`): `RecentSessions`, that no token outlives
  `clock + JWTExpiry`, and each is for the present role or covered by `grace`.
- `TrailIsTruthful`, `TrailIsComplete`: `Ledger`. Every invited account is
  counted once: by a row, a pending row, a request between INSERT and Deactivate,
  or a missed one; no two processes owe a row for the same account; and every
  deactivation likewise. The count changes by one entry per step (`OwedStep`,
  `RowsApart`).
- `OneExpirePendingSafe`: `OneLife` adds that a key with a life has no request
  left that would set it, and a request that would has a key without.

- `TwoWindowBoundSafe` (`TwoWindowBound`): `TwoLives`. The requests let through
  in one window, youngest first, are those of the present life of the key, no
  more than the counter and the limit, followed by those of earlier lives, no
  more than a limit, each at least as old as the present key has lived: when
  that life ends all of these have left the window. `TimeGoesOn`: the ages are in order
  (`YoungestFirst`), so those that fall out of the window are a tail of the
  sequence, and `Tick`, which drops a tail, is never blocked: the bound is not
  one on a clock that has stopped.
- `PagesPartitionSafe` (`PagesPartition`): `PageCount`, that `total_pages` is
  the quotient rounded up, and `OnePage`, that a position is on exactly one of
  those pages, are facts of arithmetic for every width of an int.
- `MetaAgreesSafe` (`MetaAgrees`): `MetaKnown` adds that between the two
  statements `total` is the length of the list COUNT has read, which is the
  list of the page unless the history variable `same` says otherwise.
- `WalkMissesNobodySafe` (`WalkMissesNobody`): `WalkOnTrack`. Of those listed when
  the walk began, whoever stands in the present list on a page that has been
  read has been seen (`Swept`): a row that joins pushes others back, to pages
  still to be read, never forward. The lemma `LeastOf` (a
  non-empty set of naturals has a least one, from the library's well-founded
  induction) takes the place of an induction over the list.

Every invariant and action property of the passing runs has a theorem. Only
model-checked is liveness (`BootsEventually`, `KeyGoesAway`,
`SendersGetThrough`, `ExitsAfterSignal`, `SchedulerKeepsOn`), which is beyond
TLAPS, and the four properties the program violates.

## Not modelled

The plan was carried out in this order: `Accounts`, `Login`, `UserService` with
`Roster`, `PasswordReset`, `Enrolment` and `AuthSystem`, `RateLimiter`,
`JobWorker`, `AppLifecycle`, `RequestPipeline`, `UserListing`, each followed by
its proofs, then `OneTimeCode`. What it leaves:

- the event publisher: nothing calls it; the audit log's List and the reset
  repository's SetToken: no caller either;
- recovery, request ids, logging, response formats and SMTP keep no state that
  anything decides on; a panic in a handler is a request that ends with an error;
- configuration is read once: its values are the constants. Connect, its pings
  and the migrations are one step that succeeds (`Launch`) or not (`NewFails`);
- `name` and the timestamps of a row, hence ties in `created_at`; Get, Me, Logout
  and SetupTOTP, which change nothing;
- two requests of one process in user management, which share nothing but the
  database and are therefore two of `Procs`;
- passwords and codes as strings: bcrypt's cost (`DefaultCost`, 10, where
  the docs say 12) and the chance of guessing a code.

Next could come a pipeline around `AuthSystem` as a whole, so that the role of a
session and its second factor are in one state.

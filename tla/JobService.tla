------------------------------ MODULE JobService ------------------------------
(***************************************************************************)
(* The daemon's job service, pkg/core/job_service.go.                      *)
(*                                                                         *)
(* t.jobs is a slice of jobs guarded by muJobs.  Every method holds the    *)
(* mutex for its whole body, so each is one atomic step, except RunJob:    *)
(* findJob looks the name up under the mutex, and the job's ExecutionFn    *)
(* runs after it is released.  ExecuteCommand("run") starts RunJob in a    *)
(* new goroutine and answers "OK" at once.                                 *)
(*                                                                         *)
(* The module describes the service's state and steps; the control         *)
(* dispatcher composes them with the daemon that owns the service.         *)
(***************************************************************************)
EXTENDS Naturals, Sequences, SequencesExt

CONSTANTS
    JobNames,    \* names the application's beans register jobs under
    Requesters,  \* callers of ExecuteCommand; each starts at most one run
    NoArg        \* a job command given without its name argument

ASSUME NoArg \notin JobNames

\* The first argument of the Job operation: anything else is "unknown".
JobCommands == {"list", "run", "cancel", "unknown"}

VARIABLES
    jobs,      \* t.jobs: names in registration order
    runner,    \* the RunJob goroutine a requester started: none, spawned,
               \* running (inside ExecutionFn), done
    runName    \* the jobName it was started with

jobVars == <<jobs, runner, runName>>

JobTypeOK ==
    /\ jobs \in Seq(JobNames)
    /\ runner \in [Requesters -> {"none", "spawned", "running", "done"}]
    /\ runName \in [Requesters -> JobNames \cup {NoArg}]

\* JobService() before any bean has called AddJob.
JobInit ==
    /\ jobs = <<>>
    /\ runner = [r \in Requesters |-> "none"]
    /\ runName = [r \in Requesters |-> NoArg]

Registered(n) == \E i \in 1..Len(jobs) : jobs[i] = n

\* AddJob: append, whatever the name; duplicates are kept.
AddJob(n) ==
    /\ jobs' = Append(jobs, n)
    /\ UNCHANGED <<runner, runName>>

\* Seeded bug: the loop goes on after removing a match.
CancelJobNoReturn(n) == jobs' = Remove(jobs, n)

\* CancelJob: remove the first job with that name, or ErrJobNotFound.
CancelJob(n) == jobs' = RemoveFirst(jobs, n)

\* What ExecuteCommand returns to the control service: an error for an
\* unknown command and for a cancel of a name that is not registered;
\* otherwise a text, the usage text when the name is missing.
ExecuteReply(sub, n) ==
    IF \/ sub = "unknown"
       \/ sub = "cancel" /\ n # NoArg /\ ~Registered(n)
    THEN "error" ELSE "ok"

\* ExecuteCommand(cmd, args) called by requester r.
ExecuteCommand(r, sub, n) ==
    \/ /\ sub = "run"
       /\ n # NoArg
       /\ runner' = [runner EXCEPT ![r] = "spawned"]
       /\ runName' = [runName EXCEPT ![r] = n]
       /\ UNCHANGED jobs
    \/ /\ sub = "cancel"
       /\ n # NoArg
       /\ CancelJob(n)
       /\ UNCHANGED <<runner, runName>>
    \/ /\ sub \in {"list", "unknown"} \/ n = NoArg
       /\ UNCHANGED jobVars

\* RunJob in the goroutine: findJob under the mutex; a name that is not
\* registered (any more) is logged as ErrJobNotFound.
FindJob(r) ==
    /\ runner[r] = "spawned"
    /\ runner' = [runner EXCEPT ![r] =
                    IF Registered(runName[r]) THEN "running" ELSE "done"]
    /\ UNCHANGED <<jobs, runName>>

\* job.ExecutionFn(ctx) returns, or panics and the deferred recover turns
\* the panic into the error that is logged.
JobReturns(r) ==
    /\ runner[r] = "running"
    /\ runner' = [runner EXCEPT ![r] = "done"]
    /\ UNCHANGED <<jobs, runName>>

\* The process ends: the slice and every goroutine are gone.
JobsLost ==
    /\ jobs' = <<>>
    /\ runner' = [r \in Requesters |-> "none"]
    /\ runName' = [r \in Requesters |-> NoArg]

-----------------------------------------------------------------------------

\* The registry the service implements: the slice as a bag, a spawned
\* goroutine as a pending request, a goroutine inside ExecutionFn as an
\* active job.
Abstract == INSTANCE JobRegistry WITH
    registry <- ToBag(jobs),
    pending  <- [r \in Requesters |->
                   IF runner[r] = "spawned" THEN runName[r] ELSE NoArg],
    active   <- [r \in Requesters |->
                   IF runner[r] = "running" THEN runName[r] ELSE NoArg]

=============================================================================

------------------------------ MODULE JobRegistry ------------------------------
(***************************************************************************)
(* What the job service promises, without its slice and its mutex.         *)
(*                                                                         *)
(* The registry is a bag of job names: a name may be registered more than  *)
(* once, and a cancel takes away one registration.  A request to run a job *)
(* is accepted at once; later the request either starts the job, if the   *)
(* name is registered at that moment, or is dropped.  A started job runs   *)
(* until it finishes.  When the process ends everything is forgotten.      *)
(***************************************************************************)
EXTENDS Naturals, Bags, BagsExt

CONSTANTS
    JobNames,
    Requesters,
    NoArg          \* no job: no request pending, no job running

VARIABLES
    registry,      \* bag of registered names
    pending,       \* the name each requester asked to run, not yet looked up
    active         \* the job each requester's run is executing

Idle == [r \in Requesters |-> NoArg]

Init ==
    /\ IsABag(registry)
    /\ pending = Idle
    /\ active = Idle

Register(n) ==
    /\ registry' = BagAdd(registry, n)
    /\ UNCHANGED <<pending, active>>

\* Cancelling a name that is not registered changes nothing.
Unregister(n) ==
    /\ registry' = BagRemove(registry, n)
    /\ UNCHANGED <<pending, active>>

Request(r, n) ==
    /\ pending[r] = NoArg
    /\ active[r] = NoArg
    /\ pending' = [pending EXCEPT ![r] = n]
    /\ UNCHANGED <<registry, active>>

Start(r) ==
    /\ pending[r] # NoArg
    /\ BagIn(pending[r], registry)
    /\ active' = [active EXCEPT ![r] = pending[r]]
    /\ pending' = [pending EXCEPT ![r] = NoArg]
    /\ UNCHANGED registry

Drop(r) ==
    /\ pending[r] # NoArg
    /\ ~BagIn(pending[r], registry)
    /\ pending' = [pending EXCEPT ![r] = NoArg]
    /\ UNCHANGED <<registry, active>>

Finish(r) ==
    /\ active[r] # NoArg
    /\ active' = [active EXCEPT ![r] = NoArg]
    /\ UNCHANGED <<registry, pending>>

Forget ==
    /\ registry' = EmptyBag
    /\ pending' = Idle
    /\ active' = Idle

Next ==
    \/ \E n \in JobNames : Register(n) \/ Unregister(n)
    \/ \E r \in Requesters :
         \/ \E n \in JobNames : Request(r, n)
         \/ Start(r) \/ Drop(r) \/ Finish(r)
    \/ Forget

Spec == Init /\ [][Next]_<<registry, pending, active>>

=============================================================================

---------------------------- MODULE NodeService ----------------------------
(***************************************************************************)
(* The node identity and time-ordered id generator of                      *)
(* pkg/core/node_service.go.                                               *)
(*                                                                         *)
(* PostConstruct reads "node.id", generating and persisting one when it is *)
(* absent.  Issue stamps a version-1 UUID with the wall clock (in 100ns    *)
(* ticks) and runs a lock-free loop over two atomics, lastTimestamp and    *)
(* clock, to pick the clock sequence.  Goroutines call Issue concurrently; *)
(* each step below is one atomic operation of that loop.  A process       *)
(* restart loses lastTimestamp and clock but keeps the persisted node id;  *)
(* a failed read of it at start is taken for an absent one.               *)
(***************************************************************************)
EXTENDS Naturals, Sequences

CONSTANTS
    Threads,          \* goroutines calling Issue
    NodeIds,          \* values util.GenerateNodeId may return
    NoValue,          \* "node.id" absent from the configuration
    InitialClockSeq,  \* clock sequence uuid.New(TimebasedVer1) leaves in an id
    MaxTime,          \* bound on the wall clock, in 100ns ticks
    MaxIds,           \* bound on the number of ids issued
    MaxRestarts,      \* bound on process restarts
    ClockMayRegress   \* whether the wall clock can be stepped back (NTP)

ASSUME NoValue \notin NodeIds
ASSUME MaxTime \in Nat /\ MaxIds \in Nat /\ MaxRestarts \in Nat
ASSUME ClockMayRegress \in BOOLEAN

VARIABLES
    now,            \* time.Now() in 100ns ticks
    persisted,      \* "node.id" in the configuration repository
    up,             \* PostConstruct has succeeded in the current process
    nodeId,         \* t.nodeId
    lastTimestamp,  \* t.lastTimestamp (atomic.Int64)
    clock,          \* t.clock (atomic.Int32)
    pc,             \* control point of each Issue call
    idTime,         \* the timestamp the id under construction carries
    idSeq,          \* the clock sequence the id under construction carries
    old,            \* the local variable old of the loop
    issued,         \* (history) ids returned by Issue, in return order
    restarts        \* number of restarts so far

vars == <<now, persisted, up, nodeId, lastTimestamp, clock, pc, idTime, idSeq,
          old, issued, restarts>>
issueVars == <<pc, idTime, idSeq, old>>

\* An id as Parse sees it: <<timestamp, clock sequence, node>>.
Id == (0..MaxTime) \X Nat \X NodeIds

TypeOK ==
    /\ now \in 0..MaxTime
    /\ persisted \in NodeIds \cup {NoValue}
    /\ up \in BOOLEAN
    /\ nodeId \in NodeIds \cup {NoValue}
    /\ lastTimestamp \in 0..MaxTime
    /\ clock \in Nat
    /\ pc \in [Threads -> {"idle", "load", "inc", "cas", "reload", "reset"}]
    /\ idTime \in [Threads -> 0..MaxTime]
    /\ idSeq \in [Threads -> Nat]
    /\ old \in [Threads -> 0..MaxTime]
    /\ issued \in Seq(Id)
    /\ restarts \in 0..MaxRestarts

\* A fresh process: atomics are zero, no Issue is running.
ProcessStart ==
    /\ up = FALSE
    /\ nodeId = NoValue
    /\ lastTimestamp = 0
    /\ clock = 0
    /\ pc = [t \in Threads |-> "idle"]
    /\ idTime = [t \in Threads |-> 0]
    /\ idSeq = [t \in Threads |-> 0]
    /\ old = [t \in Threads |-> 0]

Init ==
    /\ now = 1
    /\ persisted = NoValue
    /\ ProcessStart
    /\ issued = <<>>
    /\ restarts = 0

-----------------------------------------------------------------------------
(* PostConstruct                                                           *)

\* What Properties.GetString("node.id", "") gives: ConfigRepository's
\* GetProperty returns "" (NoValue) when the key is absent and also when
\* the store's Get returns an error.
StoredNodeId == {persisted, NoValue}

\* "node.id" read: t.nodeId = ParseNodeId(t.nodeIdHex).
LoadNodeId ==
    /\ ~up
    /\ \E v \in StoredNodeId \ {NoValue} :
         /\ up' = TRUE
         /\ nodeId' = v
    /\ UNCHANGED <<now, persisted, lastTimestamp, clock, issueVars, issued, restarts>>

\* "node.id" read as "": GenerateNodeId, ConfigRepository.Set("node.id",
\* ...), over a stored id when the read failed.  A failing Set makes
\* PostConstruct return an error: the process does not start.
GenerateNodeId ==
    /\ ~up
    /\ NoValue \in StoredNodeId
    /\ \E n \in NodeIds :
         \/ /\ persisted' = n
            /\ up' = TRUE
            /\ nodeId' = n
         \/ UNCHANGED <<persisted, up, nodeId>>
    /\ UNCHANGED <<now, lastTimestamp, clock, issueVars, issued, restarts>>

-----------------------------------------------------------------------------
(* Issue                                                                   *)

\* uuid.New(TimebasedVer1); id.SetTime(time.Now()); id.SetNode(nodeId).
IssueStart(t) ==
    /\ up
    /\ pc[t] = "idle"
    /\ Len(issued) < MaxIds
    /\ pc' = [pc EXCEPT ![t] = "load"]
    /\ idTime' = [idTime EXCEPT ![t] = now]
    /\ idSeq' = [idSeq EXCEPT ![t] = InitialClockSeq]
    /\ UNCHANGED <<now, persisted, up, nodeId, lastTimestamp, clock, old,
                   issued, restarts>>

\* curr := id.UnixTime100Nanos(); old := t.lastTimestamp.Load()
\* if old == curr { ... }
LoadLast(t) ==
    /\ pc[t] = "load"
    /\ old' = [old EXCEPT ![t] = lastTimestamp]
    /\ pc' = [pc EXCEPT ![t] = IF lastTimestamp = idTime[t] THEN "inc" ELSE "cas"]
    /\ UNCHANGED <<now, persisted, up, nodeId, lastTimestamp, clock, idTime,
                   idSeq, issued, restarts>>

\* The id is complete: Issue returns it.
Return(t, seq) ==
    /\ pc' = [pc EXCEPT ![t] = "idle"]
    /\ issued' = Append(issued, <<idTime[t], seq, nodeId>>)

\* id.SetClockSequence(int(t.clock.Inc())); break
IncClock(t) ==
    /\ pc[t] = "inc"
    /\ clock' = clock + 1
    /\ idSeq' = [idSeq EXCEPT ![t] = clock + 1]
    /\ Return(t, clock + 1)
    /\ UNCHANGED <<now, persisted, up, nodeId, lastTimestamp, idTime, old, restarts>>

\* if t.lastTimestamp.CAS(old, curr) { ... } else old = Load ...
CasLast(t) ==
    /\ pc[t] = "cas"
    /\ IF lastTimestamp = old[t]
         THEN /\ lastTimestamp' = idTime[t]
              /\ pc' = [pc EXCEPT ![t] = "reset"]
         ELSE /\ pc' = [pc EXCEPT ![t] = "reload"]
              /\ UNCHANGED lastTimestamp
    /\ UNCHANGED <<now, persisted, up, nodeId, clock, idTime, idSeq, old,
                   issued, restarts>>

\* t.clock.Store(0); break -- the id keeps uuid.New's clock sequence.
ResetClock(t) ==
    /\ pc[t] = "reset"
    /\ clock' = 0
    /\ Return(t, idSeq[t])
    /\ UNCHANGED <<now, persisted, up, nodeId, lastTimestamp, idTime, idSeq,
                   old, restarts>>

\* old = t.lastTimestamp.Load(); if old > curr { id.SetTime(time.Now()) }
Reload(t) ==
    /\ pc[t] = "reload"
    /\ old' = [old EXCEPT ![t] = lastTimestamp]
    /\ idTime' = [idTime EXCEPT ![t] = IF lastTimestamp > idTime[t] THEN now ELSE @]
    /\ pc' = [pc EXCEPT ![t] = "load"]
    /\ UNCHANGED <<now, persisted, up, nodeId, lastTimestamp, clock, idSeq,
                   issued, restarts>>

-----------------------------------------------------------------------------
(* Environment: the wall clock and process restarts.                       *)

Tick ==
    /\ now < MaxTime
    /\ now' = now + 1
    /\ UNCHANGED <<persisted, up, nodeId, lastTimestamp, clock, issueVars,
                   issued, restarts>>

\* The wall clock is stepped back by one tick.
Regress ==
    /\ ClockMayRegress
    /\ now > 1
    /\ now' = now - 1
    /\ UNCHANGED <<persisted, up, nodeId, lastTimestamp, clock, issueVars,
                   issued, restarts>>

\* The process exits and is started again; a restart takes longer than a
\* tick.  Only the persisted configuration survives.
Restart ==
    /\ restarts < MaxRestarts
    /\ now < MaxTime
    /\ restarts' = restarts + 1
    /\ now' = now + 1
    /\ up' = FALSE
    /\ nodeId' = NoValue
    /\ lastTimestamp' = 0
    /\ clock' = 0
    /\ pc' = [t \in Threads |-> "idle"]
    /\ idTime' = [t \in Threads |-> 0]
    /\ idSeq' = [t \in Threads |-> 0]
    /\ old' = [t \in Threads |-> 0]
    /\ UNCHANGED <<persisted, issued>>

Next ==
    \/ LoadNodeId
    \/ GenerateNodeId
    \/ \E t \in Threads :
         \/ IssueStart(t)
         \/ LoadLast(t)
         \/ IncClock(t)
         \/ CasLast(t)
         \/ ResetClock(t)
         \/ Reload(t)
    \/ Tick
    \/ Regress
    \/ Restart

Spec == Init /\ [][Next]_vars

-----------------------------------------------------------------------------
(* Properties.                                                             *)

\* (timestamp, clock sequence) order of two ids.
Before(a, b) == a[1] < b[1] \/ (a[1] = b[1] /\ a[2] < b[2])

\* Ids come out strictly increasing by (timestamp, clock sequence), also
\* when the wall clock does not advance between calls and across restarts.
IdsStrictlyIncreasing ==
    \A i \in 1..Len(issued) - 1 : Before(issued[i], issued[i + 1])

\* No two calls of Issue, by any goroutines of any process incarnation,
\* return the same id.
UniqueIds ==
    \A i, j \in 1..Len(issued) : i # j => issued[i] # issued[j]

=============================================================================

-------------------------- MODULE ConfigRepository --------------------------
(***************************************************************************)
(* The watchable configuration repository of pkg/core/config_repository.go *)
(*                                                                         *)
(* Set commits a key/value pair to the backing store and then fans the     *)
(* change out to every registered watch whose prefix matches, by a send on *)
(* the watch's unbuffered channel.  Each watch runs a goroutine that       *)
(* selects between its context being cancelled and an incoming change; on *)
(* exit it unregisters itself and closes its channel.  Destroy cancels the *)
(* context of every registered watch.                                      *)
(*                                                                         *)
(* Keys and prefixes are sequences of segments so that strings.HasPrefix   *)
(* becomes IsPrefix; a value is a model value and the empty string (which  *)
(* deletes the entry) is NoValue.                                          *)
(***************************************************************************)
EXTENDS Naturals, FiniteSets, Sequences, SequencesExt

CONSTANTS
    Keys,       \* configuration keys (sequences of segments)
    WatchPrefixes,   \* prefixes a watch may be registered with
    Vals,       \* non-empty configuration values
    NoValue,    \* the empty string: "entry absent" / "delete the entry"
    Setters,    \* goroutines calling Set, one Set each
    Watchers,   \* subscribers, each calling Watch once
    NoWatch,    \* no send in progress
    Unseen      \* a watch callback has not been told about the key

ASSUME NoValue \notin Vals /\ NoWatch \notin Watchers
ASSUME Unseen \notin Vals \cup {NoValue}
ASSUME Keys # {} /\ WatchPrefixes # {} /\ Vals # {}

VARIABLES
    store,        \* the backend contents under the "config:" bucket
    watchNum,     \* atomic handle counter (watchNum)
    watchMap,     \* watches present in the sync.Map
    shuttingDown, \* Destroy has run
    wstate,       \* control point of each watch goroutine
    prefix,       \* prefix each watch was registered with
    ctxDone,      \* the watch's context has been cancelled
    seen,         \* last value each watch callback received, per key
    pc,           \* control point of each Set call
    change,       \* the key/value pair each Set is publishing
    toVisit,      \* watches the Range of notifyAll has still to visit
    target,       \* watch whose channel the setter is sending to
    snapshot,     \* (history) watches present when the Range began
    delivered,    \* (history) watches that received the setter's change
    released      \* (history) watches registered when Destroy ran

vars == <<store, watchNum, watchMap, shuttingDown, wstate, prefix, ctxDone,
          seen, pc, change, toVisit, target, snapshot, delivered, released>>
watchVars == <<wstate, prefix, ctxDone, seen>>
setVars == <<pc, change, toVisit, target, snapshot, delivered>>

WStates == {"new", "select", "callback", "unregister", "close", "closed"}
\* A watch goroutine that has left its select loop.
Exited == {"unregister", "close", "closed"}
PCs == {"idle", "loadNum", "notify", "send", "done", "panicked"}

TypeOK ==
    /\ store \in [Keys -> Vals \cup {NoValue}]
    /\ watchNum \in 0..Cardinality(Watchers)
    /\ watchMap \subseteq Watchers
    /\ shuttingDown \in BOOLEAN
    /\ wstate \in [Watchers -> WStates]
    /\ prefix \in [Watchers -> WatchPrefixes]
    /\ ctxDone \in [Watchers -> BOOLEAN]
    /\ seen \in [Watchers -> [Keys -> Vals \cup {NoValue, Unseen}]]
    /\ pc \in [Setters -> PCs]
    /\ change \in [Setters -> Keys \X (Vals \cup {NoValue})]
    /\ toVisit \in [Setters -> SUBSET Watchers]
    /\ target \in [Setters -> Watchers \cup {NoWatch}]
    /\ snapshot \in [Setters -> SUBSET Watchers]
    /\ delivered \in [Setters -> SUBSET Watchers]
    /\ released \subseteq Watchers

Init ==
    /\ store = [k \in Keys |-> NoValue]
    /\ watchNum = 0
    /\ watchMap = {}
    /\ shuttingDown = FALSE
    /\ wstate = [w \in Watchers |-> "new"]
    /\ prefix = [w \in Watchers |-> CHOOSE p \in WatchPrefixes : TRUE]
    /\ ctxDone = [w \in Watchers |-> FALSE]
    /\ seen = [w \in Watchers |-> [k \in Keys |-> Unseen]]
    /\ pc = [s \in Setters |-> "idle"]
    /\ change = [s \in Setters |-> <<CHOOSE k \in Keys : TRUE, NoValue>>]
    /\ toVisit = [s \in Setters |-> {}]
    /\ target = [s \in Setters |-> NoWatch]
    /\ snapshot = [s \in Setters |-> {}]
    /\ delivered = [s \in Setters |-> {}]
    /\ released = {}

-----------------------------------------------------------------------------
(* Reads.                                                                  *)

\* Get(key): the value stored under "config:key", "" when absent.
Get(k) == store[k]

\* Seeded bug: strings.HasPrefix(wc.prefix, e.key), arguments swapped.
MatchesSwapped(k, p) == IsPrefix(k, p)

\* strings.HasPrefix(e.key, wc.prefix) in notifyAll.
Matches(k, p) == IsPrefix(p, k)

-----------------------------------------------------------------------------
(* Set(key, value) = doSet, then notifyAll when a watch was ever issued.   *)

\* doSet: Remove for the empty value, Set otherwise; both commit at once.
DoSet(s, k, v) ==
    /\ pc[s] = "idle"
    /\ store' = [store EXCEPT ![k] = v]
    /\ pc' = [pc EXCEPT ![s] = "loadNum"]
    /\ change' = [change EXCEPT ![s] = <<k, v>>]
    /\ UNCHANGED <<watchNum, watchMap, shuttingDown, released, watchVars,
                   toVisit, target, snapshot, delivered>>

\* doSet returns the backend's error: Set returns it without notifying.
DoSetFails(s) ==
    /\ pc[s] = "idle"
    /\ pc' = [pc EXCEPT ![s] = "done"]
    /\ UNCHANGED <<store, watchNum, watchMap, shuttingDown, released,
                   watchVars, change, toVisit, target, snapshot, delivered>>

\* if t.watchNum.Load() != 0 { t.notifyAll(...) }; Range starts from the
\* entries present now and skips those deleted before it reaches them.
LoadWatchNum(s) ==
    /\ pc[s] = "loadNum"
    /\ IF watchNum # 0
         THEN /\ pc' = [pc EXCEPT ![s] = "notify"]
              /\ toVisit' = [toVisit EXCEPT ![s] = watchMap]
              /\ snapshot' = [snapshot EXCEPT ![s] = watchMap]
         ELSE /\ pc' = [pc EXCEPT ![s] = "done"]
              /\ UNCHANGED <<toVisit, snapshot>>
    /\ UNCHANGED <<store, watchNum, watchMap, shuttingDown, released,
                   watchVars, change, target, delivered>>

\* One Range callback: load the entry; on a prefix match send on wc.ch.
NotifyVisit(s, w) ==
    /\ pc[s] = "notify"
    /\ w \in toVisit[s]
    /\ toVisit' = [toVisit EXCEPT ![s] = @ \ {w}]
    /\ IF w \in watchMap /\ Matches(change[s][1], prefix[w])
         THEN /\ pc' = [pc EXCEPT ![s] = "send"]
              /\ target' = [target EXCEPT ![s] = w]
         ELSE UNCHANGED <<pc, target>>
    /\ UNCHANGED <<store, watchNum, watchMap, shuttingDown, released,
                   watchVars, change, snapshot, delivered>>

\* Range has visited every entry: Set returns nil.
NotifyDone(s) ==
    /\ pc[s] = "notify"
    /\ toVisit[s] = {}
    /\ pc' = [pc EXCEPT ![s] = "done"]
    /\ UNCHANGED <<store, watchNum, watchMap, shuttingDown, released,
                   watchVars, change, toVisit, target, snapshot, delivered>>

\* wc.ch <- e on a channel that is (or becomes, while the sender is
\* blocked) closed: the send panics and Set never returns normally.
SendPanics(s) ==
    /\ pc[s] = "send"
    /\ wstate[target[s]] = "closed"
    /\ pc' = [pc EXCEPT ![s] = "panicked"]
    /\ UNCHANGED <<store, watchNum, watchMap, shuttingDown, released,
                   watchVars, change, toVisit, target, snapshot, delivered>>

-----------------------------------------------------------------------------
(* Watch(ctx, prefix, cb) and its goroutine.                               *)

\* Watch: context.WithCancel, registerWatch (watchNum.Inc, Store), go.
Watch(w, p) ==
    /\ wstate[w] = "new"
    /\ watchNum' = watchNum + 1
    /\ watchMap' = watchMap \cup {w}
    /\ prefix' = [prefix EXCEPT ![w] = p]
    /\ wstate' = [wstate EXCEPT ![w] = "select"]
    /\ UNCHANGED <<store, shuttingDown, released, ctxDone, seen, setVars>>

\* The subscriber calls the returned cancel function.
Cancel(w) ==
    /\ wstate[w] # "new"
    /\ ~ctxDone[w]
    /\ ctxDone' = [ctxDone EXCEPT ![w] = TRUE]
    /\ UNCHANGED <<store, watchNum, watchMap, shuttingDown, released,
                   wstate, prefix, seen, setVars>>

\* select: case <-ctx.Done(): return.
SelectDone(w) ==
    /\ wstate[w] = "select"
    /\ ctxDone[w]
    /\ wstate' = [wstate EXCEPT ![w] = "unregister"]
    /\ UNCHANGED <<store, watchNum, watchMap, shuttingDown, released,
                   prefix, ctxDone, seen, setVars>>

\* Seeded bug: the callback is handed the key as the value.
ReceiveKeyAsValue(w, s) ==
    /\ wstate[w] = "select"
    /\ pc[s] = "send"
    /\ target[s] = w
    /\ wstate' = [wstate EXCEPT ![w] = "callback"]
    /\ seen' = [seen EXCEPT ![w][change[s][1]] = change[s][1]]
    /\ delivered' = [delivered EXCEPT ![s] = @ \cup {w}]
    /\ pc' = [pc EXCEPT ![s] = "notify"]
    /\ target' = [target EXCEPT ![s] = NoWatch]
    /\ UNCHANGED <<store, watchNum, watchMap, shuttingDown, released,
                   prefix, ctxDone, change, toVisit, snapshot>>

\* select: case e := <-ch, the rendezvous with a blocked sender.
Receive(w, s) ==
    /\ wstate[w] = "select"
    /\ pc[s] = "send"
    /\ target[s] = w
    /\ wstate' = [wstate EXCEPT ![w] = "callback"]
    /\ seen' = [seen EXCEPT ![w][change[s][1]] = change[s][2]]
    /\ delivered' = [delivered EXCEPT ![s] = @ \cup {w}]
    /\ pc' = [pc EXCEPT ![s] = "notify"]
    /\ target' = [target EXCEPT ![s] = NoWatch]
    /\ UNCHANGED <<store, watchNum, watchMap, shuttingDown, released,
                   prefix, ctxDone, change, toVisit, snapshot>>

\* cb(e.key, e.value) returns: true loops to the select, false returns.
Callback(w) ==
    /\ wstate[w] = "callback"
    /\ \E more \in BOOLEAN :
         wstate' = [wstate EXCEPT ![w] = IF more THEN "select" ELSE "unregister"]
    /\ UNCHANGED <<store, watchNum, watchMap, shuttingDown, released,
                   prefix, ctxDone, seen, setVars>>

\* deferred: t.unregisterWatch(handle)
Unregister(w) ==
    /\ wstate[w] = "unregister"
    /\ watchMap' = watchMap \ {w}
    /\ wstate' = [wstate EXCEPT ![w] = "close"]
    /\ UNCHANGED <<store, watchNum, shuttingDown, released, prefix, ctxDone,
                   seen, setVars>>

\* Seeded bug: the deferred close(ch) is missing.
CloseOmitted(w) ==
    /\ wstate[w] = "close"
    /\ UNCHANGED vars

\* deferred: close(ch)
Close(w) ==
    /\ wstate[w] = "close"
    /\ wstate' = [wstate EXCEPT ![w] = "closed"]
    /\ UNCHANGED <<store, watchNum, watchMap, shuttingDown, released,
                   prefix, ctxDone, seen, setVars>>

\* Seeded bug: Destroy tests watchNum > 1 instead of > 0.
DestroyOffByOne ==
    /\ ~shuttingDown
    /\ shuttingDown' = TRUE
    /\ released' = watchMap
    /\ IF watchNum > 1
         THEN ctxDone' = [w \in Watchers |-> ctxDone[w] \/ w \in watchMap]
         ELSE UNCHANGED ctxDone
    /\ UNCHANGED <<store, watchNum, watchMap, wstate, prefix, seen, setVars>>

\* Destroy: shuttingDown, then cancelFn of every registered watch.
Destroy ==
    /\ ~shuttingDown
    /\ shuttingDown' = TRUE
    /\ released' = watchMap
    /\ IF watchNum > 0
         THEN ctxDone' = [w \in Watchers |-> ctxDone[w] \/ w \in watchMap]
         ELSE UNCHANGED ctxDone
    /\ UNCHANGED <<store, watchNum, watchMap, wstate, prefix, seen, setVars>>

-----------------------------------------------------------------------------
SetterStep(s) ==
    \/ \E k \in Keys, v \in Vals \cup {NoValue} : DoSet(s, k, v)
    \/ DoSetFails(s)
    \/ LoadWatchNum(s)
    \/ \E w \in Watchers : NotifyVisit(s, w)
    \/ NotifyDone(s)
    \/ SendPanics(s)

WatcherStep(w) ==
    \/ \E p \in WatchPrefixes : Watch(w, p)
    \/ Cancel(w)
    \/ SelectDone(w)
    \/ \E s \in Setters : Receive(w, s)
    \/ Callback(w)
    \/ Unregister(w)
    \/ Close(w)

Next ==
    \/ \E s \in Setters : SetterStep(s)
    \/ \E w \in Watchers : WatcherStep(w)
    \/ Destroy

\* Every goroutine that can run eventually runs (the Go scheduler); the
\* callers of Set, Watch, cancel and Destroy are not obliged to call.
Fairness ==
    /\ \A s \in Setters :
         /\ WF_vars(LoadWatchNum(s))
         /\ WF_vars(\E w \in Watchers : NotifyVisit(s, w))
         /\ WF_vars(NotifyDone(s))
         /\ WF_vars(SendPanics(s))
    /\ \A w \in Watchers :
         /\ WF_vars(SelectDone(w))
         /\ WF_vars(\E s \in Setters : Receive(w, s))
         /\ WF_vars(Callback(w))
         /\ WF_vars(Unregister(w))
         /\ WF_vars(Close(w))

Spec == Init /\ [][Next]_vars /\ Fairness

-----------------------------------------------------------------------------
(* Properties.                                                             *)

\* A Set that returned nil delivered its change to every watch that was
\* registered when notifyAll's Range began and whose prefix matches the
\* key, unless that watch's goroutine had already left its loop: the
\* prefix filter and the Range over a map that loses entries concurrently
\* (unregisterWatch) never silently drop a live subscriber.
ChangeDeliveredToLiveWatches ==
    \A s \in Setters :
        pc[s] = "done" =>
            \A w \in snapshot[s] :
                IsPrefix(prefix[w], change[s][1]) =>
                    w \in delivered[s] \/ wstate[w] \in Exited

\* No Set stays blocked in notifyAll's send on a watch channel: every call
\* eventually returns (normally or by a panic), whatever the watch
\* goroutines, their cancellation and their callbacks do.
EverySetReturns ==
    \A s \in Setters : pc[s] # "idle" ~> pc[s] \in {"done", "panicked"}

\* Destroy releases every watch registered at the time: each such watch
\* goroutine eventually unregisters and closes its channel.
WatchesReleasedOnDestroy ==
    \A w \in Watchers : w \in released ~> wstate[w] = "closed"

\* No Set panics by sending on a watch channel that its goroutine closed.
NoSendOnClosedChannel ==
    \A s \in Setters : pc[s] # "panicked"

\* Once every Set has returned, every live watch's last view of each key it
\* was told about equals what Get returns: the watches are a faithful
\* mirror of the store (writes "linearized with respect to that key").
WatchersConverge ==
    (\A s \in Setters : pc[s] = "done") =>
        \A w \in Watchers :
            wstate[w] \in {"select", "callback"} =>
                \A k \in Keys : seen[w][k] # Unseen => seen[w][k] = Get(k)

=============================================================================

--------------------------- MODULE ListerInformer ---------------------------
(***************************************************************************)
(* listerInformer (src/pkg/listwatch/listinformer.go): the per-namespace   *)
(* adapter that turns the informer's OnAdd/OnUpdate/OnDelete callbacks     *)
(* into watch events for a higher-level cache, tracks sync through the     *)
(* listLenListerWatcher counters, and drains: it closes stoppedInformer    *)
(* and, on a goroutine of its own, issues a DELETED event for every object *)
(* of the informer's store, closes listerHasStopped and calls drained.     *)
(*                                                                         *)
(* stoppedInformer is the informer's stopCh.  The events sink is the       *)
(* higher-level cache; "consumer" is the set of keys it holds, rebuilt     *)
(* from the events it received.  A close of a closed channel panics: the   *)
(* process dies ("panicked", after which no step is taken).                *)
(***************************************************************************)
EXTENDS Informer

CONSTANTS
    Callers,   \* goroutines calling drain() (and stop() when CallStop)
    CallStop   \* whether callers may also call stop()

ASSUME CallStop \in BOOLEAN

VARIABLES
    draining,       \* li.draining
    listerStopped,  \* li.listerHasStopped is closed
    stopOnce,       \* li.stopInformerOnce has run
    drainer,        \* drain goroutine: "none","snapshot","deleting","closed","done"
    toDrain,        \* keys of resourcesToDrain not yet deleted
    drainedCalls,   \* number of calls of the drained callback
    called,         \* callers that already made their call
    panicked,       \* a close of a closed channel
    listed,         \* lllw: the first List has been counted
    listCount,      \* lllw: size of the first List
    addCount,       \* lllw: ADDED events passed on
    consumer,       \* keys held by the higher-level cache (the sink)
    sent,           \* flips on every event passed to the sink
    addedEver,      \* keys for which an ADDED event reached the sink
    initialList     \* keys returned by the first List (history)

adapterVars == <<draining, listerStopped, stopOnce, drainer, toDrain,
                 drainedCalls, called, panicked>>
lllwVars == <<listed, listCount, addCount>>
sinkVars == <<consumer, sent, addedEver>>
vars == <<informerVars, adapterVars, lllwVars, sinkVars, initialList>>

TypeOK ==
    /\ InformerTypeOK
    /\ draining \in BOOLEAN /\ listerStopped \in BOOLEAN /\ stopOnce \in BOOLEAN
    /\ drainer \in {"none", "snapshot", "deleting", "closed", "done"}
    /\ toDrain \in SUBSET Obj
    /\ drainedCalls \in Nat
    /\ called \in SUBSET Callers
    /\ panicked \in BOOLEAN
    /\ listed \in BOOLEAN /\ listCount \in Nat /\ addCount \in Nat
    /\ consumer \in SUBSET Obj /\ sent \in {0, 1}
    /\ addedEver \in SUBSET Obj /\ initialList \in SUBSET Obj

(* newListerInformer: channels open, not draining, informer.Run started.   *)
Init ==
    /\ InformerInit
    /\ draining = FALSE /\ listerStopped = FALSE /\ stopOnce = FALSE
    /\ drainer = "none" /\ toDrain = {} /\ drainedCalls = 0
    /\ called = {} /\ panicked = FALSE
    /\ listed = FALSE /\ listCount = 0 /\ addCount = 0
    /\ consumer = {} /\ sent = 0 /\ addedEver = {} /\ initialList = {}

----------------------------------------
(* listLenListerWatcher (not under src/): counts the first List and the   *)
(* ADDED events passed on.                                                 *)
RecordListCount ==
    /\ listed' = TRUE
    /\ listCount' = IF listed THEN listCount ELSE Cardinality(server)

IncAddCount == addCount' = addCount + 1

HasReachedListCount == addCount >= listCount

(* Mutation: trust the informer alone.                                    *)
HasSyncedInformerOnly == InformerHasSynced

(* hasSynced(): informer synced *and* enough ADDED events passed on.       *)
HasSynced == InformerHasSynced /\ HasReachedListCount

IsDraining == draining

IsStopped == listerStopped

----------------------------------------
(* Event translation and delivery                                          *)
NoEvent == [type |-> "NONE"]

(* Mutation: the tombstone is not unwrapped and fails the cast.           *)
NewWatchEventNoUnwrap(t, p) ==
    IF p.tomb THEN NoEvent ELSE [type |-> t, o |-> p.o]

(* newWatchEvent: unwrap a DeletedFinalStateUnknown to its Obj; anything   *)
(* that is then not a runtime.Object is logged and ignored.                *)
NewWatchEvent(t, p) ==
    LET obj == IF p.tomb THEN Live(p.o) ELSE p
    IN  IF obj.tomb THEN NoEvent ELSE [type |-> t, o |-> obj.o]

(* The sink: the higher-level cache stores ADDED/MODIFIED objects and      *)
(* removes DELETED ones.                                                   *)
SendEvent(e) ==
    /\ consumer' = IF e.type = "DELETED" THEN consumer \ {e.o}
                                        ELSE consumer \cup {e.o}
    /\ sent' = 1 - sent
    /\ addedEver' = IF e.type = "ADDED" THEN addedEver \cup {e.o} ELSE addedEver

Ignore == UNCHANGED <<sinkVars, addCount>>

(* Mutation: OnAdd forgets incAddCount.                                   *)
OnAddNoCount(p) ==
    LET e == NewWatchEvent("ADDED", p)
    IN  IF e = NoEvent THEN Ignore ELSE SendEvent(e) /\ UNCHANGED addCount

OnAdd(p) ==
    LET e == NewWatchEvent("ADDED", p)
    IN  IF e = NoEvent THEN Ignore ELSE SendEvent(e) /\ IncAddCount

OnUpdate(p) ==
    LET e == NewWatchEvent("MODIFIED", p)
    IN  IF e = NoEvent THEN Ignore ELSE SendEvent(e) /\ UNCHANGED addCount

OnDelete(p) ==
    LET e == NewWatchEvent("DELETED", p)
    IN  IF e = NoEvent THEN Ignore ELSE SendEvent(e) /\ UNCHANGED addCount

(* processorListener.run: hand the next pending notification to the       *)
(* handler, until the processor stops.                                     *)
ListenerDeliver ==
    /\ proc # "stopped"
    /\ pending # <<>>
    /\ LET n == Head(pending)
       IN  CASE n.kind = "add"    -> OnAdd(n.p)
             [] n.kind = "update" -> OnUpdate(n.p)
             [] n.kind = "delete" -> OnDelete(n.p)
    /\ pending' = Tail(pending)
    /\ UNCHANGED <<server, changes, refl, watchQ, relists, fqueue, fitems,
                   populated, initPop, indexer, proc, stopCh, adapterVars,
                   listed, listCount, initialList>>

(* The reflector's List goes through listLenListerWatcher.List.            *)
ListAndRecord ==
    /\ ReflectorList
    /\ RecordListCount
    /\ initialList' = IF listed THEN initialList ELSE server
    /\ UNCHANGED <<adapterVars, addCount, sinkVars>>

----------------------------------------
(* Lifecycle: drain and stop                                               *)
(* stopInformer: close(li.stoppedInformer), unguarded.                     *)
StopInformer ==
    IF stopCh THEN panicked' = TRUE /\ UNCHANGED stopCh
              ELSE stopCh' = TRUE /\ UNCHANGED panicked

(* stopListerInformer: close listerHasStopped once.                        *)
StopListerInformer == listerStopped' = TRUE

(* Mutation: drain() without the "already draining" early return.        *)
DrainNoFlagCheck(c) ==
    /\ c \notin called
    /\ called' = called \cup {c}
    /\ draining' = TRUE
    /\ StopInformer
    /\ drainer' = "snapshot"
    /\ UNCHANGED <<server, changes, refl, watchQ, relists, fqueue, fitems,
                   populated, initPop, indexer, proc, pending, listerStopped,
                   stopOnce, toDrain, drainedCalls, lllwVars, sinkVars,
                   initialList>>

(* Mutation: drain() sets the flag but never starts the drain goroutine.  *)
DrainNoGoroutine(c) ==
    /\ c \notin called
    /\ called' = called \cup {c}
    /\ IF draining
       THEN UNCHANGED <<draining, stopCh, panicked>>
       ELSE /\ draining' = TRUE
            /\ StopInformer
    /\ UNCHANGED <<server, changes, refl, watchQ, relists, fqueue, fitems,
                   populated, initPop, indexer, proc, pending, listerStopped,
                   stopOnce, drainer, toDrain, drainedCalls, lllwVars, sinkVars,
                   initialList>>

(* drain() by caller c: under the lock, test-and-set draining and close   *)
(* stoppedInformer; if it set the flag, start the drain goroutine.         *)
Drain(c) ==
    /\ c \notin called
    /\ called' = called \cup {c}
    /\ IF draining
       THEN UNCHANGED <<draining, stopCh, panicked, drainer>>
       ELSE /\ draining' = TRUE
            /\ StopInformer
            /\ drainer' = "snapshot"
    /\ UNCHANGED <<server, changes, refl, watchQ, relists, fqueue, fitems,
                   populated, initPop, indexer, proc, pending, listerStopped,
                   stopOnce, toDrain, drainedCalls, lllwVars, sinkVars,
                   initialList>>

(* stop(): once, close listerHasStopped then stoppedInformer.              *)
Stop(c) ==
    /\ CallStop
    /\ c \notin called
    /\ called' = called \cup {c}
    /\ IF stopOnce
       THEN UNCHANGED <<stopOnce, listerStopped, stopCh, panicked>>
       ELSE /\ stopOnce' = TRUE
            /\ StopListerInformer
            /\ StopInformer
    /\ UNCHANGED <<server, changes, refl, watchQ, relists, fqueue, fitems,
                   populated, initPop, indexer, proc, pending, draining,
                   drainer, toDrain, drainedCalls, lllwVars, sinkVars,
                   initialList>>

(* Drain goroutine: resourcesToDrain := store.List() ...                   *)
DrainSnapshot ==
    /\ drainer = "snapshot"
    /\ toDrain' = indexer
    /\ drainer' = "deleting"
    /\ UNCHANGED <<informerVars, draining, listerStopped, stopOnce,
                   drainedCalls, called, panicked, lllwVars, sinkVars,
                   initialList>>

(* ... li.OnDelete(resource) for each, in the store's (arbitrary) order ... *)
DrainDelete ==
    /\ drainer = "deleting"
    /\ \E o \in toDrain :
          /\ OnDelete(Live(o))
          /\ toDrain' = toDrain \ {o}
    /\ UNCHANGED <<informerVars, draining, listerStopped, stopOnce, drainer,
                   drainedCalls, called, panicked, listed, listCount,
                   initialList>>

(* ... then the deferred stopListerInformer() ...                          *)
DrainClose ==
    /\ drainer = "deleting"
    /\ toDrain = {}
    /\ StopListerInformer
    /\ drainer' = "closed"
    /\ UNCHANGED <<informerVars, draining, stopOnce, toDrain, drainedCalls,
                   called, panicked, lllwVars, sinkVars, initialList>>

(* ... and the deferred drained(namespace).                                *)
DrainNotify ==
    /\ drainer = "closed"
    /\ drainedCalls' = drainedCalls + 1
    /\ drainer' = "done"
    /\ UNCHANGED <<informerVars, draining, listerStopped, stopOnce, toDrain,
                   called, panicked, lllwVars, sinkVars, initialList>>

----------------------------------------
InformerStep ==
    /\ \/ \E t \in {"ADDED", "MODIFIED", "DELETED"}, o \in Obj : ServerWrite(t, o)
       \/ ReflectorWatchEvent
       \/ WatchExpire
       \/ ReflectorExit
       \/ ProcessPop
       \/ ControllerExit
       \/ ProcessorStop
    /\ UNCHANGED <<adapterVars, lllwVars, sinkVars, initialList>>

Next ==
    /\ ~panicked
    /\ \/ InformerStep
       \/ ListAndRecord
       \/ ListenerDeliver
       \/ \E c \in Callers : Drain(c) \/ Stop(c)
       \/ DrainSnapshot
       \/ DrainDelete
       \/ DrainClose
       \/ DrainNotify

(* Go schedules every runnable goroutine: the reflector, processLoop, the  *)
(* processor and its listener, and the drain goroutine.  The API server,  *)
(* watch expiry and the callers are the environment and may never act.    *)
(* The sink is assumed to accept every event eventually.                   *)
Fairness ==
    /\ WF_vars(~panicked /\ ListAndRecord)
    /\ WF_vars(~panicked /\ ReflectorWatchEvent /\ UNCHANGED <<adapterVars, lllwVars, sinkVars, initialList>>)
    /\ WF_vars(~panicked /\ ReflectorExit /\ UNCHANGED <<adapterVars, lllwVars, sinkVars, initialList>>)
    /\ WF_vars(~panicked /\ ProcessPop /\ UNCHANGED <<adapterVars, lllwVars, sinkVars, initialList>>)
    /\ WF_vars(~panicked /\ ControllerExit /\ UNCHANGED <<adapterVars, lllwVars, sinkVars, initialList>>)
    /\ WF_vars(~panicked /\ ProcessorStop /\ UNCHANGED <<adapterVars, lllwVars, sinkVars, initialList>>)
    /\ WF_vars(~panicked /\ ListenerDeliver)
    /\ WF_vars(~panicked /\ (DrainSnapshot \/ DrainDelete \/ DrainClose \/ DrainNotify))

Spec == Init /\ [][Next]_vars /\ Fairness

----------------------------------------
(* Properties                                                              *)
(* hasSynced() implies the sink has received an ADDED event for every     *)
(* object of the first List (spec 8, count equivalence).  The informer's   *)
(* own HasSynced turns true as soon as the FIFO's initial population is    *)
(* popped, while the notifications may still wait in the listener's       *)
(* buffer; the lllw add count is what closes that gap.                     *)
SyncedImpliesInitialDelivered == HasSynced => initialList \subseteq addedEver

(* The informer is watching and every event it received has been passed  *)
(* on to the sink.                                                         *)
Quiescent ==
    refl = "watch" /\ watchQ = <<>> /\ fqueue = <<>> /\ pending = <<>> /\ ~stopCh

(* Whenever the adapter is quiescent, the higher-level cache holds exactly *)
(* what the informer's store holds: OnAdd/OnUpdate/OnDelete, tombstone     *)
(* unwrapping included, pass on every change of the store, across watch    *)
(* expiries, re-Lists and their tombstones.                                *)
ConsumerMirrorsIndexer == Quiescent => consumer = indexer

(* Whenever the adapter is quiescent, the higher-level cache holds exactly *)
(* the server's objects (spec 1: the consumer never believes a resource    *)
(* exists that is gone).                                                   *)
ConsumerMirrorsServer == Quiescent => consumer = server

(* An ADDED event is never sent for an object the higher-level cache      *)
(* already holds: a re-List or duplicate add of a known object arrives as  *)
(* MODIFIED (spec 8 scenario), so the lllw add count is not inflated.      *)
AddedOnlyForNew == [][addCount' > addCount => consumer' # consumer]_vars

(* Concurrent drain() calls run the drain sequence once: one drained       *)
(* callback and no second close of stoppedInformer (spec 8, idempotence).  *)
DrainIdempotent == drainedCalls <= 1 /\ ~panicked

(* Unless the adapter is stopped first, it eventually reports synced.     *)
EventuallySynced == <>(HasSynced \/ stopCh)

(* The adapter's lifecycle as spec 4.3 states it.  listerHasStopped      *)
(* closed is Stopped; the drain flag set is Draining until then; a stop()  *)
(* without a drain is a Stopped reached via stop.                          *)
LifecyclePhase ==
    IF listerStopped THEN "Stopped" ELSE IF draining THEN "Draining" ELSE "Running"

LifecycleVia == IF draining THEN "drain" ELSE IF stopOnce THEN "stop" ELSE "none"

Lifecycle == INSTANCE AdapterLifecycle
                 WITH phase <- LifecyclePhase, via <- LifecycleVia,
                      drained <- drainedCalls

(* drain() and stop() implement the lifecycle of spec 4.3: Running, then   *)
(* Draining and Stopped or Stopped directly, the drained callback exactly  *)
(* once and only after listerHasStopped is closed (the deferred calls of   *)
(* the drain goroutine run in that order); and a drain, even one racing    *)
(* live deliveries, eventually completes (spec 8: no deadlock).            *)
LifecycleRefined == Lifecycle!LSpec

(* No event reaches the sink once listerHasStopped is closed (spec 8,     *)
(* no post-drain leakage).                                                 *)
NoEventAfterStopped == [][listerStopped => sent' = sent]_vars

(* Once the drain has completed and the informer has fully stopped, the    *)
(* higher-level cache holds nothing of this namespace (spec 1: a consumer  *)
(* never believes a resource exists after its partition went away).        *)
DrainedViewEmpty == (drainer = "done" /\ proc = "stopped") => consumer = {}

(* Neither drain() nor stop() closes a closed channel (spec 7: drain on a  *)
(* stopped adapter is a no-op).                                            *)
NoPanic == ~panicked

=============================================================================

------------------------------ MODULE Informer ------------------------------
(***************************************************************************)
(* The client-go shared informer that listerInformer wraps (vendored, not  *)
(* under src/, modelled from spec.md sections 2-5 and 8 and from the       *)
(* contract of cache.SharedInformer):                                      *)
(*   - the API server of one namespace (environment), whose changes reach  *)
(*     the informer through a watch channel;                               *)
(*   - the Reflector: List, then Watch; a watch may expire and force a     *)
(*     re-List, whose Replace produces tombstones (DeletedFinalStateUnknown)*)
(*     for objects that vanished while nobody was watching;                 *)
(*   - the DeltaFIFO: a queue of keys, each with its accumulated deltas,    *)
(*     and the initial-population counter behind HasSynced;                *)
(*   - the controller's processLoop: pops a key, applies its deltas to the *)
(*     indexer (the store listerInformer drains) and hands notifications   *)
(*     to the processorListener's unbounded pending buffer;                *)
(*   - shutdown: Run(stopCh) returns only after processLoop found the FIFO *)
(*     empty and the reflector exited; then the listener drops whatever is *)
(*     still pending.                                                      *)
(* The listener's delivery of a notification to the handler (OnAdd, ...)  *)
(* is in ListerInformer, since the handler is listerInformer itself.       *)
(* Objects are keys: contents do not matter to any property.               *)
(***************************************************************************)
EXTENDS Naturals, Sequences, FiniteSets, SequencesExt

CONSTANTS
    Obj,          \* keys of the objects of the namespace (model values)
    MaxChanges,   \* bound on API server writes in a behaviour
    MaxRelists    \* bound on watch expiries forcing a re-List

ASSUME MaxChanges \in Nat /\ MaxRelists \in Nat /\ Obj # {}

VARIABLES
    server,     \* keys currently stored in the API server
    changes,    \* number of API server writes so far (bounded)
    refl,       \* reflector: "list" (must List), "watch", "exited"
    watchQ,     \* watch channel: events not yet received by the reflector
    relists,    \* number of watch expiries so far (bounded)
    fqueue,     \* DeltaFIFO.queue: keys in pop order
    fitems,     \* DeltaFIFO.items: key -> its accumulated deltas
    populated,  \* DeltaFIFO.populated
    initPop,    \* DeltaFIFO.initialPopulationCount
    indexer,    \* keys in the informer's store (informer.GetStore())
    proc,       \* "running", "loopDone" (processLoop returned), "stopped"
    pending,    \* processorListener buffer of notifications, in order
    stopCh      \* the channel passed to informer.Run is closed

informerVars == <<server, changes, refl, watchQ, relists, fqueue, fitems,
                  populated, initPop, indexer, proc, pending, stopCh>>

(* An object as carried by a delta or a notification: live, or wrapped in *)
(* a DeletedFinalStateUnknown tombstone.                                   *)
Payload == [o : Obj, tomb : BOOLEAN]
Live(o) == [o |-> o, tomb |-> FALSE]
Tomb(o) == [o |-> o, tomb |-> TRUE]

WatchEvent   == [type : {"ADDED", "MODIFIED", "DELETED"}, o : Obj]
Delta        == [type : {"Sync", "Added", "Updated", "Deleted"}, p : Payload]
Notification == [kind : {"add", "update", "delete"}, p : Payload]

InformerTypeOK ==
    /\ server \in SUBSET Obj
    /\ changes \in 0..MaxChanges
    /\ refl \in {"list", "watch", "exited"}
    /\ watchQ \in Seq(WatchEvent)
    /\ relists \in 0..MaxRelists
    /\ fqueue \in Seq(Obj)
    /\ fitems \in [Obj -> Seq(Delta)]
    /\ populated \in BOOLEAN
    /\ initPop \in Nat
    /\ indexer \in SUBSET Obj
    /\ proc \in {"running", "loopDone", "stopped"}
    /\ pending \in Seq(Notification)
    /\ stopCh \in BOOLEAN

InformerInit ==
    /\ server \in SUBSET Obj
    /\ changes = 0
    /\ refl = "list"
    /\ watchQ = <<>>
    /\ relists = 0
    /\ fqueue = <<>>
    /\ fitems = [o \in Obj |-> <<>>]
    /\ populated = FALSE
    /\ initPop = 0
    /\ indexer = {}
    /\ proc = "running"
    /\ pending = <<>>
    /\ stopCh = FALSE

----------------------------------------
(* API server (environment).  A write reaches the watch channel only while *)
(* a watch is open; a write made while the reflector must re-List is seen *)
(* by that List.                                                           *)
EmitWatch(t, o) ==
    watchQ' = IF refl = "watch" THEN Append(watchQ, [type |-> t, o |-> o])
                                ELSE watchQ

ServerWrite(t, o) ==
    /\ changes < MaxChanges
    /\ \/ t = "ADDED"    /\ o \notin server /\ server' = server \cup {o}
       \/ t = "MODIFIED" /\ o \in server    /\ UNCHANGED server
       \/ t = "DELETED"  /\ o \in server    /\ server' = server \ {o}
    /\ changes' = changes + 1
    /\ EmitWatch(t, o)
    /\ UNCHANGED <<refl, relists, fqueue, fitems, populated, initPop, indexer,
                   proc, pending, stopCh>>

----------------------------------------
(* DeltaFIFO                                                               *)
(* dedupDeltas/isDeletionDup: two trailing Deleted deltas collapse into    *)
(* one, keeping the older unless it is a tombstone.                        *)
DedupDeltas(ds) ==
    IF Len(ds) >= 2 /\ ds[Len(ds)].type = "Deleted"
                    /\ ds[Len(ds) - 1].type = "Deleted"
    THEN LET a == ds[Len(ds)]
             b == ds[Len(ds) - 1]
         IN  Append(SubSeq(ds, 1, Len(ds) - 2), IF b.p.tomb THEN a ELSE b)
    ELSE ds

(* queueActionLocked on a state [q, items]: append the delta, enqueue the  *)
(* key if it had no deltas.                                                *)
QueueAction(f, d) ==
    LET o == d.p.o
    IN  [q     |-> IF f.items[o] = <<>> THEN Append(f.q, o) ELSE f.q,
         items |-> [f.items EXCEPT ![o] = DedupDeltas(Append(@, d))]]

FifoState == [q |-> fqueue, items |-> fitems]

SetFifo(f) == fqueue' = f.q /\ fitems' = f.items

(* Replace(list) of the client-go this tree was built against (before    *)
(* v0.27): a Sync delta per listed object, in list order, then a          *)
(* tombstone Deleted delta per key of knownObjects (the indexer) missing   *)
(* from the list. A key that is only queued gets no tombstone. The first  *)
(* Replace fixes initialPopulationCount, tombstones included.             *)
FifoReplace(order, goneKnown) ==
    LET Sync(o) == [type |-> "Sync", p |-> Live(o)]
        Gone(o) == [type |-> "Deleted", p |-> Tomb(o)]
        ds == [i \in 1..Len(order) |-> Sync(order[i])]
              \o [i \in 1..Len(goneKnown) |-> Gone(goneKnown[i])]
    IN  /\ SetFifo(FoldLeft(QueueAction, FifoState, ds))
        /\ populated' = TRUE
        /\ initPop' = IF populated THEN initPop ELSE Len(ds)

(* Delete(obj) is skipped when the key is neither indexed nor queued.      *)
FifoWatchDelta(e) ==
    LET t == CASE e.type = "ADDED"    -> "Added"
               [] e.type = "MODIFIED" -> "Updated"
               [] e.type = "DELETED"  -> "Deleted"
    IN  IF t = "Deleted" /\ e.o \notin indexer /\ fitems[e.o] = <<>>
        THEN UNCHANGED <<fqueue, fitems>>
        ELSE SetFifo(QueueAction(FifoState, [type |-> t, p |-> Live(e.o)]))

----------------------------------------
(* Reflector                                                               *)
(* ListAndWatch: List the server, Replace the FIFO, open a watch.  The     *)
(* list order is the server's and arbitrary.  Not after stopCh closed.     *)
ReflectorList ==
    /\ refl = "list"
    /\ ~stopCh
    /\ \E order \in SetToSeqs(server), goneKnown \in SetToSeqs(indexer \ server) :
          FifoReplace(order, goneKnown)
    /\ refl' = "watch"
    /\ watchQ' = <<>>
    /\ UNCHANGED <<server, changes, relists, indexer, proc, pending, stopCh>>

(* watchHandler: the next watch event goes to the FIFO.  Its select also   *)
(* races stopCh, so events may still be taken after stopCh closed.         *)
ReflectorWatchEvent ==
    /\ refl = "watch"
    /\ watchQ # <<>>
    /\ FifoWatchDelta(Head(watchQ))
    /\ watchQ' = Tail(watchQ)
    /\ UNCHANGED <<server, changes, refl, relists, populated, initPop, indexer,
                   proc, pending, stopCh>>

(* The watch expires (e.g. resource version too old): re-List.           *)
WatchExpire ==
    /\ refl = "watch"
    /\ ~stopCh
    /\ relists < MaxRelists
    /\ refl' = "list"
    /\ watchQ' = <<>>
    /\ relists' = relists + 1
    /\ UNCHANGED <<server, changes, fqueue, fitems, populated, initPop, indexer,
                   proc, pending, stopCh>>

ReflectorExit ==
    /\ stopCh
    /\ refl # "exited"
    /\ refl' = "exited"
    /\ watchQ' = <<>>
    /\ UNCHANGED <<server, changes, relists, fqueue, fitems, populated, initPop,
                   indexer, proc, pending, stopCh>>

----------------------------------------
(* Controller and processor                                                *)
(* Mutation: an object already indexed is notified as "add" again.       *)
HandleDeltaAlwaysAdd(acc, d) ==
    IF d.type = "Deleted"
    THEN [idx   |-> acc.idx \ {d.p.o},
          notes |-> Append(acc.notes, [kind |-> "delete", p |-> d.p])]
    ELSE [idx   |-> acc.idx \cup {d.p.o},
          notes |-> Append(acc.notes, [kind |-> "add", p |-> d.p])]

(* HandleDeltas for one delta: Sync/Added/Updated update the indexer and   *)
(* notify "update" if the key was indexed, else add it and notify "add";   *)
(* Deleted removes it and notifies "delete" with the delta's object.       *)
HandleDelta(acc, d) ==
    IF d.type = "Deleted"
    THEN [idx   |-> acc.idx \ {d.p.o},
          notes |-> Append(acc.notes, [kind |-> "delete", p |-> d.p])]
    ELSE [idx   |-> acc.idx \cup {d.p.o},
          notes |-> Append(acc.notes,
                      [kind |-> IF d.p.o \in acc.idx THEN "update" ELSE "add",
                       p    |-> d.p])]

(* Mutation: initialPopulationCount decremented on every pop, unguarded. *)
ProcessPopUnguarded ==
    /\ proc = "running"
    /\ fqueue # <<>>
    /\ LET o == Head(fqueue)
           r == FoldLeft(HandleDelta, [idx |-> indexer, notes |-> <<>>], fitems[o])
       IN  /\ indexer' = r.idx
           /\ pending' = pending \o r.notes
           /\ fqueue' = Tail(fqueue)
           /\ fitems' = [fitems EXCEPT ![o] = <<>>]
    /\ initPop' = initPop - 1
    /\ UNCHANGED <<server, changes, refl, watchQ, relists, populated, proc, stopCh>>

(* processLoop: Pop the first key (decrementing initialPopulationCount)    *)
(* and process all its deltas.  Pop keeps popping after the queue is       *)
(* closed as long as it is not empty.                                      *)
ProcessPop ==
    /\ proc = "running"
    /\ fqueue # <<>>
    /\ LET o == Head(fqueue)
           r == FoldLeft(HandleDelta, [idx |-> indexer, notes |-> <<>>], fitems[o])
       IN  /\ indexer' = r.idx
           /\ pending' = pending \o r.notes
           /\ fqueue' = Tail(fqueue)
           /\ fitems' = [fitems EXCEPT ![o] = <<>>]
    /\ initPop' = IF initPop > 0 THEN initPop - 1 ELSE 0
    /\ UNCHANGED <<server, changes, refl, watchQ, relists, populated, proc, stopCh>>

(* Pop on a closed, empty queue returns ErrFIFOClosed: processLoop ends.   *)
ControllerExit ==
    /\ stopCh
    /\ proc = "running"
    /\ fqueue = <<>>
    /\ proc' = "loopDone"
    /\ UNCHANGED <<server, changes, refl, watchQ, relists, fqueue, fitems,
                   populated, initPop, indexer, pending, stopCh>>

(* controller.Run returned (processLoop done, reflector exited): Run closes *)
(* processorStopCh, the listener's addCh closes and pop() drops the        *)
(* notifications still pending.                                            *)
ProcessorStop ==
    /\ proc = "loopDone"
    /\ refl = "exited"
    /\ proc' = "stopped"
    /\ pending' = <<>>
    /\ UNCHANGED <<server, changes, refl, watchQ, relists, fqueue, fitems,
                   populated, initPop, indexer, stopCh>>

(* informer.HasSynced(): DeltaFIFO populated and initial population popped. *)
InformerHasSynced == populated /\ initPop = 0

=============================================================================

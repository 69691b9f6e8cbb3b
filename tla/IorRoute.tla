------------------------------ MODULE IorRoute ------------------------------
(***************************************************************************)
(* IOR, Istio OpenShift Routing (src/pilot/pkg/config/kube/ior/route.go):  *)
(* for every host of every Istio Gateway, one OpenShift Route. The route   *)
(* API is the FakeRouter of ior/fake.go. Every handler of route.go runs    *)
(* under namespaceLock, so each is one atomic step here.                   *)
(*                                                                         *)
(* A gateway is a record [ns, name]. A host is [kind, d]: "star" is "*",   *)
(* "sub" is "*.d" and "plain" is d. A route in the API is                  *)
(* [ns, name, gw, rv, host]: its namespace and name, its gateway-name and  *)
(* gateway-namespace labels (gw), its gateway-resourceVersion label (rv)   *)
(* and its original-host annotation (host). Its Spec.Host is left out:     *)
(* getHost never reads it for a route IOR created, since createRoute       *)
(* always sets the annotation.                                             *)
(***************************************************************************)
EXTENDS Naturals, Sequences, FiniteSets, SequencesExt, TLC

CONSTANTS
    Gw,                  \* the gateways that may exist
    GwHosts,             \* gateway -> its servers' hosts, in spec order
    SvcNs,               \* gateway -> namespace of the service selecting its pods
    PilotNs,             \* r.pilotNamespace
    NsChoices,           \* member-roll namespace lists SetNamespaces is given
    MaxCalls,            \* bound on gateway writes, SetNamespaces and resyncs
    MaxRestarts,         \* bound on restarts of the pilot process
    LoopVarPerIteration, \* Go >= 1.22: each range iteration has its own variable
    CallFullSync         \* whether syncGatewaysAndRoutes is ever called

VARIABLES
    store,      \* config store: gateway -> resourceVersion, 0 when absent
    events,     \* gateway events not yet handled, in order
    routes,     \* routes held by the route API (FakeRouter.routes)
    gwMap,      \* r.gatewaysMap: gateway -> references in syncRoutes.routes
    namespaces, \* r.namespaces
    calls,      \* environment calls made so far
    restarts,   \* restarts so far
    result      \* last handler call: did a step fail, was an error returned

vars == <<store, events, routes, gwMap, namespaces, calls, restarts, result>>

Ns == {PilotNs} \cup {SvcNs[g] : g \in Gw} \cup UNION {ToSet(s) : s \in NsChoices}
Host == UNION {ToSet(GwHosts[g]) : g \in Gw}
Ref == [ns : Ns, name : STRING]
Route == [ns : Ns, name : STRING, gw : Gw, rv : Nat, host : Host]
Event == [kind : {"Add", "Update", "Delete"}, gw : Gw, rv : Nat]
NoRef == [ns |-> "", name |-> ""]

TypeOK ==
    /\ store \in [Gw -> Nat]
    /\ events \in Seq(Event)
    /\ routes \subseteq Route
    /\ DOMAIN gwMap \subseteq Gw /\ \A g \in DOMAIN gwMap : gwMap[g] \in Seq(Ref)
    /\ namespaces \in Seq(Ns)
    /\ calls \in 0..MaxCalls /\ restarts \in 0..MaxRestarts
    /\ result \in [failed : BOOLEAN, returned : BOOLEAN]

Ok == [failed |-> FALSE, returned |-> FALSE]
RefOf(r) == [ns |-> r.ns, name |-> r.name]
Present == {g \in Gw : store[g] # 0}
----------------------------------------------------------------------------
(* Route naming and lookup helpers of route.go.                            *)

(* createRoute: "*" becomes "" (OpenShift picks a host); "*.d" becomes     *)
(* "wildcard.d" with WildcardPolicySubdomain.                              *)
ActualHost(h) ==
    CASE h.kind = "star" -> ""
      [] h.kind = "sub"  -> "wildcard." \o h.d
      [] OTHER           -> h.d

(* hostHash: "" hashes as "star"; sha256 truncated to 8 bytes is taken as  *)
(* injective on the rest, so the digest is an injective encoding.          *)
HostHash(n) == "#" \o (IF n = "" THEN "star" ELSE n)

(* Name: fmt.Sprintf("%s-%s-%s", namespace, name, hostHash(actualHost)).   *)
RouteName(g, h) == g.ns \o "-" \o g.name \o "-" \o HostHash(ActualHost(h))

(* getHost: the original-host annotation, else Spec.Host.                  *)
GetHost(r) == r.host

(* findService: the first namespace of r.namespaces holding a service that *)
(* selects the gateway's pods, or "" (an error).                           *)
FindService(g) == IF SvcNs[g] \in ToSet(namespaces) THEN SvcNs[g] ELSE ""

(* findConfig: a gateway with the route's name, namespace and version.     *)
FindConfig(r) == store[r.gw] = r.rv
----------------------------------------------------------------------------
(* The route API: FakeRouter of ior/fake.go.                               *)

(* Create stores the route under its name, replacing one of the same name. *)
FakeCreate(rs, r) == {x \in rs : RefOf(x) # RefOf(r)} \cup {r}

(* Delete fails with "route not found" when no route has the name.         *)
FakeDelete(rs, ref) ==
    [ok |-> \E x \in rs : RefOf(x) = ref, rs |-> {x \in rs : RefOf(x) # ref}]

(* Routes(namespace): that namespace's FakeRouter, made empty on first   *)
(* use; its routes are those of the namespace.                            *)
Routes(rs, ns) == {x \in rs : x.ns = ns}

(* List returns every route of the namespace, in map order; the callers   *)
(* list each namespace of r.namespaces in turn.                           *)
FakeList(rs, nss) == UNION {Routes(rs, ns) : ns \in nss}

(* deleteRoute: Routes(route.Namespace).Delete(route.Name); a failure is  *)
(* returned as "error deleting route". ok is the route API's answer.      *)
DeleteRoute(rs, ref) ==
    LET d == FakeDelete(rs, ref) IN [ok |-> d.ok, err |-> ~d.ok, rs |-> d.rs]

(* createRoute: findService, then Create in the service's namespace.       *)
CreateRoute(rs, g, rv, h) ==
    LET ns == FindService(g)
        r  == [ns |-> ns, name |-> RouteName(g, h), gw |-> g, rv |-> rv, host |-> h]
    IN  IF ns = "" THEN [ok |-> FALSE, rs |-> rs, ref |-> NoRef]
                   ELSE [ok |-> TRUE, rs |-> FakeCreate(rs, r), ref |-> RefOf(r)]
----------------------------------------------------------------------------
(* syncNamespaces: list the routes of r.namespaces and append each one to  *)
(* its gateway's entry, with syncRoute.routes = append(.., &route). Before *)
(* Go 1.22, &route is the address of the one range variable: every         *)
(* appended pointer sees the last route of the list (`last`).              *)

SyncNamespaces(m, listed, last) ==
    [g \in DOMAIN m |->
        LET mine == SetToSeq({x \in listed : x.gw = g})
        IN  m[g] \o [i \in 1..Len(mine) |->
                        IF LoopVarPerIteration THEN RefOf(mine[i]) ELSE RefOf(last)]]

(* The range variable's final value: any listed route (map order).         *)
LastOf(listed) == IF listed = {} THEN {NoRef} ELSE listed
----------------------------------------------------------------------------
(* syncGatewaysAndRoutes2, EventAdd: createRoute for every host of every *)
(* server, in order; each outcome is kept.                                 *)
AddHosts(e) ==
    FoldLeft(LAMBDA acc, h :
               LET c == CreateRoute(acc.rs, e.gw, e.rv, h)
               IN  [rs |-> c.rs, out |-> Append(acc.out, c)],
             [rs |-> routes, out |-> <<>>], GwHosts[e.gw])

Failed(out) == \E i \in DOMAIN out : ~out[i].ok

(* The routes appended to syncRoute.routes: those created without error.  *)
Created(out) ==
    LET ok == SelectSeq(out, LAMBDA c : c.ok) IN [i \in DOMAIN ok |-> ok[i].ref]

(* Mutation: the returned route is appended without checking err.         *)
HandleAddNoErrCheck(e) ==
    LET res == AddHosts(e)
    IN  /\ routes' = res.rs
        /\ gwMap' = (e.gw :> [i \in DOMAIN res.out |-> res.out[i].ref]) @@ gwMap
        /\ result' = [failed |-> Failed(res.out), returned |-> Failed(res.out)]

(* EventAdd: a fresh entry in gatewaysMap holding the created routes;     *)
(* every error is accumulated with multierror.Append(result, err).        *)
HandleAdd(e) ==
    LET res == AddHosts(e)
    IN  /\ routes' = res.rs
        /\ gwMap' = (e.gw :> Created(res.out)) @@ gwMap
        /\ result' = [failed |-> Failed(res.out), returned |-> Failed(res.out)]

(* EventDelete: deleteRoute for every route of the gateway's entry, each  *)
(* error accumulated, then delete(r.gatewaysMap, key).                    *)
DeleteRefs(rs, refs) ==
    FoldLeft(LAMBDA acc, ref :
               LET d == DeleteRoute(acc.rs, ref)
               IN  [rs |-> d.rs, failed |-> acc.failed \/ ~d.ok,
                    returned |-> acc.returned \/ d.err],
             [rs |-> rs, failed |-> FALSE, returned |-> FALSE], refs)
----------------------------------------------------------------------------
(* newRoute after a (re)start of the pilot process: r.namespaces is       *)
(* [pilotNamespace]; initGateways lists the store into a fresh            *)
(* gatewaysMap and runs syncNamespaces. The config store's informer then  *)
(* delivers an Add for every gateway it holds, in its own order; events   *)
(* queued for the previous process are gone.                              *)
Reboot ==
    LET listed == FakeList(routes, {PilotNs})
    IN  /\ namespaces' = <<PilotNs>>
        /\ \E last \in LastOf(listed) :
              gwMap' = SyncNamespaces([g \in Present |-> <<>>], listed, last)
        /\ \E order \in SetToSeqs(Present) :
              events' = [i \in DOMAIN order |->
                           [kind |-> "Add", gw |-> order[i], rv |-> store[order[i]]]]

(* syncGatewaysAndRoutes2 for the oldest event. EventUpdate is a TODO.    *)
(* An EventDelete of a gateway missing from the map reads .routes through *)
(* a nil *syncRoutes: the process panics and restarts.                    *)
HandleEvent ==
    /\ events # <<>>
    /\ LET e == Head(events) IN
       CASE e.kind = "Add" ->
              /\ HandleAdd(e)
              /\ events' = Tail(events)
              /\ UNCHANGED namespaces
         [] e.kind = "Update" ->
              /\ result' = Ok
              /\ events' = Tail(events)
              /\ UNCHANGED <<routes, gwMap, namespaces>>
         [] e.kind = "Delete" /\ e.gw \notin DOMAIN gwMap ->
              /\ Reboot
              /\ UNCHANGED <<routes, result>>
         [] e.kind = "Delete" ->
              LET d == DeleteRefs(routes, gwMap[e.gw])
              IN  /\ routes' = d.rs
                  /\ gwMap' = [g \in DOMAIN gwMap \ {e.gw} |-> gwMap[g]]
                  /\ result' = [failed |-> d.failed, returned |-> d.returned]
                  /\ events' = Tail(events)
                  /\ UNCHANGED namespaces
    /\ UNCHANGED <<store, calls, restarts>>

(* SetNamespaces, from the member-roll controller: replace r.namespaces   *)
(* and run syncNamespaces; its error is only logged.                      *)
SetNamespaces(nss) ==
    /\ calls < MaxCalls
    /\ calls' = calls + 1
    /\ namespaces' = nss
    /\ LET listed == FakeList(routes, ToSet(nss))
       IN  \E last \in LastOf(listed) : gwMap' = SyncNamespaces(gwMap, listed, last)
    /\ result' = Ok
    /\ UNCHANGED <<store, events, routes, restarts>>

(* syncGatewaysAndRoutes's routesMap: the hosts (getHost) of the listed   *)
(* routes whose gateway still exists at their version; the others are     *)
(* deleted instead of indexed.                                            *)

(* Mutation: every listed route is indexed, the stale ones included.      *)
RoutesMapWithStale(listed) == {GetHost(r) : r \in listed}

RoutesMap(listed) == {GetHost(r) : r \in {x \in listed : FindConfig(x)}}

(* syncGatewaysAndRoutes: list the gateways and the routes of            *)
(* r.namespaces; delete each route whose gateway (at its version) is gone *)
(* and index the others by getHost; then createRoute for every host of    *)
(* every gateway missing from that index. Each error is stored with       *)
(* result = multierror.Append(err), replacing the one before. gatewaysMap *)
(* is left as it is.                                                      *)
FullSync ==
    /\ CallFullSync
    /\ calls < MaxCalls
    /\ calls' = calls + 1
    /\ LET listed  == FakeList(routes, ToSet(namespaces))
           stale   == {r \in listed : ~FindConfig(r)}
           covered == RoutesMap(listed)
           del == FoldLeft(LAMBDA acc, r :
                             LET d == DeleteRoute(acc.rs, RefOf(r))
                             IN  [rs |-> d.rs, failed |-> acc.failed \/ ~d.ok,
                                  last |-> d.err],
                           [rs |-> routes, failed |-> FALSE, last |-> FALSE],
                           SetToSeq(stale))
       IN  \E order \in SetToSeqs(Present) :
             LET res == FoldLeft(LAMBDA acc, g :
                          FoldLeft(LAMBDA acc2, h :
                                     IF h \in covered THEN acc2
                                     ELSE LET c == CreateRoute(acc2.rs, g, store[g], h)
                                          IN  [rs |-> c.rs, failed |-> acc2.failed \/ ~c.ok,
                                               last |-> ~c.ok],
                                   acc, GwHosts[g]),
                        del, order)
             IN  /\ routes' = res.rs
                 /\ result' = [failed |-> res.failed, returned |-> res.last]
    /\ UNCHANGED <<store, events, gwMap, namespaces, restarts>>

(* The pilot process dies between two handler calls and is restarted.    *)
Restart ==
    /\ restarts < MaxRestarts
    /\ restarts' = restarts + 1
    /\ Reboot
    /\ result' = Ok
    /\ UNCHANGED <<store, routes, calls>>
----------------------------------------------------------------------------
(* The config store (outside route.go): gateways are created, updated and *)
(* deleted, each write taking a fresh resourceVersion, and its informer   *)
(* queues one event per write.                                            *)
GatewayWrite(g) ==
    /\ calls < MaxCalls
    /\ calls' = calls + 1
    /\ \E kind \in {"Add", "Update", "Delete"} :
          /\ (kind = "Add") = (store[g] = 0)
          /\ store' = [store EXCEPT ![g] = IF kind = "Delete" THEN 0 ELSE calls + 1]
          /\ events' = Append(events,
                [kind |-> kind, gw |-> g,
                 rv |-> IF kind = "Delete" THEN store[g] ELSE calls + 1])
    /\ UNCHANGED <<routes, gwMap, namespaces, restarts, result>>

Init ==
    /\ store = [g \in Gw |-> 0]
    /\ events = <<>>
    /\ routes = {}
    /\ gwMap = [g \in {} |-> <<>>]
    /\ namespaces = <<PilotNs>>
    /\ calls = 0
    /\ restarts = 0
    /\ result = Ok

Next ==
    \/ \E g \in Gw : GatewayWrite(g)
    \/ HandleEvent
    \/ \E nss \in NsChoices : SetNamespaces(nss)
    \/ FullSync
    \/ Restart

Spec == Init /\ [][Next]_vars
----------------------------------------------------------------------------
(* Properties                                                             *)

(* Every route in the route API whose gateway has no event still queued  *)
(* is recorded in gatewaysMap under the gateway its labels name. The      *)
(* EventDelete handler deletes exactly the routes of that entry, so a     *)
(* route missing from it outlives its gateway.                            *)
Settled(g) == \A i \in DOMAIN events : events[i].gw # g

RoutesTracked ==
    \A r \in routes :
        Settled(r.gw) => r.gw \in DOMAIN gwMap /\ RefOf(r) \in ToSet(gwMap[r.gw])

(* Handling the EventDelete of a gateway deletes only routes that belong  *)
(* to that gateway: the references syncNamespaces appended for one       *)
(* gateway never lead to another gateway's route.                         *)
NoForeignDelete ==
    [][ (events # <<>> /\ Head(events).kind = "Delete" /\ events' = Tail(events))
        => \A r \in routes \ routes' : r.gw = Head(events).gw ]_vars

(* The member namespaces' routes agree with the config store: each host   *)
(* of each gateway has a route at the gateway's current resourceVersion,  *)
(* and no route of a deleted or since-updated gateway remains.            *)
Reconciled ==
    /\ \A g \in Present : \A h \in ToSet(GwHosts[g]) :
          \E r \in routes : r.gw = g /\ GetHost(r) = h /\ r.rv = store[g]
    /\ \A r \in FakeList(routes, ToSet(namespaces)) : FindConfig(r)

(* A syncGatewaysAndRoutes call none of whose route calls fails leaves    *)
(* the routes reconciled: stale routes are deleted and recreated at the   *)
(* current version, missing ones created, whatever earlier events,        *)
(* restarts and member-roll changes left behind. (Whether a failure is    *)
(* reported is ErrorsReported's concern.)                                 *)
FullSyncReconciles == [][FullSync /\ ~result'.failed => Reconciled']_vars

(* When a createRoute or deleteRoute of a handler call fails, the call    *)
(* returns an error (multierror accumulates them): a failure is never     *)
(* reported as success to the caller that would retry it.                 *)
ErrorsReported == result.failed => result.returned
=============================================================================

------------------------------- MODULE Evidence -------------------------------
(***************************************************************************)
(* The collection of the evidence about an alert: the pre-filter and the   *)
(* triage in front of it, ContextCollector (context_collector.py in        *)
(* src/agent), ClusterStateCollector (cluster_state.py) with the clients   *)
(* of Kubernetes and Flux, and the decision of process_alert to stop       *)
(* before a suspended delivery.  One collection per alert, all of them     *)
(* with one collector and its cache of API versions.  Every request is one *)
(* action, except that the answer to the discovery of a version is cached  *)
(* in a step of its own; between any two the cluster may change.           *)
(***************************************************************************)
EXTENDS Kubernetes

CONSTANTS
    Collections,  \* collections, a world says which of them there are
    Worlds,       \* name -> alerts, configuration, cluster and its changes
    ScopeLabels,  \* labels that select a stream of logs
    Services,     \* names in services.yaml
    Ignored,      \* names of alerts that are never acted on
    Answers,      \* what triage may answer: a decision, and a score or 0
    Ttl,          \* DISCOVERY_TTL_SECONDS
    Failures,     \* subset of {"request", "garbled"}
    MaxFailures   \* bound of the model: failing requests

ASSUME EvidenceBounds ==
    /\ Failures \subseteq {"request", "garbled"}
    /\ {MaxFailures, Ttl, MaxPods, ScanLimit, MaxEvents, MaxSources, MaxDepth,
        MaxHops} \subseteq Nat
    /\ MaxPods >= 1 /\ Ttl >= 1

VARIABLES
    world,        \* which of the Worlds this is
    cluster,      \* the objects and events of the API server
    served,       \* the version of the Flux API, or Nobody without Flux
    since,        \* when it was installed
    cached,       \* the collector's cache: a version and when it was stored
    now,          \* the clock
    failures,     \* requests that failed
    collections   \* the collections

vars == <<world, cluster, served, since, cached, now, failures, collections>>

(* TLC evaluates a definition once, and a substituted constant every time. *)
AllOf == Worlds
World == AllOf[world]
Config == World.config

(* An API server has finitely many objects, which all have a name, each    *)
(* with the labels of those that deliver it, and finitely many events.     *)
ASSUME FiniteWorlds ==
    \A w \in DOMAIN AllOf :
        \A state \in {AllOf[w].cluster} \cup AllOf[w].changes :
            /\ IsFiniteSet(DOMAIN state.objects) /\ DOMAIN state.objects \subseteq Refs
            /\ IsFiniteSet(state.events)
            /\ \A ref \in DOMAIN state.objects :
                  NameOf(ref) # Nobody /\ state.objects[ref].gitops \in Seq(Refs)

(* The clock of a world stops.                                             *)
ASSUME WorldsEnd == \A w \in DOMAIN AllOf : AllOf[w].last \in Nat

Fresh(alert) ==
    [pc |-> "filter", alert |-> alert, outcome |-> Nobody,
     \* what the prompts get to see
     notes |-> {}, errors |-> {}, pods |-> <<>>, events |-> {}, claims |-> {},
     nodes |-> {}, flux |-> <<>>, fluxEvents |-> {},
     \* where the collection is
     raw |-> <<>>, selector |-> Nobody, walk |-> NoObject, queried |-> <<>>,
     labels |-> <<>>, left |-> {}, got |-> {}, target |-> NoObject,
     version |-> Nobody, asked |-> 0,
     \* for the properties: requests sent, whether the cluster stayed as it was,
     \* and for how long the version in use had not been served
     calls |-> 0, reads |-> {}, steady |-> TRUE, stale |-> 0]

Init ==
    /\ world \in DOMAIN AllOf
    /\ cluster = World.cluster
    /\ served = World.served
    /\ since = 0
    /\ cached = [version |-> Nobody, at |-> -1]
    /\ now = 0
    /\ failures = 0
    /\ collections = [c \in DOMAIN World.alerts |-> Fresh(World.alerts[c])]

-----------------------------------------------------------------------------
At(c, label) == collections[c].pc = label
Becomes(c, collection) == collections' = [collections EXCEPT ![c] = collection]
Goes(k, label) == [k EXCEPT !.pc = label]
Notes(k, note) == [k EXCEPT !.notes = @ \cup {note}]
Errs(k, error) == [k EXCEPT !.errors = @ \cup {error}]

Outside == UNCHANGED <<world, cluster, served, since, now>>
Local == Outside /\ UNCHANGED <<failures, cached>>

AlertNamespace(k) == AlertLabel(k.alert, "namespace")

(* A name that is none is refused before anything is sent.                 *)
IsRefused(ref) == NameOf(ref) \in Illegal \/ NamespaceOf(ref) \in Illegal

Sent(k, ref) ==
    [k EXCEPT !.calls = @ + 1, !.reads = @ \cup {<<KindOf(ref), NamespaceOf(ref)>>}]

(* An answer that is no JSON is not among the failures that the collector  *)
(* knows: the collection of the cluster's state ends with nothing.         *)
Lost(k) ==
    [k EXCEPT !.pc = "decide",
              !.errors = (@ \cap {"no_label", "logs", "metrics"})
                             \cup {"cluster_state"},
              !.pods = <<>>, !.events = {}, !.claims = {}, !.nodes = {},
              !.flux = <<>>, !.fluxEvents = {}, !.notes = {}]

(* A request for `ref`, what it leads to when it is answered, and when it  *)
(* fails.                                                                  *)
Request(c, ref, Answered(_), Failed(_)) ==
    LET k == collections[c]
        sent == Sent(k, ref)
        failsBy(failure) == /\ failure \in Failures /\ failures < MaxFailures
                            /\ failures' = failures + 1
    IN  /\ IF IsRefused(ref) THEN Becomes(c, Failed(k)) /\ UNCHANGED failures
           ELSE \/ Answered(sent) /\ UNCHANGED failures
                \/ failsBy("request") /\ Becomes(c, Failed(sent))
                \/ failsBy("garbled") /\ Becomes(c, Lost(sent))
        /\ Outside /\ UNCHANGED cached

IsThere(ref) == ref \in DOMAIN cluster.objects

(* A request for one object, which may not be there.                       *)
Get(c, ref, Found(_, _), Gone(_), Failed(_)) ==
    Request(c, ref,
            LAMBDA k : Becomes(c, IF IsThere(ref)
                                  THEN Found(k, cluster.objects[ref]) ELSE Gone(k)),
            Failed)

-----------------------------------------------------------------------------
(* Before the cluster.                                                     *)

Filter(c) ==
    /\ At(c, "filter")
    /\ LET k == collections[c]
       IN  Becomes(c, IF ShouldSkip(k.alert, Services, Ignored)
                      THEN [k EXCEPT !.pc = "done", !.outcome = "skipped"]
                      ELSE Goes(k, "triage"))
    /\ Local

(* _parse_decision: a missing decision is to proceed, and a missing score  *)
(* is the lowest.                                                          *)
ParseDecision(answer) ==
    [proceed |-> answer.decision # "skip",
     confidence |-> IF answer.decision = Nobody THEN 0 ELSE answer.score]

HasTriage(k) == Config.triage /\ k.alert.severity # "critical"

(* An error of the model, and a skip that it is not sure of, fall through. *)
Triage(c) ==
    /\ At(c, "triage")
    /\ LET k == collections[c]
       IN  IF ~HasTriage(k) THEN Becomes(c, Goes(k, "logs")) /\ UNCHANGED failures
           ELSE \/ /\ \E answer \in Answers :
                         LET verdict == ParseDecision(answer)
                         IN  Becomes(c, IF ~verdict.proceed /\ verdict.confidence >= Config.sure
                                        THEN [k EXCEPT !.pc = "done", !.outcome = "dropped"]
                                        ELSE Goes(k, "logs"))
                   /\ UNCHANGED failures
                \/ /\ Failures # {} /\ failures < MaxFailures
                   /\ Becomes(c, Goes(k, "logs")) /\ failures' = failures + 1
    /\ Outside /\ UNCHANGED cached

QueryLogs(c) ==
    /\ At(c, "logs")
    /\ LET k == Goes(collections[c], "metrics")
       IN  IF ScopeLabels \cap DOMAIN k.alert.labels = {}
           THEN Becomes(c, Errs(k, "no_label")) /\ UNCHANGED failures
           ELSE \/ Becomes(c, k) /\ UNCHANGED failures
                \/ /\ Failures # {} /\ failures < MaxFailures
                   /\ Becomes(c, Errs(k, "logs")) /\ failures' = failures + 1
    /\ Outside /\ UNCHANGED cached

(* Mutant of HasCluster: a collector made for a lookback of its own does   *)
(* without the cluster.                                                    *)
HasClusterUnlessOverridden(k) == Config.enabled /\ ~k.alert.lookback

(* The cluster is read with the lookback of the settings or another.       *)
HasCluster(k) == Config.enabled

QueryMetrics(c) ==
    /\ At(c, "metrics")
    /\ LET k == Goes(collections[c],
                     IF HasCluster(collections[c]) THEN "scope" ELSE "decide")
       IN  \/ Becomes(c, k) /\ UNCHANGED failures
           \/ /\ k.alert.expression
              /\ Failures # {} /\ failures < MaxFailures
              /\ Becomes(c, Errs(k, "metrics")) /\ failures' = failures + 1
    /\ Outside /\ UNCHANGED cached

InScope(namespace) == Config.all \/ namespace \in Config.namespaces

(* Mutant of FluxInScope: a reference is followed wherever it leads.       *)
FluxAnywhere(namespace) == TRUE

FluxInScope(namespace) ==
    InScope(namespace) \/ namespace \in Config.fluxNamespaces

CheckScope(c) ==
    /\ At(c, "scope")
    /\ LET k == collections[c]
           namespace == AlertNamespace(k)
       IN  Becomes(c,
               IF namespace = Nobody
               THEN IF AlertLabel(k.alert, "node") # Nobody THEN Goes(k, "node")
                    ELSE Goes(Notes(k, "no_namespace"), "decide")
               ELSE IF InScope(namespace) THEN Goes(k, "pods")
               ELSE IF IsAboutFlux(k.alert) /\ Config.flux /\ FluxInScope(namespace)
               THEN Goes(k, "target")
               ELSE Goes(Notes(k, "out_of_scope"), "decide"))
    /\ Local

-----------------------------------------------------------------------------
(* Pods.                                                                   *)

(* The first workload that the alert names.                                *)
Workload(k) ==
    LET i == SelectInSeq(WorkloadLabels, LAMBDA l : AlertLabel(k.alert, l[1]) # Nobody)
    IN  IF i = 0 THEN NoObject
        ELSE <<WorkloadLabels[i][2], AlertNamespace(k),
               AlertLabel(k.alert, WorkloadLabels[i][1])>>

PodRef(k) == <<"Pod", AlertNamespace(k), AlertLabel(k.alert, "pod")>>

GetPod(c) ==
    /\ At(c, "pods") /\ NameOf(PodRef(collections[c])) # Nobody
    /\ Get(c, PodRef(collections[c]),
           LAMBDA k, pod : [k EXCEPT !.raw = <<<<PodRef(k)[3], pod>>>>, !.pc = "parse"],
           LAMBDA k : Goes(Notes(k, "pod_gone"), "sources"),
           LAMBDA k : Goes(Errs(k, "pod"), "sources"))

GetWorkload(c) ==
    /\ At(c, "pods")
    /\ NameOf(PodRef(collections[c])) = Nobody
    /\ Workload(collections[c]) # NoObject
    /\ Get(c, Workload(collections[c]),
           LAMBDA k, object :
               LET read == [k EXCEPT !.queried = Append(@, Workload(k)),
                                     !.labels = Append(@, object.gitops)]
               IN  IF object.selector = Nobody
                   THEN Goes(Notes(read, "no_selector"), "sources")
                   ELSE [read EXCEPT !.pc = "list", !.selector = object.selector],
           LAMBDA k : Goes(Notes(k, "workload_gone"), "sources"),
           LAMBDA k : Goes(Errs(k, "workload"), "sources"))

NoPods(c) ==
    /\ At(c, "pods")
    /\ LET k == Goes(collections[c], "sources")
       IN  /\ NameOf(PodRef(k)) = Nobody /\ Workload(k) = NoObject
           /\ Becomes(c, IF ~IsAboutFlux(k.alert) THEN Notes(k, "no_workload")
                         ELSE IF ~Config.flux THEN Notes(k, "flux_off") ELSE k)
    /\ Local

(* The pods that a workload's selector matches, in a namespace.            *)
Matching(namespace, selector) ==
    {ref \in DOMAIN cluster.objects :
        /\ KindOf(ref) = "Pod" /\ NamespaceOf(ref) = namespace
        /\ cluster.objects[ref].app = selector}

ListPods(c) ==
    /\ At(c, "list")
    /\ LET namespace == AlertNamespace(collections[c])
           all == Matching(namespace, collections[c].selector)
       IN  Request(c, <<"Pod", namespace, "*">>,
                   LAMBDA k :
                       \E some \in {s \in SUBSET all :
                                    Cardinality(s) = Min2(ScanLimit, Cardinality(all))} :
                       \E list \in Shown([ref \in some |-> cluster.objects[ref]]) :
                           Becomes(c,
                               LET shown == [k EXCEPT !.raw =
                                       [i \in DOMAIN list |->
                                           <<NameOf(list[i]), cluster.objects[list[i]]>>],
                                       !.pc = IF list = <<>> THEN "sources" ELSE "parse"]
                               IN  IF Cardinality(some) > Len(list)
                                   THEN Notes(shown, "pods_omitted") ELSE shown),
                   LAMBDA k : Goes(Errs(k, "pod_list"), "sources"))

ParseNextPod(c) ==
    /\ At(c, "parse")
    /\ LET k == collections[c]
           name == Head(k.raw)[1]
           pod == Head(k.raw)[2]
       IN  Becomes(c, [k EXCEPT
               !.pods = Append(@, ParsePod(name, pod)),
               !.queried = Append(@, <<"Pod", AlertNamespace(k), name>>),
               !.notes = IF pod.large THEN @ \cup {"spec_omitted"} ELSE @,
               !.raw = Tail(@), !.walk = pod, !.pc = "owners"])
    /\ Local

Chain(k) == Last(k.pods).chain

WithOwner(k, owner, resolved) ==
    [k EXCEPT !.pods[Len(k.pods)].chain =
        Append(@, [kind |-> owner.kind, name |-> owner.name, resolved |-> resolved])]

WalkEnds(k) == Goes(k, IF k.raw = <<>> THEN "sources" ELSE "parse")

(* resolve_owner_chain, one owner at a time: an owner that cannot be read  *)
(* is named, and ends the chain.                                           *)
FollowOwner(c) ==
    /\ At(c, "owners")
    /\ LET k == collections[c]
           owner == ControllerRef(k.walk)
           unresolved(q) == WalkEnds(WithOwner(q, owner, FALSE))
       IN  IF ~FollowsOwner(k.walk, Chain(k)) THEN Becomes(c, WalkEnds(k)) /\ Local
           ELSE IF owner.kind \notin OwnerKinds THEN Becomes(c, unresolved(k)) /\ Local
           ELSE Get(c, <<owner.kind, AlertNamespace(k), owner.name>>,
                    LAMBDA q, object :
                        [WithOwner(q, owner, TRUE) EXCEPT
                            !.walk = object, !.labels = Append(@, object.gitops)],
                    unresolved, unresolved)

-----------------------------------------------------------------------------
(* Events, claim and node.                                                 *)

ChooseSources(c) ==
    /\ At(c, "sources")
    /\ LET k == Goes(collections[c], "events")
           sources == EventSources(k.pods, k.queried)
           chosen == DOMAIN sources \cap 1..MaxSources
       IN  Becomes(c, [k EXCEPT
               !.left = chosen,
               !.notes = IF chosen = DOMAIN sources THEN @ ELSE @ \cup {"sources_omitted"}])
    /\ Local

EventsOf(ref) == <<"Event", NamespaceOf(ref), NameOf(ref)>>

(* One request of a list of events, of which those that satisfy Of count.  *)
ListEvents(c, ref, Of(_), Then(_), Failed(_)) ==
    Request(c, EventsOf(ref),
            LAMBDA k : \E list \in EventLists(cluster.events, NamespaceOf(ref), NameOf(ref)) :
                           Becomes(c, Then([k EXCEPT !.got = @ \cup {e \in list : Of(e)}])),
            Failed)

(* Sources are asked about in their order.                                 *)
IsNextSource(k, i) == i \in k.left /\ \A j \in k.left : i <= j

SourceDone(k, i) == [k EXCEPT !.left = @ \ {i}]

GetEvents(c) ==
    /\ At(c, "events")
    /\ \E i \in collections[c].left :
          LET k == collections[c]
              name == EventSources(k.pods, k.queried)[i]
          IN  /\ IsNextSource(k, i)
              /\ ListEvents(c, <<"Event", AlertNamespace(k), name>>, LAMBDA e : TRUE,
                            LAMBDA q : SourceDone(q, i),
                            LAMBDA q : SourceDone(Errs(q, "events"), i))

(* The events got, cut to the newest.                                      *)
KeepEvents(c) ==
    /\ At(c, "events") /\ collections[c].left = {}
    /\ LET k == Goes(collections[c], "claim")
       IN  \E kept \in Newest(k.got, MaxEvents) :
               Becomes(c, [k EXCEPT
                   !.events = kept, !.got = {},
                   !.notes = IF kept = k.got THEN @ ELSE @ \cup {"events_omitted"}])
    /\ Local

ClaimRef(k) ==
    <<"PersistentVolumeClaim", AlertNamespace(k),
      AlertLabel(k.alert, "persistentvolumeclaim")>>

NoClaim(c) ==
    /\ At(c, "claim") /\ NameOf(ClaimRef(collections[c])) = Nobody
    /\ Becomes(c, Goes(collections[c], "node"))
    /\ Local

GetClaim(c) ==
    /\ At(c, "claim") /\ NameOf(ClaimRef(collections[c])) # Nobody
    /\ Get(c, ClaimRef(collections[c]),
           LAMBDA k, claim : [k EXCEPT !.claims = {NameOf(ClaimRef(k))},
                                       !.queried = Append(@, ClaimRef(k)),
                                       !.pc = "claim_events"],
           LAMBDA k : Goes(Notes(k, "claim_gone"), "node"),
           LAMBDA k : Goes(Errs(k, "claim"), "node"))

(* The claim's events join those that are already there.                   *)
GetClaimEvents(c) ==
    /\ At(c, "claim_events")
    /\ ListEvents(c, ClaimRef(collections[c]), LAMBDA e : TRUE,
                  LAMBDA k : Goes(k, "merge"),
                  LAMBDA k : Goes(Errs(k, "events"), "node"))

MergeEvents(c) ==
    /\ At(c, "merge")
    /\ LET k == Goes(collections[c], "node")
           all == k.events \cup k.got
       IN  \E kept \in Newest(all, MaxEvents) :
               Becomes(c, [k EXCEPT
                   !.events = kept, !.got = {},
                   !.notes = IF kept = all THEN @ ELSE @ \cup {"events_omitted"}])
    /\ Local

Scheduled(pods) == SelectSeq(pods, LAMBDA pod : pod.node # Nobody)

NodeName(k) ==
    LET onNode == Scheduled(k.pods)
    IN  IF AlertLabel(k.alert, "node") # Nobody THEN AlertLabel(k.alert, "node")
        ELSE IF onNode = <<>> THEN Nobody ELSE Head(onNode).node

AfterNode(k) ==
    Goes(k, IF AlertNamespace(k) # Nobody /\ Config.flux THEN "target" ELSE "decide")

(* Nodes belong to no namespace: only a binding for all of them grants one.*)
GetNode(c) ==
    /\ At(c, "node")
    /\ LET q == collections[c]
       IN  IF NodeName(q) = Nobody THEN Becomes(c, AfterNode(q)) /\ Local
           ELSE IF ~Config.all
           THEN Becomes(c, AfterNode(Notes(q, "node_not_read"))) /\ Local
           ELSE Get(c, <<"Node", Nobody, NodeName(q)>>,
                    LAMBDA k, node : AfterNode(
                        [k EXCEPT !.nodes = {NodeName(k)},
                                  !.queried = Append(@, <<"Node", Nobody, NodeName(k)>>)]),
                    LAMBDA k : AfterNode(Notes(k, "node_gone")),
                    LAMBDA k : AfterNode(Errs(k, "node")))

-----------------------------------------------------------------------------
(* The delivery by Flux.                                                   *)

(* Mutant of LabelsFound: the labels are kept in the collector, which all  *)
(* collections share.                                                      *)
LabelsFoundByAll(c) ==
    FlattenSeq(SetToSeq({collections[d].labels : d \in DOMAIN collections}))

LabelsFound(c) == collections[c].labels

ResolveTarget(c) ==
    /\ At(c, "target")
    /\ LET k == collections[c]
           alert == k.alert
           target == IF IsAboutFlux(alert) THEN GitopsRef(alert)
                     ELSE DeliveredBy(LabelsFound(c))
           given == IF IsAboutFlux(alert) /\ "customresource_version" \in DOMAIN alert.labels
                    THEN alert.labels.customresource_version ELSE Nobody
           read == {KindOf(k.queried[i]) : i \in DOMAIN k.queried}
       IN  Becomes(c,
               IF target = NoObject
               THEN Goes(IF read \cap (WorkloadKinds \cup {"Pod"}) # {}
                         THEN Notes(k, "no_owner") ELSE k, "decide")
               ELSE IF KindOf(target) \notin FluxKinds
               THEN Goes(Notes(k, "kind_not_read"), "decide")
               ELSE [k EXCEPT !.pc = "version", !.target = target, !.version = given])
    /\ Local

(* What was read of the chain is all there will be; without an owner there *)
(* is no chain.                                                            *)
Failing(k) == {i \in DOMAIN k.flux : k.flux[i].ready = "False"}

ChainEnds(k) ==
    IF k.flux = <<>> THEN Goes(k, "decide")
    ELSE [k EXCEPT !.pc = "flux_events", !.left = {1} \cup Failing(k)]

IsVersion(version) == version \notin {Nobody} \cup Illegal

(* Mutant of IsFresh: what was once found out stays true.                  *)
IsFreshForever == cached.at >= 0

IsFresh == cached.at >= 0 /\ now - cached.at < Ttl

Uses(k, version) ==
    IF version = Nobody THEN ChainEnds(Notes(k, "not_served"))
    ELSE [k EXCEPT !.pc = "flux", !.version = version]

Taken(k, version) ==
    [Uses(k, version) EXCEPT !.stale = IF version = served THEN 0 ELSE now - since]

ResolveVersion(c) ==
    /\ At(c, "version")
    /\ LET k == collections[c]
       IN  Becomes(c,
               IF ~FluxInScope(NamespaceOf(k.target))
               THEN ChainEnds(Notes(k, "flux_out_of_scope"))
               ELSE IF IsVersion(k.version) THEN Goes(k, "flux")
               ELSE IF IsFresh THEN Taken(k, cached.version)
               ELSE Goes(k, "discover"))
    /\ Local

Discover(c) ==
    /\ At(c, "discover")
    /\ Request(c, <<"APIGroup", Nobody, "*">>,
               LAMBDA k : Becomes(c, [k EXCEPT !.pc = "store", !.version = served,
                                               !.asked = now]),
               LAMBDA k : ChainEnds(Errs(k, "flux")))

StoreVersion(c) ==
    /\ At(c, "store")
    /\ cached' = [version |-> collections[c].version, at |-> now]
    /\ Becomes(c, Taken(collections[c], collections[c].version))
    /\ Outside /\ UNCHANGED failures

(* Mutant of Hops: the chain is not walked any further than the owner.     *)
HopsOfOwner(k) == 0

Hops(k) == MaxHops

(* The object of the chain that was found, and where to go from there.     *)
WithObject(k, object) ==
    LET found == [k EXCEPT !.flux = Append(@, ParseFlux(k.target, object)),
                           !.queried = Append(@, k.target),
                           !.target = object.source, !.version = Nobody]
    IN  IF object.source = NoObject \/ Len(k.flux) = Hops(k) THEN ChainEnds(found)
        ELSE IF KindOf(object.source) \notin FluxKinds
        THEN ChainEnds(Notes(found, "source_not_read"))
        ELSE Goes(found, "version")

GetFlux(c) ==
    /\ At(c, "flux")
    /\ LET gone(k) == ChainEnds(Notes(k, "flux_gone"))
       IN  Get(c, collections[c].target,
               LAMBDA k, object :
                   IF k.version = served THEN WithObject(k, object) ELSE gone(k),
               gone,
               LAMBDA k : ChainEnds(Errs(k, "flux")))

(* Mutant of IsOf: an event is of whatever has its name.                   *)
IsOfName(e, ref) == TRUE

(* Events are listed by name: those of another kind are left out.          *)
IsOf(e, ref) == KindOf(e.on) = KindOf(ref)

GetFluxEvents(c) ==
    /\ At(c, "flux_events")
    /\ \E i \in collections[c].left :
          LET k == collections[c]
              ref == k.flux[i].ref
          IN  /\ IsNextSource(k, i)
              /\ ListEvents(c, ref, LAMBDA e : IsOf(e, ref),
                            LAMBDA q : SourceDone(q, i),
                            LAMBDA q : SourceDone(Errs(q, "events"), i))

KeepFluxEvents(c) ==
    /\ At(c, "flux_events") /\ collections[c].left = {}
    /\ LET k == Goes(collections[c], "decide")
       IN  \E kept \in Newest(k.got, MaxEvents) :
               Becomes(c, [k EXCEPT
                   !.fluxEvents = kept, !.got = {},
                   !.notes = IF kept = k.got THEN @ ELSE @ \cup {"flux_events_omitted"}])
    /\ Local

-----------------------------------------------------------------------------
(* No patch can take effect while the delivery is suspended.               *)
Decide(c) ==
    /\ At(c, "decide")
    /\ LET k == collections[c]
       IN  Becomes(c, [k EXCEPT
               !.pc = "done",
               !.outcome = IF \E i \in DOMAIN k.flux : k.flux[i].suspended
                           THEN "skipped" ELSE "proceeds"])
    /\ Local

-----------------------------------------------------------------------------
(* The cluster.                                                            *)

Unsettled ==
    collections' = [c \in DOMAIN collections |-> [collections[c] EXCEPT !.steady = FALSE]]

Change ==
    /\ cluster' \in World.changes
    /\ cluster' # cluster
    /\ Unsettled
    /\ UNCHANGED <<world, served, since, cached, now, failures>>

(* Flux is installed, upgraded or removed.                                 *)
Upgrade ==
    /\ served' \in World.upgrades
    /\ served' # served
    /\ since' = now
    /\ Unsettled
    /\ UNCHANGED <<world, cluster, cached, now, failures>>

(* A request ends, or times out, within one unit of time.                  *)
Tick ==
    /\ now < World.last
    /\ \A c \in DOMAIN collections : At(c, "store") => collections[c].asked = now
    /\ now' = now + 1
    /\ UNCHANGED <<world, cluster, served, since, cached, failures, collections>>

-----------------------------------------------------------------------------
Step(c) ==
    \/ Filter(c) \/ Triage(c) \/ QueryLogs(c) \/ QueryMetrics(c) \/ CheckScope(c)
    \/ GetPod(c) \/ GetWorkload(c) \/ NoPods(c) \/ ListPods(c) \/ ParseNextPod(c)
    \/ FollowOwner(c)
    \/ ChooseSources(c) \/ GetEvents(c) \/ KeepEvents(c)
    \/ NoClaim(c) \/ GetClaim(c) \/ GetClaimEvents(c) \/ MergeEvents(c) \/ GetNode(c)
    \/ ResolveTarget(c) \/ ResolveVersion(c) \/ Discover(c) \/ StoreVersion(c)
    \/ GetFlux(c) \/ GetFluxEvents(c) \/ KeepFluxEvents(c)
    \/ Decide(c)

Next == (\E c \in DOMAIN collections : Step(c)) \/ Change \/ Upgrade \/ Tick

Spec == Init /\ [][Next]_vars
=============================================================================

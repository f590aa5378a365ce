-------------------------- MODULE EvidenceProperties --------------------------
(***************************************************************************)
(* What the evidence about an alert should be worth to who reads it.       *)
(***************************************************************************)
EXTENDS Evidence

CONSTANT SpecHolds  \* name of a pod spec -> what may be read in it

Ref(ref) == ref \in Seq(STRING) /\ Len(ref) = 3

(* Every variable has the type that its declaration announces.             *)
EvidenceTypeOK ==
    /\ world \in DOMAIN AllOf
    /\ \A ref \in DOMAIN cluster.objects : Ref(ref)
    /\ since \in 0..now /\ now \in 0..World.last
    /\ cached.at \in -1..now
    /\ failures \in 0..MaxFailures
    /\ \A c \in DOMAIN collections :
          LET k == collections[c]
          IN  /\ Len(k.pods) <= MaxPods /\ Len(k.flux) <= MaxHops + 1
              /\ \A i \in DOMAIN k.pods : Len(k.pods[i].chain) <= MaxDepth
              /\ Cardinality(k.events) <= MaxEvents
              /\ Cardinality(k.fluxEvents) <= MaxEvents
              /\ \A i \in DOMAIN k.queried : Ref(k.queried[i])
              /\ \A i \in DOMAIN k.flux : Ref(k.flux[i].ref)
              /\ k.outcome \in {Nobody, "skipped", "dropped", "proceeds"}
              /\ (k.pc = "done") = (k.outcome # Nobody)

-----------------------------------------------------------------------------
(* What there is to find in the cluster, whatever way the code takes.      *)

(* The objects, with those that control them.                              *)
WithControllers(refs) ==
    refs \cup {<<ControllerRef(cluster.objects[ref]).kind, NamespaceOf(ref),
                 ControllerRef(cluster.objects[ref]).name>> :
                    ref \in refs \cap DOMAIN cluster.objects}

PodsOf(k) ==
    IF NameOf(PodRef(k)) # Nobody THEN {PodRef(k)} \cap DOMAIN cluster.objects
    ELSE IF Workload(k) \notin DOMAIN cluster.objects THEN {}
    ELSE Matching(AlertNamespace(k), cluster.objects[Workload(k)].selector)

CarriersOf(k) ==
    DOMAIN cluster.objects \cap
        ({Workload(k)} \cup
         WithControllers(WithControllers(WithControllers(WithControllers(PodsOf(k))))))

(* Every object of Flux whose labels an object behind the alert carries.   *)
DeliverersOf(k) ==
    IF IsAboutFlux(k.alert) THEN {GitopsRef(k.alert)}
    ELSE UNION {Range(cluster.objects[ref].gitops) : ref \in CarriersOf(k)}

SourceOf(ref) ==
    IF ref \in DOMAIN cluster.objects THEN cluster.objects[ref].source ELSE NoObject

ChainOf(ref) ==
    {ref, SourceOf(ref), SourceOf(SourceOf(ref))} \cap DOMAIN cluster.objects

(* A finished collection during which the cluster stayed as it is, and     *)
(* that was not misled by an old answer or a label about the API.          *)
Settled(k) ==
    /\ k.pc = "done" /\ k.steady /\ k.stale = 0
    /\ Config.enabled /\ served # Nobody /\ k.outcome # "dropped"
    /\ ~ShouldSkip(k.alert, Services, Ignored)
    /\ AlertNamespace(k) # Nobody /\ FluxInScope(AlertNamespace(k))
    /\ "customresource_version" \in DOMAIN k.alert.labels =>
           k.alert.labels.customresource_version = served

-----------------------------------------------------------------------------
(* Every read is one that the chart grants, and of a legal name: workloads *)
(* in the namespaces of the agent, objects of Flux and events in its Flux  *)
(* namespaces too, nodes only with a binding for the whole cluster         *)
(* (docs/PRODUCTION.md:261, :359), although owners, labels and sources     *)
(* lead into other namespaces.                                             *)
ReadsAreGranted ==
    \A c \in DOMAIN collections : \A read \in collections[c].reads :
        \/ Config.all \/ read[1] = "APIGroup"
        \/ read[2] \in Config.namespaces
        \/ /\ Config.flux /\ read[2] \in Config.fluxNamespaces
           /\ read[1] \in FluxKinds \cup {"Event"}

(* A run whose release or any source in its chain is suspended stops after *)
(* the collection (docs/PRODUCTION.md:384), whether the alert is about a   *)
(* pod, a workload or the release, and with a lookback of its own too: as  *)
(* long as nothing failed, and every owner could be read.                  *)
HeldDeliveryStopsTheRun ==
    \A c \in DOMAIN collections :
        LET k == collections[c]
            chain == UNION {ChainOf(ref) : ref \in DeliverersOf(k)}
        IN  /\ Settled(k) /\ Config.flux /\ k.errors = {}
            /\ InScope(AlertNamespace(k)) \/ IsAboutFlux(k.alert)
            /\ \A i \in DOMAIN k.pods : \A j \in DOMAIN k.pods[i].chain :
                   k.pods[i].chain[j].resolved
            /\ \A ref \in chain : FluxInScope(NamespaceOf(ref))
            /\ \E ref \in chain : cluster.objects[ref].suspended
            => k.outcome = "skipped"

(* "Not collected" and "nothing wrong" can be told apart: without a note   *)
(* and without an error, all that there is was collected.  A source with   *)
(* more events than are asked for is left out, see the README.             *)
SilenceIsComplete ==
    \A c \in DOMAIN collections :
        LET k == collections[c]
            names == {NameOf(ref) : ref \in PodsOf(k)}
            of == {k.pods[i].name : i \in DOMAIN k.pods}
            about(name) == {e \in cluster.events : e.on[2] = AlertNamespace(k)
                                                   /\ NameOf(e.on) = name}
        IN  Settled(k) /\ InScope(AlertNamespace(k)) /\ k.notes = {} /\ k.errors = {} =>
                /\ of = names
                /\ \A name \in of : Cardinality(about(name)) <= MaxEvents =>
                       about(name) \subseteq k.events
                /\ k.nodes = {} => NodeName(k) = Nobody
                /\ k.claims = {} => NameOf(ClaimRef(k)) = Nobody
                /\ k.flux # <<>> =>
                       ChainOf(k.flux[1].ref) = {k.flux[i].ref : i \in DOMAIN k.flux}

(* Asking for no more pods than are shown would answer with whichever pods *)
(* come first: when a pod of the workload is sick, one that is shown is.   *)
TheSickPodIsShown ==
    \A c \in DOMAIN collections :
        LET k == collections[c]
            sick(name) == LET ref == <<"Pod", AlertNamespace(k), name>>
                          IN  ref \in DOMAIN cluster.objects
                              /\ ~IsHealthy(cluster.objects[ref])
        IN  /\ Settled(k) /\ k.pods # <<>>
            /\ Cardinality(PodsOf(k)) <= ScanLimit
            /\ \E ref \in PodsOf(k) : sick(NameOf(ref))
            => \E i \in DOMAIN k.pods : sick(k.pods[i].name)

(* Collections run at once with one collector: what one of them found out  *)
(* about owners does not lead another one to a release that has nothing to *)
(* do with its alert.                                                      *)
OwnAlertOnly ==
    \A c \in DOMAIN collections :
        LET k == collections[c]
        IN  k.steady /\ k.flux # <<>> => k.flux[1].ref \in DeliverersOf(k)

(* A change of the version that the cluster serves, and Flux being         *)
(* installed or removed, goes unnoticed no longer than the cache's lifetime*)
(* although a discovery that was asked before it may be stored after it.   *)
StaleNoLongerThanTtl ==
    \A c \in DOMAIN collections : collections[c].stale <= Ttl

SameObject(ref, other) ==
    /\ KindOf(ref) = KindOf(other)
    /\ NamespaceOf(ref) = NamespaceOf(other)
    /\ NameOf(ref) = NameOf(other)

(* The events of a delivery are about its objects, also when a workload    *)
(* has the name of its release.                                            *)
EventsBelong ==
    \A c \in DOMAIN collections : \A e \in collections[c].fluxEvents :
        \E i \in DOMAIN collections[c].flux : SameObject(collections[c].flux[i].ref, e.on)

(* The specs of the cluster's pods are among those that redaction is told  *)
(* of,                                                                     *)
Known(pod) == pod.spec \in {Nobody} \cup DOMAIN SpecHolds

PodsAreKnown ==
    \A w \in DOMAIN AllOf :
        \A state \in {AllOf[w].cluster} \cup AllOf[w].changes :
            \A ref \in DOMAIN state.objects :
                KindOf(ref) = "Pod" => Known(state.objects[ref])

(* and it leaves everything of them but what is secret.                    *)
Redacts ==
    \A spec \in DOMAIN SpecHolds :
        /\ "secret" \notin SpecShows[spec]
        /\ SpecHolds[spec] \ {"secret"} \subseteq SpecShows[spec]

(* Nothing secret of a pod's spec is shown, and everything else is: names  *)
(* of variables and references to where a value comes from are often the   *)
(* answer.                                                                 *)
SecretsStayOut ==
    \A c \in DOMAIN collections :
        LET k == collections[c]
        IN  \A i \in DOMAIN k.pods :
                LET shown == k.pods[i].spec
                    ref == <<"Pod", AlertNamespace(k), k.pods[i].name>>
                IN  /\ "secret" \notin shown
                    /\ k.steady /\ shown # {"omitted"} =>
                           SpecHolds[cluster.objects[ref].spec] \ {"secret"}
                               \subseteq shown

(* An alert costs the API server a bounded number of requests, whatever    *)
(* owns what in the cluster.                                               *)
RoundTripsAreBounded ==
    \A c \in DOMAIN collections :
        collections[c].calls <=
            2 + MaxPods * MaxDepth + MaxSources + 2 + 1 + 3 * (MaxHops + 1)
=============================================================================

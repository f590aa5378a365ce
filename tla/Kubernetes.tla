------------------------------ MODULE Kubernetes ------------------------------
(***************************************************************************)
(* The pure half of the evidence about an alert: which object the labels   *)
(* name (alert_handler.py, gitops.py, alert_filter.py), what is kept of an *)
(* answer of the API server (kubernetes_client.py, flux_client.py) and     *)
(* what to ask for next (cluster_state.py).                                *)
(*                                                                         *)
(* An object is named by its kind, namespace and name.  An alert has its   *)
(* labels in two functions: those that a collision with the labels of the  *)
(* scrape target renamed (`exported`), and all the others (`labels`).      *)
(***************************************************************************)
EXTENDS Integers, SequencesExt

CONSTANTS
    SpecShows,      \* name of a pod spec -> what redaction leaves readable in it
    Illegal,        \* values of labels that are no name of an object
    MaxPods,        \* pods shown of a workload
    ScanLimit,      \* POD_SCAN_LIMIT
    MaxEvents,      \* events shown
    MaxSources,     \* MAX_EVENT_SOURCES
    MaxDepth,       \* MAX_OWNER_DEPTH
    MaxHops         \* MAX_SOURCE_HOPS

Nobody == "nobody"
NoObject == <<"none", "none", Nobody>>
Refs == STRING \X STRING \X STRING

KindOf(ref) == ref[1]
NamespaceOf(ref) == ref[2]
NameOf(ref) == ref[3]

(* Labels in the order in which they are tried, each with its kind.        *)
WorkloadLabels ==
    <<<<"deployment", "Deployment">>, <<"statefulset", "StatefulSet">>,
      <<"daemonset", "DaemonSet">>, <<"job_name", "Job">>>>
WorkloadKinds == {WorkloadLabels[i][2] : i \in DOMAIN WorkloadLabels}

OwnerKinds == {"ReplicaSet", "Deployment", "StatefulSet", "DaemonSet", "Job",
               "CronJob"}

FluxKinds == {"HelmRelease", "Kustomization", "GitRepository", "OCIRepository",
              "HelmRepository", "HelmChart", "Bucket"}

-----------------------------------------------------------------------------
(* The alert.                                                              *)

(* After a collision a bare pod label is the scrape target's.              *)
AlertLabel(alert, name) ==
    IF name \in DOMAIN alert.exported THEN alert.exported[name]
    ELSE IF name = "pod" /\ "namespace" \in DOMAIN alert.exported THEN Nobody
    ELSE IF name \in DOMAIN alert.labels THEN alert.labels[name] ELSE Nobody

(* The Flux object that an alert is about, with the version of its API if  *)
(* the alert has one.                                                      *)
IsAboutFlux(alert) ==
    {"customresource_group", "customresource_kind", "name"} \subseteq DOMAIN alert.labels

GitopsRef(alert) ==
    <<alert.labels.customresource_kind, AlertLabel(alert, "namespace"),
      alert.labels.name>>

SuspendedByLabel(alert) ==
    IsAboutFlux(alert) /\ "suspended" \in DOMAIN alert.labels

(* The pre-filter, up to the first reason to skip.                         *)
ShouldSkip(alert, services, ignored) ==
    \/ alert.status # "firing"
    \/ alert.severity \in {"info", "informational", "none"}
    \/ alert.name \in ignored
    \/ SuspendedByLabel(alert)
    \/ alert.service \notin services

-----------------------------------------------------------------------------
(* Answers.                                                                *)

Min2(a, b) == IF a < b THEN a ELSE b

Restarts(pod) == FoldLeft(LAMBDA sum, s : sum + s.restarts, 0, pod.statuses)

IsHealthy(pod) ==
    /\ pod.phase \in {"Running", "Succeeded"}
    /\ pod.statuses # <<>>
    /\ \A i \in DOMAIN pod.statuses : pod.statuses[i].ready
    /\ Restarts(pod) = 0

(* Before another in the list of a workload's pods: the worse one.         *)
RanksBefore(p, q) ==
    \/ ~IsHealthy(p) /\ IsHealthy(q)
    \/ IsHealthy(p) = IsHealthy(q) /\ Restarts(p) > Restarts(q)

(* Mutant of Shown: as many pods are asked for as are shown.               *)
ShownUnranked(pods) ==
    {SubSeq(list, 1, Min2(MaxPods, Len(list))) : list \in SetToSeqs(DOMAIN pods)}

(* The lists that may be shown of a function from names to pods: the worst *)
(* come first, and the order of equals is the server's.                    *)
Shown(pods) ==
    {SubSeq(list, 1, Min2(MaxPods, Len(list))) :
        list \in {l \in SetToSeqs(DOMAIN pods) :
                    \A i, j \in DOMAIN l :
                        i < j => ~RanksBefore(pods[l[j]], pods[l[i]])}}

(* parse_pod: every container, also one that never started, and what is    *)
(* left in the spec unless it is too large.                                *)
ParsePod(name, pod) ==
    [name |-> name, node |-> pod.node,
     containers |-> {pod.statuses[i].name : i \in DOMAIN pod.statuses}
                        \cup pod.configured,
     spec |-> IF pod.spec = Nobody \/ pod.large THEN {"omitted"}
              ELSE SpecShows[pod.spec],
     chain |-> <<>>]

(* The reference to follow: the controller, or else the first one.         *)
ControllerRef(object) ==
    LET controllers == SelectSeq(object.owners, LAMBDA o : o.controller)
    IN  IF controllers # <<>> THEN Head(controllers)
        ELSE IF object.owners # <<>> THEN Head(object.owners)
        ELSE [kind |-> Nobody, name |-> Nobody, controller |-> FALSE]

(* Mutant of FollowsOwner: the walk trusts that owners have an end.        *)
FollowsOwnerOn(object, chain) == ControllerRef(object).kind # Nobody

(* Owners may own each other in a circle.                                  *)
FollowsOwner(object, chain) ==
    LET owner == ControllerRef(object)
    IN  /\ owner.kind # Nobody
        /\ Len(chain) < MaxDepth
        /\ \A i \in DOMAIN chain : chain[i].kind # owner.kind
                                   \/ chain[i].name # owner.name

(* The events to ask for: those of the pods and their owners, or of        *)
(* whatever was read.                                                      *)
Named(names, name) ==
    IF name = Nobody \/ Contains(names, name) THEN names ELSE Append(names, name)

AllNamed(names, more) ==
    LET named[i \in 0..Len(more)] ==
            IF i = 0 THEN names ELSE Named(named[i - 1], more[i])
    IN  named[Len(more)]

EventSources(pods, queried) ==
    LET ofPod(pod) == <<pod.name>> \o [i \in DOMAIN pod.chain |-> pod.chain[i].name]
        ofPods[i \in 0..Len(pods)] ==
            IF i = 0 THEN <<>> ELSE AllNamed(ofPods[i - 1], ofPod(pods[i]))
    IN  IF ofPods[Len(pods)] # <<>> THEN ofPods[Len(pods)]
        ELSE AllNamed(<<>>, [i \in DOMAIN queried |-> NameOf(queried[i])])

(* At most n of some events, and no newer one left out.                    *)
Newest(events, n) ==
    {kept \in SUBSET events :
        /\ Cardinality(kept) = Min2(n, Cardinality(events))
        /\ \A k \in kept, o \in events \ kept : k.at >= o.at}

(* What the server may answer: it is asked by name alone and given a limit,*)
(* and it does not sort.                                                   *)
EventLists(events, namespace, name) ==
    LET matching == {e \in events : /\ NamespaceOf(e.on) = namespace
                                    /\ NameOf(e.on) = name}
    IN  {list \in SUBSET matching :
            Cardinality(list) = Min2(MaxEvents, Cardinality(matching))}

(* parse_flux_object: of the values that an object holds, nothing is kept. *)
ParseFlux(ref, object) ==
    [ref |-> ref, suspended |-> object.suspended, ready |-> object.ready,
     source |-> object.source]

(* The object that delivers what has these labels, the closest first; a    *)
(* release comes before a kustomization of the same object.                *)
DeliveredBy(labels) ==
    LET first(refs) == SelectInSeq(refs, LAMBDA ref : ref # NoObject)
        i == SelectInSeq(labels, LAMBDA refs : first(refs) # 0)
    IN  IF i = 0 THEN NoObject ELSE labels[i][first(labels[i])]
=============================================================================

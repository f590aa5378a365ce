------------------------------ MODULE MCEvidence ------------------------------
(***************************************************************************)
(* Clusters and alerts for TLC.                                            *)
(***************************************************************************)
EXTENDS EvidenceProperties, Redaction, TLC

(* Pod specs: what is secret sits in values of variables, arguments,       *)
(* headers, data and the copy of the object in an annotation.              *)
Secret == Leaf("secret")
Plain(value) == Leaf(value)

Container ==
    Map([name |-> Plain("app"),
         env |-> List(<<Map([name |-> Plain("URL"), value |-> Secret]),
                        Map([name |-> Plain("KEY"), valueFrom |-> Plain("secretRef")])>>),
         command |-> List(<<Secret, Secret>>),
         livenessProbe |->
             Map([exec |-> Map([command |-> List(<<Secret>>)]),
                  httpGet |-> Map([httpHeaders |->
                      List(<<Map([name |-> Plain("Auth"), value |-> Secret])>>)])])])

MCSpecs ==
    [secretive |-> Map([containers |-> List(<<Container>>),
                        initContainers |-> List(<<Container>>),
                        template |-> Map([annotations |->
                            Map("last-applied" :> Secret @@ "team" :> Plain("team")),
                            stringData |-> Map([token |-> Secret])])]),
     plain |-> Map([containers |-> List(<<Map([name |-> Plain("app")])>>)])]

-----------------------------------------------------------------------------
Running(ready, restarts) == [name |-> "app", ready |-> ready, restarts |-> restarts]
Owner(kind, name) == [kind |-> kind, name |-> name, controller |-> TRUE]
Other(kind, name) == [kind |-> kind, name |-> name, controller |-> FALSE]

Pod(app, owners, statuses, spec) ==
    [app |-> app, owners |-> owners, statuses |-> statuses, spec |-> spec,
     node |-> "n1", phase |-> "Running", configured |-> {"app", "side"},
     large |-> spec = "plain", gitops |-> <<>>, source |-> NoObject]

Controlled(owners, gitops, selector) ==
    [owners |-> owners, gitops |-> gitops, selector |-> selector, source |-> NoObject]

Flux(source, suspended, ready) ==
    [source |-> source, suspended |-> suspended, ready |-> ready, gitops |-> <<>>,
     owners |-> <<>>]

Plainly == [owners |-> <<>>, gitops |-> <<>>, source |-> NoObject]

Release(namespace) == <<"HelmRelease", namespace, "api">>
Chart == <<"HelmChart", "flux", "api">>
Repository == <<"HelmRepository", "flux", "repo">>

(* A deployment with three pods, the release that it comes from and the    *)
(* sources of that; a set of two pods that come from somewhere else; pods  *)
(* with owners in a circle and of a kind that is not read; a claim, a node.*)
Objects(namespace, suspended) ==
    LET release == Release(namespace)
    IN  <<"Pod", "prod", "api-1">> :> Pod("api", <<Owner("ReplicaSet", "rs")>>,
                                          <<Running(TRUE, 0)>>, "plain")
     @@ <<"Pod", "prod", "api-2">> :> Pod("api", <<Owner("ReplicaSet", "rs")>>,
                                          <<Running(TRUE, 0)>>, "secretive")
     @@ <<"Pod", "prod", "api-3">> :> Pod("api", <<Other("Config", "x"),
                                                   Owner("ReplicaSet", "rs")>>,
                                          <<Running(FALSE, 2)>>, "secretive")
     @@ <<"ReplicaSet", "prod", "rs">> :> Controlled(<<Owner("Deployment", "api")>>,
                                                     <<>>, Nobody)
     @@ <<"Deployment", "prod", "api">> :> Controlled(<<>>, <<release>>, "api")
     @@ release :> Flux(Chart, release \in suspended, "False")
     @@ Chart :> Flux(Repository, Chart \in suspended, "True")
     @@ Repository :> Flux(NoObject, Repository \in suspended, "False")
     @@ <<"Pod", "prod", "web-1">> :> Pod("web", <<Owner("StatefulSet", "web")>>,
                                          <<>>, Nobody)
     @@ <<"StatefulSet", "prod", "web">> :>
            Controlled(<<>>, <<<<"Kustomization", "flux", "web">>>>, "web")
     @@ <<"Kustomization", "flux", "web">> :>
            Flux(<<"GitRepository", "away", "web">>, FALSE, "True")
     @@ <<"GitRepository", "away", "web">> :> Flux(NoObject, FALSE, "True")
     @@ <<"Pod", "prod", "loop">> :> Pod("loop", <<Owner("Job", "a")>>,
                                         <<Running(TRUE, 1)>>, Nobody)
     @@ <<"Job", "prod", "a">> :> Controlled(<<Owner("CronJob", "b")>>, <<>>, Nobody)
     @@ <<"CronJob", "prod", "b">> :> Controlled(<<Owner("Job", "a")>>, <<>>, Nobody)
     @@ <<"Pod", "prod", "odd">> :> Pod("odd", <<Other("Rollout", "odd")>>,
                                        <<Running(TRUE, 0)>>, "secretive")
     @@ <<"PersistentVolumeClaim", "prod", "data">> :> Plainly
     @@ <<"Node", Nobody, "n1">> :> Plainly

MCEvents(namespace) ==
    {[on |-> <<"Pod", "prod", "api-3">>, at |-> 3],
     [on |-> <<"ReplicaSet", "prod", "rs">>, at |-> 2],
     [on |-> <<"Deployment", "prod", "api">>, at |-> 1],
     [on |-> Release(namespace), at |-> 4], [on |-> Repository, at |-> 0],
     [on |-> <<"PersistentVolumeClaim", "prod", "data">>, at |-> 5],
     [on |-> <<"PersistentVolumeClaim", "prod", "data">>, at |-> 6]}

Cluster(namespace, suspended) ==
    [objects |-> Objects(namespace, suspended), events |-> MCEvents(namespace)]

-----------------------------------------------------------------------------
Alert(labels, exported) ==
    [labels |-> labels, exported |-> exported, status |-> "firing",
     severity |-> "critical", name |-> "Alert", service |-> "api",
     lookback |-> FALSE, expression |-> FALSE]

None == [l \in {} |-> Nobody]

InProd(label, value) == Alert("namespace" :> "prod" @@ label :> value, None)

AboutRelease(namespace) ==
    Alert([namespace |-> "mon", pod |-> "kube-state-metrics", name |-> "api",
           customresource_group |-> "helm", customresource_kind |-> "HelmRelease"],
          [namespace |-> namespace])

Alerts ==
    [pod |-> InProd("pod", "api-3"),
     deployment |-> [InProd("deployment", "api") EXCEPT !.lookback = TRUE],
     set |-> [InProd("statefulset", "web") EXCEPT !.expression = TRUE],
     loop |-> InProd("pod", "loop"), odd |-> InProd("pod", "odd"),
     gone |-> InProd("pod", "gone"), illegal |-> InProd("pod", "../x"),
     job |-> InProd("job", "scraper"), missing |-> InProd("daemonset", "missing"),
     claim |-> InProd("persistentvolumeclaim", "data"),
     node |-> Alert([node |-> "n1"], None), nothing |-> Alert(None, None),
     away |-> Alert([namespace |-> "mon", pod |-> "api-3"], None),
     release |-> AboutRelease("prod"), inFlux |-> AboutRelease("flux"),
     elsewhere |-> AboutRelease("mon"),
     versioned |-> [AboutRelease("flux") EXCEPT !.labels =
                       @ @@ [customresource_version |-> "v1"]],
     foreign |-> [AboutRelease("flux") EXCEPT
                     !.labels.customresource_kind = "Receiver"],
     repository |-> [AboutRelease("flux") EXCEPT
                        !.labels.customresource_kind = "HelmRepository",
                        !.labels.name = "repo"],
     held |-> [AboutRelease("flux") EXCEPT !.labels = @ @@ [suspended |-> "true"]],
     resolved |-> [InProd("pod", "api-3") EXCEPT !.status = "resolved"]]

AlertNames == DOMAIN Alerts

Scoped == [enabled |-> TRUE, namespaces |-> {"prod"}, all |-> FALSE,
           flux |-> TRUE, fluxNamespaces |-> {"flux"},
           triage |-> FALSE, sure |-> 4]
Everywhere == [Scoped EXCEPT !.namespaces = {}, !.all = TRUE]
WithoutFlux == [Scoped EXCEPT !.flux = FALSE]
Disabled == [Scoped EXCEPT !.enabled = FALSE]

MCAnswers == [decision : {"proceed", "skip", Nobody}, score : {0, 3, 4}]

One(alert, config, state) ==
    [alerts |-> [one |-> alert], config |-> config, cluster |-> state,
     changes |-> {}, served |-> "v2", upgrades |-> {}, last |-> 0]

(* Triage is on; it lets critical alerts pass unseen.                      *)
Triaged(severity) ==
    One([Alerts["node"] EXCEPT !.severity = severity], [Scoped EXCEPT !.triage = TRUE],
        Cluster("flux", {}))

(* One collection of each alert, with the release, its repository or none  *)
(* suspended.                                                              *)
SuspendedSets == <<{}, {Release("flux")}, {Repository}>>

Single(name, config, i) ==
    One(Alerts[name], config, Cluster("flux", SuspendedSets[i]))

(* The release in the namespace of its workload, and named like it.        *)
SameNamespace(name) ==
    One(Alerts[name], Scoped, Cluster("prod", {Chart}))

(* The pod is replaced, and the release suspended, meanwhile.              *)
Moving ==
    LET start == Cluster("flux", {})
        later == Cluster("flux", {Chart})
        keep == DOMAIN later.objects \ {<<"Pod", "prod", "api-3">>}
    IN  [One(Alerts["pod"], Everywhere, start) EXCEPT !.changes =
            {[later EXCEPT !.objects = [ref \in keep |-> later.objects[ref]]]}]

Two(first, second) ==
    [One(Alerts[first], Scoped, Cluster("flux", {})) EXCEPT
        !.alerts = [one |-> Alerts[first], two |-> Alerts[second]]]

Upgraded ==
    [Two("repository", "repository") EXCEPT !.served = Nobody, !.upgrades = {"v1", "v2", Nobody},
                                    !.last = 2]

WorldNames ==
    {<<name, config, i>> : name \in AlertNames,
                           config \in {"scoped", "everywhere"}, i \in 1..3}
    \cup {<<name, config>> : name \in AlertNames,
                             config \in {"without flux", "disabled", "same namespace"}}
    \cup {<<"moving">>, <<"two">>, <<"upgraded">>, <<"triaged">>, <<"bypassed">>}

MCWorlds ==
    None @@ [name \in WorldNames |->
        CASE Len(name) = 3 ->
                Single(name[1], IF name[2] = "scoped" THEN Scoped ELSE Everywhere, name[3])
          [] name = <<"moving">> -> Moving
          [] name = <<"triaged">> -> Triaged("warning")
          [] name = <<"bypassed">> -> Triaged("critical")
          [] name = <<"two">> -> Two("pod", "set")
          [] name = <<"upgraded">> -> Upgraded
          [] OTHER ->
                CASE name[2] = "without flux" -> Single(name[1], WithoutFlux, 1)
                  [] name[2] = "disabled" -> Single(name[1], Disabled, 1)
                  [] name[2] = "same namespace" -> SameNamespace(name[1])]

(* The proofs suppose that no pod has a spec of which nothing is known.    *)
ASSUME SpecsAreKnown == PodsAreKnown
=============================================================================

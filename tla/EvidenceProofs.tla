----------------------------- MODULE EvidenceProofs -----------------------------
(***************************************************************************)
(* Proofs about the evidence: every read is granted, what a delivery shows *)
(* is its own and no older than the cache's lifetime, the requests of a    *)
(* collection are bounded, its delivery is that of its own alert, a sick   *)
(* pod is among those shown and no secret of a spec is, silence means that *)
(* nothing is left out, and all of it stays within its limits, for every   *)
(* cluster, alert and configuration.                                       *)
(***************************************************************************)
EXTENDS EvidenceProperties, FiniteSetTheorems, SequenceTheorems, TLAPS

-----------------------------------------------------------------------------
(* What a step may change of a collection.                                 *)

Fields ==
    {"pc", "alert", "outcome", "notes", "errors", "pods", "events", "claims",
     "nodes", "flux", "fluxEvents", "raw", "selector", "walk", "queried", "labels",
     "left", "got", "target", "version", "asked", "calls", "reads", "steady", "stale"}

IsCollection(k) == DOMAIN k = Fields

(* What concerns the delivery, and the alert, is as it was.                *)
Core(q, k) ==
    /\ DOMAIN q = Fields
    /\ q.alert = k.alert /\ q.target = k.target /\ q.flux = k.flux
    /\ q.got = k.got /\ q.fluxEvents = k.fluxEvents /\ q.left = k.left
    /\ q.stale = k.stale /\ q.version = k.version /\ q.asked = k.asked

(* What was found out about pods and owners is as it was.                  *)
Found(q, k) ==
    /\ q.labels = k.labels /\ q.selector = k.selector /\ q.walk = k.walk
    /\ q.steady = k.steady

(* Nothing was asked, either.                                              *)
Quiet(q, k) == q.reads = k.reads /\ q.calls = k.calls
Silent(q, k) == q.reads = k.reads /\ q.calls = k.calls /\ Found(q, k)

SamePods(q, k) == q.raw = k.raw /\ q.pods = k.pods

(* Only the place in the collection is another one.                        *)
Moves(q, k, label) == Core(q, k) /\ Silent(q, k) /\ SamePods(q, k) /\ q.pc = label

(* The same, but something may have been found out,                        *)
Shifts(q, k, label) == Core(q, k) /\ Quiet(q, k) /\ SamePods(q, k) /\ q.pc = label

(* namely the labels of one more object.                                   *)
Learns(q, k, label, gitops) ==
    Shifts(q, k, label) /\ q.steady = k.steady /\ q.labels = Append(k.labels, gitops)

(* A request for `ref` is sent, or refused.                                *)
Asks(q, k, ref) ==
    /\ Core(q, k) /\ Found(q, k) /\ SamePods(q, k) /\ q.pc = k.pc
    /\ q.reads = k.reads \cup {<<KindOf(ref), NamespaceOf(ref)>>}
    /\ q.calls = k.calls + 1

MayAsk(q, k, ref) == q = k \/ Asks(q, k, ref)

(* All that was found out is thrown away.                                  *)
Loses(q, k) ==
    /\ DOMAIN q = Fields /\ Silent(q, k)
    /\ q.alert = k.alert /\ q.pods = <<>>
    /\ q.pc = "decide" /\ q.flux = <<>> /\ q.fluxEvents = {}
    /\ q.stale = k.stale

LEMMA Steps ==
    /\ \A q, k, l : Moves(q, k, l) => Shifts(q, k, l)
    /\ \A q, k, l : Moves(q, k, l) \/ Shifts(q, k, l) => Core(q, k) /\ q.pc = l
    /\ \A q, k : Core(q, k) => IsCollection(q)
    /\ \A q, k, ref : Asks(q, k, ref) => IsCollection(q)
    /\ \A q, k : Loses(q, k) => IsCollection(q)
BY DEF Moves, Shifts, Core, Silent, Quiet, Asks, Loses, IsCollection

LEMMA GoesMoves ==
    \A k, l : IsCollection(k) => Moves(Goes(k, l), k, l)
BY DEF Goes, Moves, Core, Silent, Found, SamePods, IsCollection, Fields

LEMMA NotesMoves ==
    \A k, n, l : IsCollection(k) => Moves(Goes(Notes(k, n), l), k, l)
BY DEF Notes, Goes, Moves, Core, Silent, Found, SamePods, IsCollection, Fields

LEMMA ErrsMoves ==
    \A k, n, l : IsCollection(k) => Moves(Goes(Errs(k, n), l), k, l)
BY DEF Errs, Goes, Moves, Core, Silent, Found, SamePods, IsCollection, Fields

LEMMA NotedMoves ==
    \A k, n, l : IsCollection(k) =>
        /\ Moves(Notes(k, n), k, k.pc)
        /\ Moves(Errs(k, n), k, k.pc)
        /\ Moves(Notes(Goes(k, l), n), k, l)
        /\ Moves(Errs(Goes(k, l), n), k, l)
BY DEF Notes, Errs, Goes, Moves, Core, Silent, Found, SamePods, IsCollection, Fields

LEMMA SentAsks ==
    \A k, ref : IsCollection(k) => Asks(Sent(k, ref), k, ref)
BY DEF Sent, Asks, Core, Found, SamePods, IsCollection, Fields

LEMMA LostLoses ==
    \A k : IsCollection(k) => Loses(Lost(k), k)
BY DEF Lost, Loses, Silent, Found, IsCollection, Fields

(* The forms that the actions give a collection, named for the proofs.     *)
Ends(k, outcome) == [k EXCEPT !.pc = "done", !.outcome = outcome]
Retrieves(k, raw, label) == [k EXCEPT !.raw = raw, !.pc = label]
Finds(k, queried, labels) == [k EXCEPT !.queried = queried, !.labels = labels]
Selects(k, selector) == [k EXCEPT !.pc = "list", !.selector = selector]
Ways(q, k, label) ==
    \/ q = Goes(k, label)
    \/ \E n : q = Goes(Notes(k, n), label)
    \/ \E e : q = Goes(Errs(k, e), label)

LEMMA WaysMove ==
    ASSUME NEW k, NEW q, NEW l, IsCollection(k), Ways(q, k, l)
    PROVE  Moves(q, k, l)
BY GoesMoves, NotesMoves, ErrsMoves DEF Ways

LEMMA MovesOn ==
    ASSUME NEW k, NEW s, NEW q, NEW l, Moves(s, k, k.pc), Moves(q, s, l)
    PROVE  Moves(q, k, l)
BY DEF Moves, Core, Silent, Found, SamePods

LEMMA EndsMoves ==
    \A k, o : IsCollection(k) => Moves(Ends(k, o), k, "done")
BY DEF Ends, Moves, Core, Silent, Found, SamePods, IsCollection, Fields

LEMMA RetrievesMoves ==
    \A k, x, l : IsCollection(k) =>
        /\ Core(Retrieves(k, x, l), k) /\ Silent(Retrieves(k, x, l), k)
        /\ Retrieves(k, x, l).pods = k.pods
        /\ Retrieves(k, x, l).raw = x /\ Retrieves(k, x, l).pc = l
BY DEF Retrieves, Core, Silent, Found, IsCollection, Fields

LEMMA FindsLearns ==
    \A k, x, gitops : IsCollection(k) =>
        Learns(Finds(k, x, Append(k.labels, gitops)), k, k.pc, gitops)
<1> SUFFICES ASSUME NEW k, NEW x, NEW gitops, IsCollection(k)
             PROVE  Learns(Finds(k, x, Append(k.labels, gitops)), k, k.pc, gitops)
  OBVIOUS
<1> DEFINE labels == Append(k.labels, gitops)
<1> HIDE DEF labels
<1>1. /\ Shifts(Finds(k, x, labels), k, k.pc) /\ Finds(k, x, labels).steady = k.steady
      /\ Finds(k, x, labels).labels = labels
  BY DEF Finds, Shifts, Core, Quiet, SamePods, IsCollection, Fields
<1>2. QED
  BY <1>1 DEF Learns, labels

LEMMA SelectsShifts ==
    \A k, z : IsCollection(k) =>
        /\ Shifts(Selects(k, z), k, "list") /\ Selects(k, z).labels = k.labels
        /\ Selects(k, z).steady = k.steady /\ Selects(k, z).selector = z
BY DEF Selects, Shifts, Core, Quiet, SamePods, IsCollection, Fields

LEMMA LearnsOn ==
    ASSUME NEW k, NEW s, NEW q, NEW l, NEW gitops, Learns(s, k, k.pc, gitops),
           \/ Moves(q, s, l)
           \/ Shifts(q, s, l) /\ q.labels = s.labels /\ q.steady = s.steady
    PROVE  Learns(q, k, l, gitops)
BY DEF Learns, Shifts, Moves, Core, Quiet, Silent, Found, SamePods

(* The requests that an action makes, and its answers.                     *)
LEMMA SentMayAsk ==
    ASSUME NEW k, NEW ref, NEW s \in {k, Sent(k, ref)}, IsCollection(k)
    PROVE  IsCollection(s) /\ MayAsk(s, k, ref)
BY SentAsks, Steps DEF MayAsk

-----------------------------------------------------------------------------
(* What each action does, in these terms.                                  *)

InFront == {"filter", "triage", "logs", "metrics", "scope"}

LEMMA FrontMoves ==
    ASSUME NEW c \in DOMAIN collections, IsCollection(collections[c]),
           Filter(c) \/ Triage(c) \/ QueryLogs(c) \/ QueryMetrics(c)
    PROVE  /\ collections[c].pc \in InFront
           /\ \E l \in InFront \cup {"decide", "done"} :
                  Moves(collections'[c], collections[c], l)
<1> DEFINE k == collections[c]
<1>1. CASE Filter(c)
  <2>1. k.pc = "filter" /\ collections'[c] \in {Ends(k, "skipped"), Goes(k, "triage")}
    BY <1>1 DEF Filter, At, Becomes, Ends
  <2>2. QED
    BY <2>1, EndsMoves, GoesMoves DEF InFront
<1>2. CASE Triage(c)
  <2>1. k.pc = "triage" /\ collections'[c] \in {Ends(k, "dropped"), Goes(k, "logs")}
    BY <1>2 DEF Triage, At, Becomes, Ends
  <2>2. QED
    BY <2>1, EndsMoves, GoesMoves DEF InFront
<1>3. CASE QueryLogs(c)
  <2>1. /\ k.pc = "logs"
        /\ \/ collections'[c] = Goes(k, "metrics")
           \/ \E e : collections'[c] = Errs(Goes(k, "metrics"), e)
    BY <1>3 DEF QueryLogs, At, Becomes
  <2>2. QED
    BY <2>1, NotedMoves, GoesMoves DEF InFront
<1>4. CASE QueryMetrics(c)
  <2>1. /\ k.pc = "metrics"
        /\ \E l \in {"scope", "decide"} :
              \/ collections'[c] = Goes(k, l)
              \/ \E e : collections'[c] = Errs(Goes(k, l), e)
    BY <1>4 DEF QueryMetrics, At, Becomes
  <2>2. QED
    BY <2>1, NotedMoves, GoesMoves DEF InFront
<1>5. QED
  BY <1>1, <1>2, <1>3, <1>4

LEMMA CheckScopeMoves ==
    ASSUME NEW c \in DOMAIN collections, IsCollection(collections[c]), CheckScope(c)
    PROVE  /\ collections[c].pc = "scope"
           /\ \E l \in {"pods", "node", "target", "decide"} :
                  /\ Moves(collections'[c], collections[c], l)
                  /\ l = "pods" => InScope(AlertNamespace(collections[c]))
                  /\ l = "target" => Config.flux
<1> DEFINE k == collections[c]
<1>1. /\ k.pc = "scope"
      /\ \E l \in {"pods", "node", "target", "decide"} :
            /\ \/ collections'[c] = Goes(k, l)
               \/ \E n : collections'[c] = Goes(Notes(k, n), l)
            /\ l = "pods" => InScope(AlertNamespace(k))
            /\ l = "target" => Config.flux
  BY DEF CheckScope, At, Becomes
<1>2. QED
  BY <1>1, GoesMoves, NotesMoves

(* A pod as the collection has it before it is parsed.                     *)
ReadPod(ref) == <<NameOf(ref), cluster.objects[ref]>>

LEMMA GetPodMoves ==
    ASSUME NEW c \in DOMAIN collections, IsCollection(collections[c]), GetPod(c)
    PROVE  LET k == collections[c]
               q == collections'[c]
           IN  /\ k.pc = "pods"
               /\ \E s : /\ MayAsk(s, k, PodRef(k))
                         /\ \/ Moves(q, s, "sources")
                            \/ Loses(q, s)
                            \/ /\ Core(q, s) /\ Silent(q, s) /\ q.pods = s.pods
                               /\ q.pc = "parse" /\ NameOf(PodRef(k)) # Nobody
                               /\ PodRef(k) \in DOMAIN cluster.objects
                               /\ q.raw = <<ReadPod(PodRef(k))>>
<1> DEFINE k == collections[c]
           sent == Sent(k, PodRef(k))
<1>1. k.pc = "pods" BY DEF GetPod, At
<1>2. PICK s \in {k, sent} :
         \/ Ways(collections'[c], s, "sources")
         \/ collections'[c] = Lost(s)
         \/ /\ PodRef(k) \in DOMAIN cluster.objects
            /\ collections'[c] =
                  Retrieves(s, <<<<PodRef(s)[3], cluster.objects[PodRef(k)]>>>>, "parse")
  BY DEF GetPod, Get, Request, Becomes, Retrieves, Ways, IsThere
<1>3. /\ IsCollection(s) /\ MayAsk(s, k, PodRef(k)) /\ PodRef(s) = PodRef(k)
      /\ NameOf(PodRef(k)) # Nobody
  <2>1. IsCollection(s) /\ MayAsk(s, k, PodRef(k))
    BY SentMayAsk
  <2>2. s.alert = k.alert
    BY <2>1 DEF MayAsk, Asks, Core
  <2>3. QED
    BY <2>1, <2>2 DEF PodRef, AlertNamespace, GetPod
<1>4. CASE Ways(collections'[c], s, "sources")
  BY <1>1, <1>3, <1>4, WaysMove
<1>5. CASE collections'[c] = Lost(s)
  BY <1>1, <1>3, <1>5, LostLoses
<1>6. CASE /\ PodRef(k) \in DOMAIN cluster.objects
           /\ collections'[c] = Retrieves(s, <<ReadPod(PodRef(k))>>, "parse")
  BY <1>1, <1>3, <1>6, RetrievesMoves
<1>7. QED
  BY <1>2, <1>3, <1>4, <1>5, <1>6 DEF ReadPod, NameOf

LEMMA GetWorkloadMoves ==
    ASSUME NEW c \in DOMAIN collections, IsCollection(collections[c]), GetWorkload(c)
    PROVE  LET k == collections[c]
               q == collections'[c]
               object == cluster.objects[Workload(k)]
           IN  /\ k.pc = "pods" /\ NameOf(PodRef(k)) = Nobody
               /\ \E s : /\ MayAsk(s, k, Workload(k))
                         /\ NamespaceOf(Workload(k)) = AlertNamespace(k)
                         /\ \/ Moves(q, s, "sources") \/ Loses(q, s)
                            \/ /\ Workload(k) \in DOMAIN cluster.objects
                               /\ \/ Learns(q, s, "sources", object.gitops)
                                  \/ /\ Learns(q, s, "list", object.gitops)
                                     /\ q.selector = object.selector
<1> DEFINE k == collections[c]
           q == collections'[c]
           sent == Sent(k, Workload(k))
           object == cluster.objects[Workload(k)]
           read(s) == Finds(s, Append(s.queried, Workload(s)),
                            Append(s.labels, object.gitops))
<1>1. /\ k.pc = "pods" /\ NameOf(PodRef(k)) = Nobody
      /\ NamespaceOf(Workload(k)) = AlertNamespace(k)
  <2>1. k.pc = "pods" /\ NameOf(PodRef(k)) = Nobody /\ Workload(k) # NoObject
    BY DEF GetWorkload, At
  <2>2. QED
    BY <2>1 DEF Workload, SelectInSeq, NamespaceOf
<1>2. PICK s \in {k, sent} :
         \/ Ways(q, s, "sources")
         \/ q = Lost(s)
         \/ /\ Workload(k) \in DOMAIN cluster.objects
            /\ \/ Ways(q, read(s), "sources")
               \/ q = Selects(read(s), object.selector)
  BY DEF GetWorkload, Get, Request, Becomes, Finds, Selects, Ways, IsThere
<1>3. IsCollection(s) /\ MayAsk(s, k, Workload(k))
  BY SentMayAsk
<1>4. CASE Ways(q, s, "sources")
  BY <1>1, <1>3, <1>4, WaysMove
<1>5. CASE q = Lost(s)
  BY <1>1, <1>3, <1>5, LostLoses
<1>6. Learns(read(s), s, s.pc, object.gitops)
  BY <1>3, FindsLearns
<1> HIDE DEF read
<1>7. IsCollection(read(s))
  BY <1>6 DEF Learns, Shifts, Core, IsCollection
<1>8. ASSUME Ways(q, read(s), "sources")
      PROVE  Learns(q, s, "sources", object.gitops)
  <2>1. Moves(q, read(s), "sources")
    BY <1>7, <1>8, WaysMove
  <2>2. QED
    BY <1>6, <2>1, LearnsOn
<1>9. ASSUME q = Selects(read(s), object.selector)
      PROVE  Learns(q, s, "list", object.gitops) /\ q.selector = object.selector
  <2>1. /\ Shifts(q, read(s), "list") /\ q.labels = read(s).labels
        /\ q.steady = read(s).steady /\ q.selector = object.selector
    BY <1>7, <1>9, SelectsShifts
  <2>2. QED
    BY <1>6, <2>1, LearnsOn
<1>10. QED
  BY <1>1, <1>2, <1>3, <1>4, <1>5, <1>8, <1>9

LEMMA NoPodsMoves ==
    ASSUME NEW c \in DOMAIN collections, IsCollection(collections[c]), NoPods(c)
    PROVE  collections[c].pc = "pods" /\ Moves(collections'[c], collections[c], "sources")
<1> DEFINE k == collections[c]
<1>1. /\ k.pc = "pods"
      /\ \/ collections'[c] = Goes(k, "sources")
         \/ \E n : collections'[c] = Notes(Goes(k, "sources"), n)
  BY DEF NoPods, At, Becomes
<1>2. QED
  BY <1>1, GoesMoves, NotedMoves

(* A sequence, whatever of.                                                *)
IsSeq(s) == \E S : s \in Seq(S)

LEMMA AppendIs ==
    ASSUME NEW s, IsSeq(s), NEW e
    PROVE  /\ IsSeq(Append(s, e)) /\ Len(s) \in Nat /\ Len(Append(s, e)) = Len(s) + 1
           /\ Append(s, e)[Len(s) + 1] = e
           /\ \A i \in DOMAIN s : Append(s, e)[i] = s[i]
           /\ DOMAIN s = 1..Len(s) /\ DOMAIN Append(s, e) = 1..(Len(s) + 1)
<1>1. PICK S : s \in Seq(S)
  BY DEF IsSeq
<1>2. s \in Seq(S \cup {e}) /\ e \in S \cup {e}
  BY <1>1
<1>3. Append(s, e) \in Seq(S \cup {e})
  BY <1>2
<1>4. QED
  BY <1>2, <1>3 DEF IsSeq

LEMMA TailIs ==
    ASSUME NEW s, IsSeq(s), s # <<>>
    PROVE  /\ IsSeq(Tail(s)) /\ Len(s) \in Nat \ {0} /\ Len(Tail(s)) = Len(s) - 1
           /\ Tail(s) = <<>> => Len(s) = 1
<1>1. PICK S : s \in Seq(S)
  BY DEF IsSeq
<1>2. Tail(s) \in Seq(S) /\ Len(s) \in Nat \ {0} /\ Len(Tail(s)) = Len(s) - 1
  BY <1>1, HeadTailProperties, EmptySeq, LenProperties
<1>3. Tail(s) = <<>> => Len(s) = 1
  BY <1>2, EmptySeq
<1>4. QED
  BY <1>2, <1>3 DEF IsSeq

LEMMA FunctionIsSeq ==
    ASSUME NEW f, NEW n \in Nat, f = [i \in 1..n |-> f[i]]
    PROVE  IsSeq(f) /\ Len(f) = n
<1> DEFINE S == {f[i] : i \in 1..n}
<1>1. \A i \in 1..n : f[i] \in S
  OBVIOUS
<1> HIDE DEF S
<1>2. [i \in 1..n |-> f[i]] \in [1..n -> S]
  BY <1>1
<1>3. f \in [1..n -> S]
  BY <1>2
<1>4. f \in Seq(S) /\ Len(f) = n
  BY <1>3
<1>5. QED
  BY <1>4 DEF IsSeq

(* No more pods are shown than may be.                                     *)
LEMMA ShownIsShort ==
    ASSUME NEW pods, IsFiniteSet(DOMAIN pods), NEW list \in Shown(pods)
    PROVE  \E S : list \in Seq(S) /\ Len(list) \in 0..MaxPods
<1>1. PICK l \in SetToSeqs(DOMAIN pods) : list = SubSeq(l, 1, Min2(MaxPods, Len(l)))
  BY DEF Shown
<1>2. l \in [1..Cardinality(DOMAIN pods) -> DOMAIN pods] /\ Cardinality(DOMAIN pods) \in Nat
  BY FS_CardinalityType DEF SetToSeqs
<1>3. l \in Seq(DOMAIN pods)
  BY <1>2
<1>4. Min2(MaxPods, Len(l)) \in 0..MaxPods /\ Min2(MaxPods, Len(l)) \in 0..Len(l)
  BY <1>3, EvidenceBounds DEF Min2
<1>5. list \in Seq(DOMAIN pods) /\ Len(list) = Min2(MaxPods, Len(l))
  BY <1>1, <1>3, <1>4
<1>6. QED
  BY <1>4, <1>5

(* The API server has finitely many objects, with names, and events.       *)
FiniteCluster ==
    /\ IsFiniteSet(DOMAIN cluster.objects) /\ DOMAIN cluster.objects \subseteq Refs
    /\ IsFiniteSet(cluster.events)
    /\ \A ref \in DOMAIN cluster.objects :
          NameOf(ref) # Nobody /\ cluster.objects[ref].gitops \in Seq(Refs)

(* Pods are listed: as many as the limit allows, and the worst are kept.   *)
Lists(q, k) ==
    LET all == Matching(AlertNamespace(k), k.selector)
    IN  \E some \in SUBSET all :
            /\ Cardinality(some) = Min2(ScanLimit, Cardinality(all))
            /\ \E list \in Shown([ref \in some |-> cluster.objects[ref]]) :
                   q.raw = [i \in DOMAIN list |-> ReadPod(list[i])]

LEMMA ListPodsMoves ==
    ASSUME NEW c \in DOMAIN collections, IsCollection(collections[c]), ListPods(c),
           FiniteCluster
    PROVE  LET k == collections[c]
               q == collections'[c]
           IN  /\ k.pc = "list"
               /\ \E s : /\ MayAsk(s, k, <<"Pod", AlertNamespace(k), "*">>)
                         /\ \/ Moves(q, s, "sources") \/ Loses(q, s)
                            \/ /\ Core(q, s) /\ Silent(q, s) /\ q.pods = s.pods
                               /\ IsSeq(q.raw) /\ Len(q.raw) \in 0..MaxPods /\ Lists(q, k)
                               /\ q.pc = IF q.raw = <<>> THEN "sources" ELSE "parse"
<1> DEFINE k == collections[c]
           ref == <<"Pod", AlertNamespace(k), "*">>
           all == Matching(AlertNamespace(k), k.selector)
           raw(list) == [i \in DOMAIN list |-> ReadPod(list[i])]
           several(some) == Cardinality(some) = Min2(ScanLimit, Cardinality(all))
           label(list) == IF list = <<>> THEN "sources" ELSE "parse"
<1>1. k.pc = "list" BY DEF ListPods, At
<1>2. PICK s \in {k, Sent(k, ref)} :
         \/ Ways(collections'[c], s, "sources")
         \/ collections'[c] = Lost(s)
         \/ \E some \in SUBSET all : \E list \in Shown([o \in some |-> cluster.objects[o]]) :
               several(some) /\
               \/ collections'[c] = Retrieves(s, raw(list), label(list))
               \/ collections'[c] = Notes(Retrieves(s, raw(list), label(list)),
                                          "pods_omitted")
  BY DEF ListPods, Request, Becomes, Retrieves, Ways, ReadPod
<1>3. IsCollection(s) /\ MayAsk(s, k, ref)
  BY SentMayAsk
<1>4. CASE Ways(collections'[c], s, "sources")
  BY <1>1, <1>3, <1>4, WaysMove
<1>5. CASE collections'[c] = Lost(s)
  BY <1>1, <1>3, <1>5, LostLoses
<1>6. ASSUME NEW some \in SUBSET all, several(some),
             NEW list \in Shown([o \in some |-> cluster.objects[o]]),
             \/ collections'[c] = Retrieves(s, raw(list), label(list))
             \/ collections'[c] = Notes(Retrieves(s, raw(list), label(list)),
                                        "pods_omitted")
      PROVE  LET q == collections'[c]
             IN  /\ Core(q, s) /\ Silent(q, s) /\ q.pods = s.pods
                 /\ IsSeq(q.raw) /\ Len(q.raw) \in 0..MaxPods /\ Lists(q, k)
                 /\ q.pc = IF q.raw = <<>> THEN "sources" ELSE "parse"
  <2> DEFINE q == collections'[c]
             shown == Retrieves(s, raw(list), label(list))
  <2>1. /\ Core(shown, s) /\ Silent(shown, s) /\ shown.pods = s.pods
        /\ shown.raw = raw(list) /\ shown.pc = label(list)
    BY <1>3, RetrievesMoves
  <2>2. /\ Core(q, s) /\ Silent(q, s) /\ q.pods = s.pods
        /\ q.raw = raw(list) /\ q.pc = label(list)
    <3>1. CASE q = shown
      BY <2>1, <3>1
    <3>2. CASE q = Notes(shown, "pods_omitted")
      <4>1. IsCollection(shown)
        BY <2>1, Steps
      <4>2. Moves(q, shown, shown.pc)
        BY <3>2, <4>1, NotedMoves
      <4>3. QED
        BY <2>1, <4>2 DEF Moves, Core, Silent, Found, SamePods
    <3>3. QED
      BY <1>6, <3>1, <3>2
  <2>3. IsFiniteSet(some)
    <3>1. some \subseteq DOMAIN cluster.objects
      BY DEF Matching
    <3>2. QED
      BY <3>1, FS_Subset DEF FiniteCluster
  <2>4. PICK S : list \in Seq(S) /\ Len(list) \in 0..MaxPods
    <3>1. IsFiniteSet(DOMAIN [o \in some |-> cluster.objects[o]])
      BY <2>3
    <3>2. QED
      BY <3>1, ShownIsShort
  <2>5. IsSeq(raw(list)) /\ Len(raw(list)) = Len(list)
    <3>1. DOMAIN list = 1..Len(list) /\ Len(list) \in Nat
      BY <2>4
    <3>2. raw(list) = [i \in 1..Len(list) |-> raw(list)[i]]
      BY <3>1
    <3>3. QED
      BY <3>1, <3>2, FunctionIsSeq
  <2>6. raw(list) = <<>> <=> list = <<>>
    BY <2>4, <2>5, EmptySeq DEF IsSeq
  <2>7. Lists(q, k)
    BY <1>6, <2>2 DEF Lists
  <2>8. QED
    BY <2>2, <2>4, <2>5, <2>6, <2>7
<1>7. CASE \E some \in SUBSET all :
              \E list \in Shown([o \in some |-> cluster.objects[o]]) :
               several(some) /\
               \/ collections'[c] = Retrieves(s, raw(list), label(list))
               \/ collections'[c] = Notes(Retrieves(s, raw(list), label(list)),
                                          "pods_omitted")
  BY <1>1, <1>3, <1>6, <1>7
<1>8. QED
  BY <1>2, <1>4, <1>5, <1>7

IsPod(pod) == DOMAIN pod = {"name", "node", "containers", "spec", "chain"}

(* What is kept of the spec of a pod.                                      *)
SpecOf(pod) ==
    IF pod.spec = Nobody \/ pod.large THEN {"omitted"} ELSE SpecShows[pod.spec]

LEMMA ParseNextPodMoves ==
    ASSUME NEW c \in DOMAIN collections, IsCollection(collections[c]), ParseNextPod(c)
    PROVE  LET k == collections[c]
               q == collections'[c]
           IN  /\ k.pc = "parse" /\ q.pc = "owners"
               /\ Core(q, k) /\ Quiet(q, k) /\ q.raw = Tail(k.raw)
               /\ q.labels = k.labels /\ q.steady = k.steady /\ q.walk = Head(k.raw)[2]
               /\ \E pod : /\ IsPod(pod) /\ pod.chain = <<>> /\ pod.name = Head(k.raw)[1]
                           /\ pod.spec = SpecOf(Head(k.raw)[2])
                           /\ q.pods = Append(k.pods, pod)
<1> DEFINE k == collections[c]
           q == collections'[c]
           walk == Head(k.raw)[2]
           parsed == ParsePod(Head(k.raw)[1], walk)
<1>1. /\ IsPod(parsed) /\ parsed.chain = <<>> /\ parsed.name = Head(k.raw)[1]
      /\ parsed.spec = SpecOf(walk)
  BY DEF ParsePod, IsPod, SpecOf
<1> HIDE DEF parsed
<1>2. \E x, y : q = [k EXCEPT !.pods = Append(k.pods, parsed), !.queried = x, !.notes = y,
                             !.raw = Tail(k.raw), !.walk = walk, !.pc = "owners"]
  BY DEF ParseNextPod, Becomes, parsed
<1> HIDE DEF walk
<1>3. q.pc = "owners" /\ q.pods = Append(k.pods, parsed) /\ q.walk = walk
  BY <1>2 DEF IsCollection, Fields
<1>4. /\ Core(q, k) /\ Quiet(q, k) /\ q.raw = Tail(k.raw)
      /\ q.labels = k.labels /\ q.steady = k.steady
  BY <1>2 DEF Core, Quiet, IsCollection, Fields
<1>5. QED
  BY <1>1, <1>3, <1>4 DEF ParseNextPod, At, walk

-----------------------------------------------------------------------------
(* The owners of the pod that was parsed last.                             *)

HasPod(k) == IsSeq(k.pods) /\ Len(k.pods) >= 1 /\ IsPod(Last(k.pods)) /\ IsSeq(Chain(k))

(* One owner more is known.                                                *)
Grows(q, k) ==
    /\ Core(q, k) /\ Silent(q, k) /\ q.raw = k.raw
    /\ HasPod(q) /\ Len(q.pods) = Len(k.pods) /\ Len(Chain(q)) = Len(Chain(k)) + 1
    /\ \A i \in 1..(Len(k.pods) - 1) : q.pods[i] = k.pods[i]
    /\ Last(q.pods).name = Last(k.pods).name /\ Last(q.pods).spec = Last(k.pods).spec

LEMMA WithOwnerGrows ==
    ASSUME NEW k, NEW owner, NEW resolved, IsCollection(k), HasPod(k)
    PROVE  LET q == WithOwner(k, owner, resolved)
           IN  Grows(q, k) /\ q.pc = k.pc
<1> DEFINE n == Len(k.pods)
           link == [kind |-> owner.kind, name |-> owner.name, resolved |-> resolved]
           pod == [k.pods[n] EXCEPT !.chain = Append(k.pods[n].chain, link)]
           q == WithOwner(k, owner, resolved)
<1>1. PICK S : k.pods \in Seq(S)
  BY DEF HasPod, IsSeq
<1>2. n \in Nat \ {0} /\ n \in 1..n
  BY <1>1 DEF HasPod
<1>3. /\ IsSeq(pod.chain) /\ Len(pod.chain) = Len(Chain(k)) + 1 /\ IsPod(pod)
      /\ pod.name = Last(k.pods).name /\ pod.spec = Last(k.pods).spec
  <2>1. Chain(k) = k.pods[n].chain /\ IsPod(k.pods[n])
    BY DEF Chain, Last, HasPod
  <2>2. /\ pod.chain = Append(Chain(k), link) /\ IsPod(pod)
        /\ pod.name = Last(k.pods).name /\ pod.spec = Last(k.pods).spec
    BY <2>1 DEF IsPod, Last
  <2>3. IsSeq(Chain(k))
    BY DEF HasPod
  <2> HIDE DEF link
  <2>4. IsSeq(Append(Chain(k), link)) /\ Len(Append(Chain(k), link)) = Len(Chain(k)) + 1
    BY <2>3, AppendIs
  <2>5. QED
    BY <2>2, <2>4
<1> HIDE DEF pod
<1>4. q.pods = [k.pods EXCEPT ![n] = pod] /\ q.pc = k.pc
  BY DEF WithOwner, pod, IsCollection, Fields
<1>5. Core(q, k) /\ Silent(q, k) /\ q.raw = k.raw
  BY DEF WithOwner, Core, Silent, Found, IsCollection, Fields
<1> HIDE DEF q
<1>6. /\ q.pods \in Seq(S \cup {pod}) /\ Len(q.pods) = n /\ q.pods[n] = pod
      /\ \A i \in 1..(n - 1) : q.pods[i] = k.pods[i]
  <2>1. k.pods \in Seq(S \cup {pod})
    BY <1>1
  <2>2. QED
    BY <1>2, <1>4, <2>1, ExceptSeq
<1>7. Last(q.pods) = pod /\ Chain(q) = pod.chain
  BY <1>6 DEF Last, Chain
<1>8. QED
  BY <1>2, <1>3, <1>4, <1>5, <1>6, <1>7 DEF Grows, HasPod, IsSeq, q

AfterWalk(k) == IF k.raw = <<>> THEN "sources" ELSE "parse"
Turns(k, walk, labels) == [k EXCEPT !.walk = walk, !.labels = labels]

(* An owner is added, and the walk goes on from it or ends.                *)
Climbs(q, k, ref) ==
    \E g : /\ Grows(g, k)
          /\ \/ Moves(q, g, AfterWalk(k))
             \/ /\ ref \in DOMAIN cluster.objects /\ q.walk = cluster.objects[ref]
                /\ Learns(q, g, "owners", cluster.objects[ref].gitops)

OwnerRef(k) ==
    <<ControllerRef(k.walk).kind, AlertNamespace(k), ControllerRef(k.walk).name>>

LEMMA TurnsLearns ==
    ASSUME NEW k, NEW walk, NEW gitops, IsCollection(k)
    PROVE  LET q == Turns(k, walk, Append(k.labels, gitops))
           IN  Learns(q, k, k.pc, gitops) /\ q.walk = walk
<1> DEFINE labels == Append(k.labels, gitops)
<1> HIDE DEF labels
<1>1. /\ Shifts(Turns(k, walk, labels), k, k.pc) /\ Turns(k, walk, labels).steady = k.steady
      /\ Turns(k, walk, labels).labels = labels /\ Turns(k, walk, labels).walk = walk
  BY DEF Turns, Shifts, Core, Quiet, SamePods, IsCollection, Fields
<1>2. QED
  BY <1>1 DEF Learns, labels

LEMMA FollowOwnerMoves ==
    ASSUME NEW c \in DOMAIN collections, IsCollection(collections[c]),
           HasPod(collections[c]), FollowOwner(c)
    PROVE  LET k == collections[c]
               q == collections'[c]
           IN  /\ k.pc = "owners" /\ NamespaceOf(OwnerRef(k)) = AlertNamespace(k)
               /\ \/ Moves(q, k, AfterWalk(k))
                  \/ /\ Len(Chain(k)) < MaxDepth
                     /\ \E s : /\ MayAsk(s, k, OwnerRef(k))
                               /\ Climbs(q, s, OwnerRef(k)) \/ Loses(q, s)
<1> DEFINE k == collections[c]
           q == collections'[c]
           owner == ControllerRef(k.walk)
           ref == OwnerRef(k)
           object == cluster.objects[ref]
           grown(s, resolved) == WithOwner(s, owner, resolved)
<1>1. /\ k.pc = "owners" /\ NamespaceOf(ref) = AlertNamespace(k)
      /\ FollowsOwner(k.walk, Chain(k)) => Len(Chain(k)) < MaxDepth
  BY DEF FollowOwner, At, FollowsOwner, NamespaceOf, OwnerRef
<1>2. CASE ~FollowsOwner(k.walk, Chain(k))
  <2>1. q = Goes(k, AfterWalk(k))
    BY <1>2 DEF FollowOwner, Becomes, WalkEnds, AfterWalk
  <2>2. QED
    BY <1>1, <2>1, GoesMoves
<1>3. CASE FollowsOwner(k.walk, Chain(k))
  <2>1. PICK s \in {k, Sent(k, ref)} :
           \/ q = Goes(grown(s, FALSE), AfterWalk(grown(s, FALSE)))
           \/ q = Lost(s)
           \/ /\ ref \in DOMAIN cluster.objects
              /\ q = Turns(grown(s, TRUE), object,
                           Append(grown(s, TRUE).labels, object.gitops))
    BY <1>3 DEF FollowOwner, Get, Request, Becomes, WalkEnds, AfterWalk, Turns, OwnerRef,
                IsThere
  <2>2. IsCollection(s) /\ MayAsk(s, k, ref)
    BY SentMayAsk
  <2>3. s.pods = k.pods /\ s.pc = k.pc /\ HasPod(s)
    BY <2>2 DEF MayAsk, Asks, SamePods, HasPod, Chain
  <2> HIDE DEF ref
  <2>4. CASE q = Lost(s)
    BY <1>1, <1>3, <2>2, <2>4, LostLoses DEF ref
  <2>5. ASSUME NEW resolved
        PROVE  /\ Grows(grown(s, resolved), s) /\ grown(s, resolved).pc = "owners"
               /\ IsCollection(grown(s, resolved))
               /\ AfterWalk(grown(s, resolved)) = AfterWalk(s)
    <3>1. Grows(grown(s, resolved), s) /\ grown(s, resolved).pc = s.pc
      BY <2>2, <2>3, WithOwnerGrows
    <3>2. QED
      BY <1>1, <2>3, <3>1 DEF Grows, AfterWalk, Core, IsCollection
  <2>6. CASE q = Goes(grown(s, FALSE), AfterWalk(grown(s, FALSE)))
    <3>1. Moves(q, grown(s, FALSE), AfterWalk(s))
      BY <2>5, <2>6, GoesMoves
    <3>2. Climbs(q, s, ref)
      BY <2>5, <3>1 DEF Climbs
    <3>3. QED
      BY <1>1, <1>3, <2>2, <3>2 DEF ref
  <2>7. CASE /\ ref \in DOMAIN cluster.objects
             /\ q = Turns(grown(s, TRUE), object,
                          Append(grown(s, TRUE).labels, object.gitops))
    <3> DEFINE g == grown(s, TRUE)
    <3>1. Grows(g, s) /\ g.pc = "owners" /\ IsCollection(g)
      BY <2>5
    <3> HIDE DEF g, object
    <3>2. q = Turns(g, object, Append(g.labels, object.gitops))
      BY <2>7 DEF g
    <3>3. Learns(q, g, "owners", object.gitops) /\ q.walk = object
      BY <3>1, <3>2, TurnsLearns
    <3>4. Climbs(q, s, ref)
      BY <2>7, <3>1, <3>3 DEF Climbs, object
    <3>5. QED
      BY <1>1, <1>3, <2>2, <3>4 DEF ref
  <2>8. QED
    BY <2>1, <2>4, <2>6, <2>7
<1>4. QED
  BY <1>2, <1>3

-----------------------------------------------------------------------------
(* Events, claim and node.                                                 *)

(* Core, but for the events that are being collected.                      *)
Base(q, k) ==
    /\ DOMAIN q = Fields
    /\ q.alert = k.alert /\ q.target = k.target /\ q.flux = k.flux
    /\ q.fluxEvents = k.fluxEvents
    /\ q.stale = k.stale /\ q.version = k.version /\ q.asked = k.asked

(* The i-th source has been asked about.                                   *)
Hears(q, k, i) ==
    /\ Base(q, k) /\ Silent(q, k) /\ SamePods(q, k) /\ q.pc = k.pc
    /\ q.left = k.left \ {i}

(* What was heard is kept, or has been cut.                                *)
Settles(q, k, label) ==
    /\ Base(q, k) /\ Silent(q, k) /\ SamePods(q, k)
    /\ q.got = {} /\ q.pc = label

LEMMA ChooseSourcesMoves ==
    ASSUME NEW c \in DOMAIN collections, IsCollection(collections[c]), ChooseSources(c)
    PROVE  LET k == collections[c]
               q == collections'[c]
           IN  /\ k.pc = "sources" /\ q.pc = "events"
               /\ Base(q, k) /\ Silent(q, k) /\ SamePods(q, k)
               /\ q.got = k.got /\ q.left \subseteq 1..MaxSources
<1> DEFINE k == collections[c]
           g == Goes(k, "events")
           chosen == DOMAIN EventSources(g.pods, g.queried) \cap 1..MaxSources
<1>1. Moves(g, k, "events") /\ IsCollection(g)
  BY GoesMoves, Steps
<1> HIDE DEF g
<1>2. \E x : collections'[c] = [g EXCEPT !.left = chosen, !.notes = x]
  BY DEF ChooseSources, Becomes, g
<1>3. chosen \subseteq 1..MaxSources
  OBVIOUS
<1> HIDE DEF chosen
<1>4. /\ Base(collections'[c], g) /\ Silent(collections'[c], g) /\ SamePods(collections'[c], g)
      /\ collections'[c].pc = g.pc /\ collections'[c].got = g.got
      /\ collections'[c].left = chosen
  BY <1>1, <1>2 DEF Base, Silent, Found, SamePods, IsCollection, Fields
<1>5. QED
  BY <1>1, <1>3, <1>4 DEF ChooseSources, At, Moves, Core, Base, Silent, Found, SamePods

HeardOf(k, heard, i) == SourceDone([k EXCEPT !.got = heard], i)

LEMMA HearingHears ==
    \A k, heard, i : IsCollection(k) =>
        Hears(HeardOf(k, heard, i), k, i) /\ HeardOf(k, heard, i).got = heard
BY DEF HeardOf, SourceDone, Hears, Base, Silent, Found, SamePods, IsCollection, Fields

LEMMA FailingHears ==
    \A k, e, i : IsCollection(k) =>
        /\ Hears(SourceDone(Errs(k, e), i), k, i)
        /\ SourceDone(Errs(k, e), i).got = k.got
BY DEF Errs, SourceDone, Hears, Base, Silent, Found, SamePods, IsCollection, Fields

LEMMA GetEventsMoves ==
    ASSUME NEW c \in DOMAIN collections, IsCollection(collections[c]), GetEvents(c)
    PROVE  LET k == collections[c]
               q == collections'[c]
           IN  /\ k.pc = "events"
               /\ \E i \in k.left : \E name, s :
                     /\ \A j \in k.left : i <= j
                     /\ MayAsk(s, k, <<"Event", AlertNamespace(k), name>>)
                     /\ Hears(q, s, i) \/ Loses(q, s)
<1> DEFINE k == collections[c]
           name(i) == EventSources(k.pods, k.queried)[i]
           ref(i) == <<"Event", AlertNamespace(k), name(i)>>
<1>1. PICK i \in k.left :
         /\ IsNextSource(k, i)
         /\ ListEvents(c, ref(i), LAMBDA e : TRUE, LAMBDA q : SourceDone(q, i),
                       LAMBDA q : SourceDone(Errs(q, "events"), i))
  BY DEF GetEvents
<1>2. EventsOf(ref(i)) = ref(i)
  BY DEF EventsOf, NamespaceOf, NameOf
<1>3. PICK s \in {k, Sent(k, ref(i))} :
         \/ collections'[c] = SourceDone(Errs(s, "events"), i)
         \/ collections'[c] = Lost(s)
         \/ \E heard : collections'[c] = HeardOf(s, heard, i)
  BY <1>1, <1>2 DEF ListEvents, Request, Becomes, HeardOf
<1>4. IsCollection(s) /\ MayAsk(s, k, ref(i))
  BY SentMayAsk
<1>5. Hears(collections'[c], s, i) \/ Loses(collections'[c], s)
  BY <1>3, <1>4, FailingHears, HearingHears, LostLoses
<1>6. QED
  BY <1>1, <1>4, <1>5 DEF GetEvents, At, IsNextSource

LEMMA KeepMoves ==
    ASSUME NEW c \in DOMAIN collections, IsCollection(collections[c]),
           KeepEvents(c) \/ MergeEvents(c)
    PROVE  LET k == collections[c]
               q == collections'[c]
           IN  \/ k.pc = "events" /\ Settles(q, k, "claim")
               \/ k.pc = "merge" /\ Settles(q, k, "node")
<1> DEFINE k == collections[c]
<1>1. ASSUME NEW j, IsCollection(j), NEW x, NEW y, NEW q,
             q = [j EXCEPT !.events = x, !.got = {}, !.notes = y]
      PROVE  Settles(q, j, j.pc)
  BY <1>1 DEF Settles, Base, Silent, Found, SamePods, IsCollection, Fields
<1>2. ASSUME NEW j, NEW q, NEW l, Moves(j, k, l), Settles(q, j, j.pc)
      PROVE  Settles(q, k, l)
  BY <1>2 DEF Settles, Moves, Core, Base, Silent, Found, SamePods
<1>3. CASE KeepEvents(c)
  <2>1. /\ k.pc = "events"
        /\ \E x, y : collections'[c] =
                        [Goes(k, "claim") EXCEPT !.events = x, !.got = {}, !.notes = y]
    <3>1. k.pc = "events"
      BY <1>3 DEF KeepEvents, At
    <3> DEFINE g == Goes(k, "claim")
               noted(x) == IF x = g.got THEN g.notes ELSE g.notes \cup {"events_omitted"}
    <3>2. \E x : collections'[c] =
                    [g EXCEPT !.events = x, !.got = {}, !.notes = noted(x)]
      BY <1>3 DEF KeepEvents, Becomes
    <3>3. QED
      BY <3>1, <3>2
  <2>2. Moves(Goes(k, "claim"), k, "claim") /\ IsCollection(Goes(k, "claim"))
    BY GoesMoves, Steps
  <2>3. Settles(collections'[c], Goes(k, "claim"), Goes(k, "claim").pc)
    BY <2>1, <2>2, <1>1
  <2>4. QED
    BY <2>1, <2>2, <2>3, <1>2
<1>4. CASE MergeEvents(c)
  <2>1. /\ k.pc = "merge"
        /\ \E x, y : collections'[c] =
                        [Goes(k, "node") EXCEPT !.events = x, !.got = {}, !.notes = y]
    <3>1. k.pc = "merge"
      BY <1>4 DEF MergeEvents, At
    <3> DEFINE g == Goes(k, "node")
               all == g.events \cup g.got
               noted(x) == IF x = all THEN g.notes ELSE g.notes \cup {"events_omitted"}
    <3>2. \E x : collections'[c] =
                    [g EXCEPT !.events = x, !.got = {}, !.notes = noted(x)]
      BY <1>4 DEF MergeEvents, Becomes
    <3>3. QED
      BY <3>1, <3>2
  <2>2. Moves(Goes(k, "node"), k, "node") /\ IsCollection(Goes(k, "node"))
    BY GoesMoves, Steps
  <2>3. Settles(collections'[c], Goes(k, "node"), Goes(k, "node").pc)
    BY <2>1, <2>2, <1>1
  <2>4. QED
    BY <2>1, <2>2, <2>3, <1>2
<1>5. QED
  BY <1>3, <1>4

LEMMA ClaimMoves ==
    ASSUME NEW c \in DOMAIN collections, IsCollection(collections[c]),
           NoClaim(c) \/ GetClaim(c)
    PROVE  LET k == collections[c]
               q == collections'[c]
           IN  /\ k.pc = "claim"
               /\ \E s : /\ MayAsk(s, k, ClaimRef(k))
                         /\ \/ Moves(q, s, "node") \/ Moves(q, s, "claim_events")
                            \/ Loses(q, s)
<1> DEFINE k == collections[c]
           ref == ClaimRef(k)
           found(s) == [s EXCEPT !.claims = {NameOf(ClaimRef(s))},
                                 !.queried = Append(s.queried, ClaimRef(s)),
                                 !.pc = "claim_events"]
<1>1. k.pc = "claim"
  BY DEF NoClaim, GetClaim, At
<1>2. CASE NoClaim(c)
  <2>1. collections'[c] = Goes(k, "node") /\ MayAsk(k, k, ref)
    BY <1>2 DEF NoClaim, Becomes, MayAsk
  <2>2. QED
    BY <1>1, <2>1, GoesMoves
<1>3. CASE GetClaim(c)
  <2>1. PICK s \in {k, Sent(k, ref)} :
           \/ Ways(collections'[c], s, "node")
           \/ collections'[c] = Lost(s)
           \/ collections'[c] = found(s)
    BY <1>3 DEF GetClaim, Get, Request, Becomes, Ways
  <2>2. IsCollection(s) /\ MayAsk(s, k, ref)
    BY SentMayAsk
  <2>3. CASE Ways(collections'[c], s, "node")
    BY <1>1, <2>2, <2>3, WaysMove
  <2>4. CASE collections'[c] = Lost(s)
    BY <1>1, <2>2, <2>4, LostLoses
  <2>5. CASE collections'[c] = found(s)
    <3>1. Moves(found(s), s, "claim_events")
      BY <2>2 DEF Moves, Core, Silent, Found, SamePods, IsCollection, Fields
    <3>2. QED
      BY <1>1, <2>2, <2>5, <3>1
  <2>6. QED
    BY <2>1, <2>3, <2>4, <2>5
<1>4. QED
  BY <1>2, <1>3

LEMMA GetClaimEventsMoves ==
    ASSUME NEW c \in DOMAIN collections, IsCollection(collections[c]), GetClaimEvents(c)
    PROVE  LET k == collections[c]
               q == collections'[c]
           IN  /\ k.pc = "claim_events"
               /\ \E ref, s :
                     /\ NamespaceOf(ref) = AlertNamespace(k)
                     /\ MayAsk(s, k, ref)
                     /\ \/ Moves(q, s, "node")
                        \/ Base(q, s) /\ Silent(q, s) /\ SamePods(q, s) /\ q.pc = "merge"
                        \/ Loses(q, s)
<1> DEFINE k == collections[c]
           ref == EventsOf(ClaimRef(k))
           heard(s, got) == Goes([s EXCEPT !.got = got], "merge")
<1>1. k.pc = "claim_events" /\ NamespaceOf(ref) = AlertNamespace(k)
  BY DEF GetClaimEvents, At, EventsOf, ClaimRef, NamespaceOf
<1>2. PICK s \in {k, Sent(k, ref)} :
         \/ Ways(collections'[c], s, "node")
         \/ collections'[c] = Lost(s)
         \/ \E got : collections'[c] = heard(s, got)
  BY DEF GetClaimEvents, ListEvents, Request, Becomes, Ways
<1>3. IsCollection(s) /\ MayAsk(s, k, ref)
  BY SentMayAsk
<1>4. CASE Ways(collections'[c], s, "node")
  BY <1>1, <1>3, <1>4, WaysMove
<1>5. CASE collections'[c] = Lost(s)
  BY <1>1, <1>3, <1>5, LostLoses
<1>6. CASE \E got : collections'[c] = heard(s, got)
  <2>1. PICK got : collections'[c] = heard(s, got)
    BY <1>6
  <2>2. /\ Base(collections'[c], s) /\ Silent(collections'[c], s)
        /\ SamePods(collections'[c], s) /\ collections'[c].pc = "merge"
    BY <1>3, <2>1 DEF Goes, Base, Silent, Found, SamePods, IsCollection, Fields
  <2>3. QED
    BY <1>1, <1>3, <2>2
<1>7. QED
  BY <1>2, <1>4, <1>5, <1>6

LEMMA GetNodeMoves ==
    ASSUME NEW c \in DOMAIN collections, IsCollection(collections[c]), GetNode(c)
    PROVE  LET k == collections[c]
               q == collections'[c]
           IN  /\ k.pc = "node"
               /\ \/ \E l \in {"target", "decide"} :
                        Moves(q, k, l) /\ (l = "target" => Config.flux)
                  \/ /\ Config.all
                     /\ \E ref, s :
                           /\ MayAsk(s, k, ref)
                           /\ \/ \E l \in {"target", "decide"} :
                                    Moves(q, s, l) /\ (l = "target" => Config.flux)
                              \/ Loses(q, s)
<1> DEFINE k == collections[c]
           ref == <<"Node", Nobody, NodeName(k)>>
           found(s) == [s EXCEPT !.nodes = {NodeName(s)},
                                 !.queried = Append(s.queried,
                                                    <<"Node", Nobody, NodeName(s)>>)]
           label(s) == IF AlertNamespace(s) # Nobody /\ Config.flux THEN "target" ELSE "decide"
<1>1. k.pc = "node"
  BY DEF GetNode, At
<1>2. \A s : label(s) \in {"target", "decide"} /\ (label(s) = "target" => Config.flux)
  OBVIOUS
<1>3. \/ AfterNode(k) = collections'[c]
      \/ \E n : AfterNode(Notes(k, n)) = collections'[c]
      \/ /\ Config.all
         /\ \E s \in {k, Sent(k, ref)} :
               \/ AfterNode(found(s)) = collections'[c]
               \/ \E n : AfterNode(Notes(s, n)) = collections'[c]
               \/ \E e : AfterNode(Errs(s, e)) = collections'[c]
               \/ Lost(s) = collections'[c]
  BY DEF GetNode, Get, Request, Becomes
<1>4. ASSUME NEW s, IsCollection(s), NEW j, Moves(j, s, s.pc)
      PROVE  Moves(AfterNode(j), s, label(j))
  <2>1. AfterNode(j) = Goes(j, label(j)) /\ IsCollection(j)
    BY <1>4, Steps DEF AfterNode
  <2>2. QED
    BY <1>4, <2>1, GoesMoves, MovesOn
<1> HIDE DEF label
<1>5. ASSUME NEW s, IsCollection(s)
      PROVE  /\ Moves(AfterNode(s), s, label(s))
             /\ \A n : Moves(AfterNode(Notes(s, n)), s, label(Notes(s, n)))
             /\ \A e : Moves(AfterNode(Errs(s, e)), s, label(Errs(s, e)))
             /\ Moves(AfterNode(found(s)), s, label(found(s)))
  <2>1. Moves(s, s, s.pc) /\ Moves(found(s), s, s.pc)
    BY <1>5 DEF Moves, Core, Silent, Found, SamePods, IsCollection, Fields
  <2>2. \A n : Moves(Notes(s, n), s, s.pc) /\ Moves(Errs(s, n), s, s.pc)
    BY <1>5, NotedMoves
  <2>3. QED
    BY <1>4, <1>5, <2>1, <2>2
<1>6. \A s \in {k, Sent(k, ref)} : IsCollection(s) /\ MayAsk(s, k, ref)
  BY SentMayAsk
<1> HIDE DEF found
<1>7. CASE AfterNode(k) = collections'[c] \/ \E n : AfterNode(Notes(k, n)) = collections'[c]
  BY <1>1, <1>2, <1>5, <1>7
<1>8. ASSUME NEW s \in {k, Sent(k, ref)}, Config.all,
             \/ AfterNode(found(s)) = collections'[c]
             \/ \E n : AfterNode(Notes(s, n)) = collections'[c]
             \/ \E e : AfterNode(Errs(s, e)) = collections'[c]
             \/ Lost(s) = collections'[c]
      PROVE  \/ \E l \in {"target", "decide"} :
                   Moves(collections'[c], s, l) /\ (l = "target" => Config.flux)
             \/ Loses(collections'[c], s)
  <2>1. IsCollection(s)
    BY <1>6
  <2>2. QED
    BY <1>2, <1>5, <1>8, <2>1, LostLoses
<1>9. QED
  BY <1>1, <1>3, <1>6, <1>7, <1>8

-----------------------------------------------------------------------------
(* The delivery by Flux.                                                   *)

(* What was asked and heard is as it was.                                  *)
Keeps(q, k) ==
    /\ DOMAIN q = Fields /\ Silent(q, k)
    /\ q.alert = k.alert /\ q.got = k.got /\ q.fluxEvents = k.fluxEvents
    /\ q.raw = k.raw /\ q.pods = k.pods

(* The chain ends here: with its events, if there is any of it.            *)
Closes(q) ==
    \/ q.flux = <<>> /\ q.pc = "decide"
    \/ q.flux # <<>> /\ q.pc = "flux_events" /\ q.left \subseteq {1} \cup DOMAIN q.flux

Concludes(q, k) == Keeps(q, k) /\ q.flux = k.flux /\ q.stale = k.stale /\ Closes(q)

(* A version is taken from the cache or the answer, if there is one.       *)
Takes(q, k, version) ==
    /\ Keeps(q, k) /\ q.flux = k.flux
    /\ q.stale = IF version = served THEN 0 ELSE now - since
    /\ \/ q.pc = "flux" /\ q.target = k.target
       \/ Closes(q)

(* The object asked for joins the chain.                                   *)
Extends(q, k) ==
    /\ Keeps(q, k) /\ q.stale = k.stale
    /\ \E item : item.ref = k.target /\ q.flux = Append(k.flux, item)

LEMMA ChainEndsConcludes ==
    \A k : IsCollection(k) => Concludes(ChainEnds(k), k)
<1> SUFFICES ASSUME NEW k, IsCollection(k) PROVE Concludes(ChainEnds(k), k)
  OBVIOUS
<1>1. Failing(k) \subseteq DOMAIN k.flux
  BY DEF Failing
<1>2. CASE k.flux = <<>>
  BY <1>2 DEF ChainEnds, Goes, Concludes, Closes, Keeps, Silent, Found, IsCollection, Fields
<1>3. CASE k.flux # <<>>
  <2> DEFINE left == {1} \cup Failing(k)
  <2>1. ChainEnds(k) = [k EXCEPT !.pc = "flux_events", !.left = left]
    BY <1>3 DEF ChainEnds
  <2>2. left \subseteq {1} \cup DOMAIN k.flux
    BY <1>1
  <2> HIDE DEF left
  <2>3. QED
    BY <1>3, <2>1, <2>2 DEF Concludes, Closes, Keeps, Silent, Found, IsCollection, Fields
<1>4. QED
  BY <1>2, <1>3

LEMMA NotedConcludes ==
    \A k, n : IsCollection(k) =>
        Concludes(ChainEnds(Notes(k, n)), k) /\ Concludes(ChainEnds(Errs(k, n)), k)
<1> SUFFICES ASSUME NEW k, NEW n, IsCollection(k)
             PROVE  /\ Concludes(ChainEnds(Notes(k, n)), k)
                    /\ Concludes(ChainEnds(Errs(k, n)), k)
  OBVIOUS
<1>1. ASSUME NEW j, Moves(j, k, k.pc) PROVE Concludes(ChainEnds(j), k)
  <2>1. IsCollection(j)
    BY <1>1, Steps
  <2>2. Concludes(ChainEnds(j), j)
    BY <2>1, ChainEndsConcludes
  <2>3. QED
    BY <1>1, <2>2 DEF Concludes, Keeps, Moves, Core, Silent, Found, SamePods
<1>2. QED
  BY <1>1, NotedMoves

LEMMA TakenTakes ==
    \A k, version : IsCollection(k) => Takes(Taken(k, version), k, version)
<1> SUFFICES ASSUME NEW k, NEW version, IsCollection(k)
             PROVE  Takes(Taken(k, version), k, version)
  OBVIOUS
<1> DEFINE u == Uses(k, version)
           age == IF version = served THEN 0 ELSE now - since
<1>1. Taken(k, version) = [u EXCEPT !.stale = age]
  BY DEF Taken
<1>2. /\ Keeps(u, k) /\ u.flux = k.flux
      /\ \/ u.pc = "flux" /\ u.target = k.target
         \/ Closes(u)
  <2>1. CASE version = Nobody
    <3>1. u = ChainEnds(Notes(k, "not_served"))
      BY <2>1 DEF Uses
    <3>2. Concludes(u, k)
      BY <3>1, NotedConcludes
    <3>3. QED
      BY <3>2 DEF Concludes
  <2>2. CASE version # Nobody
    BY <2>2 DEF Uses, Keeps, Silent, Found, IsCollection, Fields
  <2>3. QED
    BY <2>1, <2>2
<1> HIDE DEF u, age
<1>3. /\ DOMAIN [u EXCEPT !.stale = age] = Fields
      /\ [u EXCEPT !.stale = age].stale = age
      /\ \A f \in Fields \ {"stale"} : [u EXCEPT !.stale = age][f] = u[f]
  BY <1>2 DEF Keeps, Fields
<1>4. QED
  BY <1>1, <1>2, <1>3 DEF Takes, Keeps, Closes, Silent, Found, Fields, age

LEMMA ResolveTargetMoves ==
    ASSUME NEW c \in DOMAIN collections, IsCollection(collections[c]), ResolveTarget(c)
    PROVE  LET k == collections[c]
               q == collections'[c]
           IN  /\ k.pc = "target"
               /\ \/ Moves(q, k, "decide")
                  \/ /\ Keeps(q, k) /\ q.flux = k.flux /\ q.stale = k.stale
                     /\ q.pc = "version" /\ KindOf(q.target) \in FluxKinds
                     /\ q.target # NoObject
                     /\ q.target = IF IsAboutFlux(k.alert) THEN GitopsRef(k.alert)
                                   ELSE DeliveredBy(k.labels)
<1> DEFINE k == collections[c]
           found == IF IsAboutFlux(k.alert) THEN GitopsRef(k.alert)
                    ELSE DeliveredBy(k.labels)
           aims(target, version) ==
               [k EXCEPT !.pc = "version", !.target = target, !.version = version]
<1>1. /\ k.pc = "target"
      /\ \/ Ways(collections'[c], k, "decide")
         \/ /\ KindOf(found) \in FluxKinds /\ found # NoObject
            /\ \E version : collections'[c] = aims(found, version)
  BY DEF ResolveTarget, At, Becomes, Ways, LabelsFound
<1> HIDE DEF found
<1>2. CASE Ways(collections'[c], k, "decide")
  BY <1>1, <1>2, WaysMove
<1>3. ASSUME NEW version, KindOf(found) \in FluxKinds, found # NoObject,
             collections'[c] = aims(found, version)
      PROVE  LET q == collections'[c]
             IN  /\ Keeps(q, k) /\ q.flux = k.flux /\ q.stale = k.stale
                 /\ q.pc = "version" /\ KindOf(q.target) \in FluxKinds
                 /\ q.target # NoObject /\ q.target = found
  BY <1>3 DEF Keeps, Silent, Found, IsCollection, Fields
<1>4. QED
  BY <1>1, <1>2, <1>3 DEF found

LEMMA ResolveVersionMoves ==
    ASSUME NEW c \in DOMAIN collections, IsCollection(collections[c]), ResolveVersion(c)
    PROVE  LET k == collections[c]
               q == collections'[c]
           IN  /\ k.pc = "version"
               /\ \/ Concludes(q, k)
                  \/ /\ FluxInScope(NamespaceOf(k.target))
                     /\ \/ Moves(q, k, "flux") \/ Moves(q, k, "discover")
                        \/ IsFresh /\ Takes(q, k, cached.version)
<1> DEFINE k == collections[c]
<1>1. /\ k.pc = "version"
      /\ \/ collections'[c] = ChainEnds(Notes(k, "flux_out_of_scope"))
         \/ /\ FluxInScope(NamespaceOf(k.target))
            /\ \/ collections'[c] = Goes(k, "flux")
               \/ collections'[c] = Goes(k, "discover")
               \/ IsFresh /\ collections'[c] = Taken(k, cached.version)
  BY DEF ResolveVersion, At, Becomes
<1>2. QED
  BY <1>1, NotedConcludes, GoesMoves, TakenTakes

LEMMA DiscoverMoves ==
    ASSUME NEW c \in DOMAIN collections, IsCollection(collections[c]), Discover(c)
    PROVE  LET k == collections[c]
               q == collections'[c]
               ref == <<"APIGroup", Nobody, "*">>
           IN  /\ k.pc = "discover"
               /\ \E s : /\ MayAsk(s, k, ref)
                         /\ \/ Concludes(q, s) \/ Loses(q, s)
                            \/ /\ Keeps(q, s) /\ q.flux = s.flux /\ q.stale = s.stale
                               /\ q.target = s.target /\ q.pc = "store"
                               /\ q.version = served /\ q.asked = now
<1> DEFINE k == collections[c]
           ref == <<"APIGroup", Nobody, "*">>
           answered(s) == [s EXCEPT !.pc = "store", !.version = served, !.asked = now]
<1>1. k.pc = "discover"
  BY DEF Discover, At
<1>2. PICK s \in {k, Sent(k, ref)} :
         \/ collections'[c] = ChainEnds(Errs(s, "flux"))
         \/ collections'[c] = Lost(s)
         \/ collections'[c] = answered(s)
  BY DEF Discover, Request, Becomes
<1>3. IsCollection(s) /\ MayAsk(s, k, ref)
  BY SentMayAsk
<1>4. CASE collections'[c] = ChainEnds(Errs(s, "flux"))
  BY <1>1, <1>3, <1>4, NotedConcludes
<1>5. CASE collections'[c] = Lost(s)
  BY <1>1, <1>3, <1>5, LostLoses
<1>6. CASE collections'[c] = answered(s)
  <2>1. LET q == answered(s)
        IN  /\ Keeps(q, s) /\ q.flux = s.flux /\ q.stale = s.stale
            /\ q.target = s.target /\ q.pc = "store"
            /\ q.version = served /\ q.asked = now
    BY <1>3 DEF Keeps, Silent, Found, IsCollection, Fields
  <2>2. QED
    BY <1>1, <1>3, <1>6, <2>1
<1>7. QED
  BY <1>2, <1>4, <1>5, <1>6

LEMMA StoreVersionMoves ==
    ASSUME NEW c \in DOMAIN collections, IsCollection(collections[c]), StoreVersion(c)
    PROVE  LET k == collections[c]
           IN  /\ k.pc = "store" /\ Takes(collections'[c], k, k.version)
               /\ cached' = [version |-> k.version, at |-> now]
BY TakenTakes DEF StoreVersion, At, Becomes

Adds(k, item, queried, next) ==
    [k EXCEPT !.flux = Append(k.flux, item), !.queried = queried,
              !.target = next, !.version = Nobody]

LEMMA AddsExtends ==
    \A k, item, x, next : IsCollection(k) /\ item.ref = k.target =>
        /\ Extends(Adds(k, item, x, next), k) /\ IsCollection(Adds(k, item, x, next))
        /\ Adds(k, item, x, next).target = next
        /\ Adds(k, item, x, next).flux = Append(k.flux, item)
BY DEF Adds, Extends, Keeps, Silent, Found, IsCollection, Fields

(* What the answer for an object of the chain leads to.                    *)
LEMMA WithObjectExtends ==
    ASSUME NEW k, NEW object, IsCollection(k), IsSeq(k.flux)
    PROVE  LET q == WithObject(k, object)
           IN  /\ Extends(q, k)
               /\ \/ Closes(q)
                  \/ /\ q.pc = "version" /\ KindOf(q.target) \in FluxKinds
                     /\ Len(k.flux) # MaxHops
<1> DEFINE item == ParseFlux(k.target, object)
           found == Adds(k, item, Append(k.queried, k.target), object.source)
           q == WithObject(k, object)
<1>1. item.ref = k.target
  BY DEF ParseFlux
<1>2. \/ q = ChainEnds(found)
      \/ q = ChainEnds(Notes(found, "source_not_read"))
      \/ /\ q = Goes(found, "version")
         /\ KindOf(object.source) \in FluxKinds /\ Len(k.flux) # MaxHops
  BY DEF WithObject, Adds, Hops
<1> HIDE DEF item
<1>3. /\ Extends(found, k) /\ IsCollection(found)
      /\ found.target = object.source /\ found.flux = Append(k.flux, item)
  BY <1>1, AddsExtends
<1> HIDE DEF found, q
<1>4. ASSUME Concludes(q, found)
      PROVE  Extends(q, k) /\ Closes(q)
  BY <1>3, <1>4 DEF Concludes, Extends, Keeps, Silent, Found
<1>5. CASE q = Goes(found, "version") /\ KindOf(object.source) \in FluxKinds
           /\ Len(k.flux) # MaxHops
  <2>1. Moves(q, found, "version")
    BY <1>3, <1>5, GoesMoves
  <2>2. QED
    BY <1>3, <1>5, <2>1 DEF Moves, Core, Silent, Found, SamePods, Extends, Keeps, q
<1>6. QED
  BY <1>2, <1>3, <1>4, <1>5, ChainEndsConcludes, NotedConcludes DEF q

LEMMA GetFluxMoves ==
    ASSUME NEW c \in DOMAIN collections, IsCollection(collections[c]),
           IsSeq(collections[c].flux), GetFlux(c)
    PROVE  LET k == collections[c]
               q == collections'[c]
           IN  /\ k.pc = "flux"
               /\ \E s : /\ MayAsk(s, k, k.target)
                         /\ \/ Concludes(q, s) \/ Loses(q, s)
                            \/ /\ Extends(q, s)
                               /\ \/ Closes(q)
                                  \/ /\ q.pc = "version" /\ KindOf(q.target) \in FluxKinds
                                     /\ Len(k.flux) # MaxHops
<1> DEFINE k == collections[c]
           object == cluster.objects[k.target]
<1>1. k.pc = "flux"
  BY DEF GetFlux, At
<1>2. PICK s \in {k, Sent(k, k.target)} :
         \/ \E n : collections'[c] = ChainEnds(Notes(s, n))
         \/ \E e : collections'[c] = ChainEnds(Errs(s, e))
         \/ collections'[c] = Lost(s)
         \/ collections'[c] = WithObject(s, object)
  BY DEF GetFlux, Get, Request, Becomes
<1>3. IsCollection(s) /\ MayAsk(s, k, k.target)
  BY SentMayAsk
<1>4. CASE \/ \E n : collections'[c] = ChainEnds(Notes(s, n))
           \/ \E e : collections'[c] = ChainEnds(Errs(s, e))
           \/ collections'[c] = Lost(s)
  BY <1>1, <1>3, <1>4, NotedConcludes, LostLoses
<1>5. CASE collections'[c] = WithObject(s, object)
  <2>1. s.flux = k.flux
    BY <1>3 DEF MayAsk, Asks, Core
  <2>2. LET q == collections'[c]
        IN  /\ Extends(q, s)
            /\ \/ Closes(q)
               \/ /\ q.pc = "version" /\ KindOf(q.target) \in FluxKinds
                  /\ Len(k.flux) # MaxHops
    BY <1>3, <1>5, <2>1, WithObjectExtends
  <2>3. QED
    BY <1>1, <1>3, <2>2
<1>6. QED
  BY <1>2, <1>4, <1>5

LEMMA GetFluxEventsMoves ==
    ASSUME NEW c \in DOMAIN collections, IsCollection(collections[c]), GetFluxEvents(c)
    PROVE  LET k == collections[c]
               q == collections'[c]
           IN  /\ k.pc = "flux_events"
               /\ \E i \in k.left : \E s :
                     /\ \A j \in k.left : i <= j
                     /\ MayAsk(s, k, EventsOf(k.flux[i].ref))
                     /\ \/ Loses(q, s)
                        \/ /\ Hears(q, s, i)
                           /\ \A e \in q.got : e \in k.got \/ SameObject(k.flux[i].ref, e.on)
<1> DEFINE k == collections[c]
           ref(i) == k.flux[i].ref
           may(heard, i) ==
               \A e \in heard : e \in k.got \/ SameObject(ref(i), e.on)
<1>1. PICK i \in k.left :
         /\ IsNextSource(k, i)
         /\ ListEvents(c, ref(i), LAMBDA e : IsOf(e, ref(i)), LAMBDA q : SourceDone(q, i),
                       LAMBDA q : SourceDone(Errs(q, "events"), i))
  BY DEF GetFluxEvents
<1> DEFINE lists == EventLists(cluster.events, NamespaceOf(ref(i)), NameOf(ref(i)))
           of(list) == {e \in list : IsOf(e, ref(i))}
<1>2. PICK s \in {k, Sent(k, EventsOf(ref(i)))} :
         \/ collections'[c] = SourceDone(Errs(s, "events"), i)
         \/ collections'[c] = Lost(s)
         \/ \E list \in lists : collections'[c] = HeardOf(s, s.got \cup of(list), i)
  BY <1>1 DEF ListEvents, Request, Becomes, HeardOf
<1>3. /\ IsCollection(s) /\ MayAsk(s, k, EventsOf(ref(i))) /\ s.got = k.got
  <2>1. IsCollection(s) /\ MayAsk(s, k, EventsOf(ref(i)))
    BY SentMayAsk
  <2>2. QED
    BY <2>1 DEF MayAsk, Asks, Core
<1>4. ASSUME NEW list \in lists PROVE may(s.got \cup of(list), i)
  BY <1>3 DEF EventLists, IsOf, SameObject
<1>5. ASSUME NEW list \in lists, collections'[c] = HeardOf(s, s.got \cup of(list), i)
      PROVE  Hears(collections'[c], s, i) /\ may(collections'[c].got, i)
  <2>1. Hears(collections'[c], s, i) /\ collections'[c].got = s.got \cup of(list)
    BY <1>3, <1>5, HearingHears
  <2>2. QED
    BY <2>1, <1>4
<1>6. CASE collections'[c] = SourceDone(Errs(s, "events"), i)
  <2>1. Hears(collections'[c], s, i) /\ collections'[c].got = s.got
    BY <1>3, <1>6, FailingHears
  <2>2. may(collections'[c].got, i)
    BY <1>3, <2>1
  <2>3. QED
    BY <1>1, <1>3, <2>1, <2>2 DEF GetFluxEvents, At, IsNextSource
<1>7. CASE collections'[c] = Lost(s)
  BY <1>1, <1>3, <1>7, LostLoses DEF GetFluxEvents, At, IsNextSource
<1>8. CASE \E list \in lists : collections'[c] = HeardOf(s, s.got \cup of(list), i)
  BY <1>1, <1>3, <1>5, <1>8 DEF GetFluxEvents, At, IsNextSource
<1>9. QED
  BY <1>2, <1>6, <1>7, <1>8

LEMMA KeepFluxEventsMoves ==
    ASSUME NEW c \in DOMAIN collections, IsCollection(collections[c]), KeepFluxEvents(c)
    PROVE  LET k == collections[c]
               q == collections'[c]
           IN  /\ k.pc = "flux_events" /\ q.pc = "decide"
               /\ DOMAIN q = Fields /\ Silent(q, k) /\ q.alert = k.alert
               /\ SamePods(q, k) /\ q.flux = k.flux /\ q.stale = k.stale
               /\ q.fluxEvents \subseteq k.got
<1> DEFINE k == collections[c]
           g == Goes(k, "decide")
           noted(x) == IF x = g.got THEN g.notes ELSE g.notes \cup {"flux_events_omitted"}
<1>1. Moves(g, k, "decide") /\ IsCollection(g)
  BY GoesMoves, Steps
<1>2. \E x \in Newest(g.got, MaxEvents) :
         collections'[c] = [g EXCEPT !.fluxEvents = x, !.got = {}, !.notes = noted(x)]
  BY DEF KeepFluxEvents, Becomes
<1> HIDE DEF g
<1>3. PICK x \in SUBSET g.got :
         collections'[c] = [g EXCEPT !.fluxEvents = x, !.got = {}, !.notes = noted(x)]
  BY <1>2 DEF Newest
<1> HIDE DEF noted
<1>4. LET q == collections'[c]
      IN  /\ q.pc = g.pc /\ DOMAIN q = Fields /\ Silent(q, g) /\ q.alert = g.alert
          /\ SamePods(q, g) /\ q.flux = g.flux /\ q.stale = g.stale /\ q.fluxEvents = x
  BY <1>1, <1>3 DEF Silent, Found, SamePods, IsCollection, Fields
<1>5. k.pc = "flux_events"
  BY DEF KeepFluxEvents, At
<1>6. QED
  BY <1>1, <1>3, <1>4, <1>5 DEF Moves, Core, Silent, Found, SamePods

LEMMA DecideMoves ==
    ASSUME NEW c \in DOMAIN collections, IsCollection(collections[c]), Decide(c)
    PROVE  collections[c].pc = "decide" /\ Moves(collections'[c], collections[c], "done")
<1>1. \E o : collections'[c] = Ends(collections[c], o)
  BY DEF Decide, Becomes, Ends
<1>2. QED
  BY <1>1, EndsMoves DEF Decide, At

-----------------------------------------------------------------------------
(* The invariants of one collection.                                       *)

InNamespace == {"pods", "list", "parse", "owners", "sources", "events", "claim",
                "claim_events", "merge"}
OnChain == {"version", "discover", "store", "flux"}
OfDelivery == OnChain \cup {"target", "flux_events"}
AtEnd == {"decide", "done"}
Places == InFront \cup InNamespace \cup OfDelivery \cup AtEnd \cup {"node"}

Granted(read) ==
    \/ Config.all \/ read[1] = "APIGroup"
    \/ read[2] \in Config.namespaces
    \/ /\ Config.flux /\ read[2] \in Config.fluxNamespaces
       /\ read[1] \in FluxKinds \cup {"Event"}

(* What was read is granted, and so is what the place leads to.            *)
Allowed(k) ==
    /\ \A read \in k.reads : Granted(read)
    /\ k.pc \in InNamespace => InScope(AlertNamespace(k))
    /\ k.pc \in OfDelivery => Config.flux
    /\ k.pc \in OnChain => KindOf(k.target) \in FluxKinds
    /\ k.pc \in {"discover", "store", "flux"} => FluxInScope(NamespaceOf(k.target))
    /\ \A i \in DOMAIN k.flux : FluxInScope(NamespaceOf(k.flux[i].ref))

OfChain(e, flux) == \E i \in DOMAIN flux : SameObject(flux[i].ref, e.on)

(* The chain is read before its events, and what is heard is of one kind   *)
(* at a time.                                                              *)
Ordered(k) ==
    /\ IsSeq(k.flux)
    /\ k.pc \notin OfDelivery \cup AtEnd => k.flux = <<>>
    /\ k.pc = "target" => k.flux = <<>>
    /\ k.pc \notin {"events", "merge", "flux_events"} \cup AtEnd => k.got = {}
    /\ k.pc \notin AtEnd => k.fluxEvents = {}
    /\ k.pc = "flux_events" =>
          /\ k.left \subseteq DOMAIN k.flux
          /\ \A e \in k.got : OfChain(e, k.flux)
    /\ \A e \in k.fluxEvents : OfChain(e, k.flux)

(* The requests that it takes to get to the events, to the delivery, to    *)
(* the events of that and to the end.                                      *)
OwnerCost(n) == MaxDepth * n
PodCost == 2 + OwnerCost(MaxPods)
SourceCost == PodCost + MaxSources
ClaimCost == SourceCost + 3
ChainCost == ClaimCost + 2 * (MaxHops + 1)
AllCost == ChainCost + MaxHops + 1

PaidForPods(k) ==
    /\ k.pc \in InFront \cup {"pods", "list"} => k.pods = <<>> /\ k.raw = <<>>
    /\ k.pc \in InFront \cup {"pods"} => k.calls = 0
    /\ k.pc = "list" => k.calls <= 1
    /\ k.pc \in {"parse", "owners"} =>
          IsSeq(k.pods) /\ IsSeq(k.raw) /\ Len(k.pods) + Len(k.raw) <= MaxPods
    /\ k.pc = "parse" => k.raw # <<>> /\ k.calls <= 2 + OwnerCost(Len(k.pods))
    /\ k.pc = "owners" =>
          /\ HasPod(k) /\ Len(Chain(k)) <= MaxDepth
          /\ k.calls <= 2 + OwnerCost(Len(k.pods) - 1) + Len(Chain(k))

PaidForSources(k) ==
    /\ k.pc = "sources" => k.calls <= PodCost
    /\ k.pc = "events" =>
          /\ k.left \subseteq 1..MaxSources /\ k.calls <= SourceCost
          /\ \A i \in k.left : k.calls <= PodCost + i - 1
    /\ k.pc = "claim" => k.calls <= SourceCost
    /\ k.pc = "claim_events" => k.calls <= SourceCost + 1
    /\ k.pc \in {"merge", "node"} => k.calls <= SourceCost + 2

PaidForDelivery(k) ==
    /\ k.pc = "target" => k.calls <= ClaimCost
    /\ k.pc \in OnChain => Len(k.flux) <= MaxHops
    /\ k.pc \in {"version", "discover"} => k.calls <= ClaimCost + 2 * Len(k.flux)
    /\ k.pc \in {"store", "flux"} => k.calls <= ClaimCost + 2 * Len(k.flux) + 1
    /\ k.pc = "flux_events" =>
          /\ Len(k.flux) <= MaxHops + 1
          /\ \A i \in k.left : k.calls <= ChainCost + i - 1

Paid(k) ==
    /\ k.pc \in Places /\ k.calls \in Nat /\ k.calls <= AllCost
    /\ PaidForPods(k) /\ PaidForSources(k) /\ PaidForDelivery(k)

(* A version in use had not been served for at most the cache's lifetime,  *)
(* and a discovered one is stored within one unit of time.                 *)
Timely(k) ==
    /\ k.stale <= Ttl
    /\ k.pc = "store" => /\ k.asked \in Nat /\ k.asked \in {now - 1, now}
                         /\ k.version # served => since >= k.asked

Clocks ==
    /\ now \in Nat /\ since \in 0..now
    /\ cached.at \in -1..now
    /\ cached.at >= 0 /\ cached.version # served => since >= cached.at - 1

Sound(k) == IsCollection(k) /\ Allowed(k) /\ Ordered(k) /\ Paid(k)

EvidenceInv ==
    /\ world \in DOMAIN AllOf /\ FiniteCluster /\ Clocks
    /\ \A c \in DOMAIN collections : Sound(collections[c]) /\ Timely(collections[c])

-----------------------------------------------------------------------------
(* What the steps of a collection do to these.                             *)

LEMMA Sums ==
    /\ \A a, b, n \in Nat : a + b <= n => a \in 0..n /\ b \in 0..n
    /\ \A a, n \in Nat : 1 <= a /\ a <= n => a \in 1..n /\ a - 1 \in 0..n
    /\ \A a, b, n \in Nat : b # 0 /\ a + b <= n => (a + 1) + (b - 1) <= n
OBVIOUS

LEMMA Bounds ==
    /\ MaxPods \in Nat /\ MaxPods >= 1 /\ MaxDepth \in Nat
    /\ MaxSources \in Nat /\ MaxHops \in Nat
BY EvidenceBounds

LEMMA OwnerCosts ==
    \A n \in 0..MaxPods :
        /\ OwnerCost(n) \in Nat /\ OwnerCost(n) <= OwnerCost(MaxPods)
        /\ OwnerCost(n + 1) = OwnerCost(n) + MaxDepth
<1>1. MaxPods \in Nat /\ MaxDepth \in Nat
  BY Bounds
<1>2. \A a, b, n \in Nat : a * n \in Nat /\ a * (n + b) = a * n + a * b
  OBVIOUS
<1> SUFFICES ASSUME NEW n \in 0..MaxPods
             PROVE  /\ MaxDepth * n \in Nat /\ MaxDepth * n <= MaxDepth * MaxPods
                    /\ MaxDepth * (n + 1) = MaxDepth * n + MaxDepth
  BY DEF OwnerCost
<1>3. PICK b \in Nat : MaxPods = n + b
  BY <1>1
<1>4. MaxDepth * MaxPods = MaxDepth * n + MaxDepth * b
  BY <1>1, <1>2, <1>3
<1>5. MaxDepth * n \in Nat /\ MaxDepth * b \in Nat
  BY <1>1, <1>2
<1>6. MaxDepth * (n + 1) = MaxDepth * n + MaxDepth * 1
  BY <1>1, <1>2
<1>7. QED
  BY <1>1, <1>4, <1>5, <1>6

LEMMA CostsAre ==
    /\ PodCost \in Nat /\ MaxSources \in Nat /\ MaxHops \in Nat
    /\ SourceCost = PodCost + MaxSources /\ ClaimCost = SourceCost + 3
    /\ ChainCost = ClaimCost + 2 * (MaxHops + 1) /\ AllCost = ChainCost + MaxHops + 1
<1>1. MaxPods \in 0..MaxPods /\ MaxSources \in Nat /\ MaxHops \in Nat
  BY Bounds
<1>2. OwnerCost(MaxPods) \in Nat
  BY <1>1, OwnerCosts
<1>3. QED
  BY <1>1, <1>2 DEF PodCost, SourceCost, ClaimCost, ChainCost, AllCost

LEMMA Costs ==
    /\ PodCost \in Nat /\ SourceCost \in Nat /\ ClaimCost \in Nat
    /\ ChainCost \in Nat /\ AllCost \in Nat
    /\ 2 <= PodCost /\ PodCost <= SourceCost /\ SourceCost <= ClaimCost
    /\ ClaimCost <= ChainCost /\ ChainCost <= AllCost
<1>1. MaxPods \in 0..MaxPods
  BY Bounds
<1>2. 2 <= PodCost
  BY <1>1, OwnerCosts DEF PodCost
<1>3. QED
  BY <1>2, CostsAre

LEMMA PodsPaid ==
    \A n \in 0..MaxPods : 2 + OwnerCost(n) <= PodCost
<1>1. MaxPods \in 0..MaxPods
  BY Bounds
<1>2. QED
  BY <1>1, OwnerCosts DEF PodCost

LEMMA ScopeGrants ==
    \A namespace : InScope(namespace) => \A kind : Granted(<<kind, namespace>>)
BY DEF InScope, Granted

LEMMA AskedStays ==
    ASSUME NEW k, NEW ref, NEW s, Sound(k), MayAsk(s, k, ref),
           Granted(<<KindOf(ref), NamespaceOf(ref)>>)
    PROVE  /\ IsCollection(s) /\ Allowed(s) /\ Ordered(s)
           /\ s.calls \in Nat /\ s.calls <= k.calls + 1
           /\ Core(s, k) /\ SamePods(s, k) /\ s.pc = k.pc
<1>1. k.calls \in Nat
  BY DEF Sound, Paid
<1>2. CASE s = k
  BY <1>1, <1>2 DEF Sound, Core, SamePods, IsCollection
<1>3. CASE Asks(s, k, ref)
  <2>1. Allowed(s)
    BY <1>3 DEF Sound, Allowed, Asks, Core, AlertNamespace
  <2>2. Ordered(s)
    BY <1>3 DEF Sound, Ordered, Asks, Core
  <2>3. QED
    BY <1>1, <1>3, <2>1, <2>2 DEF Asks, Core, IsCollection
<1>4. QED
  BY <1>2, <1>3 DEF MayAsk

LEMMA MovesAllowed ==
    ASSUME NEW s, NEW q, NEW l, Allowed(s), Moves(q, s, l) \/ Shifts(q, s, l),
           l \in InNamespace => InScope(AlertNamespace(s)),
           l \in OfDelivery => Config.flux,
           l \in OnChain =>
              KindOf(s.target) \in FluxKinds /\ FluxInScope(NamespaceOf(s.target))
    PROVE  Allowed(q)
BY DEF Allowed, Moves, Shifts, Core, Silent, Quiet, AlertNamespace, OnChain

LEMMA MovesOrdered ==
    ASSUME NEW s, NEW q, NEW l, Ordered(s), Moves(q, s, l) \/ Shifts(q, s, l),
           s.pc \notin AtEnd \cup {"events", "merge", "flux_events"} \/ l \in AtEnd,
           l # "flux_events",
           s.flux = <<>> \/ l \in OnChain \cup AtEnd
    PROVE  Ordered(q)
BY DEF Ordered, Moves, Shifts, Core, AtEnd, OfDelivery, OnChain

LEMMA LosesSound ==
    ASSUME NEW s, NEW q, Allowed(s), Loses(q, s), s.calls \in Nat, s.calls <= AllCost
    PROVE  Sound(q)
<1>1. q.pc = "decide" /\ q.flux = <<>> /\ q.fluxEvents = {} /\ IsCollection(q)
  BY DEF Loses, IsCollection
<1>2. DOMAIN q.flux = {} /\ IsSeq(q.flux)
  BY <1>1 DEF IsSeq
<1>3. Allowed(q)
  BY <1>1, <1>2 DEF Allowed, Loses, Silent, Found, InNamespace, OfDelivery, OnChain
<1>4. Ordered(q)
  BY <1>1, <1>2 DEF Ordered, OfDelivery, OnChain, AtEnd
<1>5. Paid(q)
  BY <1>1 DEF Paid, PaidForPods, PaidForSources, PaidForDelivery, Loses, Silent, Found, Places,
              InFront, AtEnd, OnChain
<1>6. QED
  BY <1>1, <1>3, <1>4, <1>5 DEF Sound

(* At the end there is nothing left to pay for.                            *)
LEMMA EndPaid ==
    \A q : q.pc \in AtEnd /\ q.calls \in Nat /\ q.calls <= AllCost => Paid(q)
BY DEF Paid, PaidForPods, PaidForSources, PaidForDelivery, Places, InFront, AtEnd, OnChain

LEMMA FrontSound ==
    ASSUME NEW c \in DOMAIN collections, Sound(collections[c]),
           Filter(c) \/ Triage(c) \/ QueryLogs(c) \/ QueryMetrics(c)
    PROVE  Sound(collections'[c])
<1> DEFINE k == collections[c]
           q == collections'[c]
<1>1. k.pc \in InFront
  BY FrontMoves DEF Sound
<1>2. PICK l \in InFront \cup {"decide", "done"} : Moves(q, k, l)
  BY FrontMoves DEF Sound
<1>3. l \notin InNamespace \cup OfDelivery /\ k.flux = <<>>
  BY <1>1 DEF Sound, Ordered, InFront, InNamespace, OfDelivery, OnChain, AtEnd
<1>4. Allowed(q)
  BY <1>2, <1>3, MovesAllowed DEF Sound, OfDelivery
<1>5. Ordered(q)
  BY <1>1, <1>2, <1>3, MovesOrdered DEF Sound, InFront, AtEnd, OfDelivery
<1>6. Paid(q)
  <2>1. k.calls = 0 /\ k.pods = <<>> /\ k.raw = <<>>
    BY <1>1 DEF Sound, Paid, PaidForPods
  <2>2. q.pc = l /\ q.calls = 0 /\ q.pods = <<>> /\ q.raw = <<>>
    BY <1>2, <2>1 DEF Moves, Silent, Found, SamePods
  <2>3. PaidForPods(q)
    BY <1>2, <2>2 DEF PaidForPods, InFront
  <2>4. PaidForSources(q)
    BY <1>2, <2>2, Costs DEF PaidForSources, InFront
  <2>5. PaidForDelivery(q)
    BY <1>2, <2>2, Costs DEF PaidForDelivery, InFront, OnChain
  <2>6. QED
    BY <1>2, <2>2, <2>3, <2>4, <2>5, Costs
    DEF Paid, Places, InNamespace, OfDelivery, AtEnd
<1>7. QED
  BY <1>2, <1>4, <1>5, <1>6, Steps DEF Sound

LEMMA CheckScopeSound ==
    ASSUME NEW c \in DOMAIN collections, Sound(collections[c]), CheckScope(c)
    PROVE  Sound(collections'[c])
<1> DEFINE k == collections[c]
           q == collections'[c]
<1>1. k.pc = "scope"
  BY CheckScopeMoves DEF Sound
<1>2. PICK l \in {"pods", "node", "target", "decide"} :
         /\ Moves(q, k, l)
         /\ l = "pods" => InScope(AlertNamespace(k))
         /\ l = "target" => Config.flux
  BY CheckScopeMoves DEF Sound
<1>3. k.flux = <<>>
  BY <1>1 DEF Sound, Ordered, OfDelivery, OnChain, AtEnd
<1>4. Allowed(q)
  BY <1>2, MovesAllowed DEF Sound, InNamespace, OfDelivery, OnChain
<1>5. Ordered(q)
  BY <1>1, <1>2, <1>3, MovesOrdered DEF Sound, AtEnd
<1>6. Paid(q)
  <2>1. k.calls = 0 /\ k.pods = <<>> /\ k.raw = <<>>
    BY <1>1 DEF Sound, Paid, PaidForPods, InFront
  <2>2. q.pc = l /\ q.calls = 0 /\ q.pods = <<>> /\ q.raw = <<>>
    BY <1>2, <2>1 DEF Moves, Silent, Found, SamePods
  <2>3. PaidForPods(q)
    BY <1>2, <2>2 DEF PaidForPods, InFront
  <2>4. PaidForSources(q)
    BY <1>2, <2>2, Costs DEF PaidForSources, InFront
  <2>5. PaidForDelivery(q)
    <3>1. q.calls <= ClaimCost /\ q.pc \notin OnChain \cup {"flux_events"}
      BY <1>2, <2>2, Costs DEF OnChain
    <3>2. QED
      BY <3>1 DEF PaidForDelivery, OnChain
  <2>6. QED
    BY <1>2, <2>2, <2>3, <2>4, <2>5, Costs
    DEF Paid, Places, InNamespace, OfDelivery, AtEnd
<1>7. QED
  BY <1>2, <1>4, <1>5, <1>6, Steps DEF Sound

(* The first request: the pod the alert names.                             *)
LEMMA GetPodSound ==
    ASSUME NEW c \in DOMAIN collections, Sound(collections[c]), GetPod(c)
    PROVE  Sound(collections'[c])
<1> DEFINE k == collections[c]
           q == collections'[c]
<1>1. k.pc = "pods"
  BY GetPodMoves DEF Sound
<1>2. PICK s : /\ MayAsk(s, k, PodRef(k))
               /\ \/ Moves(q, s, "sources")
                  \/ Loses(q, s)
                  \/ /\ Core(q, s) /\ Silent(q, s) /\ q.pods = s.pods
                     /\ q.pc = "parse" /\ \E x : q.raw = <<x>>
  BY GetPodMoves DEF Sound
<1>3. InScope(AlertNamespace(k)) /\ k.flux = <<>> /\ k.calls = 0 /\ k.pods = <<>>
  BY <1>1 DEF Sound, Allowed, Ordered, Paid, PaidForPods, InNamespace, OfDelivery,
              OnChain, AtEnd
<1>4. Granted(<<KindOf(PodRef(k)), NamespaceOf(PodRef(k))>>)
  BY <1>3, ScopeGrants DEF PodRef, NamespaceOf
<1>5. /\ IsCollection(s) /\ Allowed(s) /\ Ordered(s) /\ s.calls \in 0..1
      /\ Core(s, k) /\ SamePods(s, k) /\ s.pc = k.pc
  BY <1>2, <1>3, <1>4, AskedStays
<1>6. CASE Loses(q, s)
  BY <1>5, <1>6, LosesSound, Costs
<1>7. InScope(AlertNamespace(s)) /\ s.flux = <<>>
  BY <1>3, <1>5 DEF Core, AlertNamespace
<1>8. CASE Moves(q, s, "sources")
  <2>1. Allowed(q)
    BY <1>5, <1>7, <1>8, MovesAllowed DEF OfDelivery, OnChain
  <2>2. Ordered(q)
    BY <1>1, <1>5, <1>7, <1>8, MovesOrdered DEF AtEnd
  <2>3. Paid(q)
    BY <1>5, <1>8, Costs
    DEF Moves, Silent, Found, Paid, PaidForPods, PaidForSources, PaidForDelivery,
        Places, InFront, InNamespace, AtEnd, OnChain
  <2>4. QED
    BY <1>8, <2>1, <2>2, <2>3, Steps DEF Sound
<1>9. CASE Core(q, s) /\ Silent(q, s) /\ q.pods = s.pods /\ q.pc = "parse"
           /\ \E x : q.raw = <<x>>
  <2>1. Allowed(q)
    BY <1>5, <1>7, <1>9 DEF Allowed, Core, Silent, Found, AlertNamespace, OfDelivery, OnChain
  <2>2. Ordered(q)
    BY <1>1, <1>5, <1>7, <1>9 DEF Ordered, Core, AtEnd, OfDelivery, OnChain
  <2>3. IsSeq(q.raw) /\ Len(q.raw) = 1 /\ q.raw # <<>>
    <3>1. PICK x : q.raw = <<x>>
      BY <1>9
    <3>2. <<x>> \in Seq({x}) /\ Len(<<x>>) = 1 /\ <<x>> # <<>>
      OBVIOUS
    <3>3. QED
      BY <3>1, <3>2 DEF IsSeq
  <2>4. IsSeq(q.pods) /\ Len(q.pods) = 0
    <3>1. q.pods = <<>> /\ <<>> \in Seq({})
      BY <1>3, <1>5, <1>9 DEF SamePods
    <3>2. QED
      BY <3>1 DEF IsSeq
  <2>5. Paid(q)
    <3>1. q.calls \in 0..1 /\ 0 \in 0..MaxPods
      BY <1>5, <1>9, Bounds DEF Silent, Found
    <3>2. OwnerCost(0) \in Nat
      BY <3>1, OwnerCosts
    <3>3. PaidForPods(q)
      BY <1>9, <2>3, <2>4, <3>1, <3>2, Bounds DEF PaidForPods, InFront
    <3>4. PaidForSources(q) /\ PaidForDelivery(q)
      BY <1>9 DEF PaidForSources, PaidForDelivery, OnChain
    <3>5. QED
      BY <1>9, <3>1, <3>3, <3>4, Costs DEF Paid, Places, InNamespace
  <2>6. QED
    BY <1>9, <2>1, <2>2, <2>5, Steps DEF Sound
<1>10. QED
  BY <1>2, <1>6, <1>8, <1>9

LEMMA GetWorkloadSound ==
    ASSUME NEW c \in DOMAIN collections, Sound(collections[c]),
           GetWorkload(c) \/ NoPods(c)
    PROVE  Sound(collections'[c])
<1> DEFINE k == collections[c]
           q == collections'[c]
<1>1. k.pc = "pods"
  BY GetWorkloadMoves, NoPodsMoves DEF Sound
<1>2. PICK ref, s : /\ MayAsk(s, k, ref)
                    /\ NamespaceOf(ref) = AlertNamespace(k)
                    /\ \/ Moves(q, s, "sources") \/ Loses(q, s)
                       \/ Shifts(q, s, "sources") \/ Shifts(q, s, "list")
  <2>1. CASE GetWorkload(c)
    BY <2>1, GetWorkloadMoves DEF Sound, Learns
  <2>2. CASE NoPods(c)
    <3>1. MayAsk(k, k, <<"Pod", AlertNamespace(k), Nobody>>)
          /\ NamespaceOf(<<"Pod", AlertNamespace(k), Nobody>>) = AlertNamespace(k)
      BY DEF MayAsk, NamespaceOf
    <3>2. QED
      BY <2>2, <3>1, NoPodsMoves DEF Sound
  <2>3. QED
    BY <2>1, <2>2
<1>3. /\ InScope(AlertNamespace(k)) /\ k.flux = <<>> /\ k.calls = 0
      /\ k.pods = <<>> /\ k.raw = <<>>
  BY <1>1 DEF Sound, Allowed, Ordered, Paid, PaidForPods, InNamespace, OfDelivery,
              OnChain, AtEnd
<1>4. Granted(<<KindOf(ref), NamespaceOf(ref)>>)
  BY <1>2, <1>3, ScopeGrants
<1>5. /\ IsCollection(s) /\ Allowed(s) /\ Ordered(s) /\ s.calls \in 0..1
      /\ Core(s, k) /\ SamePods(s, k) /\ s.pc = k.pc
  BY <1>2, <1>3, <1>4, AskedStays
<1>6. CASE Loses(q, s)
  BY <1>5, <1>6, LosesSound, Costs
<1>7. InScope(AlertNamespace(s)) /\ s.flux = <<>>
  BY <1>3, <1>5 DEF Core, AlertNamespace
<1>8. CASE \E l \in {"sources", "list"} : Moves(q, s, l) \/ Shifts(q, s, l)
  <2>1. PICK l \in {"sources", "list"} : Moves(q, s, l) \/ Shifts(q, s, l)
    BY <1>8
  <2>2. Allowed(q)
    BY <1>5, <1>7, <2>1, MovesAllowed DEF OfDelivery, OnChain
  <2>3. Ordered(q)
    BY <1>1, <1>5, <1>7, <2>1, MovesOrdered DEF AtEnd
  <2>4. Paid(q)
    <3>1. q.pc = l /\ q.calls \in 0..1 /\ q.pods = <<>> /\ q.raw = <<>>
      BY <1>3, <1>5, <2>1 DEF Moves, Shifts, Silent, Quiet, SamePods
    <3>2. PaidForPods(q)
      BY <2>1, <3>1 DEF PaidForPods, InFront
    <3>3. PaidForSources(q)
      BY <2>1, <3>1, Costs DEF PaidForSources
    <3>4. PaidForDelivery(q)
      BY <2>1, <3>1 DEF PaidForDelivery, OnChain
    <3>5. QED
      BY <2>1, <3>1, <3>2, <3>3, <3>4, Costs DEF Paid, Places, InNamespace
  <2>5. QED
    BY <2>1, <2>2, <2>3, <2>4, Steps DEF Sound
<1>9. QED
  BY <1>2, <1>6, <1>8

LEMMA ListPodsSound ==
    ASSUME NEW c \in DOMAIN collections, Sound(collections[c]), ListPods(c), FiniteCluster
    PROVE  Sound(collections'[c])
<1> DEFINE k == collections[c]
           q == collections'[c]
           ref == <<"Pod", AlertNamespace(k), "*">>
           lists(s) == /\ Core(q, s) /\ Silent(q, s) /\ q.pods = s.pods
                       /\ IsSeq(q.raw) /\ Len(q.raw) \in 0..MaxPods
                       /\ q.pc = IF q.raw = <<>> THEN "sources" ELSE "parse"
<1>1. k.pc = "list"
  BY ListPodsMoves DEF Sound
<1>2. PICK s : /\ MayAsk(s, k, ref)
               /\ Moves(q, s, "sources") \/ Loses(q, s) \/ lists(s)
  BY ListPodsMoves DEF Sound
<1>3. InScope(AlertNamespace(k)) /\ k.flux = <<>> /\ k.calls \in 0..1 /\ k.pods = <<>>
  BY <1>1 DEF Sound, Allowed, Ordered, Paid, PaidForPods, InNamespace, OfDelivery,
              OnChain, AtEnd
<1>4. Granted(<<KindOf(ref), NamespaceOf(ref)>>)
  BY <1>3, ScopeGrants DEF NamespaceOf
<1>5. /\ IsCollection(s) /\ Allowed(s) /\ Ordered(s) /\ s.calls \in 0..2
      /\ Core(s, k) /\ SamePods(s, k) /\ s.pc = k.pc
  BY <1>2, <1>3, <1>4, AskedStays
<1>6. CASE Loses(q, s)
  BY <1>5, <1>6, LosesSound, Costs
<1>7. InScope(AlertNamespace(s)) /\ s.flux = <<>> /\ s.pods = <<>>
  BY <1>3, <1>5 DEF Core, SamePods, AlertNamespace
<1>8. CASE Moves(q, s, "sources")
  <2>1. Allowed(q)
    BY <1>5, <1>7, <1>8, MovesAllowed DEF OfDelivery, OnChain
  <2>2. Ordered(q)
    BY <1>1, <1>5, <1>7, <1>8, MovesOrdered DEF AtEnd
  <2>3. Paid(q)
    BY <1>5, <1>8, Costs
    DEF Moves, Silent, Found, Paid, PaidForPods, PaidForSources, PaidForDelivery,
        Places, InFront, InNamespace, AtEnd, OnChain
  <2>4. QED
    BY <1>8, <2>1, <2>2, <2>3, Steps DEF Sound
<1>9. CASE lists(s)
  <2>1. q.pc \in {"sources", "parse"} /\ (q.pc = "parse" => q.raw # <<>>)
    BY <1>9
  <2>2. Allowed(q)
    BY <1>5, <1>7, <1>9, <2>1 DEF Allowed, Core, Silent, Found, AlertNamespace, OfDelivery, OnChain
  <2>3. Ordered(q)
    BY <1>1, <1>5, <1>7, <1>9, <2>1 DEF Ordered, Core, AtEnd, OfDelivery, OnChain
  <2>4. IsSeq(q.pods) /\ Len(q.pods) = 0
    <3>1. q.pods = <<>> /\ <<>> \in Seq({})
      BY <1>7, <1>9
    <3>2. QED
      BY <3>1 DEF IsSeq
  <2>5. Paid(q)
    <3>1. q.calls \in 0..2 /\ 0 \in 0..MaxPods
      BY <1>5, <1>9, Bounds DEF Silent, Found
    <3>2. OwnerCost(0) \in Nat
      BY <3>1, OwnerCosts
    <3>3. PaidForPods(q)
      BY <1>9, <2>1, <2>4, <3>1, <3>2 DEF PaidForPods, InFront
    <3>4. PaidForSources(q) /\ PaidForDelivery(q)
      BY <2>1, <3>1, Costs DEF PaidForSources, PaidForDelivery, OnChain
    <3>5. QED
      BY <2>1, <3>1, <3>3, <3>4, Costs DEF Paid, Places, InNamespace
  <2>6. QED
    BY <1>9, <2>2, <2>3, <2>5, Steps DEF Sound
<1>10. QED
  BY <1>2, <1>6, <1>8, <1>9

LEMMA ParseNextPodSound ==
    ASSUME NEW c \in DOMAIN collections, Sound(collections[c]), ParseNextPod(c)
    PROVE  Sound(collections'[c])
<1> DEFINE k == collections[c]
           q == collections'[c]
<1>1. /\ k.pc = "parse" /\ q.pc = "owners"
      /\ Core(q, k) /\ Quiet(q, k) /\ q.raw = Tail(k.raw)
  BY ParseNextPodMoves DEF Sound
<1>2. PICK pod : IsPod(pod) /\ pod.chain = <<>> /\ q.pods = Append(k.pods, pod)
  BY ParseNextPodMoves DEF Sound
<1>3. /\ k.raw # <<>> /\ IsSeq(k.raw) /\ IsSeq(k.pods) /\ k.calls \in Nat
      /\ k.calls <= AllCost
      /\ Len(k.pods) + Len(k.raw) <= MaxPods /\ k.calls <= 2 + OwnerCost(Len(k.pods))
  BY <1>1 DEF Sound, Paid, PaidForPods
<1>4. Allowed(q)
  BY <1>1 DEF Sound, Allowed, Core, Quiet, AlertNamespace, InNamespace, OfDelivery, OnChain
<1>5. Ordered(q)
  BY <1>1 DEF Sound, Ordered, Core, AtEnd, OfDelivery, OnChain
<1>6. /\ IsSeq(q.pods) /\ Len(k.pods) \in Nat /\ Len(q.pods) = Len(k.pods) + 1
      /\ q.pods[Len(k.pods) + 1] = pod
  BY <1>2, <1>3, AppendIs
<1>7. IsSeq(q.raw) /\ Len(k.raw) \in Nat \ {0} /\ Len(q.raw) = Len(k.raw) - 1
  BY <1>1, <1>3, TailIs
<1>8. Last(q.pods) = pod /\ Chain(q) = <<>> /\ IsSeq(<<>>) /\ Len(<<>>) = 0
  <2>1. <<>> \in Seq({})
    OBVIOUS
  <2>2. QED
    BY <1>2, <1>6, <2>1 DEF Last, Chain, IsSeq
<1>9. HasPod(q)
  BY <1>2, <1>6, <1>8 DEF HasPod
<1>10. Paid(q)
  <2>1. q.calls <= 2 + OwnerCost(Len(q.pods) - 1) + Len(Chain(q))
    <3>1. Len(q.pods) - 1 = Len(k.pods) /\ Len(k.pods) \in 0..MaxPods
      <4>1. Len(q.pods) - 1 = Len(k.pods)
        BY <1>6
      <4>2. QED
        BY <1>3, <1>6, <1>7, <4>1, Bounds, Sums
    <3>2. OwnerCost(Len(k.pods)) \in Nat
      BY <3>1, OwnerCosts
    <3>3. Len(Chain(q)) = 0 /\ q.calls = k.calls
      BY <1>1, <1>8 DEF Quiet
    <3>4. QED
      BY <1>3, <3>1, <3>2, <3>3
  <2>2. PaidForPods(q)
    <3>1. Len(q.pods) + Len(q.raw) <= MaxPods /\ Len(Chain(q)) <= MaxDepth
      <4>1. (Len(k.pods) + 1) + (Len(k.raw) - 1) <= MaxPods
        BY <1>3, <1>6, <1>7, Bounds, Sums
      <4>2. Len(q.pods) + Len(q.raw) <= MaxPods
        BY <1>6, <1>7, <4>1
      <4>3. Len(Chain(q)) = 0
        BY <1>8
      <4>4. 0 <= MaxDepth
        BY Bounds
      <4>5. QED
        BY <4>2, <4>3, <4>4
    <3>2. QED
      BY <1>1, <1>6, <1>7, <1>9, <2>1, <3>1 DEF PaidForPods, InFront
  <2>3. PaidForSources(q) /\ PaidForDelivery(q)
    BY <1>1 DEF PaidForSources, PaidForDelivery, OnChain
  <2>4. QED
    BY <1>1, <1>3, <2>2, <2>3 DEF Paid, Places, InNamespace, Quiet
<1>11. QED
  BY <1>1, <1>4, <1>5, <1>10, Steps DEF Sound

(* After a pod either the next one is parsed, or the sources are next.     *)
LEMMA WalkOverPaid ==
    ASSUME NEW q, q.pc = AfterWalk(q), IsSeq(q.pods), IsSeq(q.raw),
           Len(q.pods) + Len(q.raw) <= MaxPods, q.calls \in Nat,
           q.calls <= 2 + OwnerCost(Len(q.pods))
    PROVE  Paid(q)
<1>1. q.pc \in {"parse", "sources"} /\ (q.pc = "parse" => q.raw # <<>>)
  BY DEF AfterWalk
<1>2. Len(q.pods) \in 0..MaxPods
  <2>1. Len(q.pods) \in Nat /\ Len(q.raw) \in Nat
    BY AppendIs
  <2>2. QED
    BY <2>1, Bounds, Sums
<1>3. q.calls <= PodCost /\ q.calls <= AllCost
  <2>1. OwnerCost(Len(q.pods)) \in Nat
    BY <1>2, OwnerCosts
  <2>2. 2 + OwnerCost(Len(q.pods)) <= PodCost
    BY <1>2, PodsPaid
  <2>3. QED
    BY <2>1, <2>2, Costs
<1>4. PaidForPods(q)
  BY <1>1 DEF PaidForPods, InFront
<1>5. PaidForSources(q) /\ PaidForDelivery(q)
  BY <1>1, <1>3 DEF PaidForSources, PaidForDelivery, OnChain
<1>6. QED
  BY <1>1, <1>3, <1>4, <1>5 DEF Paid, Places, InNamespace

LEMMA FollowOwnerSound ==
    ASSUME NEW c \in DOMAIN collections, Sound(collections[c]), FollowOwner(c)
    PROVE  Sound(collections'[c])
<1> DEFINE k == collections[c]
           q == collections'[c]
           n == Len(k.pods) - 1
<1>1. k.pc = "owners"
  BY DEF FollowOwner, At
<1>2. /\ HasPod(k) /\ Len(Chain(k)) <= MaxDepth /\ IsSeq(k.raw) /\ k.calls \in Nat
      /\ Len(k.pods) + Len(k.raw) <= MaxPods
      /\ k.calls <= 2 + OwnerCost(n) + Len(Chain(k))
      /\ InScope(AlertNamespace(k)) /\ k.flux = <<>>
  BY <1>1 DEF Sound, Allowed, Ordered, Paid, PaidForPods, InNamespace, OfDelivery,
              OnChain, AtEnd
<1>3. /\ IsSeq(k.pods) /\ Len(k.pods) \in 1..MaxPods /\ n \in 0..MaxPods
      /\ Len(k.raw) \in Nat /\ Len(Chain(k)) \in 0..MaxDepth
  <2>1. Len(k.pods) \in Nat /\ Len(k.raw) \in Nat /\ Len(Chain(k)) \in Nat
    BY <1>2, AppendIs DEF HasPod
  <2>2. QED
    <3>1. Len(k.pods) \in 0..MaxPods
      BY <1>2, <2>1, Bounds, Sums
    <3>2. Len(k.pods) \in 1..MaxPods /\ n \in 0..MaxPods
      BY <1>2, <3>1, Bounds, Sums DEF HasPod
    <3>3. QED
      BY <1>2, <2>1, <3>2, Bounds DEF HasPod
<1>4. /\ OwnerCost(n) \in Nat /\ OwnerCost(Len(k.pods)) = OwnerCost(n) + MaxDepth
      /\ 2 + OwnerCost(Len(k.pods)) <= PodCost /\ MaxDepth \in Nat
  <2>1. Len(k.pods) = n + 1 /\ Len(k.pods) \in 0..MaxPods
    BY <1>3, Costs
  <2>2. QED
    BY <1>3, <2>1, OwnerCosts, PodsPaid, EvidenceBounds
<1>5. 2 + OwnerCost(n) + MaxDepth <= PodCost
  BY <1>4, Costs
<1>6. k.pc = "owners" /\
      \/ Moves(q, k, AfterWalk(k))
      \/ /\ Len(Chain(k)) < MaxDepth
         /\ \E ref, s : /\ NamespaceOf(ref) = AlertNamespace(k)
                        /\ MayAsk(s, k, ref)
                        /\ Climbs(q, s, ref) \/ Loses(q, s)
  BY <1>2, FollowOwnerMoves DEF Sound
<1>7. CASE Moves(q, k, AfterWalk(k))
  <2>1. AfterWalk(k) \in {"parse", "sources"}
    BY DEF AfterWalk
  <2>2. Allowed(q)
    BY <1>2, <1>7, <2>1, MovesAllowed DEF Sound, OfDelivery, OnChain
  <2>3. Ordered(q)
    BY <1>1, <1>2, <1>7, <2>1, MovesOrdered DEF Sound, AtEnd
  <2>4. q.pods = k.pods /\ q.raw = k.raw /\ q.calls = k.calls /\ q.pc = AfterWalk(q)
    BY <1>7 DEF Moves, Silent, Found, SamePods, AfterWalk
  <2>5. q.calls <= 2 + OwnerCost(Len(q.pods))
    BY <1>2, <1>3, <1>4, <2>4, Costs
  <2>6. Paid(q)
    BY <1>2, <1>3, <2>4, <2>5, WalkOverPaid
  <2>7. QED
    BY <1>7, <2>2, <2>3, <2>6, Steps DEF Sound
<1>8. ASSUME Len(Chain(k)) < MaxDepth,
             NEW ref, NEW s, NamespaceOf(ref) = AlertNamespace(k), MayAsk(s, k, ref),
             Climbs(q, s, ref) \/ Loses(q, s)
      PROVE  Sound(q)
  <2>1. Granted(<<KindOf(ref), NamespaceOf(ref)>>)
    BY <1>2, <1>8, ScopeGrants
  <2>2. /\ IsCollection(s) /\ Allowed(s) /\ Ordered(s)
        /\ s.calls \in Nat /\ s.calls <= k.calls + 1
        /\ Core(s, k) /\ SamePods(s, k) /\ s.pc = k.pc
    BY <1>8, <2>1, AskedStays
  <2>3. s.calls <= 2 + OwnerCost(n) + Len(Chain(k)) + 1
    BY <1>2, <1>3, <1>4, <2>2
  <2>4. CASE Loses(q, s)
    <3>1. s.calls <= AllCost
      BY <1>3, <1>4, <1>5, <1>8, <2>2, <2>3, Costs
    <3>2. QED
      BY <2>2, <2>4, <3>1, LosesSound
  <2>5. CASE Climbs(q, s, ref)
    <3>1. PICK g : /\ Grows(g, s)
                   /\ \E l \in {"owners", AfterWalk(s)} : Shifts(q, g, l)
      BY <2>5, Steps DEF Climbs, Learns
    <3> DEFINE l == q.pc
    <3>2. /\ Core(q, s) /\ q.reads = s.reads /\ q.calls = s.calls /\ q.raw = s.raw
          /\ q.pods = g.pods /\ l \in {"owners", AfterWalk(s)}
      BY <3>1 DEF Shifts, Grows, Core, Silent, Quiet, SamePods
    <3>3. /\ HasPod(q) /\ Len(q.pods) = Len(k.pods) /\ q.raw = k.raw
          /\ Len(Chain(q)) = Len(Chain(k)) + 1
      BY <2>2, <3>1, <3>2 DEF Grows, HasPod, Chain, SamePods
    <3>4. l \in {"owners", "parse", "sources"} /\ (l # "owners" => l = AfterWalk(q))
      BY <3>1, <3>2 DEF AfterWalk
    <3>5. InScope(AlertNamespace(q)) /\ q.flux = <<>> /\ s.flux = <<>>
      BY <1>2, <2>2, <3>2 DEF Core, AlertNamespace
    <3>6. Allowed(q)
      BY <2>2, <3>2, <3>4, <3>5 DEF Allowed, Core, OfDelivery, OnChain
    <3>7. Ordered(q)
      BY <1>1, <2>2, <3>2, <3>4, <3>5 DEF Ordered, Core, AtEnd, OfDelivery, OnChain
    <3>8. q.calls <= 2 + OwnerCost(n) + Len(Chain(q)) /\ q.calls \in Nat
      BY <1>3, <1>4, <2>2, <2>3, <3>2, <3>3
    <3>9. Paid(q)
      <4>1. CASE l = "owners"
        <5>1. PaidForPods(q)
          <6>1. Len(Chain(q)) <= MaxDepth /\ Len(q.pods) + Len(q.raw) <= MaxPods
            <7>1. Len(Chain(k)) + 1 <= MaxDepth
              BY <1>3, <1>4, <1>8
            <7>2. QED
              BY <1>2, <3>3, <7>1
          <6>2. IsSeq(q.pods) /\ IsSeq(q.raw)
            BY <1>2, <3>3 DEF HasPod
          <6>3. QED
            BY <3>3, <3>8, <4>1, <6>1, <6>2 DEF PaidForPods, InFront
        <5>2. PaidForSources(q) /\ PaidForDelivery(q)
          BY <3>2, <4>1 DEF PaidForSources, PaidForDelivery, OnChain
        <5>3. q.calls <= AllCost
          BY <1>3, <1>4, <1>5, <1>8, <3>3, <3>8, Costs
        <5>4. QED
          BY <3>2, <3>8, <4>1, <5>1, <5>2, <5>3 DEF Paid, Places, InNamespace
      <4>2. CASE l # "owners"
        <5>1. q.calls <= 2 + OwnerCost(Len(q.pods))
          <6>1. q.calls <= 2 + OwnerCost(n) + (Len(Chain(k)) + 1)
            BY <3>3, <3>8
          <6>2. Len(Chain(k)) \in Nat /\ Len(Chain(k)) + 1 <= MaxDepth
            BY <1>3, <1>4, <1>8
          <6>3. OwnerCost(Len(q.pods)) = OwnerCost(n) + MaxDepth
            BY <1>4, <3>3
          <6>4. \A a, b, d, x \in Nat :
                   x <= 2 + a + (b + 1) /\ b + 1 <= d => x <= 2 + (a + d)
            OBVIOUS
          <6>5. QED
            BY <1>4, <3>8, <6>1, <6>2, <6>3, <6>4
        <5>2. q.pc = AfterWalk(q) /\ IsSeq(q.pods)
          BY <3>2, <3>3, <3>4, <4>2 DEF HasPod
        <5>3. QED
          BY <1>2, <3>3, <3>8, <5>1, <5>2, WalkOverPaid
      <4>3. QED
        BY <4>1, <4>2
    <3>10. QED
      BY <3>2, <3>6, <3>7, <3>9, Steps DEF Sound
  <2>6. QED
    BY <1>8, <2>4, <2>5
<1>9. QED
  BY <1>6, <1>7, <1>8

LEMMA BaseAllowed ==
    ASSUME NEW s, NEW q, Allowed(s), Base(q, s), Silent(q, s), q.pc \notin OfDelivery,
           q.pc \in InNamespace => InScope(AlertNamespace(s))
    PROVE  Allowed(q)
BY DEF Allowed, Base, Silent, Found, AlertNamespace, OfDelivery, OnChain

LEMMA BaseOrdered ==
    ASSUME NEW s, NEW q, Ordered(s), Base(q, s), s.pc \notin OfDelivery \cup AtEnd,
           q.pc \notin OfDelivery \cup AtEnd, q.pc \in {"events", "merge"} \/ q.got = {}
    PROVE  Ordered(q)
BY DEF Ordered, Base, AtEnd, OfDelivery, OnChain

LEMMA ChooseSourcesSound ==
    ASSUME NEW c \in DOMAIN collections, Sound(collections[c]), ChooseSources(c)
    PROVE  Sound(collections'[c])
<1> DEFINE k == collections[c]
           q == collections'[c]
<1>1. /\ k.pc = "sources" /\ q.pc = "events"
      /\ Base(q, k) /\ Silent(q, k) /\ SamePods(q, k)
      /\ q.got = k.got /\ q.left \subseteq 1..MaxSources
  BY ChooseSourcesMoves DEF Sound
<1>2. InScope(AlertNamespace(k)) /\ k.calls \in Nat /\ k.calls <= PodCost
  BY <1>1 DEF Sound, Allowed, Paid, PaidForSources, InNamespace
<1>3. Allowed(q)
  BY <1>1, <1>2, BaseAllowed DEF Sound, OfDelivery, OnChain
<1>4. Ordered(q)
  BY <1>1, BaseOrdered DEF Sound, OfDelivery, OnChain, AtEnd
<1>5. Paid(q)
  <2>1. q.calls \in Nat /\ q.calls <= PodCost
    BY <1>1, <1>2 DEF Silent, Found
  <2>2. \A i \in q.left : i \in Nat /\ 1 <= i
    BY <1>1, Bounds
  <2>3. \A i \in q.left : q.calls <= PodCost + i - 1
    BY <2>1, <2>2, Costs
  <2>4. PaidForPods(q) /\ PaidForDelivery(q)
    BY <1>1 DEF PaidForPods, PaidForDelivery, InFront, OnChain
  <2>5. q.calls <= SourceCost /\ q.calls <= AllCost
    BY <2>1, Costs
  <2>6. PaidForSources(q)
    BY <1>1, <2>3, <2>5 DEF PaidForSources
  <2>7. QED
    BY <1>1, <2>1, <2>4, <2>5, <2>6 DEF Paid, Places, InNamespace
<1>6. QED
  BY <1>1, <1>3, <1>4, <1>5 DEF Sound, Base, IsCollection

LEMMA GetEventsSound ==
    ASSUME NEW c \in DOMAIN collections, Sound(collections[c]), GetEvents(c)
    PROVE  Sound(collections'[c])
<1> DEFINE k == collections[c]
           q == collections'[c]
<1>1. k.pc = "events"
  BY GetEventsMoves DEF Sound
<1>2. PICK i \in k.left : \E name, s :
         /\ \A j \in k.left : i <= j
         /\ MayAsk(s, k, <<"Event", AlertNamespace(k), name>>)
         /\ Hears(q, s, i) \/ Loses(q, s)
  BY GetEventsMoves DEF Sound
<1>3. PICK ref, s : /\ MayAsk(s, k, ref) /\ NamespaceOf(ref) = AlertNamespace(k)
                    /\ Hears(q, s, i) \/ Loses(q, s)
  BY <1>2 DEF NamespaceOf
<1>4. /\ InScope(AlertNamespace(k)) /\ k.calls \in Nat /\ k.left \subseteq 1..MaxSources
      /\ k.calls <= PodCost + i - 1
  BY <1>1 DEF Sound, Allowed, Paid, PaidForSources, InNamespace
<1>5. Granted(<<KindOf(ref), NamespaceOf(ref)>>)
  BY <1>3, <1>4, ScopeGrants
<1>6. /\ IsCollection(s) /\ Allowed(s) /\ Ordered(s)
      /\ s.calls \in Nat /\ s.calls <= k.calls + 1
      /\ Core(s, k) /\ SamePods(s, k) /\ s.pc = k.pc
  BY <1>3, <1>5, AskedStays
<1>7. /\ i \in 1..MaxSources /\ s.calls <= PodCost + i
      /\ s.calls <= SourceCost /\ s.calls <= AllCost
  <2>1. i \in 1..MaxSources /\ i \in Nat /\ i <= MaxSources
    BY <1>4, Bounds
  <2>2. s.calls <= PodCost + i
    BY <1>4, <1>6, <2>1, Costs
  <2>3. s.calls <= SourceCost
    BY <1>6, <2>1, <2>2, CostsAre
  <2>4. QED
    BY <1>6, <2>1, <2>2, <2>3, Costs
<1>8. CASE Loses(q, s)
  BY <1>6, <1>7, <1>8, LosesSound
<1>9. CASE Hears(q, s, i)
  <2>1. /\ Base(q, s) /\ Silent(q, s) /\ SamePods(q, s) /\ q.pc = "events"
        /\ q.left = k.left \ {i} /\ InScope(AlertNamespace(s))
    BY <1>1, <1>4, <1>6, <1>9 DEF Hears, Core, AlertNamespace
  <2>2. Allowed(q)
    BY <1>6, <2>1, BaseAllowed DEF OfDelivery, OnChain
  <2>3. Ordered(q)
    BY <1>1, <1>6, <2>1, BaseOrdered DEF OfDelivery, OnChain, AtEnd
  <2>4. q.calls = s.calls
    BY <2>1 DEF Silent, Found
  <2>5. ASSUME NEW j \in q.left PROVE q.calls <= PodCost + j - 1
    <3>1. j \in 1..MaxSources /\ i <= j /\ i # j
      BY <1>2, <1>4, <2>1
    <3>2. j \in Nat /\ i \in Nat /\ i <= j - 1
      BY <1>7, <3>1, Bounds
    <3>3. QED
      BY <1>6, <1>7, <2>4, <3>2, Costs
  <2>6. PaidForPods(q) /\ PaidForDelivery(q)
    BY <2>1 DEF PaidForPods, PaidForDelivery, InFront, OnChain
  <2>7. PaidForSources(q)
    BY <1>4, <1>7, <2>1, <2>4, <2>5 DEF PaidForSources
  <2>8. Paid(q)
    BY <1>6, <1>7, <2>1, <2>4, <2>6, <2>7 DEF Paid, Places, InNamespace
  <2>9. QED
    BY <2>1, <2>2, <2>3, <2>8 DEF Sound, Base, IsCollection
<1>10. QED
  BY <1>3, <1>8, <1>9

LEMMA KeepSound ==
    ASSUME NEW c \in DOMAIN collections, Sound(collections[c]),
           KeepEvents(c) \/ MergeEvents(c)
    PROVE  Sound(collections'[c])
<1> DEFINE k == collections[c]
           q == collections'[c]
<1>1. \/ k.pc = "events" /\ Settles(q, k, "claim")
      \/ k.pc = "merge" /\ Settles(q, k, "node")
  BY KeepMoves DEF Sound
<1>2. /\ Base(q, k) /\ Silent(q, k) /\ SamePods(q, k) /\ q.got = {}
      /\ k.pc \in {"events", "merge"} /\ q.pc \in {"claim", "node"}
  BY <1>1 DEF Settles
<1>3. InScope(AlertNamespace(k)) /\ k.calls \in Nat /\ k.calls <= AllCost
  BY <1>2 DEF Sound, Allowed, Paid, InNamespace
<1>4. \/ q.pc = "claim" /\ k.calls <= SourceCost
      \/ q.pc = "node" /\ k.calls <= SourceCost + 2
  BY <1>1 DEF Sound, Paid, PaidForSources, Settles
<1>5. Allowed(q)
  BY <1>2, <1>3, BaseAllowed DEF Sound, OfDelivery, OnChain
<1>6. Ordered(q)
  BY <1>2, BaseOrdered DEF Sound, OfDelivery, OnChain, AtEnd
<1>7. Paid(q)
  <2>1. q.calls = k.calls
    BY <1>2 DEF Silent, Found
  <2>2. PaidForPods(q) /\ PaidForSources(q) /\ PaidForDelivery(q)
    BY <1>2, <1>4, <2>1 DEF PaidForPods, PaidForSources, PaidForDelivery, InFront, OnChain
  <2>3. QED
    BY <1>2, <1>3, <2>1, <2>2 DEF Paid, Places, InNamespace
<1>8. QED
  BY <1>2, <1>5, <1>6, <1>7 DEF Sound, Base, IsCollection

(* The claim of the pod and its events.                                    *)
LEMMA ClaimSound ==
    ASSUME NEW c \in DOMAIN collections, Sound(collections[c]),
           NoClaim(c) \/ GetClaim(c) \/ GetClaimEvents(c)
    PROVE  Sound(collections'[c])
<1> DEFINE k == collections[c]
           q == collections'[c]
           hears(s) == Base(q, s) /\ Silent(q, s) /\ SamePods(q, s) /\ q.pc = "merge"
<1>1. PICK ref, s :
         /\ NamespaceOf(ref) = AlertNamespace(k) /\ MayAsk(s, k, ref)
         /\ \/ /\ k.pc = "claim"
               /\ Moves(q, s, "node") \/ Moves(q, s, "claim_events") \/ Loses(q, s)
            \/ /\ k.pc = "claim_events"
               /\ Moves(q, s, "node") \/ hears(s) \/ Loses(q, s)
  <2>1. CASE NoClaim(c) \/ GetClaim(c)
    <3>1. NamespaceOf(ClaimRef(k)) = AlertNamespace(k)
      BY DEF ClaimRef, NamespaceOf
    <3>2. QED
      BY <2>1, <3>1, ClaimMoves DEF Sound
  <2>2. CASE GetClaimEvents(c)
    BY <2>2, GetClaimEventsMoves DEF Sound
  <2>3. QED
    BY <2>1, <2>2
<1>2. /\ InScope(AlertNamespace(k)) /\ k.calls \in Nat
      /\ k.pc \in {"claim", "claim_events"}
      /\ k.calls <= IF k.pc = "claim" THEN SourceCost ELSE SourceCost + 1
  BY <1>1 DEF Sound, Allowed, Paid, PaidForSources, InNamespace
<1>3. k.flux = <<>>
  BY <1>2 DEF Sound, Ordered, OfDelivery, OnChain, AtEnd
<1>4. Granted(<<KindOf(ref), NamespaceOf(ref)>>)
  BY <1>1, <1>2, ScopeGrants
<1>5. /\ IsCollection(s) /\ Allowed(s) /\ Ordered(s)
      /\ s.calls \in Nat /\ s.calls <= k.calls + 1
      /\ Core(s, k) /\ SamePods(s, k) /\ s.pc = k.pc
  BY <1>1, <1>4, AskedStays
<1>6. s.calls <= SourceCost + 2 /\ (k.pc = "claim" => s.calls <= SourceCost + 1)
  BY <1>2, <1>5, Costs
<1>7. s.calls <= AllCost
  BY <1>5, <1>6, CostsAre
<1>8. InScope(AlertNamespace(s)) /\ s.flux = <<>>
  BY <1>2, <1>3, <1>5 DEF Core, AlertNamespace
<1>9. CASE Loses(q, s)
  BY <1>5, <1>7, <1>9, LosesSound
<1>10. ASSUME NEW l \in {"node", "claim_events"}, Moves(q, s, l),
              l = "claim_events" => k.pc = "claim"
       PROVE  Sound(q)
  <2>1. Allowed(q)
    BY <1>5, <1>8, <1>10, MovesAllowed DEF OfDelivery, OnChain
  <2>2. Ordered(q)
    BY <1>2, <1>5, <1>8, <1>10, MovesOrdered DEF AtEnd
  <2>3. q.pc = l /\ q.calls = s.calls
    BY <1>10 DEF Moves, Silent, Found
  <2>4. PaidForPods(q) /\ PaidForSources(q) /\ PaidForDelivery(q)
    BY <1>6, <1>10, <2>3 DEF PaidForPods, PaidForSources, PaidForDelivery, InFront, OnChain
  <2>5. Paid(q)
    BY <1>5, <1>7, <1>10, <2>3, <2>4 DEF Paid, Places, InNamespace
  <2>6. QED
    BY <1>10, <2>1, <2>2, <2>5, Steps DEF Sound
<1>11. CASE hears(s) /\ k.pc = "claim_events"
  <2>1. Allowed(q)
    BY <1>5, <1>8, <1>11, BaseAllowed DEF OfDelivery, OnChain
  <2>2. Ordered(q)
    BY <1>5, <1>11, BaseOrdered DEF OfDelivery, OnChain, AtEnd
  <2>3. q.calls = s.calls
    BY <1>11 DEF Silent, Found
  <2>4. PaidForPods(q) /\ PaidForSources(q) /\ PaidForDelivery(q)
    BY <1>6, <1>11, <2>3 DEF PaidForPods, PaidForSources, PaidForDelivery, InFront, OnChain
  <2>5. Paid(q)
    BY <1>5, <1>7, <1>11, <2>3, <2>4 DEF Paid, Places, InNamespace
  <2>6. QED
    BY <1>11, <2>1, <2>2, <2>5 DEF Sound, Base, IsCollection
<1>12. QED
  BY <1>1, <1>9, <1>10, <1>11

LEMMA GetNodeSound ==
    ASSUME NEW c \in DOMAIN collections, Sound(collections[c]), GetNode(c)
    PROVE  Sound(collections'[c])
<1> DEFINE k == collections[c]
           q == collections'[c]
           goes(s) == \E l \in {"target", "decide"} :
                         Moves(q, s, l) /\ (l = "target" => Config.flux)
<1>1. k.pc = "node"
  BY GetNodeMoves DEF Sound
<1>2. \/ goes(k)
      \/ Config.all /\ \E ref, s : MayAsk(s, k, ref) /\ (goes(s) \/ Loses(q, s))
  BY GetNodeMoves DEF Sound
<1>3. k.calls \in Nat /\ k.calls <= SourceCost + 2 /\ k.flux = <<>>
  BY <1>1 DEF Sound, Ordered, Paid, PaidForSources, OfDelivery, OnChain, AtEnd
<1>4. PICK s : /\ goes(s) \/ Loses(q, s)
               /\ IsCollection(s) /\ Allowed(s) /\ Ordered(s)
               /\ s.calls \in Nat /\ s.calls <= k.calls + 1
               /\ Core(s, k) /\ SamePods(s, k) /\ s.pc = k.pc
  <2>1. CASE goes(k)
    BY <1>3, <2>1 DEF Sound, Core, SamePods, IsCollection
  <2>2. ASSUME Config.all, NEW ref, NEW s, MayAsk(s, k, ref), goes(s) \/ Loses(q, s)
        PROVE  /\ IsCollection(s) /\ Allowed(s) /\ Ordered(s)
               /\ s.calls \in Nat /\ s.calls <= k.calls + 1
               /\ Core(s, k) /\ SamePods(s, k) /\ s.pc = k.pc
    <3>1. Granted(<<KindOf(ref), NamespaceOf(ref)>>)
      BY <2>2 DEF Granted
    <3>2. QED
      BY <2>2, <3>1, AskedStays
  <2>3. QED
    BY <1>2, <2>1, <2>2
<1>5. s.calls <= ClaimCost /\ s.calls <= AllCost
  <2>1. \A a, b, x \in Nat : a <= x + 2 /\ b <= a + 1 => b <= x + 3
    OBVIOUS
  <2>2. s.calls <= SourceCost + 3
    BY <1>3, <1>4, <2>1, Costs
  <2>3. QED
    BY <1>4, <2>2, Costs, CostsAre
<1>6. CASE Loses(q, s)
  BY <1>4, <1>5, <1>6, LosesSound
<1>7. ASSUME NEW l \in {"target", "decide"}, Moves(q, s, l), l = "target" => Config.flux
      PROVE  Sound(q)
  <2>1. s.flux = <<>>
    BY <1>3, <1>4 DEF Core
  <2>2. Allowed(q)
    BY <1>4, <1>7, MovesAllowed DEF InNamespace, OfDelivery, OnChain
  <2>3. Ordered(q)
    BY <1>1, <1>4, <1>7, <2>1, MovesOrdered DEF AtEnd
  <2>4. q.pc = l /\ q.calls = s.calls
    BY <1>7 DEF Moves, Silent, Found
  <2>5. PaidForPods(q) /\ PaidForSources(q) /\ PaidForDelivery(q)
    BY <1>5, <1>7, <2>4 DEF PaidForPods, PaidForSources, PaidForDelivery, InFront, OnChain
  <2>6. Paid(q)
    BY <1>4, <1>5, <1>7, <2>4, <2>5 DEF Paid, Places, OfDelivery, AtEnd
  <2>7. QED
    BY <1>7, <2>2, <2>3, <2>6, Steps DEF Sound
<1>8. QED
  BY <1>4, <1>6, <1>7

LEMMA ResolveTargetSound ==
    ASSUME NEW c \in DOMAIN collections, Sound(collections[c]), ResolveTarget(c)
    PROVE  Sound(collections'[c])
<1> DEFINE k == collections[c]
           q == collections'[c]
<1>1. k.pc = "target"
  BY ResolveTargetMoves DEF Sound
<1>2. \/ Moves(q, k, "decide")
      \/ /\ Keeps(q, k) /\ q.flux = k.flux /\ q.stale = k.stale
         /\ q.pc = "version" /\ KindOf(q.target) \in FluxKinds
  BY ResolveTargetMoves DEF Sound
<1>3. /\ Config.flux /\ k.flux = <<>> /\ k.got = {} /\ k.fluxEvents = {}
      /\ k.calls \in Nat /\ k.calls <= ClaimCost /\ k.calls <= AllCost
  BY <1>1 DEF Sound, Allowed, Ordered, Paid, PaidForDelivery, OfDelivery, OnChain, AtEnd
<1>4. CASE Moves(q, k, "decide")
  <2>1. Allowed(q)
    BY <1>4, MovesAllowed DEF Sound, InNamespace, OfDelivery, OnChain
  <2>2. Ordered(q)
    BY <1>3, <1>4, MovesOrdered DEF Sound, AtEnd
  <2>3. Paid(q)
    BY <1>3, <1>4, EndPaid DEF Moves, Silent, Found, AtEnd
  <2>4. QED
    BY <1>4, <2>1, <2>2, <2>3, Steps DEF Sound
<1>5. CASE /\ Keeps(q, k) /\ q.flux = k.flux /\ q.stale = k.stale
           /\ q.pc = "version" /\ KindOf(q.target) \in FluxKinds
  <2>1. Allowed(q)
    BY <1>3, <1>5 DEF Sound, Allowed, Keeps, Silent, Found, InNamespace, OnChain
  <2>2. Ordered(q)
    BY <1>1, <1>3, <1>5 DEF Sound, Ordered, Keeps, AtEnd, OfDelivery, OnChain
  <2>3. Paid(q)
    <3>1. q.calls = k.calls /\ Len(q.flux) = 0
      BY <1>3, <1>5 DEF Keeps, Silent, Found
    <3>2. PaidForPods(q) /\ PaidForSources(q)
      BY <1>5 DEF PaidForPods, PaidForSources, InFront
    <3>3. Len(q.flux) <= MaxHops /\ q.calls <= ClaimCost + 2 * Len(q.flux)
      <4>1. 0 <= MaxHops /\ k.calls <= ClaimCost + 2 * 0
        BY <1>3, Bounds, Costs
      <4>2. QED
        BY <3>1, <4>1
    <3>4. PaidForDelivery(q)
      BY <1>5, <3>3 DEF PaidForDelivery
    <3>5. QED
      BY <1>3, <1>5, <3>1, <3>2, <3>4 DEF Paid, Places, OfDelivery, OnChain
  <2>4. QED
    BY <1>5, <2>1, <2>2, <2>3 DEF Sound, Keeps, IsCollection
<1>6. QED
  BY <1>2, <1>4, <1>5

(* A collection on the chain, for whatever place it reaches from there.    *)
OnTheChain(k, calls) ==
    /\ IsCollection(k) /\ Config.flux
    /\ \A read \in k.reads : Granted(read)
    /\ \A i \in DOMAIN k.flux : FluxInScope(NamespaceOf(k.flux[i].ref))
    /\ IsSeq(k.flux) /\ k.got = {} /\ k.fluxEvents = {} /\ Len(k.flux) \in 0..(MaxHops + 1)
    /\ k.calls \in Nat /\ k.calls <= calls

LEMMA ClosesSound ==
    ASSUME NEW q, OnTheChain(q, ChainCost), Closes(q)
    PROVE  Sound(q)
<1>1. q.pc \in {"decide", "flux_events"} /\ (q.pc = "flux_events" => q.flux # <<>>)
  BY DEF Closes
<1>2. q.pc = "flux_events" => q.left \subseteq DOMAIN q.flux
  <2>1. IsSeq(q.flux)
    BY DEF OnTheChain
  <2>2. q.flux # <<>> => 1 \in DOMAIN q.flux
    <3>1. PICK S : q.flux \in Seq(S)
      BY <2>1 DEF IsSeq
    <3>2. q.flux # <<>> => Len(q.flux) \in Nat \ {0} /\ DOMAIN q.flux = 1..Len(q.flux)
      BY <3>1, EmptySeq, LenProperties
    <3>3. QED
      BY <3>2
  <2>3. QED
    BY <1>1, <2>2 DEF Closes
<1>3. Allowed(q)
  BY <1>1 DEF OnTheChain, Allowed, InNamespace, OnChain
<1>4. Ordered(q)
  BY <1>1, <1>2 DEF OnTheChain, Ordered, OfDelivery, AtEnd
<1>5. Paid(q)
  <2>1. q.calls \in Nat /\ q.calls <= ChainCost /\ q.calls <= AllCost
    BY Costs DEF OnTheChain
  <2>2. CASE q.pc = "decide"
    BY <2>1, <2>2, EndPaid DEF AtEnd
  <2>3. CASE q.pc = "flux_events"
    <3>1. PaidForPods(q) /\ PaidForSources(q)
      BY <2>3 DEF PaidForPods, PaidForSources, InFront
    <3>2. Len(q.flux) <= MaxHops + 1
      BY Bounds DEF OnTheChain
    <3>3. ASSUME NEW i \in q.left PROVE q.calls <= ChainCost + i - 1
      <4>1. i \in DOMAIN q.flux /\ DOMAIN q.flux = 1..Len(q.flux) /\ Len(q.flux) \in Nat
        BY <1>2, <2>3, AppendIs DEF OnTheChain
      <4>2. i \in Nat /\ 1 <= i
        BY <4>1
      <4>3. QED
        BY <2>1, <4>2, Costs
    <3>4. PaidForDelivery(q)
      BY <2>3, <3>2, <3>3 DEF PaidForDelivery, OnChain
    <3>5. QED
      BY <2>1, <2>3, <3>1, <3>4 DEF Paid, Places, OfDelivery
  <2>4. QED
    BY <1>1, <2>2, <2>3
<1>6. QED
  BY <1>3, <1>4, <1>5 DEF OnTheChain, Sound

(* At a place of the chain, with the target that it is about.              *)
LEMMA ChainSound ==
    ASSUME NEW q, NEW calls \in Nat, OnTheChain(q, calls),
           q.pc \in OnChain, KindOf(q.target) \in FluxKinds,
           q.pc # "version" => FluxInScope(NamespaceOf(q.target)),
           Len(q.flux) <= MaxHops,
           \/ calls <= ClaimCost + 2 * Len(q.flux)
           \/ /\ q.pc \in {"store", "flux"}
              /\ calls <= ClaimCost + 2 * Len(q.flux) + 1
    PROVE  Sound(q)
<1>1. Allowed(q)
  BY DEF OnTheChain, Allowed, InNamespace, OnChain
<1>2. Ordered(q)
  BY DEF OnTheChain, Ordered, OfDelivery, OnChain, AtEnd
<1>3. Paid(q)
  <2> DEFINE n == Len(q.flux)
  <2>1. /\ n \in 0..MaxHops /\ q.calls \in Nat /\ q.calls <= calls
        /\ \/ calls <= ClaimCost + 2 * n
           \/ /\ q.pc \in {"store", "flux"}
              /\ calls <= ClaimCost + 2 * n + 1
    BY AppendIs, Bounds DEF OnTheChain
  <2>2. PaidForPods(q) /\ PaidForSources(q)
    BY DEF PaidForPods, PaidForSources, InFront, OnChain
  <2> HIDE DEF n
  <2>3. /\ q.calls <= ClaimCost + 2 * n + 1 /\ q.calls <= AllCost
        /\ q.pc \in {"version", "discover"} => q.calls <= ClaimCost + 2 * n
    BY <2>1, CostsAre
  <2>4. PaidForDelivery(q)
    BY <2>3 DEF PaidForDelivery, OnChain, n
  <2>5. QED
    BY <2>1, <2>2, <2>3, <2>4 DEF Paid, Places, OfDelivery
<1>4. QED
  BY <1>1, <1>2, <1>3 DEF OnTheChain, Sound

LEMMA SoundOnChain ==
    ASSUME NEW k, Sound(k), k.pc \in OnChain
    PROVE  /\ OnTheChain(k, k.calls) /\ KindOf(k.target) \in FluxKinds
           /\ k.pc # "version" => FluxInScope(NamespaceOf(k.target))
           /\ Len(k.flux) \in 0..MaxHops /\ k.calls \in Nat
           /\ k.pc \in {"version", "discover"} => k.calls <= ClaimCost + 2 * Len(k.flux)
           /\ k.pc \in {"store", "flux"} => k.calls <= ClaimCost + 2 * Len(k.flux) + 1
<1>1. /\ IsCollection(k) /\ Config.flux
      /\ \A read \in k.reads : Granted(read)
      /\ \A i \in DOMAIN k.flux : FluxInScope(NamespaceOf(k.flux[i].ref))
      /\ KindOf(k.target) \in FluxKinds
      /\ k.pc # "version" => FluxInScope(NamespaceOf(k.target))
  BY DEF Sound, Allowed, OfDelivery, OnChain
<1>2. IsSeq(k.flux) /\ k.got = {} /\ k.fluxEvents = {}
  BY DEF Sound, Ordered, OnChain, AtEnd
<1>3. /\ k.calls \in Nat /\ Len(k.flux) <= MaxHops
      /\ k.pc \in {"version", "discover"} => k.calls <= ClaimCost + 2 * Len(k.flux)
      /\ k.pc \in {"store", "flux"} => k.calls <= ClaimCost + 2 * Len(k.flux) + 1
  BY DEF Sound, Paid, PaidForDelivery
<1>4. Len(k.flux) \in 0..MaxHops /\ Len(k.flux) \in 0..(MaxHops + 1)
  <2> DEFINE n == Len(k.flux)
  <2>1. n \in Nat /\ n <= MaxHops
    BY <1>2, <1>3, AppendIs
  <2> HIDE DEF n
  <2>2. n \in 0..MaxHops /\ n \in 0..(MaxHops + 1)
    BY <2>1, Bounds
  <2>3. QED
    BY <2>2 DEF n
<1>5. k.calls <= k.calls
  BY <1>3
<1>6. QED
  BY <1>1, <1>2, <1>3, <1>4, <1>5 DEF OnTheChain

LEMMA SentOnChain ==
    ASSUME NEW k, NEW ref, NEW s, Sound(k), k.pc \in OnChain, MayAsk(s, k, ref),
           Granted(<<KindOf(ref), NamespaceOf(ref)>>)
    PROVE  /\ OnTheChain(s, k.calls + 1) /\ Core(s, k) /\ s.pc = k.pc
           /\ IsCollection(s) /\ Allowed(s) /\ s.calls \in Nat
<1>1. /\ IsCollection(s) /\ Allowed(s) /\ Ordered(s)
      /\ s.calls \in Nat /\ s.calls <= k.calls + 1
      /\ Core(s, k) /\ s.pc = k.pc
  BY AskedStays
<1>2. OnTheChain(k, k.calls)
  BY SoundOnChain
<1>3. s.flux = k.flux /\ s.got = k.got /\ s.fluxEvents = k.fluxEvents
  BY <1>1 DEF Core
<1>4. QED
  BY <1>1, <1>2, <1>3 DEF OnTheChain, Allowed

LEMMA KeepsOnChain ==
    ASSUME NEW s, NEW q, NEW calls, OnTheChain(s, calls), Keeps(q, s), q.flux = s.flux
    PROVE  OnTheChain(q, calls)
BY DEF OnTheChain, Keeps, Silent, Found, IsCollection

LEMMA MovesKeeps ==
    ASSUME NEW s, NEW q, NEW l, Moves(q, s, l)
    PROVE  Keeps(q, s) /\ q.flux = s.flux /\ q.target = s.target /\ q.pc = l
BY DEF Moves, Core, Keeps, Silent, Found, SamePods

(* What is spent on the chain is no more than the chain costs.             *)
LEMMA ChainCosts ==
    ASSUME NEW k, NEW calls \in Nat, OnTheChain(k, calls), Len(k.flux) \in 0..MaxHops,
           calls <= ClaimCost + 2 * Len(k.flux) + 2
    PROVE  OnTheChain(k, ChainCost)
<1> DEFINE n == Len(k.flux)
<1>1. n \in 0..MaxHops /\ calls <= ClaimCost + 2 * n + 2
  OBVIOUS
<1> HIDE DEF n
<1>2. calls <= ChainCost
  BY <1>1, CostsAre
<1>3. k.calls \in Nat /\ k.calls <= calls
  BY DEF OnTheChain
<1>4. k.calls <= ChainCost
  BY <1>2, <1>3, Costs
<1>5. QED
  BY <1>4 DEF OnTheChain

LEMMA ResolveVersionSound ==
    ASSUME NEW c \in DOMAIN collections, Sound(collections[c]), ResolveVersion(c)
    PROVE  Sound(collections'[c])
<1> DEFINE k == collections[c]
           q == collections'[c]
           n == Len(k.flux)
<1>1. k.pc = "version" /\ k.pc \in OnChain
  BY ResolveVersionMoves DEF Sound, OnChain
<1>2. \/ Concludes(q, k)
      \/ /\ FluxInScope(NamespaceOf(k.target))
         /\ \/ Moves(q, k, "flux") \/ Moves(q, k, "discover")
            \/ IsFresh /\ Takes(q, k, cached.version)
  BY ResolveVersionMoves DEF Sound
<1>3. /\ OnTheChain(k, k.calls) /\ KindOf(k.target) \in FluxKinds
      /\ n \in 0..MaxHops /\ k.calls \in Nat /\ k.calls <= ClaimCost + 2 * n
  BY <1>1, SoundOnChain
<1>4. Keeps(q, k) /\ q.flux = k.flux
  BY <1>2, MovesKeeps DEF Concludes, Takes
<1>5. OnTheChain(q, k.calls)
  BY <1>3, <1>4, KeepsOnChain
<1>6. k.calls <= ClaimCost + 2 * n + 2 /\ n <= MaxHops
  <2> HIDE DEF n
  <2>1. QED
    BY <1>3, Costs, Bounds
<1>7. CASE Closes(q)
  BY <1>3, <1>4, <1>5, <1>6, <1>7, ChainCosts, ClosesSound
<1>8. CASE /\ FluxInScope(NamespaceOf(k.target))
           /\ q.pc \in {"flux", "discover"} /\ q.target = k.target
  BY <1>3, <1>4, <1>5, <1>6, <1>8, ChainSound DEF OnChain
<1>9. QED
  BY <1>2, <1>7, <1>8, MovesKeeps DEF Concludes, Takes

LEMMA StoreVersionSound ==
    ASSUME NEW c \in DOMAIN collections, Sound(collections[c]), StoreVersion(c)
    PROVE  Sound(collections'[c])
<1> DEFINE k == collections[c]
           q == collections'[c]
           n == Len(k.flux)
<1>1. k.pc = "store" /\ k.pc \in OnChain /\ Takes(q, k, k.version)
  BY StoreVersionMoves DEF Sound, OnChain
<1>2. /\ OnTheChain(k, k.calls) /\ KindOf(k.target) \in FluxKinds
      /\ FluxInScope(NamespaceOf(k.target))
      /\ n \in 0..MaxHops /\ k.calls \in Nat /\ k.calls <= ClaimCost + 2 * n + 1
  BY <1>1, SoundOnChain
<1>3. Keeps(q, k) /\ q.flux = k.flux
  BY <1>1 DEF Takes
<1>4. OnTheChain(q, k.calls)
  BY <1>2, <1>3, KeepsOnChain
<1>5. k.calls <= ClaimCost + 2 * n + 2 /\ n <= MaxHops
  <2> HIDE DEF n
  <2>1. QED
    BY <1>2, Costs, Bounds
<1>6. CASE Closes(q)
  BY <1>2, <1>3, <1>4, <1>5, <1>6, ChainCosts, ClosesSound
<1>7. CASE q.pc = "flux" /\ q.target = k.target
  BY <1>2, <1>3, <1>4, <1>5, <1>7, ChainSound DEF OnChain
<1>8. QED
  BY <1>1, <1>6, <1>7 DEF Takes

LEMMA DiscoverSound ==
    ASSUME NEW c \in DOMAIN collections, Sound(collections[c]), Discover(c)
    PROVE  Sound(collections'[c])
<1> DEFINE k == collections[c]
           q == collections'[c]
           n == Len(k.flux)
           ref == <<"APIGroup", Nobody, "*">>
<1>1. k.pc = "discover" /\ k.pc \in OnChain
  BY DiscoverMoves DEF Sound, OnChain
<1>2. PICK s : /\ MayAsk(s, k, ref)
               /\ \/ Concludes(q, s) \/ Loses(q, s)
                  \/ /\ Keeps(q, s) /\ q.flux = s.flux /\ q.stale = s.stale
                     /\ q.target = s.target /\ q.pc = "store"
                     /\ q.version = served /\ q.asked = now
  BY DiscoverMoves DEF Sound
<1>3. /\ KindOf(k.target) \in FluxKinds /\ FluxInScope(NamespaceOf(k.target))
      /\ n \in 0..MaxHops /\ k.calls \in Nat /\ k.calls <= ClaimCost + 2 * n
  BY <1>1, SoundOnChain
<1>4. Granted(<<KindOf(ref), NamespaceOf(ref)>>)
  BY DEF Granted, KindOf
<1>5. /\ OnTheChain(s, k.calls + 1) /\ Core(s, k) /\ s.pc = k.pc
      /\ IsCollection(s) /\ Allowed(s) /\ s.calls \in Nat
  BY <1>1, <1>2, <1>4, SentOnChain
<1>6. s.flux = k.flux /\ s.target = k.target
  BY <1>5 DEF Core
<1>7. /\ k.calls + 1 \in Nat /\ n <= MaxHops
      /\ k.calls + 1 <= ClaimCost + 2 * n + 1 /\ k.calls + 1 <= ClaimCost + 2 * n + 2
  <2> HIDE DEF n
  <2>1. QED
    BY <1>3, Costs, Bounds
<1>8. CASE Concludes(q, s)
  <2>1. OnTheChain(q, k.calls + 1) /\ Closes(q) /\ Len(q.flux) = n
    BY <1>5, <1>6, <1>8, KeepsOnChain DEF Concludes
  <2>2. OnTheChain(q, ChainCost)
    BY <1>3, <1>7, <2>1, ChainCosts
  <2>3. QED
    BY <2>1, <2>2, ClosesSound
<1>9. CASE Loses(q, s)
  <2>1. OnTheChain(s, ChainCost)
    BY <1>3, <1>5, <1>6, <1>7, ChainCosts
  <2>2. s.calls <= AllCost
    BY <1>5, <2>1, Costs DEF OnTheChain
  <2>3. QED
    BY <1>5, <1>9, <2>2, LosesSound
<1>10. CASE /\ Keeps(q, s) /\ q.flux = s.flux /\ q.target = s.target /\ q.pc = "store"
  <2>1. OnTheChain(q, k.calls + 1)
    BY <1>5, <1>10, KeepsOnChain
  <2>2. q.flux = k.flux /\ q.target = k.target
    BY <1>6, <1>10
  <2>3. QED
    BY <1>3, <1>7, <1>10, <2>1, <2>2, ChainSound DEF OnChain
<1>11. QED
  BY <1>2, <1>8, <1>9, <1>10

LEMMA GetFluxSound ==
    ASSUME NEW c \in DOMAIN collections, Sound(collections[c]), GetFlux(c)
    PROVE  Sound(collections'[c])
<1> DEFINE k == collections[c]
           q == collections'[c]
           n == Len(k.flux)
           more == /\ q.pc = "version" /\ KindOf(q.target) \in FluxKinds
                   /\ Len(k.flux) # MaxHops
<1>1. k.pc = "flux" /\ k.pc \in OnChain
  BY DEF GetFlux, At, OnChain
<1>2. /\ OnTheChain(k, k.calls)
      /\ KindOf(k.target) \in FluxKinds /\ FluxInScope(NamespaceOf(k.target))
      /\ n \in 0..MaxHops /\ k.calls \in Nat /\ k.calls <= ClaimCost + 2 * n + 1
  BY <1>1, SoundOnChain
<1>3. PICK s : /\ MayAsk(s, k, k.target)
               /\ \/ Concludes(q, s) \/ Loses(q, s)
                  \/ Extends(q, s) /\ (Closes(q) \/ more)
  BY <1>2, GetFluxMoves DEF Sound, OnTheChain
<1>4. Granted(<<KindOf(k.target), NamespaceOf(k.target)>>)
  BY <1>2 DEF OnTheChain, Granted, FluxInScope, InScope
<1>5. /\ OnTheChain(s, k.calls + 1) /\ Core(s, k) /\ s.pc = k.pc
      /\ IsCollection(s) /\ Allowed(s) /\ s.calls \in Nat
  BY <1>1, <1>3, <1>4, SentOnChain
<1>6. s.flux = k.flux /\ s.target = k.target
  BY <1>5 DEF Core
<1>7. k.calls + 1 \in Nat /\ n <= MaxHops /\ k.calls + 1 <= ClaimCost + 2 * n + 2
  <2> HIDE DEF n
  <2>1. QED
    BY <1>2, Costs, Bounds
<1>8. CASE Concludes(q, s)
  <2>1. OnTheChain(q, k.calls + 1) /\ Closes(q) /\ Len(q.flux) = n
    BY <1>5, <1>6, <1>8, KeepsOnChain DEF Concludes
  <2>2. OnTheChain(q, ChainCost)
    BY <1>2, <1>7, <2>1, ChainCosts
  <2>3. QED
    BY <2>1, <2>2, ClosesSound
<1>9. CASE Loses(q, s)
  <2>1. OnTheChain(s, ChainCost)
    BY <1>2, <1>5, <1>6, <1>7, ChainCosts
  <2>2. s.calls <= AllCost
    BY <1>5, <2>1, Costs DEF OnTheChain
  <2>3. QED
    BY <1>5, <1>9, <2>2, LosesSound
<1>10. ASSUME Extends(q, s)
       PROVE  OnTheChain(q, k.calls + 1) /\ Len(q.flux) = n + 1
  <2>1. PICK item : item.ref = k.target /\ q.flux = Append(k.flux, item)
    BY <1>6, <1>10 DEF Extends
  <2>2. /\ IsSeq(q.flux) /\ n \in Nat /\ Len(q.flux) = n + 1
        /\ q.flux[n + 1] = item
        /\ \A i \in DOMAIN k.flux : q.flux[i] = k.flux[i]
        /\ DOMAIN k.flux = 1..n /\ DOMAIN q.flux = 1..(n + 1)
    BY <1>2, <2>1, AppendIs DEF OnTheChain
  <2>3. \A i \in DOMAIN q.flux : FluxInScope(NamespaceOf(q.flux[i].ref))
    <3>1. \A i \in DOMAIN q.flux : i \in DOMAIN k.flux \/ i = n + 1
      <4> HIDE DEF n
      <4>1. QED
        BY <2>2
    <3>2. \A i \in DOMAIN k.flux : FluxInScope(NamespaceOf(k.flux[i].ref))
      BY <1>2 DEF OnTheChain
    <3>3. QED
      BY <1>2, <2>1, <2>2, <3>1, <3>2
  <2>4. Len(q.flux) \in 0..(MaxHops + 1)
    <3> HIDE DEF n
    <3>1. QED
      BY <1>2, <2>2, Bounds
  <2>5. /\ IsCollection(q) /\ q.reads = s.reads /\ q.calls = s.calls
        /\ q.got = s.got /\ q.fluxEvents = s.fluxEvents
    BY <1>10 DEF Extends, Keeps, Silent, Found, IsCollection
  <2>6. QED
    BY <1>5, <2>2, <2>3, <2>4, <2>5 DEF OnTheChain
<1>11. CASE Extends(q, s) /\ Closes(q)
  <2>1. OnTheChain(q, k.calls + 1)
    BY <1>10, <1>11
  <2>2. k.calls + 1 <= ChainCost
    <3> HIDE DEF n
    <3>1. QED
      BY <1>2, <1>7, CostsAre
  <2>3. OnTheChain(q, ChainCost)
    <3>1. q.calls \in Nat /\ q.calls <= k.calls + 1
      BY <2>1 DEF OnTheChain
    <3>2. q.calls <= ChainCost
      BY <1>7, <2>2, <3>1, Costs
    <3>3. QED
      BY <2>1, <3>2 DEF OnTheChain
  <2>4. QED
    BY <1>11, <2>3, ClosesSound
<1>12. CASE Extends(q, s) /\ more
  <2>1. OnTheChain(q, k.calls + 1) /\ Len(q.flux) = n + 1
    BY <1>10, <1>12
  <2>2. n + 1 <= MaxHops /\ k.calls + 1 <= ClaimCost + 2 * (n + 1)
    <3>1. n # MaxHops
      BY <1>12
    <3> HIDE DEF n
    <3>2. QED
      BY <1>2, <1>7, <3>1, Costs, Bounds
  <2>3. QED
    BY <1>7, <1>12, <2>1, <2>2, ChainSound DEF OnChain
<1>13. QED
  BY <1>3, <1>8, <1>9, <1>11, <1>12

LEMMA GetFluxEventsSound ==
    ASSUME NEW c \in DOMAIN collections, Sound(collections[c]), GetFluxEvents(c)
    PROVE  Sound(collections'[c])
<1> DEFINE k == collections[c]
           q == collections'[c]
<1>1. k.pc = "flux_events"
  BY GetFluxEventsMoves DEF Sound
<1>2. PICK i \in k.left : \E s :
         /\ \A j \in k.left : i <= j
         /\ MayAsk(s, k, EventsOf(k.flux[i].ref))
         /\ \/ Loses(q, s)
            \/ /\ Hears(q, s, i)
               /\ \A e \in q.got : e \in k.got \/ SameObject(k.flux[i].ref, e.on)
  BY GetFluxEventsMoves DEF Sound
<1>3. PICK s :
         /\ \A j \in k.left : i <= j
         /\ MayAsk(s, k, EventsOf(k.flux[i].ref))
         /\ \/ Loses(q, s)
            \/ /\ Hears(q, s, i)
               /\ \A e \in q.got : e \in k.got \/ SameObject(k.flux[i].ref, e.on)
  BY <1>2
<1>4. /\ Config.flux /\ i \in DOMAIN k.flux /\ k.left \subseteq DOMAIN k.flux
      /\ FluxInScope(NamespaceOf(k.flux[i].ref)) /\ IsSeq(k.flux)
      /\ k.fluxEvents = {} /\ \A e \in k.got : OfChain(e, k.flux)
  BY <1>1, <1>3 DEF Sound, Allowed, Ordered, OfDelivery, AtEnd
<1>5. /\ k.calls \in Nat /\ k.calls <= ChainCost + i - 1 /\ Len(k.flux) <= MaxHops + 1
  BY <1>1, <1>3 DEF Sound, Paid, PaidForDelivery
<1>6. Granted(<<KindOf(EventsOf(k.flux[i].ref)), NamespaceOf(EventsOf(k.flux[i].ref))>>)
  BY <1>4 DEF Granted, FluxInScope, InScope, EventsOf, KindOf, NamespaceOf
<1>7. /\ IsCollection(s) /\ Allowed(s) /\ Ordered(s)
      /\ s.calls \in Nat /\ s.calls <= k.calls + 1
      /\ Core(s, k) /\ SamePods(s, k) /\ s.pc = k.pc
  BY <1>3, <1>6, AskedStays
<1>8. i \in Nat /\ 1 <= i /\ i <= MaxHops + 1
  <2> DEFINE n == Len(k.flux)
  <2>1. DOMAIN k.flux = 1..n /\ n \in Nat /\ n <= MaxHops + 1
    BY <1>4, <1>5, AppendIs
  <2> HIDE DEF n
  <2>2. QED
    BY <1>4, <2>1, Bounds
<1>9. s.calls <= ChainCost + i /\ s.calls <= AllCost
  <2>1. \A a, b, m, x, h \in Nat :
           a <= x + m - 1 /\ b <= a + 1 /\ m <= h + 1 => b <= x + m /\ b <= x + h + 1
    OBVIOUS
  <2>2. ChainCost \in Nat /\ MaxHops \in Nat /\ AllCost = ChainCost + MaxHops + 1
    BY Costs, CostsAre
  <2>3. s.calls <= ChainCost + i /\ s.calls <= ChainCost + MaxHops + 1
    <3> HIDE DEF k
    <3>1. QED
      BY <1>5, <1>7, <1>8, <2>1, <2>2
  <2>4. QED
    BY <2>2, <2>3
<1>10. CASE Loses(q, s)
  BY <1>7, <1>9, <1>10, LosesSound
<1>11. CASE /\ Hears(q, s, i)
            /\ \A e \in q.got : e \in k.got \/ SameObject(k.flux[i].ref, e.on)
  <2>1. /\ IsCollection(q) /\ q.pc = "flux_events" /\ q.flux = k.flux
        /\ q.alert = s.alert /\ q.fluxEvents = {} /\ q.left = k.left \ {i}
        /\ q.reads = s.reads /\ q.calls = s.calls /\ s.flux = k.flux
    BY <1>1, <1>4, <1>7, <1>11 DEF Hears, Base, Silent, Found, Core, IsCollection
  <2>2. Allowed(q)
    BY <1>4, <1>7, <2>1 DEF Allowed, InNamespace, OnChain
  <2>3. \A e \in q.got : OfChain(e, q.flux)
    BY <1>4, <1>11, <2>1 DEF OfChain
  <2>4. Ordered(q)
    BY <1>4, <2>1, <2>3 DEF Ordered, OfDelivery, AtEnd
  <2>5. Paid(q)
    <3>1. PaidForPods(q) /\ PaidForSources(q)
      BY <2>1 DEF PaidForPods, PaidForSources, InFront
    <3>2. ASSUME NEW j \in q.left PROVE q.calls <= ChainCost + j - 1
      <4>1. i <= j /\ i # j /\ j \in DOMAIN k.flux
        BY <1>3, <1>4, <2>1
      <4>2. j \in Nat
        BY <1>4, <4>1, AppendIs
      <4>3. i <= j - 1
        BY <1>8, <4>1, <4>2
      <4>4. QED
        BY <1>7, <1>8, <1>9, <2>1, <4>2, <4>3, Costs
    <3>3. PaidForDelivery(q)
      BY <1>5, <2>1, <3>2 DEF PaidForDelivery, OnChain
    <3>4. QED
      BY <1>7, <1>9, <2>1, <3>1, <3>3 DEF Paid, Places, OfDelivery
  <2>6. QED
    BY <2>1, <2>2, <2>4, <2>5 DEF Sound
<1>12. QED
  BY <1>3, <1>10, <1>11

LEMMA KeepFluxEventsSound ==
    ASSUME NEW c \in DOMAIN collections, Sound(collections[c]),
           KeepFluxEvents(c) \/ Decide(c)
    PROVE  Sound(collections'[c])
<1> DEFINE k == collections[c]
           q == collections'[c]
<1>1. CASE KeepFluxEvents(c)
  <2>1. /\ k.pc = "flux_events" /\ q.pc = "decide"
        /\ DOMAIN q = Fields /\ Silent(q, k) /\ q.alert = k.alert
        /\ q.flux = k.flux /\ q.stale = k.stale
        /\ q.fluxEvents \subseteq k.got
    BY <1>1, KeepFluxEventsMoves DEF Sound
  <2>2. Allowed(q)
    BY <2>1 DEF Sound, Allowed, Silent, Found, InNamespace, OfDelivery, OnChain
  <2>3. Ordered(q)
    BY <2>1 DEF Sound, Ordered, OfDelivery, OnChain, AtEnd
  <2>4. Paid(q)
    BY <2>1, EndPaid DEF Sound, Paid, Silent, Found, AtEnd
  <2>5. QED
    BY <2>1, <2>2, <2>3, <2>4 DEF Sound, IsCollection
<1>2. CASE Decide(c)
  <2>1. k.pc = "decide" /\ Moves(q, k, "done")
    BY <1>2, DecideMoves DEF Sound
  <2>2. Allowed(q)
    BY <2>1, MovesAllowed DEF Sound, InNamespace, OfDelivery, OnChain
  <2>3. Ordered(q)
    BY <2>1, MovesOrdered DEF Sound, AtEnd
  <2>4. Paid(q)
    BY <2>1, EndPaid DEF Sound, Paid, Moves, Silent, Found, AtEnd
  <2>5. QED
    BY <2>1, <2>2, <2>3, <2>4, Steps DEF Sound
<1>3. QED
  BY <1>1, <1>2

LEMMA StepSound ==
    ASSUME NEW c \in DOMAIN collections, Sound(collections[c]), FiniteCluster, Step(c)
    PROVE  Sound(collections'[c])
<1>1. CASE Filter(c) \/ Triage(c) \/ QueryLogs(c) \/ QueryMetrics(c) \/ CheckScope(c)
  BY <1>1, FrontSound, CheckScopeSound
<1>2. CASE GetPod(c) \/ GetWorkload(c) \/ NoPods(c) \/ ListPods(c) \/ ParseNextPod(c)
           \/ FollowOwner(c)
  BY <1>2, GetPodSound, GetWorkloadSound, ListPodsSound, ParseNextPodSound,
     FollowOwnerSound
<1>3. CASE ChooseSources(c) \/ GetEvents(c) \/ KeepEvents(c)
           \/ NoClaim(c) \/ GetClaim(c) \/ GetClaimEvents(c) \/ MergeEvents(c) \/ GetNode(c)
  BY <1>3, ChooseSourcesSound, GetEventsSound, KeepSound, ClaimSound, GetNodeSound
<1>4. CASE ResolveTarget(c) \/ ResolveVersion(c) \/ Discover(c) \/ StoreVersion(c)
           \/ GetFlux(c) \/ GetFluxEvents(c) \/ KeepFluxEvents(c) \/ Decide(c)
  BY <1>4, ResolveTargetSound, ResolveVersionSound, DiscoverSound, StoreVersionSound,
     GetFluxSound, GetFluxEventsSound, KeepFluxEventsSound
<1>5. QED
  BY <1>1, <1>2, <1>3, <1>4 DEF Step

-----------------------------------------------------------------------------
(* What a step leaves alone.                                               *)

OnlyOf(c) == \E x : collections' = [collections EXCEPT ![c] = x]

LEMMA StepIsOne ==
    ASSUME NEW c \in DOMAIN collections, Step(c)
    PROVE  /\ OnlyOf(c) /\ Outside
           /\ UNCHANGED cached \/ StoreVersion(c)
<1>1. CASE Filter(c) \/ CheckScope(c) \/ NoPods(c) \/ ParseNextPod(c) \/ ChooseSources(c)
           \/ KeepEvents(c) \/ NoClaim(c) \/ MergeEvents(c)
  BY <1>1 DEF Filter, CheckScope, NoPods, ParseNextPod, ChooseSources, KeepEvents, NoClaim,
              MergeEvents, Becomes, Local, OnlyOf
<1>2. CASE Triage(c) \/ QueryLogs(c) \/ QueryMetrics(c)
  BY <1>2 DEF Triage, QueryLogs, QueryMetrics, Becomes, OnlyOf
<1>3. CASE ResolveTarget(c) \/ ResolveVersion(c) \/ StoreVersion(c) \/ KeepFluxEvents(c)
           \/ Decide(c)
  BY <1>3 DEF ResolveTarget, ResolveVersion, StoreVersion, KeepFluxEvents, Decide, Becomes,
              Local, OnlyOf
<1>4. CASE GetPod(c) \/ GetWorkload(c)
  BY <1>4 DEF GetPod, GetWorkload, Get, Request, Becomes, OnlyOf
<1>5. CASE ListPods(c)
  BY <1>5 DEF ListPods, Request, Becomes, OnlyOf
<1>6. CASE FollowOwner(c)
  BY <1>6 DEF FollowOwner, Get, Request, Becomes, Local, OnlyOf
<1>7. CASE GetEvents(c) \/ GetClaimEvents(c) \/ GetFluxEvents(c)
  BY <1>7 DEF GetEvents, GetClaimEvents, GetFluxEvents, ListEvents, Request, Becomes, OnlyOf
<1>8. CASE GetClaim(c) \/ GetNode(c)
  BY <1>8 DEF GetClaim, GetNode, Get, Request, Becomes, Local, OnlyOf
<1>9. CASE Discover(c) \/ GetFlux(c)
  BY <1>9 DEF Discover, GetFlux, Get, Request, Becomes, OnlyOf
<1>10. QED
  BY <1>1, <1>2, <1>3, <1>4, <1>5, <1>6, <1>7, <1>8, <1>9 DEF Step

(* No version comes into use, and none was asked for.                      *)
Calm(q, k) == q.stale = k.stale /\ q.pc # "store"

LEMMA Calming ==
    /\ \A q, s, l : Moves(q, s, l) \/ Shifts(q, s, l) \/ (\E x : Learns(q, s, l, x)) =>
          (l # "store" => Calm(q, s))
    /\ \A q, s : Core(q, s) /\ q.pc # "store" => Calm(q, s)
    /\ \A q, s : Base(q, s) /\ q.pc # "store" => Calm(q, s)
    /\ \A q, s, l : Settles(q, s, l) /\ l # "store" => Calm(q, s)
    /\ \A q, s : Loses(q, s) => Calm(q, s)
    /\ \A q, s, k, ref : Calm(q, s) /\ MayAsk(s, k, ref) => Calm(q, k)
BY DEF Calm, Moves, Shifts, Learns, Core, Base, Settles, Loses, MayAsk, Asks

LEMMA StepCalm ==
    ASSUME NEW c \in DOMAIN collections, Sound(collections[c]), FiniteCluster, Step(c)
    PROVE  LET k == collections[c]
               q == collections'[c]
           IN  \/ Calm(q, k)
               \/ Discover(c) /\ q.stale = k.stale /\ q.version = served /\ q.asked = now
               \/ ResolveVersion(c) /\ IsFresh /\ Takes(q, k, cached.version)
               \/ StoreVersion(c)
<1> DEFINE k == collections[c]
           q == collections'[c]
<1>1. IsCollection(k) /\ IsSeq(k.flux) /\ (k.pc = "owners" => HasPod(k))
  BY DEF Sound, Ordered, Paid, PaidForPods
<1>2. \A s, ref : MayAsk(s, k, ref) => s.stale = k.stale
  BY DEF MayAsk, Asks, Core
<1>3. CASE Filter(c) \/ Triage(c) \/ QueryLogs(c) \/ QueryMetrics(c) \/ CheckScope(c)
  BY <1>1, <1>3, FrontMoves, CheckScopeMoves DEF Calm, Moves, Core, InFront
<1>4. CASE GetPod(c) \/ GetWorkload(c) \/ NoPods(c)
  BY <1>1, <1>2, <1>4, GetPodMoves, GetWorkloadMoves, NoPodsMoves
  DEF Calm, Moves, Shifts, Learns, Core, Loses
<1>5. CASE ListPods(c)
  <2>1. PICK s : /\ MayAsk(s, k, <<"Pod", AlertNamespace(k), "*">>)
                 /\ \/ Moves(q, s, "sources") \/ Loses(q, s)
                    \/ Core(q, s) /\ q.pc \in {"sources", "parse"}
    BY <1>1, <1>5, ListPodsMoves
  <2>2. QED
    BY <2>1, Calming
<1>6. CASE ParseNextPod(c)
  BY <1>1, <1>6, ParseNextPodMoves, Calming
<1>7. CASE FollowOwner(c)
  <2>1. k.pc = "owners"
    BY <1>7 DEF FollowOwner, At
  <2>2. \A j : AfterWalk(j) \in {"parse", "sources"}
    BY DEF AfterWalk
  <2>3. CASE Moves(q, k, AfterWalk(k))
    BY <2>2, <2>3, Calming
  <2>4. ASSUME NEW ref, NEW s, MayAsk(s, k, ref), Climbs(q, s, ref) \/ Loses(q, s)
        PROVE  Calm(q, k)
    <3>1. CASE Climbs(q, s, ref)
      <4>1. PICK g : /\ Grows(g, s)
                     /\ \E l \in {"owners", AfterWalk(s)} : Shifts(q, g, l)
        BY <3>1, Steps DEF Climbs, Learns
      <4>2. Calm(q, g) /\ g.stale = s.stale
        BY <2>2, <4>1, Calming DEF Grows, Core
      <4>3. Calm(q, s)
        BY <4>2 DEF Calm
      <4>4. QED
        BY <2>4, <4>3, Calming
    <3>2. QED
      BY <2>4, <3>1, Calming
  <2>5. QED
    BY <1>1, <1>7, <2>1, <2>3, <2>4, FollowOwnerMoves
<1>8. CASE ChooseSources(c) \/ KeepEvents(c) \/ MergeEvents(c)
  BY <1>1, <1>8, ChooseSourcesMoves, KeepMoves, Calming
<1>9. CASE GetEvents(c)
  <2>1. PICK ref, s : /\ MayAsk(s, k, ref)
                      /\ \E i : Hears(q, s, i) \/ Loses(q, s)
    BY <1>1, <1>9, GetEventsMoves
  <2>2. k.pc = "events" /\ s.pc = k.pc
    BY <1>9, <2>1 DEF GetEvents, At, MayAsk, Asks
  <2>3. QED
    BY <2>1, <2>2, Calming DEF Hears
<1>10. CASE NoClaim(c) \/ GetClaim(c) \/ GetClaimEvents(c) \/ GetNode(c)
  BY <1>1, <1>2, <1>10, ClaimMoves, GetClaimEventsMoves, GetNodeMoves
  DEF Calm, Moves, Core, Base, Loses
<1>11. CASE ResolveTarget(c) \/ ResolveVersion(c)
  BY <1>1, <1>11, ResolveTargetMoves, ResolveVersionMoves
  DEF Calm, Moves, Core, Concludes, Closes
<1>12. CASE Discover(c)
  BY <1>1, <1>2, <1>12, DiscoverMoves DEF Calm, Concludes, Closes, Loses
<1>13. CASE GetFlux(c)
  BY <1>1, <1>2, <1>13, GetFluxMoves DEF Calm, Concludes, Extends, Closes, Loses
<1>14. CASE GetFluxEvents(c) \/ KeepFluxEvents(c) \/ Decide(c)
  BY <1>1, <1>2, <1>14, GetFluxEventsMoves, KeepFluxEventsMoves, DecideMoves
  DEF Calm, Moves, Core, Base, Hears, Loses, MayAsk, Asks
<1>15. QED
  BY <1>3, <1>4, <1>5, <1>6, <1>7, <1>8, <1>9, <1>10, <1>11, <1>12,
      <1>13, <1>14 DEF Step

-----------------------------------------------------------------------------
(* The invariant.                                                          *)

LEMMA FreshSound ==
    ASSUME NEW alert
    PROVE  Sound(Fresh(alert)) /\ Fresh(alert).stale = 0 /\ Fresh(alert).pc = "filter"
<1> DEFINE k == Fresh(alert)
<1>1. /\ IsCollection(k) /\ k.pc = "filter" /\ k.reads = {} /\ k.flux = <<>>
      /\ k.fluxEvents = {} /\ k.got = {} /\ k.pods = <<>> /\ k.raw = <<>>
      /\ k.calls = 0 /\ k.stale = 0
  BY DEF Fresh, IsCollection, Fields
<1> HIDE DEF k
<1>2. DOMAIN k.flux = {} /\ IsSeq(k.flux)
  <2>1. <<>> \in Seq({}) /\ DOMAIN <<>> = {}
    OBVIOUS
  <2>2. QED
    BY <1>1, <2>1 DEF IsSeq
<1>3. Allowed(k)
  BY <1>1, <1>2 DEF Allowed, InNamespace, OfDelivery, OnChain
<1>4. Ordered(k)
  BY <1>1, <1>2 DEF Ordered, OfDelivery, OnChain, AtEnd
<1>5. Paid(k)
  <2>1. PaidForPods(k) /\ PaidForSources(k) /\ PaidForDelivery(k)
    BY <1>1 DEF PaidForPods, PaidForSources, PaidForDelivery, InFront, OnChain
  <2>2. QED
    BY <1>1, <2>1, Costs DEF Paid, Places, InFront
<1>6. QED
  BY <1>1, <1>3, <1>4, <1>5 DEF Sound, k

LEMMA InitInv ==
    Init => EvidenceInv
<1> SUFFICES ASSUME Init PROVE EvidenceInv
  OBVIOUS
<1>1. world \in DOMAIN AllOf /\ cluster = World.cluster
  BY DEF Init
<1>2. FiniteCluster
  BY <1>1, FiniteWorlds DEF FiniteCluster, World
<1>3. Clocks
  BY DEF Init, Clocks
<1>4. ASSUME NEW c \in DOMAIN collections
      PROVE  Sound(collections[c]) /\ Timely(collections[c])
  <2>1. collections[c] = Fresh(World.alerts[c])
    BY DEF Init
  <2>2. Sound(collections[c])
    BY <2>1, FreshSound
  <2>3. Timely(collections[c])
    <3>1. 0 <= Ttl
      BY EvidenceBounds
    <3>2. collections[c].stale = 0 /\ collections[c].pc = "filter"
      BY <2>1, FreshSound
    <3>3. QED
      BY <3>1, <3>2 DEF Timely
  <2>4. QED
    BY <2>2, <2>3
<1>5. QED
  BY <1>1, <1>2, <1>3, <1>4 DEF EvidenceInv

(* A collection whose place and data did not change.                       *)
LEMMA SameSound ==
    ASSUME NEW k, NEW q, Sound(k), Shifts(q, k, k.pc)
    PROVE  Sound(q)
<1>1. /\ IsCollection(q) /\ q.pc = k.pc /\ q.alert = k.alert /\ q.target = k.target
      /\ q.flux = k.flux /\ q.got = k.got /\ q.fluxEvents = k.fluxEvents
      /\ q.left = k.left /\ q.reads = k.reads /\ q.calls = k.calls
      /\ q.raw = k.raw /\ q.pods = k.pods
  BY DEF Shifts, Core, Quiet, SamePods, IsCollection
<1>2. Allowed(q)
  BY <1>1 DEF Sound, Allowed, AlertNamespace
<1>3. Ordered(q)
  BY <1>1 DEF Sound, Ordered
<1>4. HasPod(q) <=> HasPod(k)
  BY <1>1 DEF HasPod, Chain
<1>5. Chain(q) = Chain(k)
  BY <1>1 DEF Chain
<1>6. PaidForPods(q)
  BY <1>1, <1>4, <1>5 DEF Sound, Paid, PaidForPods
<1>7. PaidForSources(q) /\ PaidForDelivery(q)
  BY <1>1 DEF Sound, Paid, PaidForSources, PaidForDelivery
<1>8. QED
  BY <1>1, <1>2, <1>3, <1>6, <1>7 DEF Sound, Paid

(* What is granted depends on the world alone, which stays.                *)
LEMMA SoundLater ==
    ASSUME NEW c, world' = world, Sound(collections'[c])
    PROVE  Sound(collections[c])'
BY DEF Sound, Allowed, Granted, InScope, FluxInScope, Config, World, AlertNamespace

LEMMA UnsettledIsSame ==
    ASSUME NEW c \in DOMAIN collections, IsCollection(collections[c]), Unsettled
    PROVE  /\ DOMAIN collections' = DOMAIN collections
           /\ Shifts(collections'[c], collections[c], collections[c].pc)
           /\ collections'[c].steady = FALSE
BY DEF Unsettled, Shifts, Core, Quiet, SamePods, IsCollection, Fields

LEMMA StepInv ==
    ASSUME NEW c \in DOMAIN collections, EvidenceInv, Step(c)
    PROVE  EvidenceInv'
<1> DEFINE k == collections[c]
           q == collections'[c]
<1>1. Sound(k) /\ Timely(k) /\ FiniteCluster /\ Clocks
  BY DEF EvidenceInv
<1>2. /\ UNCHANGED <<world, cluster, served, since, now>>
      /\ UNCHANGED cached \/ StoreVersion(c)
      /\ DOMAIN collections' = DOMAIN collections
      /\ \A d \in DOMAIN collections : d # c => collections'[d] = collections[d]
  BY StepIsOne DEF OnlyOf, Outside
<1>3. Sound(q)
  BY <1>1, StepSound
<1>4. k.pc = "store" => k.asked \in {now - 1, now} /\ k.asked \in Nat
                        /\ (k.version # served => since >= k.asked)
  BY <1>1 DEF Timely
<1>5. /\ Ttl \in Nat /\ Ttl >= 1 /\ now \in Nat /\ since \in Nat /\ since <= now
      /\ cached.at \in Int /\ cached.at <= now
      /\ cached.at >= 0 /\ cached.version # served => since >= cached.at - 1
  BY <1>1, EvidenceBounds DEF Clocks
<1>6. /\ q.stale <= Ttl
      /\ q.pc = "store" => /\ q.asked \in Nat /\ q.asked \in {now - 1, now}
                           /\ q.version # served => since >= q.asked
  <2>1. CASE Calm(q, k)
    BY <1>1, <2>1 DEF Calm, Timely
  <2>2. CASE Discover(c) /\ q.stale = k.stale /\ q.version = served /\ q.asked = now
    BY <1>1, <1>5, <2>2 DEF Timely
  <2>3. CASE ResolveVersion(c) /\ IsFresh /\ Takes(q, k, cached.version)
    <3>1. cached.at >= 0 /\ now - cached.at < Ttl
      BY <2>3 DEF IsFresh
    <3>2. cached.version # served => now - since <= Ttl
      BY <1>5, <3>1
    <3>3. q.stale <= Ttl
      BY <1>5, <2>3, <3>2 DEF Takes
    <3>4. q.pc # "store"
      BY <2>3 DEF Takes, Closes
    <3>5. QED
      BY <3>3, <3>4
  <2>4. CASE StoreVersion(c)
    <3>1. k.pc = "store" /\ Takes(q, k, k.version)
      BY <1>1, <2>4, StoreVersionMoves DEF Sound
    <3>2. k.version # served => now - since <= Ttl
      BY <1>4, <1>5, <3>1
    <3>3. q.stale <= Ttl
      BY <1>5, <3>1, <3>2 DEF Takes
    <3>4. q.pc # "store"
      BY <3>1 DEF Takes, Closes
    <3>5. QED
      BY <3>3, <3>4
  <2>5. QED
    BY <1>1, <2>1, <2>2, <2>3, <2>4, StepCalm
<1>7. Clocks'
  <2>1. CASE UNCHANGED cached
    BY <1>1, <1>2, <2>1 DEF Clocks
  <2>2. CASE StoreVersion(c)
    <3>1. k.pc = "store" /\ cached' = [version |-> k.version, at |-> now]
      BY <1>1, <2>2, StoreVersionMoves DEF Sound
    <3>2. /\ cached'.at = now /\ cached'.version = k.version
          /\ k.version # served => since >= now - 1
      BY <1>4, <1>5, <3>1
    <3>3. QED
      BY <1>1, <1>2, <1>5, <3>2 DEF Clocks
  <2>3. QED
    BY <1>2, <2>1, <2>2
<1>8. FiniteCluster' /\ (world \in DOMAIN AllOf)'
  BY <1>1, <1>2 DEF FiniteCluster, EvidenceInv, AllOf
<1>9. ASSUME NEW d \in DOMAIN collections
      PROVE  Sound(collections[d])' /\ Timely(collections[d])'
  <2>1. CASE d = c
    <3>1. Sound(collections[d])'
      BY <1>2, <1>3, <2>1, SoundLater
    <3>2. QED
      BY <1>2, <1>6, <2>1, <3>1 DEF Timely
  <2>2. CASE d # c
    <3>1. collections'[d] = collections[d] /\ Sound(collections[d]) /\ Timely(collections[d])
      BY <1>2, <2>2 DEF EvidenceInv
    <3>2. Sound(collections[d])'
      BY <1>2, <3>1, SoundLater
    <3>3. QED
      BY <1>2, <3>1, <3>2 DEF Timely
  <2>3. QED
    BY <2>1, <2>2
<1>10. QED
  BY <1>2, <1>7, <1>8, <1>9 DEF EvidenceInv

LEMMA ClusterInv ==
    ASSUME EvidenceInv, Change \/ Upgrade \/ Tick
    PROVE  EvidenceInv'
<1>1. /\ Clocks /\ FiniteCluster /\ world \in DOMAIN AllOf /\ world' = world
      /\ UNCHANGED cached
  BY DEF EvidenceInv, Change, Upgrade, Tick
<1>2. FiniteCluster'
  <2>1. CASE Change
    <3>1. cluster' \in AllOf[world].changes
      BY <2>1 DEF Change, World
    <3>2. QED
      BY <1>1, <3>1, FiniteWorlds DEF FiniteCluster
  <2>2. CASE Upgrade \/ Tick
    BY <1>1, <2>2 DEF FiniteCluster, Upgrade, Tick
  <2>3. QED
    BY <2>1, <2>2
<1>3. Clocks'
  BY <1>1 DEF Clocks, Change, Upgrade, Tick
<1>4. /\ DOMAIN collections' = DOMAIN collections
      /\ \A d \in DOMAIN collections :
            /\ Sound(collections'[d])
            /\ collections'[d].pc = collections[d].pc
            /\ collections'[d].stale = collections[d].stale
            /\ collections'[d].asked = collections[d].asked
            /\ collections'[d].version = collections[d].version
  <2>1. CASE Change \/ Upgrade
    <3>1. Unsettled
      BY <2>1 DEF Change, Upgrade
    <3>2. DOMAIN collections' = DOMAIN collections
      BY <3>1 DEF Unsettled
    <3>3. ASSUME NEW d \in DOMAIN collections
          PROVE  /\ Sound(collections'[d])
                 /\ collections'[d].pc = collections[d].pc
                 /\ collections'[d].stale = collections[d].stale
                 /\ collections'[d].asked = collections[d].asked
                 /\ collections'[d].version = collections[d].version
      <4>1. Sound(collections[d]) /\ IsCollection(collections[d])
        BY DEF EvidenceInv, Sound
      <4>2. Shifts(collections'[d], collections[d], collections[d].pc)
        BY <3>1, <4>1, UnsettledIsSame
      <4>3. QED
        BY <4>1, <4>2, SameSound DEF Shifts, Core
    <3>4. QED
      BY <3>2, <3>3
  <2>2. CASE Tick
    BY <2>2 DEF Tick, EvidenceInv
  <2>3. QED
    BY <2>1, <2>2
<1>5. ASSUME NEW d \in DOMAIN collections
      PROVE  Sound(collections[d])' /\ Timely(collections[d])'
  <2>1. Sound(collections[d])'
    BY <1>1, <1>4, SoundLater
  <2>2. Timely(collections[d])
    BY DEF EvidenceInv
  <2>3. Timely(collections[d])'
    <3>1. CASE Change
      BY <1>4, <2>2, <3>1 DEF Change, Timely
    <3>2. CASE Upgrade
      BY <1>1, <1>4, <2>2, <3>2 DEF Upgrade, Timely, Clocks
    <3>3. CASE Tick
      BY <1>1, <1>4, <2>2, <3>3 DEF Tick, At, Timely, Clocks
    <3>4. QED
      BY <3>1, <3>2, <3>3
  <2>4. QED
    BY <2>1, <2>3
<1>6. QED
  BY <1>1, <1>2, <1>3, <1>4, <1>5 DEF EvidenceInv

(* The inductive invariant behind what follows: what was read and where    *)
(* the collection may go from its place, what it has spent at most to get  *)
(* there, what its events are about and how old its version is.            *)
THEOREM EvidenceInvariant == Spec => []EvidenceInv
<1>1. ASSUME EvidenceInv, [Next]_vars
      PROVE  EvidenceInv'
  <2>1. CASE \E c \in DOMAIN collections : Step(c)
    BY <1>1, <2>1, StepInv
  <2>2. CASE Change \/ Upgrade \/ Tick
    BY <1>1, <2>2, ClusterInv
  <2>3. CASE UNCHANGED vars
    <3>1. UNCHANGED <<world, cluster, served, since, cached, now, collections>>
      BY <2>3 DEF vars
    <3>2. \A c \in DOMAIN collections : Sound(collections'[c])
      BY <1>1, <3>1 DEF EvidenceInv
    <3>3. \A c \in DOMAIN collections : Sound(collections[c])' /\ Timely(collections[c])'
      BY <1>1, <3>1, <3>2, SoundLater DEF EvidenceInv, Timely
    <3>4. QED
      BY <1>1, <3>1, <3>3 DEF EvidenceInv, FiniteCluster, Clocks, AllOf
  <2>4. QED
    BY <1>1, <2>1, <2>2, <2>3 DEF Next
<1>2. QED
  BY <1>1, InitInv, PTL DEF Spec

(* Every read is granted by the chart, wherever owners, labels and sources *)
(* lead: ReadsAreGranted, for every cluster and every alert.               *)
THEOREM ReadsGranted == Spec => []ReadsAreGranted
<1>1. EvidenceInv => ReadsAreGranted
  BY DEF EvidenceInv, Sound, Allowed, Granted, ReadsAreGranted
<1>2. QED
  BY <1>1, EvidenceInvariant, PTL

(* What is shown as the events of a delivery is about an object of its     *)
(* chain, although events are listed by name: EventsBelong.                *)
THEOREM EventsBelongToTheChain == Spec => []EventsBelong
<1>1. EvidenceInv => EventsBelong
  BY DEF EvidenceInv, Sound, Ordered, OfChain, EventsBelong
<1>2. QED
  BY <1>1, EvidenceInvariant, PTL

(* The version in use was served at some time within the lifetime of the   *)
(* cache, although a discovery may be stored after a later change.         *)
THEOREM VersionIsRecent == Spec => []StaleNoLongerThanTtl
<1>1. EvidenceInv => StaleNoLongerThanTtl
  BY DEF EvidenceInv, Timely, StaleNoLongerThanTtl
<1>2. QED
  BY <1>1, EvidenceInvariant, PTL

(* Owners in a circle, chains of sources and many pods cost the API server *)
(* no more requests than the limits allow, for every value of them.        *)
THEOREM RequestsAreBounded == Spec => []RoundTripsAreBounded
<1>1. AllCost = 2 + MaxPods * MaxDepth + MaxSources + 2 + 1 + 3 * (MaxHops + 1)
  <2>1. \A a, b \in Nat : a * b = b * a /\ a * b \in Nat
    OBVIOUS
  <2>2. OwnerCost(MaxPods) = MaxPods * MaxDepth /\ OwnerCost(MaxPods) \in Nat
    BY <2>1, Bounds DEF OwnerCost
  <2>3. QED
    BY <2>2, Bounds DEF AllCost, ChainCost, ClaimCost, SourceCost, PodCost
<1>2. EvidenceInv => RoundTripsAreBounded
  BY <1>1 DEF EvidenceInv, Sound, Paid, RoundTripsAreBounded
<1>3. QED
  BY <1>2, EvidenceInvariant, PTL

-----------------------------------------------------------------------------
(* Which object delivers what has some labels.                             *)

Below == {pair \in Nat \X Nat : pair[1] < pair[2]}

LEMMA NoEndlessDescent == IsWellFoundedOn(Below, Nat)
  BY ONLY NatLessThanWellFounded, Zenon DEF OpToRel, Below

LEMMA Least ==
    ASSUME NEW T, T \subseteq Nat, T # {}
    PROVE  Min(T) \in T /\ \A n \in T : Min(T) <= n
<1>1. PICK m \in T : \A n \in T : ~(<<n, m>> \in Below)
  BY WFMin, NoEndlessDescent
<1>2. ASSUME NEW n \in T PROVE m <= n
  <2>1. <<n, m>> \in Nat \X Nat
    OBVIOUS
  <2>2. ~(n < m)
    BY <1>1, <2>1 DEF Below
  <2>3. QED
    BY <2>2
<1>3. QED
  BY <1>1, <1>2 DEF Min

(* The first label that names an object is one of the labels.              *)
LEMMA DeliveredIsLabelled ==
    ASSUME NEW labels, IsSeq(labels), \A i \in DOMAIN labels : IsSeq(labels[i]),
           DeliveredBy(labels) # NoObject
    PROVE  \E i \in DOMAIN labels : DeliveredBy(labels) \in Range(labels[i])
<1> DEFINE known(refs) == {j \in 1..Len(refs) : refs[j] # NoObject}
           first(refs) == IF known(refs) # {} THEN Min(known(refs)) ELSE 0
           labelled == {j \in 1..Len(labels) : first(labels[j]) # 0}
           i == Min(labelled)
<1>1. DeliveredBy(labels) = IF labelled = {} THEN NoObject
                            ELSE IF i = 0 THEN NoObject ELSE labels[i][first(labels[i])]
  BY DEF DeliveredBy, SelectInSeq
<1>2. labelled # {}
  BY <1>1
<1>3. i \in labelled
  <2>1. labelled \subseteq Nat
    OBVIOUS
  <2> HIDE DEF labelled
  <2>2. QED
    BY <1>2, <2>1, Least
<1>4. i \in DOMAIN labels
  <2>1. i \in 1..Len(labels)
    BY <1>3
  <2> HIDE DEF i
  <2>2. QED
    BY <2>1, AppendIs
<1>5. first(labels[i]) # 0
  BY <1>3
<1>6. known(labels[i]) # {}
  BY <1>5
<1> HIDE DEF labelled, i
<1>7. first(labels[i]) \in known(labels[i])
  <2>1. known(labels[i]) \subseteq Nat
    OBVIOUS
  <2>2. first(labels[i]) = Min(known(labels[i]))
    BY <1>6
  <2> HIDE DEF known
  <2>3. QED
    BY <1>6, <2>1, <2>2, Least
<1>8. first(labels[i]) \in 1..Len(labels[i])
  BY <1>7
<1> HIDE DEF first
<1>9. first(labels[i]) \in DOMAIN labels[i]
  BY <1>4, <1>8, AppendIs
<1>10. DeliveredBy(labels) = labels[i][first(labels[i])]
  BY <1>1, <1>2, <1>3, <1>4
<1>11. QED
  BY <1>4, <1>9, <1>10 DEF Range

(* When a pod is sick, the first of those that are shown is.               *)
LEMMA SickComesFirst ==
    ASSUME NEW pods, IsFiniteSet(DOMAIN pods), NEW list \in Shown(pods),
           NEW p \in DOMAIN pods, ~IsHealthy(pods[p])
    PROVE  1 \in DOMAIN list /\ list[1] \in DOMAIN pods /\ ~IsHealthy(pods[list[1]])
<1> DEFINE S == DOMAIN pods
           n == Cardinality(S)
<1>1. PICK l \in SetToSeqs(S) :
         /\ list = SubSeq(l, 1, Min2(MaxPods, Len(l)))
         /\ \A i, j \in DOMAIN l : i < j => ~RanksBefore(pods[l[j]], pods[l[i]])
  BY DEF Shown
<1>2. n \in Nat /\ n # 0
  BY FS_CardinalityType, FS_EmptySet
<1>3. l \in [1..n -> S] /\ \A i, j \in 1..n : i # j => l[i] # l[j]
  BY <1>1 DEF SetToSeqs
<1> HIDE DEF S, n
<1>4. \E j \in 1..n : l[j] = p
  <2>1. l \in Injection(1..n, S)
    BY <1>3 DEF Injection, IsInjective
  <2>2. IsFiniteSet(1..n) /\ Cardinality(1..n) = n
    BY <1>2, FS_Interval
  <2>3. l \in Surjection(1..n, S)
    BY <2>1, <2>2, FS_Injection DEF n, S
  <2>4. QED
    BY <2>3 DEF Surjection, S
<1>5. l \in Seq(S) /\ Len(l) = n /\ DOMAIN l = 1..n
  BY <1>2, <1>3
<1>6. Min2(MaxPods, Len(l)) \in Nat /\ 1 <= Min2(MaxPods, Len(l))
      /\ Min2(MaxPods, Len(l)) <= n
  BY <1>2, <1>5, EvidenceBounds DEF Min2
<1>7. 1 \in DOMAIN list /\ list[1] = l[1]
  <2> DEFINE m == Min2(MaxPods, Len(l))
  <2> HIDE DEF m
  <2>1. m \in 1..Len(l)
    BY <1>2, <1>5, <1>6 DEF m
  <2>2. list = SubSeq(l, 1, m)
    BY <1>1 DEF m
  <2>3. QED
    BY <1>5, <2>1, <2>2
<1>8. ~IsHealthy(pods[l[1]])
  <2>1. PICK j \in 1..n : l[j] = p
    BY <1>4
  <2>2. CASE j = 1
    BY <2>1, <2>2
  <2>3. CASE j # 1
    <3>1. 1 < j /\ 1 \in DOMAIN l /\ j \in DOMAIN l
      BY <1>2, <1>5, <2>3
    <3>2. ~RanksBefore(pods[p], pods[l[1]])
      BY <1>1, <2>1, <3>1
    <3>3. QED
      BY <3>2 DEF RanksBefore
  <2>4. QED
    BY <2>2, <2>3
<1>9. QED
  BY <1>2, <1>3, <1>7, <1>8 DEF S

-----------------------------------------------------------------------------
(* What a collection was led by, in a cluster that stays as it is.         *)

(* The pods of the alert and their owners, n controllers up.               *)
Kin(k, n) ==
    CASE n = 0 -> PodsOf(k)
      [] n = 1 -> WithControllers(PodsOf(k))
      [] n = 2 -> WithControllers(WithControllers(PodsOf(k)))
      [] n = 3 -> WithControllers(WithControllers(WithControllers(PodsOf(k))))
      [] n = 4 -> WithControllers(WithControllers(WithControllers(
                      WithControllers(PodsOf(k)))))

AtPods == {"parse", "owners"}

Sick(k, name) ==
    LET ref == <<"Pod", AlertNamespace(k), name>>
    IN  ref \in DOMAIN cluster.objects /\ ~IsHealthy(cluster.objects[ref])

(* The pods that are shown, or will be.                                    *)
IsShown(k, name) ==
    \/ \E i \in DOMAIN k.pods : k.pods[i].name = name
    \/ k.pc \in AtPods /\ \E i \in DOMAIN k.raw : k.raw[i][1] = name

(* The list is that of the workload that the alert names,                  *)
SelectsItsPods(k) ==
    k.pc = "list" =>
        /\ NameOf(PodRef(k)) = Nobody /\ Workload(k) \in DOMAIN cluster.objects
        /\ k.selector = cluster.objects[Workload(k)].selector

(* the pods are the alert's,                                               *)
HoldsItsPods(k) ==
    k.pc \in AtPods =>
        \A i \in DOMAIN k.raw : \E ref \in PodsOf(k) : k.raw[i] = ReadPod(ref)

(* and so are those that were parsed,                                      *)
KeepsItsPods(k) ==
    \A i \in DOMAIN k.pods : \E ref \in PodsOf(k) :
        k.pods[i].name = NameOf(ref) /\ k.pods[i].spec = SpecOf(cluster.objects[ref])

(* of which a sick one is among those shown,                               *)
ShowsASickPod(k) ==
    /\ Cardinality(PodsOf(k)) <= ScanLimit
    /\ \E ref \in PodsOf(k) : Sick(k, NameOf(ref))
    /\ \E name : IsShown(k, name)
    => \E name : IsShown(k, name) /\ Sick(k, name)

(* the walk is along their owners, of which the properties know four,      *)
WalksItsOwners(k) ==
    MaxDepth <= 4 /\ k.pc = "owners" =>
        \E ref \in Kin(k, Len(Chain(k))) \cap DOMAIN cluster.objects :
            k.walk = cluster.objects[ref] /\ NamespaceOf(ref) = AlertNamespace(k)

(* the labels are those of objects on that walk,                           *)
KnowsItsLabels(k) ==
    /\ IsSeq(k.labels)
    /\ MaxDepth <= 4 =>
          \A i \in DOMAIN k.labels :
             \E ref \in CarriersOf(k) : k.labels[i] = cluster.objects[ref].gitops

(* and the delivery is one that they name.                                 *)
FollowsItsDelivery(k) ==
    MaxDepth <= 4 =>
        /\ k.pc \in OnChain /\ k.flux = <<>> => k.target \in DeliverersOf(k)
        /\ k.flux # <<>> => k.flux[1].ref \in DeliverersOf(k)

Traced(k) ==
    /\ IsSeq(k.pods) /\ SelectsItsPods(k) /\ HoldsItsPods(k) /\ KeepsItsPods(k)
    /\ ShowsASickPod(k)
    /\ WalksItsOwners(k) /\ KnowsItsLabels(k) /\ FollowsItsDelivery(k)

(* Whatever becomes of the cluster: what is shown of a spec is what        *)
(* redaction leaves of it.                                                 *)
KnownPods ==
    \A ref \in DOMAIN cluster.objects :
        KindOf(ref) = "Pod" => Known(cluster.objects[ref])

Clear(k) ==
    /\ k.pc \in AtPods => \A i \in DOMAIN k.raw : Known(k.raw[i][2])
    /\ \A i \in DOMAIN k.pods :
          \/ k.pods[i].spec = {"omitted"}
          \/ \E spec \in DOMAIN SpecHolds : k.pods[i].spec = SpecShows[spec]

TracedInv == \A c \in DOMAIN collections : collections[c].steady => Traced(collections[c])

ClearInv == KnownPods /\ \A c \in DOMAIN collections : Clear(collections[c])

LEMMA ClearStays ==
    ASSUME NEW k, NEW q, Clear(k), q.pods = k.pods,
           q.pc \in AtPods => k.pc \in AtPods /\ q.raw = k.raw
    PROVE  Clear(q)
BY DEF Clear

LEMMA NothingIsClear ==
    ASSUME NEW q, q.pods = <<>>, q.pc \notin AtPods
    PROVE  Clear(q)
<1>1. DOMAIN <<>> = {}
  OBVIOUS
<1>2. QED
  BY <1>1 DEF Clear

(* All of this depends on the alert and the cluster.                       *)
LEMMA SameAlert ==
    ASSUME NEW q, NEW k, q.alert = k.alert
    PROVE  /\ AlertNamespace(q) = AlertNamespace(k) /\ PodRef(q) = PodRef(k)
           /\ Workload(q) = Workload(k) /\ PodsOf(q) = PodsOf(k)
           /\ CarriersOf(q) = CarriersOf(k) /\ DeliverersOf(q) = DeliverersOf(k)
           /\ \A n : Kin(q, n) = Kin(k, n) /\ \A name : Sick(q, name) = Sick(k, name)
<1>1. /\ AlertNamespace(q) = AlertNamespace(k) /\ PodRef(q) = PodRef(k)
      /\ Workload(q) = Workload(k)
  BY DEF AlertNamespace, PodRef, Workload
<1>2. PodsOf(q) = PodsOf(k) /\ \A name : Sick(q, name) = Sick(k, name)
  BY <1>1 DEF PodsOf, Sick
<1>3. CarriersOf(q) = CarriersOf(k) /\ \A n : Kin(q, n) = Kin(k, n)
  BY <1>1, <1>2 DEF CarriersOf, Kin
<1>4. DeliverersOf(q) = DeliverersOf(k)
  BY <1>3 DEF DeliverersOf
<1>5. QED
  BY <1>1, <1>2, <1>3, <1>4

(* Nothing of it is another one, but perhaps the place.                    *)
Rests(q, k) ==
    q.alert = k.alert /\ Found(q, k) /\ SamePods(q, k) /\ q.flux = k.flux

LEMMA RestsTraced ==
    ASSUME NEW k, NEW q, Traced(k), Rests(q, k),
           q.pc = "list" => k.pc = "list",
           q.pc = "owners" => k.pc = "owners",
           q.pc \in AtPods => k.pc \in AtPods,
           k.pc \in AtPods => q.pc \in AtPods \/ k.raw = <<>>,
           q.pc \in OnChain /\ q.flux = <<>> => k.pc \in OnChain /\ q.target = k.target
    PROVE  Traced(q)
<1>1. /\ q.labels = k.labels /\ q.selector = k.selector /\ q.walk = k.walk
      /\ q.raw = k.raw /\ q.pods = k.pods /\ q.flux = k.flux /\ q.alert = k.alert
  BY DEF Rests, Found, SamePods
<1>2. /\ AlertNamespace(q) = AlertNamespace(k) /\ PodRef(q) = PodRef(k)
      /\ Workload(q) = Workload(k) /\ PodsOf(q) = PodsOf(k)
      /\ CarriersOf(q) = CarriersOf(k) /\ DeliverersOf(q) = DeliverersOf(k)
      /\ \A n : Kin(q, n) = Kin(k, n) /\ \A name : Sick(q, name) = Sick(k, name)
  BY <1>1, SameAlert
<1>3. SelectsItsPods(q) /\ HoldsItsPods(q) /\ KeepsItsPods(q)
  BY <1>1, <1>2 DEF Traced, SelectsItsPods, HoldsItsPods, KeepsItsPods
<1>4. ShowsASickPod(q)
  <2>1. DOMAIN <<>> = {}
    OBVIOUS
  <2>2. \A name : IsShown(q, name) <=> IsShown(k, name)
    BY <1>1, <2>1 DEF IsShown
  <2>3. QED
    BY <1>2, <2>2 DEF Traced, ShowsASickPod
<1>5. WalksItsOwners(q)
  <2>1. Chain(q) = Chain(k)
    BY <1>1 DEF Chain
  <2>2. QED
    BY <1>1, <1>2, <2>1 DEF Traced, WalksItsOwners
<1>6. KnowsItsLabels(q) /\ FollowsItsDelivery(q)
  BY <1>1, <1>2 DEF Traced, KnowsItsLabels, FollowsItsDelivery
<1>7. QED
  BY <1>1, <1>3, <1>4, <1>5, <1>6 DEF Traced

LEMMA LosesTraced ==
    ASSUME NEW k, NEW q, Traced(k), Loses(q, k)
    PROVE  Traced(q)
<1>1. /\ q.labels = k.labels /\ q.alert = k.alert /\ q.pods = <<>> /\ q.flux = <<>>
      /\ q.pc = "decide"
  BY DEF Loses, Silent, Found
<1>2. CarriersOf(q) = CarriersOf(k)
  BY <1>1, SameAlert
<1>3. DOMAIN q.pods = {} /\ IsSeq(q.pods)
  <2>1. <<>> \in Seq({}) /\ DOMAIN <<>> = {}
    OBVIOUS
  <2>2. QED
    BY <1>1, <2>1 DEF IsSeq
<1>4. SelectsItsPods(q) /\ HoldsItsPods(q) /\ KeepsItsPods(q) /\ WalksItsOwners(q)
  BY <1>1, <1>3 DEF SelectsItsPods, HoldsItsPods, KeepsItsPods, WalksItsOwners, AtPods
<1>5. ShowsASickPod(q)
  BY <1>1, <1>3 DEF ShowsASickPod, IsShown, AtPods
<1>6. KnowsItsLabels(q) /\ FollowsItsDelivery(q)
  BY <1>1, <1>2 DEF Traced, KnowsItsLabels, FollowsItsDelivery, OnChain
<1>7. QED
  BY <1>3, <1>4, <1>5, <1>6 DEF Traced

(* A request changes nothing of it, either.                                *)
LEMMA AskedRests ==
    ASSUME NEW k, NEW ref, NEW s, IsCollection(k), MayAsk(s, k, ref)
    PROVE  /\ IsCollection(s) /\ Rests(s, k) /\ s.pc = k.pc /\ s.target = k.target
           /\ Traced(k) => Traced(s)
           /\ Clear(k) => Clear(s)
<1>1. /\ IsCollection(s) /\ Rests(s, k) /\ s.pc = k.pc /\ s.target = k.target
  BY DEF MayAsk, Asks, Core, Rests, Found, SamePods, IsCollection
<1>2. s.pods = k.pods /\ s.raw = k.raw
  BY <1>1 DEF Rests, SamePods
<1>3. QED
  BY <1>1, <1>2, RestsTraced, ClearStays

LEMMA Resting ==
    /\ \A q, k, l : Moves(q, k, l) =>
          Rests(q, k) /\ q.pc = l /\ q.target = k.target
    /\ \A q, k : Base(q, k) /\ Silent(q, k) /\ SamePods(q, k) => Rests(q, k)
    /\ \A q, k : Keeps(q, k) /\ q.flux = k.flux => Rests(q, k)
    /\ \A q, k, s : Rests(q, s) /\ Rests(s, k) => Rests(q, k)
BY DEF Moves, Core, Base, Silent, Found, SamePods, Keeps, Rests

(* As long as the cluster stays, what was traced stays so.                 *)
Traces(q, k) ==
    /\ q.steady = k.steady
    /\ Traced(k) => Traced(q)
    /\ KnownPods /\ Clear(k) => Clear(q)

Led == {"list"} \cup AtPods \cup OnChain

(* Steps that lead nowhere.                                                *)
LEMMA PlainTraces ==
    ASSUME NEW k, NEW s, NEW q, NEW ref, IsCollection(k), MayAsk(s, k, ref),
           \/ Loses(q, s)
           \/ (Rests(q, s) /\ q.pc \notin Led /\ k.pc \notin AtPods)
    PROVE  Traces(q, k)
<1>1. /\ Rests(s, k) /\ s.pc = k.pc /\ s.steady = k.steady
      /\ Traced(k) => Traced(s)
      /\ Clear(k) => Clear(s)
  BY AskedRests DEF Rests, Found
<1>2. CASE Loses(q, s)
  <2>1. q.steady = s.steady /\ q.pods = <<>> /\ q.pc = "decide"
    BY <1>2 DEF Loses, Silent, Found
  <2>2. Clear(q)
    BY <2>1, NothingIsClear DEF AtPods
  <2>3. QED
    BY <1>1, <1>2, <2>1, <2>2, LosesTraced DEF Traces
<1>3. CASE Rests(q, s) /\ q.pc \notin Led /\ k.pc \notin AtPods
  <2>1. q.steady = s.steady /\ q.pods = s.pods
    BY <1>3 DEF Rests, Found, SamePods
  <2>2. Traced(s) => Traced(q)
    BY <1>1, <1>3, RestsTraced DEF Led, AtPods
  <2>3. Clear(s) => Clear(q)
    BY <1>3, <2>1, ClearStays DEF Led
  <2>4. QED
    BY <1>1, <2>1, <2>2, <2>3 DEF Traces
<1>4. QED
  BY <1>2, <1>3

LEMMA FrontTraces ==
    ASSUME NEW c \in DOMAIN collections, Sound(collections[c]),
           \/ Filter(c) \/ Triage(c) \/ QueryLogs(c) \/ QueryMetrics(c) \/ CheckScope(c)
           \/ NoPods(c) \/ Decide(c)
    PROVE  Traces(collections'[c], collections[c])
<1> DEFINE k == collections[c]
           q == collections'[c]
<1>1. IsCollection(k) /\ MayAsk(k, k, NoObject)
  BY DEF Sound, MayAsk
<1>2. /\ k.pc \notin AtPods
      /\ \E l \in InFront \cup {"decide", "done", "pods", "node", "target", "sources"} :
            Moves(q, k, l)
  <2>1. CASE Filter(c) \/ Triage(c) \/ QueryLogs(c) \/ QueryMetrics(c)
    BY <1>1, <2>1, FrontMoves DEF InFront, AtPods
  <2>2. CASE CheckScope(c)
    BY <1>1, <2>2, CheckScopeMoves DEF InFront, AtPods
  <2>3. CASE NoPods(c) \/ Decide(c)
    BY <1>1, <2>3, NoPodsMoves, DecideMoves DEF InFront, AtPods
  <2>4. QED
    BY <2>1, <2>2, <2>3
<1>3. Rests(q, k) /\ q.pc \notin Led
  BY <1>2, Resting DEF InFront, Led, AtPods, OnChain
<1>4. QED
  BY <1>1, <1>2, <1>3, PlainTraces

LEMMA EventsTrace ==
    ASSUME NEW c \in DOMAIN collections, Sound(collections[c]),
           \/ ChooseSources(c) \/ GetEvents(c) \/ KeepEvents(c) \/ NoClaim(c) \/ GetClaim(c)
           \/ GetClaimEvents(c) \/ MergeEvents(c) \/ GetNode(c)
    PROVE  Traces(collections'[c], collections[c])
<1> DEFINE k == collections[c]
           q == collections'[c]
<1>1. IsCollection(k) /\ MayAsk(k, k, NoObject)
  BY DEF Sound, MayAsk
<1>2. CASE ChooseSources(c) \/ KeepEvents(c) \/ MergeEvents(c)
  <2>1. /\ Rests(q, k) /\ q.pc \in {"events", "claim", "node"}
        /\ k.pc \in {"sources", "events", "merge"}
    BY <1>1, <1>2, ChooseSourcesMoves, KeepMoves, Resting DEF Settles
  <2>2. QED
    BY <1>1, <2>1, PlainTraces DEF Led, AtPods, OnChain
<1>3. CASE GetEvents(c)
  <2>1. PICK ref, s : /\ k.pc = "events" /\ MayAsk(s, k, ref)
                      /\ \E i : Hears(q, s, i) \/ Loses(q, s)
    BY <1>1, <1>3, GetEventsMoves
  <2>2. s.pc = "events"
    BY <1>1, <2>1, AskedRests
  <2>3. Loses(q, s) \/ (Rests(q, s) /\ q.pc = "events")
    BY <2>1, <2>2, Resting DEF Hears
  <2>4. QED
    BY <1>1, <2>1, <2>3, PlainTraces DEF Led, AtPods, OnChain
<1>4. CASE NoClaim(c) \/ GetClaim(c)
  <2>1. PICK s : /\ k.pc = "claim" /\ MayAsk(s, k, ClaimRef(k))
                 /\ \/ Loses(q, s)
                    \/ \E l \in {"node", "claim_events"} : Moves(q, s, l)
    BY <1>1, <1>4, ClaimMoves
  <2>2. Loses(q, s) \/ (Rests(q, s) /\ q.pc \in {"node", "claim_events"})
    BY <2>1, Resting
  <2>3. QED
    BY <1>1, <2>1, <2>2, PlainTraces DEF Led, AtPods, OnChain
<1>5. CASE GetClaimEvents(c)
  <2>1. PICK ref, s :
           /\ k.pc = "claim_events" /\ MayAsk(s, k, ref)
           /\ \/ Moves(q, s, "node") \/ Loses(q, s)
              \/ Base(q, s) /\ Silent(q, s) /\ SamePods(q, s) /\ q.pc = "merge"
    BY <1>1, <1>5, GetClaimEventsMoves
  <2>2. Loses(q, s) \/ (Rests(q, s) /\ q.pc \in {"node", "merge"})
    BY <2>1, Resting
  <2>3. QED
    BY <1>1, <2>1, <2>2, PlainTraces DEF Led, AtPods, OnChain
<1>6. CASE GetNode(c)
  <2>1. PICK ref, s : /\ k.pc = "node" /\ MayAsk(s, k, ref)
                      /\ \/ \E l \in {"target", "decide"} : Moves(q, s, l)
                         \/ Loses(q, s)
    BY <1>1, <1>6, GetNodeMoves
  <2>2. Loses(q, s) \/ (Rests(q, s) /\ q.pc \in {"target", "decide"})
    BY <2>1, Resting
  <2>3. QED
    BY <1>1, <2>1, <2>2, PlainTraces DEF Led, AtPods, OnChain
<1>7. QED
  BY <1>2, <1>3, <1>4, <1>5, <1>6

-----------------------------------------------------------------------------
(* The pods and their owners.                                              *)

LEMMA GetPodTraces ==
    ASSUME NEW c \in DOMAIN collections, Sound(collections[c]), GetPod(c)
    PROVE  Traces(collections'[c], collections[c])
<1> DEFINE k == collections[c]
           q == collections'[c]
<1>1. IsCollection(k) /\ k.pc = "pods" /\ k.pods = <<>> /\ k.flux = <<>>
  BY GetPodMoves DEF Sound, Paid, PaidForPods, Ordered, InFront, OfDelivery, OnChain, AtEnd
<1>2. PICK s : /\ MayAsk(s, k, PodRef(k))
               /\ \/ Moves(q, s, "sources")
                  \/ Loses(q, s)
                  \/ /\ Core(q, s) /\ Silent(q, s) /\ q.pods = s.pods
                     /\ q.pc = "parse" /\ NameOf(PodRef(k)) # Nobody
                     /\ PodRef(k) \in DOMAIN cluster.objects
                     /\ q.raw = <<ReadPod(PodRef(k))>>
  BY <1>1, GetPodMoves
<1>3. CASE Moves(q, s, "sources") \/ Loses(q, s)
  BY <1>1, <1>2, <1>3, Resting, PlainTraces DEF Led, AtPods, OnChain
<1>4. ASSUME Core(q, s), Silent(q, s), q.pods = s.pods, q.pc = "parse",
             NameOf(PodRef(k)) # Nobody, PodRef(k) \in DOMAIN cluster.objects,
             q.raw = <<ReadPod(PodRef(k))>>
      PROVE  Traces(q, k)
  <2>1. Rests(s, k) /\ (Traced(k) => Traced(s))
    BY <1>1, <1>2, AskedRests
  <2>2. /\ q.alert = k.alert /\ q.labels = k.labels /\ q.steady = k.steady
        /\ q.pods = <<>> /\ q.flux = <<>>
    BY <1>1, <1>4, <2>1 DEF Rests, Core, Silent, Found, SamePods
  <2>3. /\ PodsOf(q) = {PodRef(k)} /\ CarriersOf(q) = CarriersOf(k)
        /\ AlertNamespace(q) = AlertNamespace(k)
    BY <1>4, <2>2, SameAlert DEF PodsOf
  <2>4. DOMAIN q.raw = {1} /\ q.raw[1] = ReadPod(PodRef(k)) /\ IsSeq(q.pods)
    <3>1. <<>> \in Seq({}) /\ \A x : DOMAIN <<x>> = {1} /\ <<x>>[1] = x
      OBVIOUS
    <3>2. QED
      BY <1>4, <2>2, <3>1 DEF IsSeq
  <2>5. HoldsItsPods(q) /\ KeepsItsPods(q) /\ SelectsItsPods(q) /\ WalksItsOwners(q)
    <3>1. DOMAIN <<>> = {}
      OBVIOUS
    <3>2. QED
      BY <1>4, <2>2, <2>3, <2>4, <3>1
      DEF HoldsItsPods, KeepsItsPods, SelectsItsPods, WalksItsOwners
  <2>6. ShowsASickPod(q)
    <3>1. IsShown(q, NameOf(PodRef(k)))
      BY <1>4, <2>4 DEF IsShown, ReadPod, AtPods
    <3>2. QED
      BY <2>3, <3>1 DEF ShowsASickPod
  <2>7. ASSUME Traced(k) PROVE KnowsItsLabels(q) /\ FollowsItsDelivery(q)
    BY <1>4, <2>2, <2>3, <2>7 DEF Traced, KnowsItsLabels, FollowsItsDelivery, OnChain
  <2>8. KnownPods => Clear(q)
    <3>1. DOMAIN <<>> = {}
      OBVIOUS
    <3>2. KnownPods => Known(q.raw[1][2])
      BY <1>4, <2>4 DEF KnownPods, ReadPod, PodRef, KindOf
    <3>3. QED
      BY <2>2, <2>4, <3>1, <3>2 DEF Clear
  <2>9. QED
    BY <2>2, <2>4, <2>5, <2>6, <2>7, <2>8 DEF Traces, Traced
<1>5. QED
  BY <1>2, <1>3, <1>4

(* Before there are any pods.                                              *)
LEMMA NothingShown ==
    ASSUME NEW q, q.pods = <<>>, q.pc \notin AtPods
    PROVE  /\ IsSeq(q.pods) /\ HoldsItsPods(q) /\ KeepsItsPods(q) /\ ShowsASickPod(q)
           /\ WalksItsOwners(q)
<1>1. <<>> \in Seq({}) /\ DOMAIN <<>> = {}
  OBVIOUS
<1>2. IsSeq(q.pods) /\ DOMAIN q.pods = {}
  BY <1>1 DEF IsSeq
<1>3. ~\E name : IsShown(q, name)
  BY <1>2 DEF IsShown
<1>4. QED
  BY <1>2, <1>3 DEF HoldsItsPods, KeepsItsPods, ShowsASickPod, WalksItsOwners, AtPods

(* One more object behind the alert gave its labels.                       *)
LEMMA KnowsOneMore ==
    ASSUME NEW k, NEW q, KnowsItsLabels(k), q.alert = k.alert,
           NEW ref, MaxDepth <= 4 => ref \in CarriersOf(k),
           q.labels = Append(k.labels, cluster.objects[ref].gitops)
    PROVE  KnowsItsLabels(q)
<1> DEFINE gitops == cluster.objects[ref].gitops
<1>1. CarriersOf(q) = CarriersOf(k)
  BY SameAlert
<1>2. IsSeq(k.labels)
  BY DEF KnowsItsLabels
<1>3. q.labels = Append(k.labels, gitops)
  OBVIOUS
<1> HIDE DEF gitops
<1>4. /\ IsSeq(q.labels) /\ DOMAIN q.labels = 1..(Len(k.labels) + 1)
      /\ DOMAIN k.labels = 1..Len(k.labels) /\ Len(k.labels) \in Nat
      /\ q.labels[Len(k.labels) + 1] = gitops
      /\ \A i \in DOMAIN k.labels : q.labels[i] = k.labels[i]
  BY <1>2, <1>3, AppendIs
<1>5. ASSUME MaxDepth <= 4, NEW i \in DOMAIN q.labels
      PROVE  \E o \in CarriersOf(q) : q.labels[i] = cluster.objects[o].gitops
  <2>1. CASE i \in DOMAIN k.labels
    BY <1>1, <1>4, <1>5, <2>1 DEF KnowsItsLabels
  <2>2. CASE i \notin DOMAIN k.labels
    <3>1. i = Len(k.labels) + 1
      BY <1>4, <2>2
    <3>2. QED
      BY <1>1, <1>4, <1>5, <3>1 DEF gitops
  <2>3. QED
    BY <2>1, <2>2
<1>6. QED
  BY <1>4, <1>5 DEF KnowsItsLabels

LEMMA GetWorkloadTraces ==
    ASSUME NEW c \in DOMAIN collections, Sound(collections[c]), GetWorkload(c)
    PROVE  Traces(collections'[c], collections[c])
<1> DEFINE k == collections[c]
           q == collections'[c]
           object == cluster.objects[Workload(k)]
<1>1. /\ IsCollection(k) /\ k.pc = "pods" /\ k.pods = <<>> /\ k.flux = <<>>
      /\ NameOf(PodRef(k)) = Nobody
  BY GetWorkloadMoves DEF Sound, Paid, PaidForPods, Ordered, InFront, OfDelivery, OnChain,
                          AtEnd
<1>2. PICK s : /\ MayAsk(s, k, Workload(k))
               /\ \/ Moves(q, s, "sources") \/ Loses(q, s)
                  \/ /\ Workload(k) \in DOMAIN cluster.objects
                     /\ \/ Learns(q, s, "sources", object.gitops)
                        \/ /\ Learns(q, s, "list", object.gitops)
                           /\ q.selector = object.selector
  BY <1>1, GetWorkloadMoves
<1>3. CASE Moves(q, s, "sources") \/ Loses(q, s)
  BY <1>1, <1>2, <1>3, Resting, PlainTraces DEF Led, AtPods, OnChain
<1>4. ASSUME NEW l \in {"sources", "list"}, Learns(q, s, l, object.gitops),
             l = "list" => q.selector = object.selector,
             Workload(k) \in DOMAIN cluster.objects
      PROVE  Traces(q, k)
  <2>1. Rests(s, k)
    BY <1>1, <1>2, AskedRests
  <2>2. /\ q.alert = k.alert /\ q.labels = Append(k.labels, object.gitops)
        /\ q.steady = k.steady /\ q.pods = <<>> /\ q.flux = <<>> /\ q.pc = l
    BY <1>1, <1>4, <2>1 DEF Rests, Learns, Shifts, Core, Found, SamePods
  <2>3. /\ Workload(q) = Workload(k) /\ PodRef(q) = PodRef(k)
    BY <2>2, SameAlert
  <2>4. SelectsItsPods(q)
    BY <1>1, <1>4, <2>2, <2>3 DEF SelectsItsPods
  <2>5. /\ IsSeq(q.pods) /\ HoldsItsPods(q) /\ KeepsItsPods(q) /\ ShowsASickPod(q)
        /\ WalksItsOwners(q)
    BY <2>2, NothingShown DEF AtPods
  <2>6. Workload(k) \in CarriersOf(k)
    BY <1>4 DEF CarriersOf
  <2>7. ASSUME Traced(k) PROVE KnowsItsLabels(q)
    BY <2>2, <2>6, <2>7, KnowsOneMore DEF Traced
  <2>8. FollowsItsDelivery(q)
    BY <2>2 DEF FollowsItsDelivery, OnChain
  <2>9. Clear(q)
    BY <2>2, NothingIsClear DEF AtPods
  <2>10. QED
    BY <2>2, <2>4, <2>5, <2>7, <2>8, <2>9 DEF Traces, Traced
<1>5. QED
  BY <1>2, <1>3, <1>4

LEMMA ShownAreThere ==
    ASSUME NEW pods, IsFiniteSet(DOMAIN pods), NEW list \in Shown(pods),
           NEW i \in DOMAIN list
    PROVE  list[i] \in DOMAIN pods
<1> DEFINE n == Cardinality(DOMAIN pods)
<1>1. PICK l \in SetToSeqs(DOMAIN pods) : list = SubSeq(l, 1, Min2(MaxPods, Len(l)))
  BY DEF Shown
<1>2. n \in Nat /\ l \in [1..n -> DOMAIN pods]
  BY FS_CardinalityType DEF SetToSeqs
<1> HIDE DEF n
<1>3. l \in Seq(DOMAIN pods) /\ Len(l) = n
  BY <1>2
<1>4. Min2(MaxPods, n) \in 0..n
  BY <1>2, EvidenceBounds DEF Min2
<1>5. list \in Seq(DOMAIN pods)
  BY <1>1, <1>3, <1>4
<1>6. QED
  BY <1>5

(* Pods are told apart by their names, in their namespace.                 *)
LEMMA PodsAreNamed ==
    ASSUME FiniteCluster, NEW namespace, NEW selector,
           NEW ref \in Matching(namespace, selector)
    PROVE  <<"Pod", namespace, NameOf(ref)>> = ref /\ ref \in DOMAIN cluster.objects
<1>1. /\ ref \in STRING \X STRING \X STRING /\ ref[1] = "Pod" /\ ref[2] = namespace
      /\ ref \in DOMAIN cluster.objects
  BY DEF FiniteCluster, Refs, Matching, KindOf, NamespaceOf
<1>2. QED
  BY <1>1 DEF NameOf

(* What is listed are such pods.                                           *)
LEMMA ListsPods ==
    ASSUME FiniteCluster, NEW k, NEW q, Lists(q, k), NEW i \in DOMAIN q.raw
    PROVE  \E ref \in Matching(AlertNamespace(k), k.selector) : q.raw[i] = ReadPod(ref)
<1> DEFINE all == Matching(AlertNamespace(k), k.selector)
<1>1. PICK some \in SUBSET all :
         \E list \in Shown([o \in some |-> cluster.objects[o]]) :
             q.raw = [j \in DOMAIN list |-> ReadPod(list[j])]
  BY DEF Lists
<1> DEFINE pods == [o \in some |-> cluster.objects[o]]
<1>2. PICK list \in Shown(pods) : q.raw = [j \in DOMAIN list |-> ReadPod(list[j])]
  BY <1>1
<1>3. some \subseteq DOMAIN cluster.objects
  BY DEF Matching
<1>4. IsFiniteSet(DOMAIN pods) /\ DOMAIN pods = some
  BY <1>3, FS_Subset DEF FiniteCluster
<1> HIDE DEF pods
<1>5. \A j \in DOMAIN list : list[j] \in all
  BY <1>4, ShownAreThere
<1>6. QED
  BY <1>2, <1>5

(* The list of all pods begins with a sick one, if there is one.           *)
LEMMA ListsTheSick ==
    ASSUME FiniteCluster, NEW k, NEW q, Lists(q, k), NEW ref, Sick(k, NameOf(ref)),
           ref \in Matching(AlertNamespace(k), k.selector),
           Cardinality(Matching(AlertNamespace(k), k.selector)) <= ScanLimit
    PROVE  1 \in DOMAIN q.raw /\ Sick(k, q.raw[1][1])
<1> DEFINE all == Matching(AlertNamespace(k), k.selector)
<1>1. PICK some \in SUBSET all :
         /\ Cardinality(some) = Min2(ScanLimit, Cardinality(all))
         /\ \E list \in Shown([o \in some |-> cluster.objects[o]]) :
                q.raw = [i \in DOMAIN list |-> ReadPod(list[i])]
  BY DEF Lists
<1>2. all \subseteq DOMAIN cluster.objects
  BY DEF Matching
<1>3. IsFiniteSet(all) /\ IsFiniteSet(some) /\ Cardinality(all) \in Nat
  BY <1>2, FS_Subset, FS_CardinalityType DEF FiniteCluster
<1>4. Min2(ScanLimit, Cardinality(all)) = Cardinality(all)
  BY <1>3, EvidenceBounds DEF Min2
<1>5. some = all
  BY <1>1, <1>3, <1>4, FS_Subset
<1> DEFINE pods == [o \in all |-> cluster.objects[o]]
<1>6. PICK list \in Shown(pods) : q.raw = [i \in DOMAIN list |-> ReadPod(list[i])]
  BY <1>1, <1>5
<1>7. ref \in all /\ <<"Pod", AlertNamespace(k), NameOf(ref)>> = ref
  BY PodsAreNamed
<1>8. ref \in DOMAIN pods /\ ~IsHealthy(pods[ref]) /\ IsFiniteSet(DOMAIN pods)
  BY <1>3, <1>7 DEF Sick
<1>9. 1 \in DOMAIN list /\ list[1] \in all /\ ~IsHealthy(cluster.objects[list[1]])
  <2>1. \A o \in all : pods[o] = cluster.objects[o]
    OBVIOUS
  <2>2. DOMAIN pods = all
    OBVIOUS
  <2> HIDE DEF pods
  <2>3. 1 \in DOMAIN list /\ list[1] \in DOMAIN pods /\ ~IsHealthy(pods[list[1]])
    BY <1>8, SickComesFirst
  <2>4. QED
    BY <2>1, <2>2, <2>3
<1>10. 1 \in DOMAIN q.raw /\ q.raw[1][1] = NameOf(list[1])
  BY <1>6, <1>9 DEF ReadPod
<1>11. <<"Pod", AlertNamespace(k), NameOf(list[1])>> = list[1]
       /\ list[1] \in DOMAIN cluster.objects
  BY <1>9, PodsAreNamed
<1>12. QED
  BY <1>9, <1>10, <1>11 DEF Sick

LEMMA ListPodsTraces ==
    ASSUME NEW c \in DOMAIN collections, Sound(collections[c]), FiniteCluster, ListPods(c)
    PROVE  Traces(collections'[c], collections[c])
<1> DEFINE k == collections[c]
           q == collections'[c]
           all == Matching(AlertNamespace(k), k.selector)
<1>1. IsCollection(k) /\ k.pc = "list" /\ k.pods = <<>> /\ k.flux = <<>>
  BY ListPodsMoves DEF Sound, Paid, PaidForPods, Ordered, InFront, OfDelivery, OnChain, AtEnd
<1>2. PICK s : /\ MayAsk(s, k, <<"Pod", AlertNamespace(k), "*">>)
               /\ \/ Moves(q, s, "sources") \/ Loses(q, s)
                  \/ /\ Core(q, s) /\ Silent(q, s) /\ q.pods = s.pods
                     /\ Lists(q, k)
                     /\ q.pc = IF q.raw = <<>> THEN "sources" ELSE "parse"
  BY <1>1, ListPodsMoves
<1>3. CASE Moves(q, s, "sources") \/ Loses(q, s)
  BY <1>1, <1>2, <1>3, Resting, PlainTraces DEF Led, AtPods, OnChain
<1>4. ASSUME Core(q, s), Silent(q, s), q.pods = s.pods, Lists(q, k),
             q.pc = IF q.raw = <<>> THEN "sources" ELSE "parse", Traced(k)
      PROVE  Traced(q)
  <2>1. Rests(s, k)
    BY <1>1, <1>2, AskedRests
  <2>2. /\ q.alert = k.alert /\ q.labels = k.labels /\ q.pods = <<>> /\ q.flux = <<>>
        /\ q.pc \in {"sources", "parse"}
    BY <1>1, <1>4, <2>1 DEF Rests, Core, Silent, Found, SamePods
  <2>3. /\ Workload(q) = Workload(k) /\ PodRef(q) = PodRef(k) /\ PodsOf(q) = PodsOf(k)
        /\ CarriersOf(q) = CarriersOf(k) /\ \A name : Sick(q, name) = Sick(k, name)
    BY <2>2, SameAlert
  <2>4. PodsOf(k) = all
    BY <1>1, <1>4 DEF PodsOf, Traced, SelectsItsPods
  <2>5. KnowsItsLabels(q) /\ FollowsItsDelivery(q) /\ SelectsItsPods(q)
    BY <1>4, <2>2, <2>3 DEF Traced, KnowsItsLabels, FollowsItsDelivery, SelectsItsPods,
                            OnChain
  <2>6. CASE q.pc = "sources"
    BY <2>2, <2>5, <2>6, NothingShown DEF Traced, AtPods
  <2>7. CASE q.pc = "parse"
    <3>1. HoldsItsPods(q)
      BY <1>4, <2>3, <2>4, ListsPods DEF HoldsItsPods
    <3>2. ShowsASickPod(q)
      <4>1. SUFFICES ASSUME Cardinality(PodsOf(q)) <= ScanLimit,
                            NEW ref \in PodsOf(q), Sick(q, NameOf(ref))
                     PROVE  \E name : IsShown(q, name) /\ Sick(q, name)
        BY DEF ShowsASickPod
      <4>2. 1 \in DOMAIN q.raw /\ Sick(k, q.raw[1][1])
        BY <1>4, <2>3, <2>4, <4>1, ListsTheSick
      <4>3. IsShown(q, q.raw[1][1])
        BY <2>7, <4>2 DEF IsShown, AtPods
      <4>4. QED
        BY <2>3, <4>2, <4>3
    <3>3. IsSeq(q.pods) /\ KeepsItsPods(q)
      <4>1. <<>> \in Seq({}) /\ DOMAIN <<>> = {}
        OBVIOUS
      <4>2. QED
        BY <2>2, <4>1 DEF IsSeq, KeepsItsPods
    <3>4. WalksItsOwners(q)
      BY <2>7 DEF WalksItsOwners
    <3>5. QED
      BY <2>5, <3>1, <3>2, <3>3, <3>4 DEF Traced
  <2>8. QED
    BY <2>2, <2>6, <2>7
<1>5. ASSUME Core(q, s), Silent(q, s) PROVE q.steady = k.steady
  <2>1. Rests(s, k)
    BY <1>1, <1>2, AskedRests
  <2>2. QED
    BY <1>5, <2>1 DEF Rests, Silent, Found
<1>6. ASSUME Core(q, s), Silent(q, s), q.pods = s.pods, Lists(q, k), KnownPods
      PROVE  Clear(q)
  <2>1. Rests(s, k)
    BY <1>1, <1>2, AskedRests
  <2>2. q.pods = <<>>
    BY <1>1, <1>6, <2>1 DEF Rests, SamePods
  <2>3. ASSUME NEW i \in DOMAIN q.raw PROVE Known(q.raw[i][2])
    <3>1. PICK ref \in all : q.raw[i] = ReadPod(ref)
      BY <1>6, ListsPods
    <3>2. QED
      BY <1>6, <3>1 DEF KnownPods, Matching, ReadPod
  <2>4. DOMAIN <<>> = {}
    OBVIOUS
  <2>5. QED
    BY <2>2, <2>3, <2>4 DEF Clear
<1>7. QED
  BY <1>2, <1>3, <1>4, <1>5, <1>6 DEF Traces

LEMMA TailMoves ==
    ASSUME NEW s, IsSeq(s), s # <<>>
    PROVE  /\ 1 \in DOMAIN s /\ Head(s) = s[1]
           /\ \A i \in DOMAIN Tail(s) : i + 1 \in DOMAIN s /\ Tail(s)[i] = s[i + 1]
           /\ \A i \in DOMAIN s : i # 1 => i - 1 \in DOMAIN Tail(s) /\ Tail(s)[i - 1] = s[i]
<1>1. PICK S : s \in Seq(S)
  BY DEF IsSeq
<1>2. Len(s) \in Nat \ {0} /\ DOMAIN s = 1..Len(s)
  BY <1>1, EmptySeq, LenProperties
<1>3. DOMAIN Tail(s) = 1..(Len(s) - 1)
  BY <1>1, <1>2, HeadTailProperties, LenProperties
<1>4. \A i \in 1..(Len(s) - 1) : Tail(s)[i] = s[i + 1]
  BY <1>1, <1>2, HeadTailProperties
<1>5. Head(s) = s[1]
  BY <1>1, <1>2
<1>6. QED
  BY <1>2, <1>3, <1>4, <1>5

LEMMA PodsAreHere ==
    ASSUME NEW k, NEW ref \in PodsOf(k)
    PROVE  ref \in DOMAIN cluster.objects /\ NamespaceOf(ref) = AlertNamespace(k)
BY DEF PodsOf, Matching, PodRef, NamespaceOf

LEMMA ParseNextPodTraces ==
    ASSUME NEW c \in DOMAIN collections, Sound(collections[c]), ParseNextPod(c)
    PROVE  Traces(collections'[c], collections[c])
<1> DEFINE k == collections[c]
           q == collections'[c]
<1>1. /\ IsCollection(k) /\ k.pc = "parse" /\ k.flux = <<>>
      /\ IsSeq(k.pods) /\ IsSeq(k.raw) /\ k.raw # <<>>
  BY ParseNextPodMoves DEF Sound, Paid, PaidForPods, Ordered, OfDelivery, OnChain, AtEnd
<1>2. /\ Core(q, k) /\ q.raw = Tail(k.raw) /\ q.labels = k.labels /\ q.steady = k.steady
      /\ q.walk = Head(k.raw)[2] /\ q.pc = "owners"
  BY <1>1, ParseNextPodMoves
<1>3. PICK pod : /\ pod.chain = <<>> /\ pod.name = Head(k.raw)[1]
                 /\ pod.spec = SpecOf(Head(k.raw)[2]) /\ q.pods = Append(k.pods, pod)
  BY <1>1, ParseNextPodMoves
<1>4. /\ 1 \in DOMAIN k.raw /\ Head(k.raw) = k.raw[1]
      /\ \A i \in DOMAIN q.raw : i + 1 \in DOMAIN k.raw /\ q.raw[i] = k.raw[i + 1]
      /\ \A i \in DOMAIN k.raw : i # 1 => i - 1 \in DOMAIN q.raw /\ q.raw[i - 1] = k.raw[i]
  BY <1>1, <1>2, TailMoves
<1>5. /\ IsSeq(q.pods) /\ Len(k.pods) \in Nat /\ Len(q.pods) = Len(k.pods) + 1
      /\ q.pods[Len(q.pods)] = pod /\ Len(q.pods) \in DOMAIN q.pods
      /\ \A i \in DOMAIN q.pods : i \in DOMAIN k.pods \/ i = Len(q.pods)
      /\ \A i \in DOMAIN k.pods : i \in DOMAIN q.pods /\ q.pods[i] = k.pods[i]
  BY <1>1, <1>3, AppendIs
<1>6. q.alert = k.alert /\ q.flux = <<>>
  BY <1>1, <1>2 DEF Core
<1>7. /\ PodsOf(q) = PodsOf(k) /\ AlertNamespace(q) = AlertNamespace(k)
      /\ CarriersOf(q) = CarriersOf(k) /\ \A name : Sick(q, name) = Sick(k, name)
  BY <1>6, SameAlert
<1>8. ASSUME Traced(k) PROVE Traced(q)
  <2>1. \A i \in DOMAIN k.raw : \E ref \in PodsOf(k) : k.raw[i] = ReadPod(ref)
    BY <1>1, <1>8 DEF Traced, HoldsItsPods, AtPods
  <2>2. HoldsItsPods(q)
    BY <1>4, <1>7, <2>1 DEF HoldsItsPods
  <2>3. ASSUME NEW name, IsShown(k, name) PROVE IsShown(q, name)
    <3>1. CASE \E i \in DOMAIN k.pods : k.pods[i].name = name
      BY <1>5, <3>1 DEF IsShown
    <3>2. CASE \E i \in DOMAIN k.raw : k.raw[i][1] = name
      <4>1. PICK i \in DOMAIN k.raw : k.raw[i][1] = name
        BY <3>2
      <4>2. CASE i = 1
        BY <1>3, <1>4, <1>5, <4>1, <4>2 DEF IsShown
      <4>3. CASE i # 1
        BY <1>2, <1>4, <4>1, <4>3 DEF IsShown, AtPods
      <4>4. QED
        BY <4>2, <4>3
    <3>3. QED
      BY <2>3, <3>1, <3>2 DEF IsShown
  <2>4. ShowsASickPod(q)
    <3>1. IsShown(k, k.raw[1][1])
      BY <1>1, <1>4 DEF IsShown, AtPods
    <3>2. QED
      BY <1>7, <1>8, <2>3, <3>1 DEF Traced, ShowsASickPod
  <2>5. WalksItsOwners(q)
    <3>1. PICK ref \in PodsOf(k) : k.raw[1] = ReadPod(ref)
      BY <1>4, <2>1
    <3>2. ref \in DOMAIN cluster.objects /\ NamespaceOf(ref) = AlertNamespace(k)
      BY PodsAreHere
    <3>3. Len(Chain(q)) = 0
      <4>1. Chain(q) = <<>>
        BY <1>3, <1>5 DEF Chain, Last
      <4>2. Len(<<>>) = 0
        OBVIOUS
      <4>3. QED
        BY <4>1, <4>2
    <3>4. Kin(q, 0) = PodsOf(k)
      BY <1>7 DEF Kin
    <3>5. q.walk = cluster.objects[ref]
      BY <1>2, <1>4, <3>1 DEF ReadPod
    <3>6. QED
      BY <1>7, <3>2, <3>3, <3>4, <3>5 DEF WalksItsOwners
  <2>6. KnowsItsLabels(q) /\ FollowsItsDelivery(q) /\ SelectsItsPods(q)
    BY <1>2, <1>6, <1>7, <1>8 DEF Traced, KnowsItsLabels, FollowsItsDelivery, SelectsItsPods,
                                 OnChain
  <2>7. KeepsItsPods(q)
    <3>1. \E ref \in PodsOf(k) : /\ pod.name = NameOf(ref)
                                /\ pod.spec = SpecOf(cluster.objects[ref])
      BY <1>3, <1>4, <2>1 DEF ReadPod
    <3>2. KeepsItsPods(k)
      BY <1>8 DEF Traced
    <3>3. QED
      BY <1>5, <1>7, <3>1, <3>2 DEF KeepsItsPods
  <2>8. QED
    BY <1>5, <2>2, <2>4, <2>5, <2>6, <2>7 DEF Traced
<1>9. ASSUME Clear(k) PROVE Clear(q)
  <2>1. \A i \in DOMAIN k.raw : Known(k.raw[i][2])
    BY <1>1, <1>9 DEF Clear, AtPods
  <2>2. \A i \in DOMAIN q.raw : Known(q.raw[i][2])
    BY <1>4, <2>1
  <2>3. pod.spec = {"omitted"} \/ \E spec \in DOMAIN SpecHolds : pod.spec = SpecShows[spec]
    BY <1>3, <1>4, <2>1 DEF SpecOf, Known
  <2>4. QED
    BY <1>5, <1>9, <2>2, <2>3 DEF Clear
<1>10. QED
  BY <1>2, <1>8, <1>9 DEF Traces

(* A controller is one step further from the pods.                         *)
LEMMA KinClimbs ==
    ASSUME NEW k, NEW n \in 0..3, NEW ref \in Kin(k, n) \cap DOMAIN cluster.objects,
           NamespaceOf(ref) = AlertNamespace(k), k.walk = cluster.objects[ref]
    PROVE  OwnerRef(k) \in Kin(k, n + 1)
<1>1. OwnerRef(k) \in WithControllers(Kin(k, n))
  BY DEF OwnerRef, WithControllers
<1>2. CASE n = 0
  BY <1>1, <1>2 DEF Kin
<1>3. CASE n = 1
  BY <1>1, <1>3 DEF Kin
<1>4. CASE n = 2
  BY <1>1, <1>4 DEF Kin
<1>5. CASE n = 3
  BY <1>1, <1>5 DEF Kin
<1>6. QED
  BY <1>2, <1>3, <1>4, <1>5

LEMMA KinCarry ==
    ASSUME NEW k, NEW n \in 1..4
    PROVE  Kin(k, n) \cap DOMAIN cluster.objects \subseteq CarriersOf(k)
<1>1. \A S : S \subseteq WithControllers(S)
  BY DEF WithControllers
<1> DEFINE one == WithControllers(PodsOf(k))
           two == WithControllers(one)
           three == WithControllers(two)
           four == WithControllers(three)
<1>2. /\ Kin(k, 1) = one /\ Kin(k, 2) = two /\ Kin(k, 3) = three /\ Kin(k, 4) = four
      /\ four \cap DOMAIN cluster.objects \subseteq CarriersOf(k)
  BY DEF Kin, CarriersOf
<1>3. one \subseteq two /\ two \subseteq three /\ three \subseteq four
  BY <1>1
<1> HIDE DEF one, two, three, four
<1>4. n = 1 \/ n = 2 \/ n = 3 \/ n = 4
  OBVIOUS
<1>5. QED
  BY <1>2, <1>3, <1>4

(* The pods that are shown stay so.                                        *)
LEMMA GrowsShows ==
    ASSUME NEW k, NEW q, HasPod(k), Grows(q, k)
    PROVE  /\ IsSeq(q.pods) /\ Len(k.pods) \in DOMAIN k.pods
           /\ DOMAIN q.pods = DOMAIN k.pods
           /\ \A i \in DOMAIN k.pods : /\ q.pods[i].name = k.pods[i].name
                                      /\ q.pods[i].spec = k.pods[i].spec
<1>1. /\ IsSeq(k.pods) /\ IsSeq(q.pods) /\ Len(q.pods) = Len(k.pods) /\ Len(k.pods) >= 1
      /\ \A i \in 1..(Len(k.pods) - 1) : q.pods[i] = k.pods[i]
      /\ Last(q.pods).name = Last(k.pods).name /\ Last(q.pods).spec = Last(k.pods).spec
  BY DEF HasPod, Grows
<1>2. /\ DOMAIN k.pods = 1..Len(k.pods) /\ DOMAIN q.pods = 1..Len(q.pods)
      /\ Len(k.pods) \in Nat
  BY <1>1, AppendIs
<1>3. /\ q.pods[Len(k.pods)].name = k.pods[Len(k.pods)].name
      /\ q.pods[Len(k.pods)].spec = k.pods[Len(k.pods)].spec
  BY <1>1 DEF Last
<1>4. QED
  BY <1>1, <1>2, <1>3

LEMMA ClimbsTraced ==
    ASSUME NEW k, NEW q, k.pc = "owners", HasPod(k),
           MaxDepth <= 4 => Len(Chain(k)) \in 0..3,
           NamespaceOf(OwnerRef(k)) = AlertNamespace(k),
           k.flux = <<>>, Climbs(q, k, OwnerRef(k)), Traced(k)
    PROVE  Traced(q)
<1> DEFINE ref == OwnerRef(k)
           object == cluster.objects[ref]
<1>1. PICK g : /\ Grows(g, k)
               /\ \/ Moves(q, g, AfterWalk(k))
                  \/ /\ ref \in DOMAIN cluster.objects /\ q.walk = object
                     /\ Learns(q, g, "owners", object.gitops)
  BY DEF Climbs
<1>2. /\ q.alert = k.alert /\ q.flux = <<>> /\ q.raw = k.raw /\ q.pods = g.pods
      /\ g.labels = k.labels
  BY <1>1 DEF Grows, Moves, Learns, Shifts, Core, Silent, Found, SamePods
<1>3. /\ PodsOf(q) = PodsOf(k) /\ AlertNamespace(q) = AlertNamespace(k)
      /\ CarriersOf(q) = CarriersOf(k) /\ \A name : Sick(q, name) = Sick(k, name)
      /\ \A n : Kin(q, n) = Kin(k, n)
  BY <1>2, SameAlert
<1>4. /\ q.pc \in {"owners", "parse", "sources"}
      /\ q.pc = "sources" => k.raw = <<>>
  BY <1>1 DEF Moves, Learns, Shifts, AfterWalk
<1>5. /\ IsSeq(q.pods) /\ Len(k.pods) \in DOMAIN k.pods
      /\ DOMAIN q.pods = DOMAIN k.pods
      /\ \A i \in DOMAIN k.pods : /\ q.pods[i].name = k.pods[i].name
                                 /\ q.pods[i].spec = k.pods[i].spec
  BY <1>1, <1>2, GrowsShows
<1>6. SelectsItsPods(q) /\ HoldsItsPods(q) /\ KeepsItsPods(q) /\ FollowsItsDelivery(q)
  <2>1. SelectsItsPods(q) /\ HoldsItsPods(q) /\ FollowsItsDelivery(q)
    BY <1>2, <1>3, <1>4 DEF Traced, SelectsItsPods, HoldsItsPods, FollowsItsDelivery,
                            OnChain, AtPods
  <2>2. KeepsItsPods(q)
    BY <1>3, <1>5 DEF Traced, KeepsItsPods
  <2>3. QED
    BY <2>1, <2>2
<1>7. ShowsASickPod(q)
  <2>1. DOMAIN <<>> = {}
    OBVIOUS
  <2>2. ASSUME NEW name, IsShown(k, name) PROVE IsShown(q, name)
    BY <1>2, <1>4, <1>5, <2>1, <2>2 DEF IsShown, AtPods
  <2>3. IsShown(k, k.pods[Len(k.pods)].name)
    BY <1>5 DEF IsShown
  <2>4. QED
    BY <1>3, <2>2, <2>3 DEF Traced, ShowsASickPod
<1>8. CASE Moves(q, g, AfterWalk(k))
  <2>1. q.labels = k.labels /\ q.pc # "owners"
    BY <1>2, <1>8 DEF Moves, Silent, Found, AfterWalk
  <2>2. KnowsItsLabels(q) /\ WalksItsOwners(q)
    BY <1>3, <2>1 DEF Traced, KnowsItsLabels, WalksItsOwners
  <2>3. QED
    BY <1>5, <1>6, <1>7, <2>2 DEF Traced
<1>9. CASE /\ ref \in DOMAIN cluster.objects /\ q.walk = object
           /\ Learns(q, g, "owners", object.gitops)
  <2> DEFINE n == Len(Chain(k))
  <2>1. q.labels = Append(k.labels, object.gitops)
    BY <1>2, <1>9 DEF Learns
  <2>2. ASSUME MaxDepth <= 4
        PROVE  ref \in CarriersOf(k) /\ ref \in Kin(k, n + 1)
    <3>1. n \in 0..3
      BY <2>2
    <3>2. PICK o \in Kin(k, n) \cap DOMAIN cluster.objects :
             k.walk = cluster.objects[o] /\ NamespaceOf(o) = AlertNamespace(k)
      BY <2>2 DEF Traced, WalksItsOwners
    <3>3. ref \in Kin(k, n + 1)
      BY <3>1, <3>2, KinClimbs
    <3>4. n + 1 \in 1..4
      <4> HIDE DEF n
      <4>1. QED
        BY <3>1
    <3>5. QED
      BY <1>9, <3>3, <3>4, KinCarry
  <2>3. KnowsItsLabels(q)
    BY <1>2, <2>1, <2>2, KnowsOneMore DEF Traced
  <2>4. Len(Chain(q)) = n + 1
    BY <1>1, <1>2 DEF Grows, Chain
  <2>5. WalksItsOwners(q)
    BY <1>3, <1>9, <2>2, <2>4 DEF WalksItsOwners
  <2>6. QED
    BY <1>5, <1>6, <1>7, <2>3, <2>5 DEF Traced
<1>10. QED
  BY <1>1, <1>8, <1>9

LEMMA ClimbsClear ==
    ASSUME NEW k, NEW q, NEW ref, k.pc = "owners", HasPod(k), Climbs(q, k, ref), Clear(k)
    PROVE  Clear(q)
<1>1. PICK g : Grows(g, k) /\ q.pods = g.pods /\ q.raw = g.raw
  BY DEF Climbs, Moves, Learns, Shifts, SamePods
<1>2. /\ DOMAIN q.pods = DOMAIN k.pods /\ q.raw = k.raw
      /\ \A i \in DOMAIN k.pods : q.pods[i].spec = k.pods[i].spec
  BY <1>1, GrowsShows DEF Grows
<1>3. QED
  BY <1>2 DEF Clear, AtPods

LEMMA FollowOwnerTraces ==
    ASSUME NEW c \in DOMAIN collections, Sound(collections[c]), FollowOwner(c)
    PROVE  Traces(collections'[c], collections[c])
<1> DEFINE k == collections[c]
           q == collections'[c]
           ref == OwnerRef(k)
<1>1. k.pc = "owners"
  BY DEF FollowOwner, At
<1>2. IsCollection(k) /\ HasPod(k) /\ k.flux = <<>>
  BY <1>1 DEF Sound, Paid, PaidForPods, Ordered, OfDelivery, OnChain, AtEnd
<1>3. /\ NamespaceOf(ref) = AlertNamespace(k)
      /\ \/ Moves(q, k, AfterWalk(k))
         \/ /\ Len(Chain(k)) < MaxDepth
            /\ \E s : /\ MayAsk(s, k, ref)
                      /\ Climbs(q, s, ref) \/ Loses(q, s)
  BY <1>2, FollowOwnerMoves
<1>4. CASE Moves(q, k, AfterWalk(k))
  <2>1. Rests(q, k) /\ q.pc = AfterWalk(k) /\ q.steady = k.steady
    BY <1>4, Resting DEF Rests, Found
  <2>2. Traced(k) => Traced(q)
    BY <1>1, <2>1, RestsTraced DEF AfterWalk, AtPods, OnChain
  <2>3. q.pods = k.pods /\ q.raw = k.raw
    BY <2>1 DEF Rests, SamePods
  <2>4. Clear(k) => Clear(q)
    BY <1>1, <2>3, ClearStays DEF AtPods
  <2>5. QED
    BY <2>1, <2>2, <2>4 DEF Traces
<1>5. ASSUME NEW s, MayAsk(s, k, ref), Loses(q, s)
      PROVE  Traces(q, k)
  BY <1>2, <1>5, PlainTraces
<1>6. ASSUME NEW s, MayAsk(s, k, ref), Climbs(q, s, ref), Len(Chain(k)) < MaxDepth
      PROVE  Traces(q, k)
  <2>1. /\ Rests(s, k) /\ s.pc = "owners"
        /\ (Traced(k) => Traced(s)) /\ (Clear(k) => Clear(s))
    BY <1>1, <1>2, <1>6, AskedRests
  <2>2. /\ s.alert = k.alert /\ s.flux = <<>> /\ s.pods = k.pods /\ s.walk = k.walk
        /\ s.steady = k.steady
    BY <1>2, <2>1 DEF Rests, Found, SamePods
  <2>3. HasPod(s) /\ Chain(s) = Chain(k)
    BY <1>2, <2>2 DEF HasPod, Chain
  <2>4. OwnerRef(s) = ref /\ AlertNamespace(s) = AlertNamespace(k)
    BY <2>2 DEF OwnerRef, AlertNamespace
  <2>5. ASSUME MaxDepth <= 4 PROVE Len(Chain(s)) \in 0..3
    <3>1. Len(Chain(k)) \in Nat
      BY <1>2, AppendIs DEF HasPod
    <3>2. MaxDepth \in Nat
      BY EvidenceBounds
    <3>3. Len(Chain(s)) = Len(Chain(k))
      BY <2>3
    <3> HIDE DEF k
    <3>4. QED
      BY <1>6, <2>5, <3>1, <3>2, <3>3
  <2>6. Traced(s) => Traced(q)
    BY <1>3, <1>6, <2>1, <2>2, <2>3, <2>4, <2>5, ClimbsTraced
  <2>7. q.steady = s.steady
    BY <1>6 DEF Climbs, Grows, Moves, Learns, Silent, Found
  <2>8. Clear(s) => Clear(q)
    BY <1>6, <2>1, <2>3, ClimbsClear
  <2>9. QED
    BY <2>1, <2>2, <2>6, <2>7, <2>8 DEF Traces
<1>7. QED
  BY <1>3, <1>4, <1>5, <1>6

-----------------------------------------------------------------------------
(* The delivery.                                                           *)

InDelivery == OfDelivery \cup AtEnd

LEMMA DeliveryTraces ==
    ASSUME NEW k, NEW s, NEW q, NEW ref, IsCollection(k), MayAsk(s, k, ref),
           k.pc \in InDelivery, q.pc \in InDelivery,
           q.alert = s.alert, Found(q, s), SamePods(q, s),
           Traced(s) => FollowsItsDelivery(q)
    PROVE  Traces(q, k)
<1>1. /\ Rests(s, k) /\ s.pc = k.pc /\ s.steady = k.steady
      /\ Traced(k) => Traced(s)
      /\ Clear(k) => Clear(s)
  BY AskedRests DEF Rests, Found
<1>2. /\ q.alert = s.alert /\ q.labels = s.labels /\ q.steady = s.steady
      /\ q.pods = s.pods
  BY DEF Found, SamePods
<1>3. /\ PodsOf(q) = PodsOf(s) /\ CarriersOf(q) = CarriersOf(s)
      /\ \A name : Sick(q, name) = Sick(s, name)
  BY <1>2, SameAlert
<1>4. q.pc \notin {"list"} \cup AtPods /\ s.pc \notin AtPods
  BY <1>1 DEF InDelivery, OfDelivery, OnChain, AtEnd, AtPods
<1>5. SelectsItsPods(q) /\ HoldsItsPods(q) /\ WalksItsOwners(q)
  BY <1>4 DEF SelectsItsPods, HoldsItsPods, WalksItsOwners, AtPods
<1>6. ASSUME Traced(s) PROVE Traced(q)
  <2>1. \A name : IsShown(q, name) <=> IsShown(s, name)
    BY <1>2, <1>4 DEF IsShown
  <2>2. ShowsASickPod(q)
    BY <1>3, <1>6, <2>1 DEF Traced, ShowsASickPod
  <2>3. KnowsItsLabels(q) /\ IsSeq(q.pods) /\ KeepsItsPods(q)
    BY <1>2, <1>3, <1>6 DEF Traced, KnowsItsLabels, KeepsItsPods
  <2>4. FollowsItsDelivery(q)
    BY <1>6
  <2>5. QED
    BY <1>5, <2>2, <2>3, <2>4 DEF Traced
<1>7. Clear(s) => Clear(q)
  BY <1>2, <1>4, ClearStays
<1>8. QED
  BY <1>1, <1>2, <1>6, <1>7 DEF Traces

(* The steps of it: the target stays, or the chain is over, or the target  *)
(* joined it.                                                              *)
LEMMA Follows ==
    ASSUME NEW s, NEW q, Traced(s), q.alert = s.alert, IsSeq(s.flux),
           \/ q.flux = s.flux /\ q.pc \notin OnChain
           \/ q.flux = s.flux /\ q.target = s.target /\ s.pc \in OnChain
           \/ Extends(q, s) /\ s.pc \in OnChain
    PROVE  FollowsItsDelivery(q)
<1>1. DeliverersOf(q) = DeliverersOf(s)
  BY SameAlert
<1>2. FollowsItsDelivery(s)
  BY DEF Traced
<1>3. CASE q.flux = s.flux /\ q.pc \notin OnChain
  BY <1>1, <1>2, <1>3 DEF FollowsItsDelivery
<1>4. CASE q.flux = s.flux /\ q.target = s.target /\ s.pc \in OnChain
  BY <1>1, <1>2, <1>4 DEF FollowsItsDelivery
<1>5. CASE Extends(q, s) /\ s.pc \in OnChain
  <2>1. PICK item : item.ref = s.target /\ q.flux = Append(s.flux, item)
    BY <1>5 DEF Extends
  <2>2. /\ Len(s.flux) \in Nat /\ q.flux[Len(s.flux) + 1] = item
        /\ \A i \in DOMAIN s.flux : q.flux[i] = s.flux[i]
        /\ DOMAIN s.flux = 1..Len(s.flux) /\ DOMAIN q.flux = 1..(Len(s.flux) + 1)
    BY <2>1, AppendIs
  <2>3. DOMAIN <<>> = {} /\ Len(<<>>) = 0
    OBVIOUS
  <2>4. q.flux # <<>>
    BY <2>2, <2>3
  <2>5. CASE s.flux = <<>>
    <3>1. q.flux[1].ref = s.target
      BY <2>1, <2>2, <2>3, <2>5
    <3>2. QED
      BY <1>1, <1>2, <1>5, <2>4, <2>5, <3>1 DEF FollowsItsDelivery
  <2>6. CASE s.flux # <<>>
    <3>1. 1 \in DOMAIN s.flux
      <4>1. PICK S : s.flux \in Seq(S)
        BY DEF IsSeq
      <4>2. QED
        BY <2>2, <2>6, <4>1, EmptySeq
    <3>2. QED
      BY <1>1, <1>2, <2>2, <2>4, <2>6, <3>1 DEF FollowsItsDelivery
  <2>7. QED
    BY <2>5, <2>6
<1>6. QED
  BY <1>3, <1>4, <1>5

LEMMA ResolveTargetTraces ==
    ASSUME NEW c \in DOMAIN collections, Sound(collections[c]), FiniteCluster,
           ResolveTarget(c)
    PROVE  Traces(collections'[c], collections[c])
<1> DEFINE k == collections[c]
           q == collections'[c]
<1>1. IsCollection(k) /\ MayAsk(k, k, NoObject) /\ k.pc = "target" /\ k.flux = <<>>
  BY ResolveTargetMoves DEF Sound, MayAsk, Ordered
<1>2. CASE Moves(q, k, "decide")
  BY <1>1, <1>2, Resting, PlainTraces DEF Led, AtPods, OnChain
<1>3. ASSUME Keeps(q, k), q.flux = k.flux, q.pc = "version", q.target # NoObject,
             q.target = IF IsAboutFlux(k.alert) THEN GitopsRef(k.alert)
                        ELSE DeliveredBy(k.labels)
      PROVE  Traces(q, k)
  <2>1. q.alert = k.alert /\ Found(q, k) /\ SamePods(q, k)
    BY <1>3 DEF Keeps, Silent, SamePods
  <2>2. DeliverersOf(q) = DeliverersOf(k)
    BY <2>1, SameAlert
  <2>3. ASSUME MaxDepth <= 4, Traced(k) PROVE q.target \in DeliverersOf(k)
    <3>1. CASE IsAboutFlux(k.alert)
      BY <1>3, <3>1 DEF DeliverersOf
    <3>2. CASE ~IsAboutFlux(k.alert)
      <4>1. /\ IsSeq(k.labels)
            /\ \A i \in DOMAIN k.labels :
                  \E ref \in CarriersOf(k) : k.labels[i] = cluster.objects[ref].gitops
        BY <2>3 DEF Traced, KnowsItsLabels
      <4>2. \A i \in DOMAIN k.labels : IsSeq(k.labels[i])
        BY <4>1 DEF FiniteCluster, CarriersOf, IsSeq
      <4>3. q.target = DeliveredBy(k.labels)
        BY <1>3, <3>2
      <4>4. PICK i \in DOMAIN k.labels : q.target \in Range(k.labels[i])
        BY <1>3, <4>1, <4>2, <4>3, DeliveredIsLabelled
      <4>5. QED
        BY <3>2, <4>1, <4>4 DEF DeliverersOf
    <3>3. QED
      BY <3>1, <3>2
  <2>4. Traced(k) => FollowsItsDelivery(q)
    BY <1>1, <1>3, <2>2, <2>3 DEF FollowsItsDelivery
  <2>5. QED
    BY <1>1, <1>3, <2>1, <2>4, DeliveryTraces DEF InDelivery, OfDelivery, OnChain
<1>4. QED
  BY <1>1, <1>2, <1>3, ResolveTargetMoves

(* The steps along the chain.                                              *)
Along(q, s) ==
    \/ Concludes(q, s) \/ (\E version : Takes(q, s, version))
    \/ /\ Keeps(q, s) /\ q.flux = s.flux /\ q.target = s.target
       /\ q.pc \in InDelivery
    \/ Extends(q, s) /\ (Closes(q) \/ q.pc = "version")
    \/ Loses(q, s)

LEMMA AlongTraces ==
    ASSUME NEW k, NEW s, NEW q, NEW ref, IsCollection(k), IsSeq(k.flux), k.pc \in OnChain,
           MayAsk(s, k, ref), Along(q, s)
    PROVE  Traces(q, k)
<1>1. /\ Rests(s, k) /\ s.pc = k.pc /\ s.flux = k.flux
      /\ Traced(k) => Traced(s)
  BY AskedRests DEF Rests
<1>2. CASE Loses(q, s)
  BY <1>2, PlainTraces
<1>3. CASE ~Loses(q, s)
  <2>1. Keeps(q, s) /\ q.pc \in InDelivery
    BY <1>3 DEF Along, Concludes, Takes, Extends, Closes, InDelivery, OfDelivery, OnChain,
                AtEnd
  <2>2. q.alert = s.alert /\ Found(q, s) /\ SamePods(q, s)
    BY <2>1 DEF Keeps, Silent, SamePods
  <2>3. \/ q.flux = s.flux /\ q.pc \notin OnChain
        \/ q.flux = s.flux /\ q.target = s.target /\ s.pc \in OnChain
        \/ Extends(q, s) /\ s.pc \in OnChain
    BY <1>1, <1>3 DEF Along, Concludes, Takes, Closes, OnChain
  <2>4. Traced(s) => FollowsItsDelivery(q)
    BY <1>1, <2>2, <2>3, Follows
  <2>5. k.pc \in InDelivery
    BY DEF InDelivery, OfDelivery
  <2>6. QED
    BY <2>1, <2>2, <2>4, <2>5, DeliveryTraces
<1>4. QED
  BY <1>2, <1>3

LEMMA ChainTraces ==
    ASSUME NEW c \in DOMAIN collections, Sound(collections[c]),
           ResolveVersion(c) \/ Discover(c) \/ StoreVersion(c) \/ GetFlux(c)
    PROVE  Traces(collections'[c], collections[c])
<1> DEFINE k == collections[c]
           q == collections'[c]
<1>1. IsCollection(k) /\ MayAsk(k, k, NoObject) /\ IsSeq(k.flux)
  BY DEF Sound, MayAsk, Ordered
<1>2. \A s, l : Moves(q, s, l) => Keeps(q, s) /\ q.flux = s.flux /\ q.target = s.target
                                  /\ q.pc = l
  BY DEF Moves, Core, Keeps, Silent, SamePods
<1>3. {"flux", "discover", "store"} \subseteq InDelivery
  BY DEF InDelivery, OfDelivery, OnChain
<1>4. CASE ResolveVersion(c)
  <2>1. k.pc = "version"
        /\ (Concludes(q, k) \/ Moves(q, k, "flux") \/ Moves(q, k, "discover")
            \/ Takes(q, k, cached.version))
    BY <1>1, <1>4, ResolveVersionMoves
  <2>2. Along(q, k)
    BY <1>2, <1>3, <2>1 DEF Along
  <2>3. QED
    BY <1>1, <2>1, <2>2, AlongTraces DEF OnChain
<1>5. CASE Discover(c)
  <2>1. k.pc = "discover"
    BY <1>1, <1>5, DiscoverMoves
  <2>2. PICK s : /\ MayAsk(s, k, <<"APIGroup", Nobody, "*">>)
                 /\ \/ Concludes(q, s) \/ Loses(q, s)
                    \/ /\ Keeps(q, s) /\ q.flux = s.flux /\ q.target = s.target
                       /\ q.pc = "store"
    BY <1>1, <1>5, DiscoverMoves
  <2>3. Along(q, s)
    BY <1>3, <2>2 DEF Along
  <2>4. QED
    BY <1>1, <2>1, <2>2, <2>3, AlongTraces DEF OnChain
<1>6. CASE StoreVersion(c)
  <2>1. k.pc = "store" /\ Along(q, k)
    BY <1>1, <1>6, StoreVersionMoves DEF Along
  <2>2. QED
    BY <1>1, <2>1, AlongTraces DEF OnChain
<1>7. CASE GetFlux(c)
  <2>1. k.pc = "flux"
    BY <1>1, <1>7, GetFluxMoves
  <2>2. PICK s : /\ MayAsk(s, k, k.target)
                 /\ \/ Concludes(q, s) \/ Loses(q, s)
                    \/ Extends(q, s) /\ (Closes(q) \/ q.pc = "version")
    BY <1>1, <1>7, GetFluxMoves
  <2>3. Along(q, s)
    BY <2>2 DEF Along
  <2>4. QED
    BY <1>1, <2>1, <2>2, <2>3, AlongTraces DEF OnChain
<1>8. QED
  BY <1>4, <1>5, <1>6, <1>7

LEMMA FluxEventsTrace ==
    ASSUME NEW c \in DOMAIN collections, Sound(collections[c]),
           GetFluxEvents(c) \/ KeepFluxEvents(c)
    PROVE  Traces(collections'[c], collections[c])
<1> DEFINE k == collections[c]
           q == collections'[c]
<1>1. IsCollection(k) /\ MayAsk(k, k, NoObject)
  BY DEF Sound, MayAsk
<1>2. CASE GetFluxEvents(c)
  <2>1. PICK i, s : /\ k.pc = "flux_events" /\ MayAsk(s, k, EventsOf(k.flux[i].ref))
                    /\ Loses(q, s) \/ Hears(q, s, i)
    BY <1>1, <1>2, GetFluxEventsMoves
  <2>2. s.pc = "flux_events"
    BY <1>1, <2>1, AskedRests
  <2>3. Loses(q, s) \/ (Rests(q, s) /\ q.pc = "flux_events")
    BY <2>1, <2>2, Resting DEF Hears
  <2>4. QED
    BY <1>1, <2>1, <2>3, PlainTraces DEF Led, AtPods, OnChain
<1>3. CASE KeepFluxEvents(c)
  <2>1. k.pc = "flux_events" /\ q.pc = "decide" /\ Rests(q, k)
    BY <1>1, <1>3, KeepFluxEventsMoves DEF Rests, Silent
  <2>2. QED
    BY <1>1, <2>1, PlainTraces DEF Led, AtPods, OnChain
<1>4. QED
  BY <1>2, <1>3

LEMMA StepTraces ==
    ASSUME NEW c \in DOMAIN collections, Sound(collections[c]), FiniteCluster, Step(c)
    PROVE  Traces(collections'[c], collections[c])
<1>1. CASE \/ Filter(c) \/ Triage(c) \/ QueryLogs(c) \/ QueryMetrics(c) \/ CheckScope(c)
           \/ NoPods(c) \/ Decide(c)
  BY <1>1, FrontTraces
<1>2. CASE GetPod(c) \/ GetWorkload(c) \/ ListPods(c) \/ ParseNextPod(c) \/ FollowOwner(c)
  BY <1>2, GetPodTraces, GetWorkloadTraces, ListPodsTraces, ParseNextPodTraces,
     FollowOwnerTraces
<1>3. CASE ChooseSources(c) \/ GetEvents(c) \/ KeepEvents(c) \/ NoClaim(c) \/ GetClaim(c)
           \/ GetClaimEvents(c) \/ MergeEvents(c) \/ GetNode(c)
  BY <1>3, EventsTrace
<1>4. CASE ResolveTarget(c) \/ ResolveVersion(c) \/ Discover(c) \/ StoreVersion(c)
           \/ GetFlux(c) \/ GetFluxEvents(c) \/ KeepFluxEvents(c)
  BY <1>4, ResolveTargetTraces, ChainTraces, FluxEventsTrace
<1>5. QED
  BY <1>1, <1>2, <1>3, <1>4 DEF Step

-----------------------------------------------------------------------------
(* What was traced stays so while the cluster is the same.                 *)
LEMMA TracedLater ==
    ASSUME NEW c, cluster' = cluster, Traced(collections'[c])
    PROVE  Traced(collections[c])'
<1> DEFINE q == collections'[c]
<1>1. AlertNamespace(collections[c])' = AlertNamespace(q)
  BY DEF AlertNamespace
<1>2. PodRef(collections[c])' = PodRef(q)
  BY DEF AlertNamespace, PodRef
<1>3. Workload(collections[c])' = Workload(q)
  BY DEF Workload, AlertNamespace, SelectInSeq
<1>4. Chain(collections[c])' = Chain(q)
  BY DEF Chain
<1>5. \A S : WithControllers(S)' = WithControllers(S)
  BY DEF WithControllers
<1>6. PodsOf(collections[c])' = PodsOf(q)
  BY <1>1, <1>2, <1>3 DEF PodsOf, Matching
<1>7. CarriersOf(collections[c])' = CarriersOf(q)
  BY <1>3, <1>5, <1>6 DEF CarriersOf
<1>8. DeliverersOf(collections[c])' = DeliverersOf(q)
  BY <1>7 DEF DeliverersOf
<1>9. \A n : Kin(collections[c], n)' = Kin(q, n)
  BY <1>5, <1>6 DEF Kin
<1>10. \A name : Sick(collections[c], name)' = Sick(q, name)
  BY <1>1 DEF Sick
<1>11. \A name : IsShown(collections[c], name)' = IsShown(q, name)
  BY DEF IsShown
<1>12. SelectsItsPods(collections[c])'
  BY <1>2, <1>3 DEF Traced, SelectsItsPods
<1>13. HoldsItsPods(collections[c])'
  BY <1>6 DEF Traced, HoldsItsPods, ReadPod
<1>14. KeepsItsPods(collections[c])'
  BY <1>6 DEF Traced, KeepsItsPods, SpecOf
<1>15. ShowsASickPod(collections[c])'
  BY <1>6, <1>10, <1>11 DEF Traced, ShowsASickPod
<1>16. WalksItsOwners(collections[c])'
  BY <1>1, <1>4, <1>9 DEF Traced, WalksItsOwners
<1>17. KnowsItsLabels(collections[c])'
  BY <1>7 DEF Traced, KnowsItsLabels
<1>18. FollowsItsDelivery(collections[c])'
  BY <1>8 DEF Traced, FollowsItsDelivery
<1>19. QED
  BY <1>12, <1>13, <1>14, <1>15, <1>16, <1>17, <1>18 DEF Traced

LEMMA FreshTraced ==
    ASSUME NEW alert
    PROVE  Traced(Fresh(alert))
<1> DEFINE k == Fresh(alert)
<1>1. k.pods = <<>> /\ k.flux = <<>> /\ k.labels = <<>> /\ k.pc = "filter"
  BY DEF Fresh
<1> HIDE DEF k
<1>2. <<>> \in Seq({}) /\ DOMAIN <<>> = {}
  OBVIOUS
<1>3. SelectsItsPods(k) /\ FollowsItsDelivery(k)
  BY <1>1 DEF SelectsItsPods, FollowsItsDelivery, OnChain
<1>4. KnowsItsLabels(k)
  BY <1>1, <1>2 DEF KnowsItsLabels, IsSeq
<1>5. QED
  BY <1>1, <1>3, <1>4, NothingShown DEF Traced, AtPods, k

(* As long as the cluster stays, every collection is led by its own alert. *)
THEOREM EvidenceIsTraced == Spec => []TracedInv
<1>1. Init => TracedInv
  BY FreshTraced DEF Init, TracedInv
<1>2. ASSUME TracedInv, EvidenceInv, [Next]_vars
      PROVE  TracedInv'
  <2>1. ASSUME NEW c \in DOMAIN collections, Step(c)
        PROVE  TracedInv'
    <3>1. /\ cluster' = cluster /\ DOMAIN collections' = DOMAIN collections
          /\ \A d \in DOMAIN collections : d # c => collections'[d] = collections[d]
      BY <2>1, StepIsOne DEF OnlyOf, Outside
    <3>2. Traces(collections'[c], collections[c])
      BY <1>2, <2>1, StepTraces DEF EvidenceInv
    <3>3. \A d \in DOMAIN collections : collections'[d].steady => Traced(collections'[d])
      BY <1>2, <3>1, <3>2 DEF Traces, TracedInv
    <3>4. QED
      BY <3>1, <3>3, TracedLater DEF TracedInv
  <2>2. CASE Change \/ Upgrade
    <3>1. \A c \in DOMAIN collections : IsCollection(collections[c])
      BY <1>2 DEF EvidenceInv, Sound
    <3>2. Unsettled /\ DOMAIN collections' = DOMAIN collections
      BY <2>2 DEF Change, Upgrade, Unsettled
    <3>3. \A c \in DOMAIN collections : collections'[c].steady = FALSE
      BY <3>1, <3>2, UnsettledIsSame
    <3>4. QED
      BY <3>2, <3>3 DEF TracedInv
  <2>3. CASE Tick \/ UNCHANGED vars
    <3>1. cluster' = cluster /\ collections' = collections
      BY <2>3 DEF Tick, vars
    <3>2. \A c \in DOMAIN collections : collections'[c].steady => Traced(collections'[c])
      BY <1>2, <3>1 DEF TracedInv
    <3>3. QED
      BY <3>1, <3>2, TracedLater DEF TracedInv
  <2>4. QED
    BY <1>2, <2>1, <2>2, <2>3 DEF Next
<1>3. QED
  BY <1>1, <1>2, EvidenceInvariant, PTL DEF Spec

(* What one collection found out about owners never leads another one to   *)
(* the delivery of something else: OwnAlertOnly, for every cluster, with   *)
(* as many owners of a pod as the code follows at most (MAX_OWNER_DEPTH,   *)
(* kubernetes_client.py:74) or fewer.                                      *)
THEOREM OwnDelivery ==
    ASSUME MaxDepth <= 4
    PROVE  Spec => []OwnAlertOnly
<1>1. TracedInv => OwnAlertOnly
  BY DEF TracedInv, Traced, FollowsItsDelivery, OwnAlertOnly
<1>2. QED
  BY <1>1, EvidenceIsTraced, PTL

(* A workload with a sick pod, and with no more pods than are asked for,   *)
(* shows a sick one among its pods: TheSickPodIsShown, for every cluster   *)
(* and however few are shown.                                              *)
THEOREM SickPodIsShown == Spec => []TheSickPodIsShown
<1>1. TracedInv => TheSickPodIsShown
  <2> SUFFICES ASSUME TracedInv, NEW c \in DOMAIN collections,
                      Settled(collections[c]), collections[c].pods # <<>>,
                      Cardinality(PodsOf(collections[c])) <= ScanLimit,
                      \E ref \in PodsOf(collections[c]) :
                          Sick(collections[c], NameOf(ref))
               PROVE  \E i \in DOMAIN collections[c].pods :
                          Sick(collections[c], collections[c].pods[i].name)
    BY DEF TheSickPodIsShown, Sick
  <2> DEFINE k == collections[c]
  <2>1. Traced(k) /\ k.pc = "done"
    BY DEF TracedInv, Settled
  <2>2. 1 \in DOMAIN k.pods
    <3>1. PICK S : k.pods \in Seq(S)
      BY <2>1 DEF Traced, IsSeq
    <3>2. QED
      BY <3>1, EmptySeq, LenProperties
  <2>3. IsShown(k, k.pods[1].name)
    BY <2>2 DEF IsShown
  <2>4. PICK name : IsShown(k, name) /\ Sick(k, name)
    BY <2>1, <2>3 DEF Traced, ShowsASickPod
  <2>5. QED
    BY <2>1, <2>4 DEF IsShown, AtPods
<1>2. QED
  BY <1>1, EvidenceIsTraced, PTL

(* Only what redaction leaves of a known spec is shown.                    *)
LEMMA EvidenceIsClear ==
    ASSUME PodsAreKnown
    PROVE  Spec => []ClearInv
<1>1. Init => ClearInv
  <2> SUFFICES ASSUME Init PROVE ClearInv
    OBVIOUS
  <2>1. world \in DOMAIN AllOf /\ cluster = AllOf[world].cluster
    BY DEF Init, World
  <2>2. KnownPods
    BY <2>1 DEF KnownPods, PodsAreKnown
  <2>3. ASSUME NEW c \in DOMAIN collections PROVE Clear(collections[c])
    <3>1. collections[c].pods = <<>> /\ collections[c].pc = "filter"
      BY DEF Init, Fresh
    <3>2. QED
      BY <3>1, NothingIsClear DEF AtPods
  <2>4. QED
    BY <2>2, <2>3 DEF ClearInv
<1>2. ASSUME ClearInv, EvidenceInv, [Next]_vars
      PROVE  ClearInv'
  <2>1. ASSUME NEW c \in DOMAIN collections, Step(c)
        PROVE  ClearInv'
    <3>1. /\ cluster' = cluster /\ DOMAIN collections' = DOMAIN collections
          /\ \A d \in DOMAIN collections : d # c => collections'[d] = collections[d]
      BY <2>1, StepIsOne DEF OnlyOf, Outside
    <3>2. Traces(collections'[c], collections[c])
      BY <1>2, <2>1, StepTraces DEF EvidenceInv
    <3>3. \A d \in DOMAIN collections : Clear(collections'[d])
      BY <1>2, <3>1, <3>2 DEF Traces, ClearInv
    <3>4. QED
      BY <1>2, <3>1, <3>3 DEF ClearInv, KnownPods, Clear
  <2>2. CASE Change \/ Upgrade
    <3>1. ASSUME NEW c \in DOMAIN collections PROVE Clear(collections'[c])
      <4>1. IsCollection(collections[c]) /\ Clear(collections[c])
        BY <1>2 DEF EvidenceInv, Sound, ClearInv
      <4>2. Shifts(collections'[c], collections[c], collections[c].pc)
        BY <2>2, <4>1, UnsettledIsSame DEF Change, Upgrade
      <4>3. QED
        BY <4>1, <4>2, ClearStays DEF Shifts, SamePods
    <3>2. DOMAIN collections' = DOMAIN collections
      BY <2>2 DEF Change, Upgrade, Unsettled
    <3>3. KnownPods'
      <4>1. CASE Change
        <5>1. world \in DOMAIN AllOf /\ cluster' \in AllOf[world].changes
          BY <1>2, <4>1 DEF EvidenceInv, Change, World
        <5>2. QED
          BY <5>1 DEF KnownPods, PodsAreKnown
      <4>2. CASE Upgrade
        BY <1>2, <4>2 DEF Upgrade, ClearInv, KnownPods
      <4>3. QED
        BY <2>2, <4>1, <4>2
    <3>4. QED
      BY <3>1, <3>2, <3>3 DEF ClearInv, Clear
  <2>3. CASE Tick \/ UNCHANGED vars
    <3>1. cluster' = cluster /\ collections' = collections
      BY <2>3 DEF Tick, vars
    <3>2. QED
      BY <1>2, <3>1 DEF ClearInv, KnownPods, Clear
  <2>4. QED
    BY <1>2, <2>1, <2>2, <2>3 DEF Next
<1>3. QED
  BY <1>1, <1>2, EvidenceInvariant, PTL DEF Spec

(* Nothing secret of a pod's spec is shown and all the rest of it is, of   *)
(* the pod with the name that is shown: SecretsStayOut, for every cluster, *)
(* whatever is replaced in it meanwhile, if redaction does to the specs    *)
(* that there are what TLC finds it to do to those of the run.             *)
THEOREM SecretsAreRedacted ==
    ASSUME PodsAreKnown, Redacts
    PROVE  Spec => []SecretsStayOut
<1>1. EvidenceInv /\ TracedInv /\ ClearInv => SecretsStayOut
  <2> SUFFICES ASSUME EvidenceInv, TracedInv, ClearInv, NEW c \in DOMAIN collections,
                      NEW i \in DOMAIN collections[c].pods
               PROVE  LET k == collections[c]
                          shown == k.pods[i].spec
                          ref == <<"Pod", AlertNamespace(k), k.pods[i].name>>
                      IN  /\ "secret" \notin shown
                          /\ k.steady /\ shown # {"omitted"} =>
                                 SpecHolds[cluster.objects[ref].spec] \ {"secret"}
                                     \subseteq shown
    BY DEF SecretsStayOut
  <2> DEFINE k == collections[c]
             shown == k.pods[i].spec
             named == <<"Pod", AlertNamespace(k), k.pods[i].name>>
  <2>1. "secret" \notin shown
    <3>1. shown = {"omitted"} \/ \E spec \in DOMAIN SpecHolds : shown = SpecShows[spec]
      BY DEF ClearInv, Clear
    <3>2. QED
      BY <3>1 DEF Redacts
  <2>2. ASSUME k.steady, shown # {"omitted"}
        PROVE  SpecHolds[cluster.objects[named].spec] \ {"secret"} \subseteq shown
    <3>1. PICK ref \in PodsOf(k) :
             k.pods[i].name = NameOf(ref) /\ shown = SpecOf(cluster.objects[ref])
      BY <2>2 DEF TracedInv, Traced, KeepsItsPods
    <3>2. named = ref /\ ref \in DOMAIN cluster.objects
      <4>1. CASE NameOf(PodRef(k)) # Nobody
        BY <3>1, <4>1 DEF PodsOf, PodRef, NameOf
      <4>2. CASE NameOf(PodRef(k)) = Nobody
        <5>1. PICK selector : ref \in Matching(AlertNamespace(k), selector)
          BY <3>1, <4>2 DEF PodsOf
        <5>2. QED
          BY <3>1, <5>1, PodsAreNamed DEF EvidenceInv
      <4>3. QED
        BY <4>1, <4>2
    <3>3. cluster.objects[ref].spec \in DOMAIN SpecHolds
          /\ shown = SpecShows[cluster.objects[ref].spec]
      <4>1. KindOf(ref) = "Pod"
        BY <3>2 DEF KindOf
      <4>2. Known(cluster.objects[ref])
        BY <3>2, <4>1 DEF ClearInv, KnownPods
      <4>3. QED
        BY <2>2, <3>1, <4>2 DEF SpecOf, Known
    <3>4. QED
      BY <3>2, <3>3 DEF Redacts
  <2>3. QED
    BY <2>1, <2>2
<1>2. QED
  BY <1>1, EvidenceInvariant, EvidenceIsTraced, EvidenceIsClear, PTL

-----------------------------------------------------------------------------
(* Every pod that is shown is asked about when it comes to events.          *)

(* What holds of 0, and of the next of each below n, holds up to n.        *)
LEMMA UpTo ==
    ASSUME NEW n \in Nat, NEW T, 0 \in T,
           \A i \in 0..n : i \in T /\ i < n => i + 1 \in T
    PROVE  0..n \subseteq T
<1> DEFINE rest == (0..n) \ T
           m == Min(rest)
<1> SUFFICES ASSUME rest # {} PROVE FALSE
  OBVIOUS
<1>1. rest \subseteq Nat /\ rest # {}
  OBVIOUS
<1>2. m \in rest /\ \A i \in rest : m <= i
  <2> HIDE DEF rest
  <2> QED
    BY <1>1, Least
<1>3. m # 0 /\ m - 1 \in 0..n /\ m - 1 < n /\ (m - 1) + 1 = m /\ ~(m <= m - 1)
  <2> HIDE DEF m
  <2> QED
    BY <1>2
<1>4. m - 1 \in T
  BY <1>2, <1>3
<1> HIDE DEF m
<1>5. QED
  BY <1>2, <1>3, <1>4

(* The names of pods, in the order in which they are collected.            *)
CollectsNames(named, names, more, n) ==
    named = [i \in 0..n |-> IF i = 0 THEN names ELSE Named(named[i - 1], more[i])]

LEMMA NamesExist ==
    ASSUME NEW names, NEW more, NEW n \in Nat
    PROVE  \E named : CollectsNames(named, names, more, n)
<1> DEFINE T == {k \in 0..n : \E named : CollectsNames(named, names, more, k)}
<1>1. 0 \in T
  <2>1. CollectsNames([i \in 0..0 |-> names], names, more, 0)
    BY DEF CollectsNames
  <2>2. QED
    BY <2>1
<1>2. ASSUME NEW k \in 0..n, k \in T, k < n
      PROVE  k + 1 \in T
  <2>1. PICK named : CollectsNames(named, names, more, k)
    BY <1>2
  <2> DEFINE grown == [i \in 0..(k + 1) |->
                          IF i <= k THEN named[i] ELSE Named(named[k], more[i])]
  <2>2. ASSUME NEW i \in 0..(k + 1)
        PROVE  grown[i] = IF i = 0 THEN names ELSE Named(grown[i - 1], more[i])
    <3>1. CASE i = 0
      BY <2>1, <3>1 DEF CollectsNames
    <3>2. CASE i # 0 /\ i <= k
      <4>1. i \in 0..k /\ i - 1 \in 0..(k + 1) /\ i - 1 <= k
        BY <3>2
      <4>2. named[i] = Named(named[i - 1], more[i])
        BY <2>1, <3>2, <4>1 DEF CollectsNames
      <4>3. QED
        BY <3>2, <4>1, <4>2
    <3>3. CASE i = k + 1
      BY <3>3
    <3>4. QED
      BY <3>1, <3>2, <3>3
  <2>3. CollectsNames(grown, names, more, k + 1)
    BY <2>2 DEF CollectsNames
  <2> HIDE DEF grown
  <2>4. k + 1 \in 0..n
    BY <1>2
  <2>5. QED
    BY <2>3, <2>4
<1> HIDE DEF T
<1>3. 0..n \subseteq T
  BY <1>1, <1>2, UpTo
<1>4. n \in T
  BY <1>3
<1>5. QED
  BY <1>4 DEF T

(* A name that is added is there, and so are the others.                   *)
LEMMA NamedHas ==
    ASSUME NEW names, IsSeq(names), NEW name
    PROVE  /\ IsSeq(Named(names, name)) /\ Range(names) \subseteq Range(Named(names, name))
           /\ name # Nobody => name \in Range(Named(names, name))
<1>1. /\ IsSeq(Append(names, name)) /\ Len(names) \in Nat
      /\ Append(names, name)[Len(names) + 1] = name
      /\ \A i \in DOMAIN names : Append(names, name)[i] = names[i]
      /\ DOMAIN names = 1..Len(names) /\ DOMAIN Append(names, name) = 1..(Len(names) + 1)
  BY AppendIs
<1>2. Range(names) \subseteq Range(Append(names, name)) /\ name \in Range(Append(names, name))
  <2>1. DOMAIN names \subseteq DOMAIN Append(names, name)
        /\ Len(names) + 1 \in DOMAIN Append(names, name)
    BY <1>1
  <2>2. QED
    BY <1>1, <2>1 DEF Range
<1>3. CASE name = Nobody \/ Contains(names, name)
  <2>1. Named(names, name) = names
    BY <1>3 DEF Named
  <2>2. name # Nobody => name \in Range(names)
    BY <1>1, <1>3 DEF Contains, Range
  <2>3. QED
    BY <2>1, <2>2
<1>4. CASE ~(name = Nobody \/ Contains(names, name))
  BY <1>1, <1>2, <1>4 DEF Named
<1>5. QED
  BY <1>3, <1>4

LEMMA AllNamedHave ==
    ASSUME NEW names, NEW more, IsSeq(names), IsSeq(more)
    PROVE  /\ IsSeq(AllNamed(names, more)) /\ Range(names) \subseteq Range(AllNamed(names, more))
           /\ \A j \in DOMAIN more :
                 more[j] # Nobody => more[j] \in Range(AllNamed(names, more))
<1> DEFINE n == Len(more)
           named == CHOOSE f : CollectsNames(f, names, more, n)
<1>1. n \in Nat /\ DOMAIN more = 1..n
  BY AppendIs
<1>2. CollectsNames(named, names, more, n)
  BY <1>1, NamesExist
<1>3. AllNamed(names, more) = named[n]
  BY DEF AllNamed, CollectsNames
<1> HIDE DEF named, n
<1>4. /\ named[0] = names
      /\ \A i \in 0..n : i < n => named[i + 1] = Named(named[i], more[i + 1])
  <2>1. named[0] = names
    BY <1>1, <1>2 DEF CollectsNames
  <2>2. ASSUME NEW i \in 0..n, i < n
        PROVE  named[i + 1] = Named(named[i], more[i + 1])
    <3>1. i + 1 \in 0..n /\ i + 1 # 0 /\ (i + 1) - 1 = i
      BY <1>1, <2>2
    <3>2. QED
      BY <1>2, <3>1 DEF CollectsNames
  <2>3. QED
    BY <2>1, <2>2
<1> DEFINE has(i) == /\ IsSeq(named[i]) /\ Range(names) \subseteq Range(named[i])
                     /\ \A j \in 1..i : more[j] # Nobody => more[j] \in Range(named[i])
           T == {i \in 0..n : has(i)}
<1>5. 0 \in T
  BY <1>1, <1>4
<1>6. ASSUME NEW i \in 0..n, i \in T, i < n
      PROVE  i + 1 \in T
  <2>1. /\ IsSeq(named[i + 1]) /\ Range(named[i]) \subseteq Range(named[i + 1])
        /\ more[i + 1] # Nobody => more[i + 1] \in Range(named[i + 1])
    BY <1>4, <1>6, NamedHas
  <2>2. \A j \in 1..(i + 1) : j \in 1..i \/ j = i + 1
    BY <1>1
  <2>3. i + 1 \in 0..n
    BY <1>1, <1>6
  <2>4. QED
    BY <1>6, <2>1, <2>2, <2>3
<1>7. 0..n \subseteq T
  <2> HIDE DEF T
  <2> QED
    BY <1>1, <1>5, <1>6, UpTo
<1>8. has(n)
  BY <1>1, <1>7
<1>9. QED
  BY <1>1, <1>3, <1>8

CollectsPods(named, pods, n) ==
    LET ofPod(pod) == <<pod.name>> \o [i \in DOMAIN pod.chain |-> pod.chain[i].name]
    IN  named = [i \in 0..n |-> IF i = 0 THEN <<>>
                                ELSE AllNamed(named[i - 1], ofPod(pods[i]))]

LEMMA PodNamesExist ==
    ASSUME NEW pods, NEW n \in Nat
    PROVE  \E named : CollectsPods(named, pods, n)
<1> DEFINE T == {k \in 0..n : \E named : CollectsPods(named, pods, k)}
           ofPod(pod) == <<pod.name>> \o [i \in DOMAIN pod.chain |-> pod.chain[i].name]
           next(named, i) == AllNamed(named, ofPod(pods[i]))
<1>0. \A named, k : CollectsPods(named, pods, k) <=>
                    named = [i \in 0..k |-> IF i = 0 THEN <<>> ELSE next(named[i - 1], i)]
  BY DEF CollectsPods
<1> HIDE DEF next
<1>1. 0 \in T
  <2> DEFINE first == [i \in 0..0 |-> <<>>]
  <2>1. first = [i \in 0..0 |-> IF i = 0 THEN <<>> ELSE next(first[i - 1], i)]
    OBVIOUS
  <2> HIDE DEF first
  <2>2. CollectsPods(first, pods, 0)
    BY <1>0, <2>1
  <2>3. QED
    BY <2>2
<1>2. ASSUME NEW k \in 0..n, k \in T, k < n
      PROVE  k + 1 \in T
  <2>1. PICK named : named = [i \in 0..k |-> IF i = 0 THEN <<>> ELSE next(named[i - 1], i)]
    BY <1>0, <1>2
  <2> DEFINE grown == [i \in 0..(k + 1) |->
                          IF i <= k THEN named[i] ELSE next(named[k], i)]
  <2>2. ASSUME NEW i \in 0..(k + 1)
        PROVE  grown[i] = IF i = 0 THEN <<>> ELSE next(grown[i - 1], i)
    <3>1. CASE i = 0
      BY <2>1, <3>1
    <3>2. CASE i # 0 /\ i <= k
      <4>1. i \in 0..k /\ i - 1 \in 0..(k + 1) /\ i - 1 <= k
        BY <3>2
      <4>2. named[i] = next(named[i - 1], i)
        BY <2>1, <3>2, <4>1
      <4>3. QED
        BY <3>2, <4>1, <4>2
    <3>3. CASE i = k + 1
      BY <3>3
    <3>4. QED
      BY <3>1, <3>2, <3>3
  <2>3. grown = [i \in 0..(k + 1) |-> IF i = 0 THEN <<>> ELSE next(grown[i - 1], i)]
    BY <2>2
  <2> HIDE DEF grown
  <2>4. CollectsPods(grown, pods, k + 1)
    BY <1>0, <2>3
  <2>5. k + 1 \in 0..n
    BY <1>2
  <2>6. QED
    BY <2>4, <2>5
<1> HIDE DEF T
<1>3. 0..n \subseteq T
  BY <1>1, <1>2, UpTo
<1>4. n \in T
  BY <1>3
<1>5. QED
  BY <1>4 DEF T

(* Every pod that is shown is asked about.                                 *)
LEMMA PodsAreSources ==
    ASSUME NEW pods, NEW queried, IsSeq(pods),
           \A i \in DOMAIN pods : IsSeq(pods[i].chain) /\ pods[i].name # Nobody
    PROVE  \A i \in DOMAIN pods : \E j \in DOMAIN EventSources(pods, queried) :
               EventSources(pods, queried)[j] = pods[i].name
<1> DEFINE n == Len(pods)
           named == CHOOSE f : CollectsPods(f, pods, n)
           ofPod(pod) == <<pod.name>> \o [i \in DOMAIN pod.chain |-> pod.chain[i].name]
           other == AllNamed(<<>>, [i \in DOMAIN queried |-> NameOf(queried[i])])
<1>1. n \in Nat /\ DOMAIN pods = 1..n
  BY AppendIs
<1>2. CollectsPods(named, pods, n)
  BY <1>1, PodNamesExist
<1>3. EventSources(pods, queried) = IF named[n] # <<>> THEN named[n] ELSE other
  BY DEF EventSources, CollectsPods
<1> HIDE DEF named, n, other
<1>4. ASSUME NEW i \in DOMAIN pods
      PROVE  /\ IsSeq(ofPod(pods[i])) /\ 1 \in DOMAIN ofPod(pods[i])
             /\ ofPod(pods[i])[1] = pods[i].name
  <2> DEFINE chain == pods[i].chain
             owners == [j \in DOMAIN chain |-> chain[j].name]
  <2>1. DOMAIN chain = 1..Len(chain) /\ Len(chain) \in Nat
    BY <1>4, AppendIs
  <2>2. owners = [j \in 1..Len(chain) |-> owners[j]]
    BY <2>1
  <2>3. IsSeq(owners)
    <3> HIDE DEF owners, chain
    <3> QED
      BY <2>1, <2>2, FunctionIsSeq
  <2>4. PICK S : owners \in Seq(S)
    BY <2>3 DEF IsSeq
  <2> HIDE DEF owners
  <2>5. owners \in Seq(S \cup {pods[i].name}) /\ <<pods[i].name>> \in Seq(S \cup {pods[i].name})
    BY <2>4
  <2>6. <<pods[i].name>> \o owners \in Seq(S \cup {pods[i].name})
    BY <2>5
  <2>7. 1 \in DOMAIN (<<pods[i].name>> \o owners)
        /\ (<<pods[i].name>> \o owners)[1] = pods[i].name
    BY <2>5
  <2>8. QED
    BY <2>6, <2>7 DEF IsSeq, owners
<1>5. /\ named[0] = <<>>
      /\ \A i \in 0..n : i < n => named[i + 1] = AllNamed(named[i], ofPod(pods[i + 1]))
  <2>1. named[0] = <<>>
    BY <1>1, <1>2 DEF CollectsPods
  <2>2. ASSUME NEW i \in 0..n, i < n
        PROVE  named[i + 1] = AllNamed(named[i], ofPod(pods[i + 1]))
    <3>1. i + 1 \in 0..n /\ i + 1 # 0 /\ (i + 1) - 1 = i
      BY <1>1, <2>2
    <3>2. QED
      BY <1>2, <3>1 DEF CollectsPods
  <2>3. QED
    BY <2>1, <2>2
<1> HIDE DEF ofPod
<1> DEFINE has(i) == /\ IsSeq(named[i])
                     /\ \A j \in 1..i : pods[j].name \in Range(named[i])
           T == {i \in 0..n : has(i)}
<1>6. 0 \in T
  <2>1. <<>> \in Seq({}) /\ 0 \in 0..n /\ 1..0 = {}
    BY <1>1
  <2>2. has(0)
    BY <1>5, <2>1 DEF IsSeq
  <2>3. QED
    BY <2>1, <2>2
<1>7. ASSUME NEW i \in 0..n, i \in T, i < n
      PROVE  i + 1 \in T
  <2>1. i + 1 \in DOMAIN pods
    BY <1>1, <1>7
  <2>2. /\ IsSeq(named[i + 1]) /\ Range(named[i]) \subseteq Range(named[i + 1])
        /\ pods[i + 1].name \in Range(named[i + 1])
    BY <1>4, <1>5, <1>7, <2>1, AllNamedHave
  <2>3. \A j \in 1..(i + 1) : j \in 1..i \/ j = i + 1
    BY <1>1
  <2>4. i + 1 \in 0..n
    BY <1>1, <1>7
  <2>5. QED
    BY <1>7, <2>2, <2>3, <2>4
<1>8. 0..n \subseteq T
  <2> HIDE DEF T
  <2> QED
    BY <1>1, <1>6, <1>7, UpTo
<1>9. has(n)
  BY <1>1, <1>8
<1>10. ASSUME NEW i \in DOMAIN pods
       PROVE  named[n] # <<>> /\ \E j \in DOMAIN named[n] : named[n][j] = pods[i].name
  <2>1. pods[i].name \in Range(named[n])
    BY <1>1, <1>9
  <2>2. PICK j \in DOMAIN named[n] : named[n][j] = pods[i].name
    BY <2>1 DEF Range
  <2>3. named[n] # <<>>
    BY <2>2
  <2>4. QED
    BY <2>2, <2>3
<1>11. QED
  BY <1>3, <1>10

-----------------------------------------------------------------------------
(* What a collection that has nothing to report has collected.             *)

AfterNodes == OfDelivery \cup AtEnd
AfterClaim == {"claim_events", "merge", "node"} \cup AfterNodes
AfterEvents == {"claim"} \cup AfterClaim
AfterPods == {"sources", "events"} \cup AfterEvents

(* Nothing was said, and nothing keeps the collection from the cluster.    *)
Unsaid(k) == k.notes = {} /\ k.errors = {}

Smooth(k) ==
    /\ Unsaid(k) /\ k.steady /\ Config.enabled
    /\ k.pc = "done" => k.outcome # "dropped"
    /\ ~ShouldSkip(k.alert, Services, Ignored)
    /\ AlertNamespace(k) # Nobody /\ InScope(AlertNamespace(k))

NamesOf(refs) == {NameOf(ref) : ref \in refs}
NamesIn(pods) == {pods[i].name : i \in DOMAIN pods}
NamesRead(raw) == {raw[i][1] : i \in DOMAIN raw}

(* All pods of the alert are shown, or in hand to be,                      *)
AllPods(k) ==
    /\ IsSeq(k.pods) /\ \A i \in DOMAIN k.pods : IsSeq(k.pods[i].chain)
    /\ k.pc \in AtPods => NamesIn(k.pods) \cup NamesRead(k.raw) = NamesOf(PodsOf(k))
    /\ k.pc \in AfterPods => NamesIn(k.pods) = NamesOf(PodsOf(k))

(* all events of each of them, if they are no more than are asked for,     *)
About(k, name) ==
    {e \in cluster.events : e.on[2] = AlertNamespace(k) /\ NameOf(e.on) = name}

Heard(k, name, heard) ==
    Cardinality(About(k, name)) <= MaxEvents => About(k, name) \subseteq heard

AllEvents(k) ==
    /\ k.pc = "events" =>
          \A name \in NamesIn(k.pods) :
             \/ \E j \in k.left : EventSources(k.pods, k.queried)[j] = name
             \/ Heard(k, name, k.got)
    /\ k.pc \in AfterEvents => \A name \in NamesIn(k.pods) : Heard(k, name, k.events)

(* the claim and the node that the alert is about,                         *)
AllObjects(k) ==
    /\ k.pc \in AfterClaim /\ k.claims = {} => NameOf(ClaimRef(k)) = Nobody
    /\ k.pc \in AfterNodes /\ k.nodes = {} => NodeName(k) = Nobody

(* and every object of the delivery, up to the last.                       *)
AllHops(k) ==
    /\ Len(k.flux) <= MaxHops + 1
    /\ \A i \in DOMAIN k.flux :
          /\ k.flux[i].ref \in DOMAIN cluster.objects
          /\ k.flux[i].source = SourceOf(k.flux[i].ref)
          /\ i # 1 => k.flux[i].ref = k.flux[i - 1].source
    /\ k.flux # <<>> =>
          /\ k.pc \in OnChain => k.target = k.flux[Len(k.flux)].source
          /\ k.pc \in {"flux_events"} \cup AtEnd =>
                k.flux[Len(k.flux)].source = NoObject \/ Len(k.flux) = MaxHops + 1

Complete(k) == AllPods(k) /\ AllEvents(k) /\ AllObjects(k) /\ AllHops(k)

CompleteInv == \A c \in DOMAIN collections : Smooth(collections[c]) => Complete(collections[c])

-----------------------------------------------------------------------------
(* What a step does that has nothing to report.                            *)

(* Only some fields of a collection have changed.                          *)
Alters(q, k, fields) ==
    DOMAIN q = Fields /\ \A field \in Fields \ fields : q[field] = k[field]

Sending == {"calls", "reads"}

LEMMA SentAlters ==
    ASSUME NEW k, NEW ref, NEW s \in {k, Sent(k, ref)}, IsCollection(k)
    PROVE  IsCollection(s) /\ Alters(s, k, Sending)
<1>1. Alters(k, k, Sending)
  BY DEF Alters, IsCollection
<1>2. Alters(Sent(k, ref), k, Sending)
  BY DEF Alters, IsCollection, Sent, Fields, Sending
<1>3. QED
  BY <1>1, <1>2 DEF Alters, IsCollection

LEMMA AltersMore ==
    ASSUME NEW k, NEW s, NEW q, NEW F, NEW G, Alters(s, k, F), Alters(q, s, G)
    PROVE  Alters(q, k, F \cup G)
BY DEF Alters

LEMMA GoesAlters ==
    ASSUME NEW k, NEW l, IsCollection(k)
    PROVE  Alters(Goes(k, l), k, {"pc"}) /\ Goes(k, l).pc = l /\ IsCollection(Goes(k, l))
BY DEF Alters, IsCollection, Goes, Fields

(* Whatever is noted is there to be read.                                  *)
LEMMA NotedIsSaid ==
    ASSUME NEW k, IsCollection(k), NEW n
    PROVE  /\ ~Unsaid(Notes(k, n)) /\ ~Unsaid(Errs(k, n)) /\ ~Unsaid(Lost(k))
           /\ IsCollection(Notes(k, n)) /\ IsCollection(Errs(k, n))
<1>1. Notes(k, n).notes = k.notes \cup {n} /\ IsCollection(Notes(k, n))
  BY DEF Notes, IsCollection, Fields
<1>2. Errs(k, n).errors = k.errors \cup {n} /\ IsCollection(Errs(k, n))
  BY DEF Errs, IsCollection, Fields
<1>3. "cluster_state" \in Lost(k).errors
  BY DEF Lost, IsCollection, Fields
<1>4. QED
  BY <1>1, <1>2, <1>3 DEF Unsaid

LEMMA GoesSays ==
    ASSUME NEW k, IsCollection(k), NEW l
    PROVE  Unsaid(Goes(k, l)) <=> Unsaid(k)
BY DEF Goes, Unsaid, IsCollection, Fields

LEMMA AlteredIsSaid ==
    ASSUME NEW k, NEW q, NEW F, Alters(q, k, F), "notes" \notin F, "errors" \notin F
    PROVE  Unsaid(q) <=> Unsaid(k)
BY DEF Alters, Unsaid, Fields

LEMMA FrontSilently ==
    ASSUME NEW c \in DOMAIN collections, IsCollection(collections[c]),
           Filter(c) \/ Triage(c) \/ QueryLogs(c) \/ QueryMetrics(c) \/ CheckScope(c),
           Smooth(collections'[c])
    PROVE  LET k == collections[c]
               q == collections'[c]
           IN  /\ k.pc \in InFront /\ q.pc \in InFront \cup {"pods"}
               /\ Alters(q, k, {"pc"})
<1> DEFINE k == collections[c]
           q == collections'[c]
<1>1. ASSUME NEW l, q = Goes(k, l) PROVE Alters(q, k, {"pc"}) /\ q.pc = l
  BY <1>1, GoesAlters
<1>2. ASSUME NEW l, NEW e, q = Errs(Goes(k, l), e) \/ q = Goes(Notes(k, e), l) PROVE FALSE
  BY <1>2, GoesAlters, GoesSays, NotedIsSaid DEF Smooth
<1>3. CASE Filter(c)
  <2>1. k.pc = "filter"
    BY <1>3 DEF Filter, At
  <2>2. CASE ShouldSkip(k.alert, Services, Ignored)
    <3>1. q = Ends(k, "skipped")
      BY <1>3, <2>2 DEF Filter, Becomes, Ends
    <3>2. q.alert = k.alert
      BY <3>1, EndsMoves DEF Moves, Core
    <3>3. QED
      BY <2>2, <3>2 DEF Smooth
  <2>3. CASE ~ShouldSkip(k.alert, Services, Ignored)
    <3>1. q = Goes(k, "triage")
      BY <1>3, <2>3 DEF Filter, Becomes
    <3>2. QED
      BY <1>1, <2>1, <3>1 DEF InFront
  <2>4. QED
    BY <2>2, <2>3
<1>4. CASE Triage(c)
  <2>1. k.pc = "triage" /\ (q = Ends(k, "dropped") \/ q = Goes(k, "logs"))
    BY <1>4 DEF Triage, At, Becomes, Ends
  <2>2. Ends(k, "dropped").outcome = "dropped" /\ Ends(k, "dropped").pc = "done"
    BY DEF Ends, IsCollection, Fields
  <2>3. q = Goes(k, "logs")
    BY <2>1, <2>2 DEF Smooth
  <2>4. QED
    BY <1>1, <2>1, <2>3 DEF InFront
<1>5. CASE QueryLogs(c)
  <2>1. k.pc = "logs"
        /\ (q = Goes(k, "metrics") \/ \E e : q = Errs(Goes(k, "metrics"), e))
    BY <1>5 DEF QueryLogs, At, Becomes
  <2>2. QED
    BY <1>1, <1>2, <2>1 DEF InFront
<1>6. CASE QueryMetrics(c)
  <2>1. Config.enabled
    BY DEF Smooth
  <2>2. k.pc = "metrics"
        /\ (q = Goes(k, "scope") \/ \E e : q = Errs(Goes(k, "scope"), e))
    BY <1>6, <2>1 DEF QueryMetrics, At, Becomes, HasCluster
  <2>3. QED
    BY <1>1, <1>2, <2>2 DEF InFront
<1>7. CASE CheckScope(c)
  <2>1. k.pc = "scope"
    BY <1>7 DEF CheckScope, At
  <2>2. q.alert = k.alert
    BY <1>7, CheckScopeMoves DEF Moves, Core
  <2>3. AlertNamespace(k) # Nobody /\ InScope(AlertNamespace(k))
    BY <2>2 DEF Smooth, AlertNamespace
  <2>4. q = Goes(k, "pods")
    BY <1>7, <2>3 DEF CheckScope, Becomes
  <2>5. QED
    BY <1>1, <2>1, <2>4 DEF InFront
<1>8. QED
  BY <1>3, <1>4, <1>5, <1>6, <1>7

LEMMA GetPodSilently ==
    ASSUME NEW c \in DOMAIN collections, IsCollection(collections[c]), GetPod(c),
           Unsaid(collections'[c])
    PROVE  LET k == collections[c]
               q == collections'[c]
           IN  /\ k.pc = "pods" /\ q.pc = "parse" /\ NameOf(PodRef(k)) # Nobody
               /\ PodRef(k) \in DOMAIN cluster.objects
               /\ q.raw = <<ReadPod(PodRef(k))>>
               /\ Alters(q, k, {"pc", "raw"} \cup Sending)
<1> DEFINE k == collections[c]
           q == collections'[c]
           sent == Sent(k, PodRef(k))
<1>1. k.pc = "pods" /\ NameOf(PodRef(k)) # Nobody
  BY DEF GetPod, At
<1>2. PICK s \in {k, sent} :
         \/ \E e : q = Goes(Notes(s, e), "sources") \/ q = Goes(Errs(s, e), "sources")
         \/ q = Lost(s)
         \/ /\ PodRef(k) \in DOMAIN cluster.objects
            /\ q = Retrieves(s, <<<<PodRef(s)[3], cluster.objects[PodRef(k)]>>>>, "parse")
  BY DEF GetPod, Get, Request, Becomes, Retrieves, IsThere
<1>3. IsCollection(s) /\ Alters(s, k, Sending)
  BY SentAlters
<1>4. PodRef(s) = PodRef(k)
  BY <1>3 DEF Alters, PodRef, AlertNamespace, Fields, Sending
<1>5. /\ PodRef(k) \in DOMAIN cluster.objects
      /\ q = Retrieves(s, <<ReadPod(PodRef(k))>>, "parse")
  BY <1>2, <1>3, <1>4, NotedIsSaid, GoesSays DEF ReadPod, NameOf
<1> DEFINE read == <<ReadPod(PodRef(k))>>
<1> HIDE DEF read
<1>6. q = Retrieves(s, read, "parse")
  BY <1>5 DEF read
<1>7. Alters(q, s, {"pc", "raw"}) /\ q.pc = "parse" /\ q.raw = read
  BY <1>3, <1>6 DEF Alters, Retrieves, IsCollection, Fields
<1>8. Alters(q, k, {"pc", "raw"} \cup Sending)
  BY <1>3, <1>7 DEF Alters
<1>9. QED
  BY <1>1, <1>5, <1>7, <1>8 DEF read

LEMMA GetWorkloadSilently ==
    ASSUME NEW c \in DOMAIN collections, IsCollection(collections[c]), GetWorkload(c),
           Unsaid(collections'[c])
    PROVE  LET k == collections[c]
               q == collections'[c]
           IN  /\ k.pc = "pods" /\ q.pc = "list"
               /\ Alters(q, k, {"pc", "selector", "queried", "labels"} \cup Sending)
<1> DEFINE k == collections[c]
           q == collections'[c]
           sent == Sent(k, Workload(k))
           object == cluster.objects[Workload(k)]
           read(s) == Finds(s, Append(s.queried, Workload(s)),
                            Append(s.labels, object.gitops))
<1>1. k.pc = "pods"
  BY DEF GetWorkload, At
<1>2. PICK s \in {k, sent} :
         \/ \E e : q = Goes(Notes(s, e), "sources") \/ q = Goes(Errs(s, e), "sources")
         \/ q = Lost(s)
         \/ \E e : q = Goes(Notes(read(s), e), "sources")
         \/ q = Selects(read(s), object.selector)
  BY DEF GetWorkload, Get, Request, Becomes, Finds, Selects
<1>3. IsCollection(s) /\ Alters(s, k, Sending)
  BY SentAlters
<1>4. Alters(read(s), s, {"queried", "labels"})
  BY <1>3 DEF Alters, Finds, IsCollection, Fields
<1> HIDE DEF read
<1>5. IsCollection(read(s))
  BY <1>4 DEF Alters, IsCollection
<1>6. q = Selects(read(s), object.selector)
  BY <1>2, <1>3, <1>5, NotedIsSaid, GoesSays
<1>7. Alters(q, read(s), {"pc", "selector"}) /\ q.pc = "list"
  <2> DEFINE selector == object.selector
  <2> HIDE DEF selector
  <2>1. q = Selects(read(s), selector)
    BY <1>6 DEF selector
  <2>2. QED
    BY <1>5, <2>1 DEF Alters, Selects, IsCollection, Fields
<1>8. Alters(q, k, {"pc", "selector", "queried", "labels"} \cup Sending)
  BY <1>3, <1>4, <1>7 DEF Alters
<1>9. QED
  BY <1>1, <1>7, <1>8

LEMMA NoPodsSilently ==
    ASSUME NEW c \in DOMAIN collections, IsCollection(collections[c]), NoPods(c),
           Unsaid(collections'[c])
    PROVE  LET k == collections[c]
               q == collections'[c]
           IN  /\ k.pc = "pods" /\ q.pc = "sources"
               /\ NameOf(PodRef(k)) = Nobody /\ Workload(k) = NoObject
               /\ Alters(q, k, {"pc"})
<1> DEFINE k == collections[c]
           q == collections'[c]
           g == Goes(k, "sources")
<1>1. /\ k.pc = "pods" /\ NameOf(PodRef(g)) = Nobody /\ Workload(g) = NoObject
      /\ q = g \/ \E n : q = Notes(g, n)
  BY DEF NoPods, At, Becomes
<1>2. IsCollection(g) /\ Alters(g, k, {"pc"}) /\ g.pc = "sources"
  BY GoesAlters
<1>3. PodRef(g) = PodRef(k) /\ Workload(g) = Workload(k)
  <2>1. g.alert = k.alert
    BY <1>2 DEF Alters, Fields
  <2>2. QED
    BY <2>1 DEF PodRef, Workload, AlertNamespace, SelectInSeq
<1> HIDE DEF g
<1>4. q = g
  BY <1>1, <1>2, NotedIsSaid
<1>5. QED
  BY <1>1, <1>2, <1>3, <1>4

(* A list that leaves no pod out.                                          *)
LEMMA ListPodsSilently ==
    ASSUME NEW c \in DOMAIN collections, IsCollection(collections[c]), ListPods(c),
           Unsaid(collections'[c])
    PROVE  LET k == collections[c]
               q == collections'[c]
               all == Matching(AlertNamespace(k), k.selector)
           IN  /\ k.pc = "list"
               /\ Alters(q, k, {"pc", "raw"} \cup Sending)
               /\ \E some \in SUBSET all :
                  \E list \in Shown([ref \in some |-> cluster.objects[ref]]) :
                     /\ Cardinality(some) = Min2(ScanLimit, Cardinality(all))
                     /\ ~(Cardinality(some) > Len(list))
                     /\ q.raw = [i \in DOMAIN list |-> ReadPod(list[i])]
                     /\ q.pc = IF list = <<>> THEN "sources" ELSE "parse"
<1> DEFINE k == collections[c]
           q == collections'[c]
           ref == <<"Pod", AlertNamespace(k), "*">>
           all == Matching(AlertNamespace(k), k.selector)
           raw(list) == [i \in DOMAIN list |-> ReadPod(list[i])]
           several(some) == Cardinality(some) = Min2(ScanLimit, Cardinality(all))
           label(list) == IF list = <<>> THEN "sources" ELSE "parse"
<1>1. k.pc = "list" BY DEF ListPods, At
<1>2. PICK s \in {k, Sent(k, ref)} :
         \/ \E e : q = Goes(Errs(s, e), "sources")
         \/ q = Lost(s)
         \/ \E some \in SUBSET all : \E list \in Shown([o \in some |-> cluster.objects[o]]) :
               several(some) /\
               \/ ~(Cardinality(some) > Len(list)) /\ q = Retrieves(s, raw(list), label(list))
               \/ q = Notes(Retrieves(s, raw(list), label(list)), "pods_omitted")
  BY DEF ListPods, Request, Becomes, Retrieves, ReadPod
<1>3. IsCollection(s) /\ Alters(s, k, Sending)
  BY SentAlters
<1>4. ASSUME NEW x, NEW l
      PROVE  /\ Alters(Retrieves(s, x, l), s, {"pc", "raw"}) /\ Retrieves(s, x, l).raw = x
             /\ Retrieves(s, x, l).pc = l
  BY <1>3 DEF Alters, Retrieves, IsCollection, Fields
<1>5. ASSUME NEW x, NEW l PROVE q # Notes(Retrieves(s, x, l), "pods_omitted")
  <2>1. IsCollection(Retrieves(s, x, l))
    BY <1>4 DEF Alters, IsCollection
  <2>2. QED
    BY <2>1, NotedIsSaid
<1>6. PICK some \in SUBSET all : \E list \in Shown([o \in some |-> cluster.objects[o]]) :
         /\ several(some) /\ ~(Cardinality(some) > Len(list))
         /\ q = Retrieves(s, raw(list), label(list))
  <2>1. q # Lost(s) /\ \A e : q # Goes(Errs(s, e), "sources")
    BY <1>3, NotedIsSaid, GoesSays
  <2> HIDE DEF raw, label, several, all
  <2>2. QED
    BY <1>2, <1>5, <2>1
<1>7. PICK list \in Shown([o \in some |-> cluster.objects[o]]) :
         /\ several(some) /\ ~(Cardinality(some) > Len(list))
         /\ q = Retrieves(s, raw(list), label(list))
  BY <1>6
<1>8. Alters(q, s, {"pc", "raw"}) /\ q.raw = raw(list) /\ q.pc = label(list)
  BY <1>4, <1>7
<1>9. Alters(q, k, {"pc", "raw"} \cup Sending)
  BY <1>3, <1>8 DEF Alters
<1>10. QED
  BY <1>1, <1>7, <1>8, <1>9

LEMMA ParseNextPodSilently ==
    ASSUME NEW c \in DOMAIN collections, IsCollection(collections[c]), ParseNextPod(c),
           Unsaid(collections'[c])
    PROVE  LET k == collections[c]
               q == collections'[c]
           IN  /\ k.pc = "parse" /\ q.pc = "owners" /\ q.raw = Tail(k.raw)
               /\ \E pod : /\ pod.chain = <<>> /\ pod.name = Head(k.raw)[1]
                           /\ q.pods = Append(k.pods, pod)
               /\ Alters(q, k, {"pods", "queried", "raw", "walk", "pc"})
<1> DEFINE k == collections[c]
           q == collections'[c]
           walk == Head(k.raw)[2]
           parsed == ParsePod(Head(k.raw)[1], walk)
           noted == IF walk.large THEN k.notes \cup {"spec_omitted"} ELSE k.notes
           tail == Tail(k.raw)
           queried == Append(k.queried, <<"Pod", AlertNamespace(k), Head(k.raw)[1]>>)
           pods == Append(k.pods, parsed)
<1>1. parsed.chain = <<>> /\ parsed.name = Head(k.raw)[1]
  BY DEF ParsePod
<1>2. q = [k EXCEPT !.pods = pods, !.queried = queried, !.notes = noted,
                    !.raw = tail, !.walk = walk, !.pc = "owners"]
  BY DEF ParseNextPod, Becomes
<1> HIDE DEF parsed, walk, tail, queried, noted, pods
<1>3. /\ q.pc = "owners" /\ q.pods = pods /\ q.raw = tail /\ q.notes = noted
      /\ Alters(q, k, {"pods", "queried", "raw", "walk", "pc", "notes"})
  BY <1>2 DEF Alters, IsCollection, Fields
<1>4. noted = k.notes
  BY <1>3 DEF Unsaid, noted
<1>5. Alters(q, k, {"pods", "queried", "raw", "walk", "pc"})
  BY <1>3, <1>4 DEF Alters
<1>6. QED
  BY <1>1, <1>3, <1>5 DEF ParseNextPod, At, tail, pods

LEMMA FollowOwnerSilently ==
    ASSUME NEW c \in DOMAIN collections, IsCollection(collections[c]), FollowOwner(c),
           Unsaid(collections'[c])
    PROVE  /\ collections[c].pc = "owners" /\ collections'[c].pc \in AtPods \cup {"sources"}
           /\ Alters(collections'[c], collections[c],
                     {"pods", "pc", "walk", "labels"} \cup Sending)
<1> DEFINE k == collections[c]
           q == collections'[c]
           owner == ControllerRef(k.walk)
           ref == OwnerRef(k)
           object == cluster.objects[ref]
           grown(s, resolved) == WithOwner(s, owner, resolved)
           F == {"pods", "pc", "walk", "labels"} \cup Sending
<1>1. ASSUME NEW s, IsCollection(s), NEW resolved
      PROVE  Alters(grown(s, resolved), s, {"pods"}) /\ IsCollection(grown(s, resolved))
  <2> DEFINE link == [kind |-> owner.kind, name |-> owner.name, resolved |-> resolved]
             chain == [s.pods[Len(s.pods)] EXCEPT !.chain = Append(@, link)]
             pods == [s.pods EXCEPT ![Len(s.pods)].chain = Append(@, link)]
  <2>1. grown(s, resolved) = [s EXCEPT !.pods = pods]
    BY DEF WithOwner
  <2> HIDE DEF pods
  <2>2. QED
    BY <1>1, <2>1 DEF Alters, IsCollection, Fields
<1>2. ASSUME NEW s, IsCollection(s)
      PROVE  Alters(WalkEnds(s), s, {"pc"}) /\ WalkEnds(s).pc \in AtPods \cup {"sources"}
  BY <1>2, GoesAlters DEF WalkEnds, AtPods
<1>0. k.pc = "owners"
  BY DEF FollowOwner, At
<1>3. CASE ~FollowsOwner(k.walk, Chain(k))
  <2>1. q = WalkEnds(k)
    BY <1>3 DEF FollowOwner, Becomes
  <2>2. QED
    BY <1>0, <1>2, <2>1 DEF Alters
<1>4. CASE FollowsOwner(k.walk, Chain(k))
  <2>1. PICK s \in {k, Sent(k, ref)} :
           \/ q = WalkEnds(grown(s, FALSE))
           \/ q = Lost(s)
           \/ q = Turns(grown(s, TRUE), object,
                        Append(grown(s, TRUE).labels, object.gitops))
    BY <1>4 DEF FollowOwner, Get, Request, Becomes, Turns, OwnerRef, IsThere
  <2>2. IsCollection(s) /\ Alters(s, k, Sending)
    BY SentAlters
  <2>3. /\ Alters(grown(s, TRUE), s, {"pods"}) /\ IsCollection(grown(s, TRUE))
        /\ Alters(grown(s, FALSE), s, {"pods"}) /\ IsCollection(grown(s, FALSE))
    BY <1>1, <2>2
  <2> HIDE DEF grown
  <2>4. CASE q = WalkEnds(grown(s, FALSE))
    <3>1. Alters(q, grown(s, FALSE), {"pc"}) /\ q.pc \in AtPods \cup {"sources"}
      BY <1>2, <2>3, <2>4
    <3>2. QED
      BY <1>0, <2>2, <2>3, <3>1 DEF Alters
  <2>5. CASE q = Turns(grown(s, TRUE), object, Append(grown(s, TRUE).labels, object.gitops))
    <3> DEFINE g == grown(s, TRUE)
               labels == Append(g.labels, object.gitops)
    <3> HIDE DEF g, object, labels
    <3>1. q = Turns(g, object, labels)
      BY <2>5 DEF g, labels
    <3>2. Alters(q, g, {"walk", "labels"})
      BY <2>3, <3>1 DEF Alters, Turns, IsCollection, Fields, g
    <3>3. q.pc = "owners"
      BY <1>0, <2>2, <2>3, <3>2 DEF Alters, Fields, Sending, g
    <3>4. QED
      BY <1>0, <2>2, <2>3, <3>2, <3>3 DEF Alters, AtPods, g
  <2>6. QED
    BY <2>1, <2>2, <2>4, <2>5, NotedIsSaid
<1>5. QED
  BY <1>3, <1>4

LEMMA ChooseSourcesSilently ==
    ASSUME NEW c \in DOMAIN collections, IsCollection(collections[c]), ChooseSources(c),
           Unsaid(collections'[c])
    PROVE  LET k == collections[c]
               q == collections'[c]
           IN  /\ k.pc = "sources" /\ q.pc = "events"
               /\ q.left = DOMAIN EventSources(k.pods, k.queried)
               /\ Alters(q, k, {"pc", "left"})
<1> DEFINE k == collections[c]
           q == collections'[c]
           g == Goes(k, "events")
           all == DOMAIN EventSources(g.pods, g.queried)
           chosen == all \cap 1..MaxSources
           noted == IF chosen = all THEN g.notes ELSE g.notes \cup {"sources_omitted"}
<1>1. Alters(g, k, {"pc"}) /\ IsCollection(g) /\ g.pc = "events"
  BY GoesAlters
<1>2. g.pods = k.pods /\ g.queried = k.queried
  BY <1>1 DEF Alters, Fields
<1>3. k.pc = "sources" /\ q = [g EXCEPT !.left = chosen, !.notes = noted]
  BY DEF ChooseSources, Becomes, At
<1> HIDE DEF g, chosen, noted
<1>4. q.left = chosen /\ q.notes = noted /\ Alters(q, g, {"left", "notes"})
  BY <1>1, <1>3 DEF Alters, IsCollection, Fields
<1>5. noted = g.notes /\ chosen = all
  BY <1>4 DEF Unsaid, noted
<1>6. Alters(q, k, {"pc", "left"}) /\ q.pc = "events"
  BY <1>1, <1>4, <1>5 DEF Alters, Fields
<1>7. QED
  BY <1>2, <1>3, <1>4, <1>5, <1>6

LEMMA SourceDoneAlters ==
    ASSUME NEW s, IsCollection(s), NEW got, NEW i
    PROVE  LET q == HeardOf(s, got, i)
           IN  q.got = got /\ q.left = s.left \ {i} /\ Alters(q, s, {"got", "left"})
BY DEF HeardOf, SourceDone, Alters, IsCollection, Fields

LEMMA FailingIsSaid ==
    ASSUME NEW s, IsCollection(s), NEW e, NEW i
    PROVE  ~Unsaid(SourceDone(Errs(s, e), i))
<1>1. IsCollection(Errs(s, e)) /\ ~Unsaid(Errs(s, e))
  BY NotedIsSaid
<1> DEFINE j == Errs(s, e)
<1> HIDE DEF j
<1>2. Alters(SourceDone(j, i), j, {"left"})
  BY <1>1 DEF SourceDone, Alters, IsCollection, Fields, j
<1>3. QED
  BY <1>1, <1>2, AlteredIsSaid DEF j

LEMMA GetEventsSilently ==
    ASSUME NEW c \in DOMAIN collections, IsCollection(collections[c]), GetEvents(c),
           Unsaid(collections'[c])
    PROVE  LET k == collections[c]
               q == collections'[c]
               name(i) == EventSources(k.pods, k.queried)[i]
           IN  /\ k.pc = "events"
               /\ Alters(q, k, {"got", "left"} \cup Sending)
               /\ \E i \in k.left :
                     /\ q.left = k.left \ {i}
                     /\ \E list \in EventLists(cluster.events, AlertNamespace(k), name(i)) :
                           q.got = k.got \cup list
<1> DEFINE k == collections[c]
           q == collections'[c]
           name(i) == EventSources(k.pods, k.queried)[i]
           ref(i) == <<"Event", AlertNamespace(k), name(i)>>
           lists(i) == EventLists(cluster.events, AlertNamespace(k), name(i))
<1>1. PICK i \in k.left :
         ListEvents(c, ref(i), LAMBDA e : TRUE, LAMBDA j : SourceDone(j, i),
                       LAMBDA j : SourceDone(Errs(j, "events"), i))
  BY DEF GetEvents
<1>2. /\ EventsOf(ref(i)) = ref(i) /\ k.pc = "events"
      /\ lists(i) = EventLists(cluster.events, NamespaceOf(ref(i)), NameOf(ref(i)))
  BY DEF EventsOf, NamespaceOf, NameOf, GetEvents, At
<1> HIDE DEF lists
<1>3. PICK s \in {k, Sent(k, ref(i))} :
         \/ q = SourceDone(Errs(s, "events"), i)
         \/ q = Lost(s)
         \/ \E list \in lists(i) : q = HeardOf(s, s.got \cup {e \in list : TRUE}, i)
  BY <1>1, <1>2 DEF ListEvents, Request, Becomes, HeardOf
<1>4. IsCollection(s) /\ Alters(s, k, Sending)
  BY SentAlters
<1>5. PICK list \in lists(i) : q = HeardOf(s, s.got \cup {e \in list : TRUE}, i)
  BY <1>3, <1>4, FailingIsSaid, NotedIsSaid
<1>6. q = HeardOf(s, s.got \cup list, i)
  BY <1>5
<1>7. /\ q.got = s.got \cup list /\ q.left = s.left \ {i} /\ Alters(q, s, {"got", "left"})
  BY <1>4, <1>6, SourceDoneAlters
<1>8. s.got = k.got /\ s.left = k.left
  BY <1>4 DEF Alters, Fields, Sending
<1>9. Alters(q, k, {"got", "left"} \cup Sending)
  BY <1>4, <1>7 DEF Alters
<1>10. QED
  BY <1>2, <1>5, <1>7, <1>8, <1>9 DEF lists

(* Events cut to those that are kept.                                      *)
Cuts(k, kept, all) ==
    [k EXCEPT !.events = kept, !.got = {},
              !.notes = IF kept = all THEN @ ELSE @ \cup {"events_omitted"}]

LEMMA CutsAreSaid ==
    ASSUME NEW g, IsCollection(g), NEW kept, NEW all, Unsaid(Cuts(g, kept, all))
    PROVE  Cuts(g, kept, all).events = all /\ Alters(Cuts(g, kept, all), g, {"events", "got"})
<1> DEFINE noted == IF kept = all THEN g.notes ELSE g.notes \cup {"events_omitted"}
           q == Cuts(g, kept, all)
<1>1. q = [g EXCEPT !.events = kept, !.got = {}, !.notes = noted]
  BY DEF Cuts
<1> HIDE DEF noted, q
<1>2. q.events = kept /\ q.notes = noted /\ Alters(q, g, {"events", "got", "notes"})
  BY <1>1 DEF Alters, IsCollection, Fields
<1>3. noted = g.notes /\ kept = all
  BY <1>2 DEF Unsaid, noted, q
<1>4. QED
  BY <1>2, <1>3 DEF Alters, q

LEMMA KeepSilently ==
    ASSUME NEW c \in DOMAIN collections, IsCollection(collections[c]),
           KeepEvents(c) \/ MergeEvents(c), Unsaid(collections'[c])
    PROVE  LET k == collections[c]
               q == collections'[c]
           IN  /\ Alters(q, k, {"pc", "events", "got"})
               /\ \/ k.pc = "events" /\ q.pc = "claim" /\ k.left = {} /\ q.events = k.got
                  \/ k.pc = "merge" /\ q.pc = "node" /\ q.events = k.events \cup k.got
<1> DEFINE k == collections[c]
           q == collections'[c]
<1>1. ASSUME NEW l, NEW kept, NEW all, q = Cuts(Goes(k, l), kept, all)
      PROVE  Alters(q, k, {"pc", "events", "got"}) /\ q.pc = l /\ q.events = all
  <2>1. Alters(Goes(k, l), k, {"pc"}) /\ Goes(k, l).pc = l /\ IsCollection(Goes(k, l))
    BY GoesAlters
  <2>2. q.events = all /\ Alters(q, Goes(k, l), {"events", "got"})
    BY <1>1, <2>1, CutsAreSaid
  <2>3. QED
    BY <2>1, <2>2 DEF Alters, Fields
<1>2. CASE KeepEvents(c)
  <2> DEFINE g == Goes(k, "claim")
  <2>1. k.pc = "events" /\ k.left = {}
    BY <1>2 DEF KeepEvents, At
  <2>2. \E kept : q = Cuts(g, kept, g.got)
    BY <1>2 DEF KeepEvents, Becomes, Cuts
  <2>3. g.got = k.got
    BY GoesAlters DEF Alters, Fields
  <2>4. QED
    BY <1>1, <2>1, <2>2, <2>3
<1>3. CASE MergeEvents(c)
  <2> DEFINE g == Goes(k, "node")
  <2>1. k.pc = "merge"
    BY <1>3 DEF MergeEvents, At
  <2>2. \E kept : q = Cuts(g, kept, g.events \cup g.got)
    BY <1>3 DEF MergeEvents, Becomes, Cuts
  <2>3. g.got = k.got /\ g.events = k.events
    BY GoesAlters DEF Alters, Fields
  <2>4. QED
    BY <1>1, <2>1, <2>2, <2>3
<1>4. QED
  BY <1>2, <1>3

LEMMA ClaimSilently ==
    ASSUME NEW c \in DOMAIN collections, IsCollection(collections[c]),
           NoClaim(c) \/ GetClaim(c), Unsaid(collections'[c])
    PROVE  LET k == collections[c]
               q == collections'[c]
           IN  /\ k.pc = "claim"
               /\ \/ /\ q.pc = "node" /\ NameOf(ClaimRef(k)) = Nobody
                     /\ Alters(q, k, {"pc"})
                  \/ /\ q.pc = "claim_events" /\ q.claims # {}
                     /\ Alters(q, k, {"claims", "queried", "pc"} \cup Sending)
<1> DEFINE k == collections[c]
           q == collections'[c]
           ref == ClaimRef(k)
           found(s) == [s EXCEPT !.claims = {NameOf(ClaimRef(s))},
                                 !.queried = Append(s.queried, ClaimRef(s)),
                                 !.pc = "claim_events"]
<1>1. k.pc = "claim"
  BY DEF NoClaim, GetClaim, At
<1>2. CASE NoClaim(c)
  BY <1>1, <1>2, GoesAlters DEF NoClaim, Becomes
<1>3. CASE GetClaim(c)
  <2>1. PICK s \in {k, Sent(k, ref)} :
           \/ \E e : q = Goes(Notes(s, e), "node") \/ q = Goes(Errs(s, e), "node")
           \/ q = Lost(s)
           \/ q = found(s)
    BY <1>3 DEF GetClaim, Get, Request, Becomes
  <2>2. IsCollection(s) /\ Alters(s, k, Sending)
    BY SentAlters
  <2>3. q = found(s)
    BY <2>1, <2>2, NotedIsSaid, GoesSays
  <2>4. /\ q.pc = "claim_events" /\ q.claims = {NameOf(ClaimRef(s))}
        /\ Alters(q, s, {"claims", "queried", "pc"})
    BY <2>2, <2>3 DEF Alters, IsCollection, Fields
  <2>5. Alters(q, k, {"claims", "queried", "pc"} \cup Sending)
    BY <2>2, <2>4 DEF Alters
  <2>6. QED
    BY <1>1, <2>4, <2>5
<1>4. QED
  BY <1>2, <1>3

LEMMA GetClaimEventsSilently ==
    ASSUME NEW c \in DOMAIN collections, IsCollection(collections[c]), GetClaimEvents(c),
           Unsaid(collections'[c])
    PROVE  LET k == collections[c]
               q == collections'[c]
           IN  /\ k.pc = "claim_events" /\ q.pc = "merge"
               /\ Alters(q, k, {"got", "pc"} \cup Sending)
<1> DEFINE k == collections[c]
           q == collections'[c]
           ref == EventsOf(ClaimRef(k))
           heard(s, got) == Goes([s EXCEPT !.got = got], "merge")
<1>1. k.pc = "claim_events"
  BY DEF GetClaimEvents, At
<1>2. PICK s \in {k, Sent(k, ref)} :
         \/ \E e : q = Goes(Errs(s, e), "node")
         \/ q = Lost(s)
         \/ \E got : q = heard(s, got)
  BY DEF GetClaimEvents, ListEvents, Request, Becomes
<1>3. IsCollection(s) /\ Alters(s, k, Sending)
  BY SentAlters
<1>4. PICK got : q = heard(s, got)
  <2>1. q # Lost(s) /\ \A e : q # Goes(Errs(s, e), "node")
    BY <1>3, NotedIsSaid, GoesSays
  <2> HIDE DEF heard
  <2>2. QED
    BY <1>2, <2>1
<1>5. q.pc = "merge" /\ Alters(q, s, {"got", "pc"})
  BY <1>3, <1>4 DEF Goes, Alters, IsCollection, Fields
<1>6. QED
  BY <1>1, <1>3, <1>5 DEF Alters

LEMMA GetNodeSilently ==
    ASSUME NEW c \in DOMAIN collections, IsCollection(collections[c]), GetNode(c),
           Unsaid(collections'[c])
    PROVE  LET k == collections[c]
               q == collections'[c]
           IN  /\ k.pc = "node" /\ q.pc \in {"target", "decide"}
               /\ q.nodes = {} => NodeName(k) = Nobody
               /\ Alters(q, k, {"pc", "nodes", "queried"} \cup Sending)
<1> DEFINE k == collections[c]
           q == collections'[c]
           ref == <<"Node", Nobody, NodeName(k)>>
           found(s) == [s EXCEPT !.nodes = {NodeName(s)},
                                 !.queried = Append(s.queried,
                                                    <<"Node", Nobody, NodeName(s)>>)]
<1>1. k.pc = "node"
  BY DEF GetNode, At
<1>2. ASSUME NEW s, IsCollection(s)
      PROVE  /\ Alters(AfterNode(s), s, {"pc"}) /\ AfterNode(s).pc \in {"target", "decide"}
             /\ Unsaid(AfterNode(s)) <=> Unsaid(s)
  <2>1. \E l \in {"target", "decide"} : AfterNode(s) = Goes(s, l)
    BY DEF AfterNode
  <2>2. QED
    BY <1>2, <2>1, GoesAlters, GoesSays
<1>3. ASSUME NEW s, IsCollection(s), NEW n
      PROVE  q # AfterNode(Notes(s, n)) /\ q # AfterNode(Errs(s, n)) /\ q # Lost(s)
  BY <1>2, <1>3, NotedIsSaid
<1>4. CASE NodeName(k) = Nobody
  <2>1. q = AfterNode(k)
    BY <1>4 DEF GetNode, Becomes
  <2>2. QED
    BY <1>1, <1>2, <1>4, <2>1 DEF Alters
<1>5. CASE NodeName(k) # Nobody
  <2>1. \/ \E n : q = AfterNode(Notes(k, n))
        \/ \E s \in {k, Sent(k, ref)} :
              \/ q = AfterNode(found(s))
              \/ \E n : q = AfterNode(Notes(s, n)) \/ q = AfterNode(Errs(s, n))
              \/ q = Lost(s)
    BY <1>5 DEF GetNode, Get, Request, Becomes
  <2>2. PICK s \in {k, Sent(k, ref)} : q = AfterNode(found(s))
    <3>1. \A s \in {k, Sent(k, ref)} : IsCollection(s)
      BY SentAlters
    <3> HIDE DEF found, k, q
    <3>2. ~\E n : q = AfterNode(Notes(k, n))
      BY <1>3, <3>1
    <3>3. QED
      BY <1>3, <2>1, <3>1, <3>2
  <2>3. IsCollection(s) /\ Alters(s, k, Sending)
    BY SentAlters
  <2>4. found(s).nodes = {NodeName(s)} /\ Alters(found(s), s, {"nodes", "queried"})
    BY <2>3 DEF Alters, IsCollection, Fields
  <2> HIDE DEF found
  <2>5. /\ Alters(q, found(s), {"pc"}) /\ q.pc \in {"target", "decide"}
    BY <1>2, <2>2, <2>4 DEF Alters, IsCollection
  <2>6. q.nodes # {}
    BY <2>4, <2>5 DEF Alters, Fields
  <2>7. Alters(q, k, {"pc", "nodes", "queried"} \cup Sending)
    BY <2>3, <2>4, <2>5 DEF Alters
  <2>8. QED
    BY <1>1, <2>5, <2>6, <2>7
<1>6. QED
  BY <1>4, <1>5

LEMMA ChainEndsAlters ==
    ASSUME NEW k, IsCollection(k)
    PROVE  LET q == ChainEnds(k)
           IN  /\ Alters(q, k, {"pc", "left"}) /\ IsCollection(q)
               /\ q.pc = IF k.flux = <<>> THEN "decide" ELSE "flux_events"
               /\ Unsaid(q) <=> Unsaid(k)
<1>1. CASE k.flux = <<>>
  BY <1>1, GoesAlters, GoesSays DEF ChainEnds, Alters, Unsaid
<1>2. CASE k.flux # <<>>
  <2> DEFINE left == {1} \cup Failing(k)
  <2>1. ChainEnds(k) = [k EXCEPT !.pc = "flux_events", !.left = left]
    BY <1>2 DEF ChainEnds
  <2> HIDE DEF left
  <2>2. QED
    BY <1>2, <2>1 DEF Alters, Unsaid, IsCollection, Fields
<1>3. QED
  BY <1>1, <1>2

LEMMA NotedChainIsSaid ==
    ASSUME NEW k, IsCollection(k), NEW n
    PROVE  ~Unsaid(ChainEnds(Notes(k, n))) /\ ~Unsaid(ChainEnds(Errs(k, n)))
BY NotedIsSaid, ChainEndsAlters

LEMMA TakenSilently ==
    ASSUME NEW k, IsCollection(k), NEW version, Unsaid(Taken(k, version))
    PROVE  LET q == Taken(k, version)
           IN  q.pc = "flux" /\ Alters(q, k, {"pc", "version", "stale"})
<1> DEFINE u == Uses(k, version)
           age == IF version = served THEN 0 ELSE now - since
<1>1. Taken(k, version) = [u EXCEPT !.stale = age]
  BY DEF Taken
<1>2. IsCollection(u)
  BY NotedIsSaid, ChainEndsAlters DEF Uses, IsCollection, Fields
<1> HIDE DEF u, age
<1>3. Alters(Taken(k, version), u, {"stale"})
  BY <1>1, <1>2 DEF Alters, IsCollection, Fields
<1>4. Unsaid(u)
  BY <1>3, AlteredIsSaid
<1>5. version # Nobody
  BY <1>4, NotedChainIsSaid DEF Uses, u
<1>6. u.pc = "flux" /\ Alters(u, k, {"pc", "version"})
  BY <1>5 DEF Uses, Alters, IsCollection, Fields, u
<1>7. QED
  BY <1>3, <1>6 DEF Alters, Fields

LEMMA ResolveTargetSilently ==
    ASSUME NEW c \in DOMAIN collections, IsCollection(collections[c]), ResolveTarget(c),
           Unsaid(collections'[c])
    PROVE  LET k == collections[c]
               q == collections'[c]
           IN  /\ k.pc = "target" /\ q.pc \in {"decide", "version"}
               /\ Alters(q, k, {"pc", "target", "version"})
<1> DEFINE k == collections[c]
           q == collections'[c]
           aims(target, version) ==
               [k EXCEPT !.pc = "version", !.target = target, !.version = version]
<1>1. /\ k.pc = "target"
      /\ \/ q = Goes(k, "decide")
         \/ \E n : q = Goes(Notes(k, n), "decide")
         \/ \E target, version : q = aims(target, version)
  BY DEF ResolveTarget, At, Becomes
<1>2. \A n : q # Goes(Notes(k, n), "decide")
  BY NotedIsSaid, GoesSays
<1>3. CASE q = Goes(k, "decide")
  BY <1>1, <1>3, GoesAlters DEF Alters
<1>4. ASSUME NEW target, NEW version, q = aims(target, version)
      PROVE  q.pc = "version" /\ Alters(q, k, {"pc", "target", "version"})
  BY <1>4 DEF Alters, IsCollection, Fields
<1>5. QED
  <2> HIDE DEF aims
  <2> QED
    BY <1>1, <1>2, <1>3, <1>4

LEMMA ResolveVersionSilently ==
    ASSUME NEW c \in DOMAIN collections, IsCollection(collections[c]), ResolveVersion(c),
           Unsaid(collections'[c])
    PROVE  LET k == collections[c]
               q == collections'[c]
           IN  /\ k.pc = "version" /\ q.pc \in {"flux", "discover"}
               /\ Alters(q, k, {"pc", "version", "stale"})
<1> DEFINE k == collections[c]
           q == collections'[c]
<1>1. /\ k.pc = "version"
      /\ \/ q = ChainEnds(Notes(k, "flux_out_of_scope"))
         \/ q = Goes(k, "flux") \/ q = Goes(k, "discover")
         \/ q = Taken(k, cached.version)
  BY DEF ResolveVersion, At, Becomes
<1>2. CASE q = Goes(k, "flux") \/ q = Goes(k, "discover")
  BY <1>1, <1>2, GoesAlters DEF Alters
<1>3. QED
  BY <1>1, <1>2, NotedChainIsSaid, TakenSilently

LEMMA DiscoverSilently ==
    ASSUME NEW c \in DOMAIN collections, IsCollection(collections[c]), Discover(c),
           Unsaid(collections'[c])
    PROVE  LET k == collections[c]
               q == collections'[c]
           IN  /\ k.pc = "discover" /\ q.pc = "store"
               /\ Alters(q, k, {"pc", "version", "asked"} \cup Sending)
<1> DEFINE k == collections[c]
           q == collections'[c]
           ref == <<"APIGroup", Nobody, "*">>
           answered(s) == [s EXCEPT !.pc = "store", !.version = served, !.asked = now]
<1>1. k.pc = "discover"
  BY DEF Discover, At
<1>2. PICK s \in {k, Sent(k, ref)} :
         \/ q = ChainEnds(Errs(s, "flux"))
         \/ q = Lost(s)
         \/ q = answered(s)
  BY DEF Discover, Request, Becomes
<1>3. IsCollection(s) /\ Alters(s, k, Sending)
  BY SentAlters
<1>4. q = answered(s)
  BY <1>2, <1>3, NotedIsSaid, NotedChainIsSaid
<1>5. q.pc = "store" /\ Alters(q, s, {"pc", "version", "asked"})
  BY <1>3, <1>4 DEF Alters, IsCollection, Fields
<1>6. QED
  BY <1>1, <1>3, <1>5 DEF Alters

LEMMA StoreVersionSilently ==
    ASSUME NEW c \in DOMAIN collections, IsCollection(collections[c]), StoreVersion(c),
           Unsaid(collections'[c])
    PROVE  LET k == collections[c]
               q == collections'[c]
           IN  /\ k.pc = "store" /\ q.pc = "flux"
               /\ Alters(q, k, {"pc", "version", "stale"})
BY TakenSilently DEF StoreVersion, At, Becomes

LEMMA GetFluxSilently ==
    ASSUME NEW c \in DOMAIN collections, IsCollection(collections[c]), GetFlux(c),
           IsSeq(collections[c].flux), Unsaid(collections'[c])
    PROVE  LET k == collections[c]
               q == collections'[c]
               object == cluster.objects[k.target]
           IN  /\ k.pc = "flux" /\ k.target \in DOMAIN cluster.objects
               /\ q.flux = Append(k.flux, ParseFlux(k.target, object))
               /\ q.target = object.source
               /\ \/ q.pc = "version"
                  \/ /\ q.pc = "flux_events"
                     /\ object.source = NoObject \/ Len(k.flux) = MaxHops
               /\ Alters(q, k, {"flux", "queried", "target", "version", "pc", "left"}
                                   \cup Sending)
<1> DEFINE k == collections[c]
           q == collections'[c]
           object == cluster.objects[k.target]
<1>1. k.pc = "flux"
  BY DEF GetFlux, At
<1>2. PICK s \in {k, Sent(k, k.target)} :
         \/ \E n : q = ChainEnds(Notes(s, n))
         \/ \E e : q = ChainEnds(Errs(s, e))
         \/ q = Lost(s)
         \/ k.target \in DOMAIN cluster.objects /\ q = WithObject(s, object)
  BY DEF GetFlux, Get, Request, Becomes, IsThere
<1>3. IsCollection(s) /\ Alters(s, k, Sending)
  BY SentAlters
<1>4. k.target \in DOMAIN cluster.objects /\ q = WithObject(s, object)
  BY <1>2, <1>3, NotedIsSaid, NotedChainIsSaid
<1>5. s.flux = k.flux /\ s.target = k.target
  BY <1>3 DEF Alters, Fields, Sending
<1> DEFINE item == ParseFlux(s.target, object)
           found == Adds(s, item, Append(s.queried, s.target), object.source)
<1>6. \/ /\ q = ChainEnds(found)
         /\ object.source = NoObject \/ Len(s.flux) = MaxHops
      \/ q = ChainEnds(Notes(found, "source_not_read"))
      \/ q = Goes(found, "version")
  BY <1>4 DEF WithObject, Adds, Hops
<1> HIDE DEF item, object
<1>7. /\ IsCollection(found) /\ found.flux = Append(s.flux, item)
      /\ found.target = object.source
      /\ Alters(found, s, {"flux", "queried", "target", "version"})
  BY <1>3 DEF Adds, Alters, IsCollection, Fields
<1> HIDE DEF found
<1>8. found.flux # <<>>
  BY <1>5, <1>7, AppendIs
<1>9. /\ Alters(q, found, {"pc", "left"})
      /\ \/ q.pc = "version"
         \/ /\ q.pc = "flux_events"
            /\ object.source = NoObject \/ Len(s.flux) = MaxHops
  <2>1. q # ChainEnds(Notes(found, "source_not_read"))
    BY <1>7, NotedChainIsSaid
  <2>2. CASE q = Goes(found, "version")
    BY <1>7, <2>2, GoesAlters DEF Alters
  <2>3. QED
    BY <1>6, <1>7, <1>8, <2>1, <2>2, ChainEndsAlters
<1>10. q.flux = found.flux /\ q.target = found.target
  BY <1>9 DEF Alters, Fields
<1>11. Alters(q, k, {"flux", "queried", "target", "version", "pc", "left"} \cup Sending)
  BY <1>3, <1>7, <1>9 DEF Alters
<1>12. QED
  BY <1>1, <1>4, <1>5, <1>7, <1>9, <1>10, <1>11 DEF item, object

LEMMA GetFluxEventsSilently ==
    ASSUME NEW c \in DOMAIN collections, IsCollection(collections[c]), GetFluxEvents(c),
           Unsaid(collections'[c])
    PROVE  LET k == collections[c]
               q == collections'[c]
           IN  /\ k.pc = "flux_events" /\ q.pc = k.pc
               /\ Alters(q, k, {"got", "left"} \cup Sending)
<1> DEFINE k == collections[c]
           q == collections'[c]
<1>1. k.pc = "flux_events"
  BY DEF GetFluxEvents, At
<1>2. PICK i \in k.left :
         LET ref == k.flux[i].ref
         IN  ListEvents(c, ref, LAMBDA e : IsOf(e, ref), LAMBDA j : SourceDone(j, i),
                        LAMBDA j : SourceDone(Errs(j, "events"), i))
  BY DEF GetFluxEvents
<1> DEFINE ref == k.flux[i].ref
<1>3. PICK s \in {k, Sent(k, EventsOf(ref))} :
         \/ q = SourceDone(Errs(s, "events"), i)
         \/ q = Lost(s)
         \/ \E got : q = HeardOf(s, got, i)
  BY <1>2 DEF ListEvents, Request, Becomes, HeardOf
<1>4. IsCollection(s) /\ Alters(s, k, Sending)
  BY SentAlters
<1>5. PICK got : q = HeardOf(s, got, i)
  BY <1>3, <1>4, FailingIsSaid, NotedIsSaid
<1>6. Alters(q, s, {"got", "left"})
  BY <1>4, <1>5, SourceDoneAlters
<1>7. Alters(q, k, {"got", "left"} \cup Sending)
  BY <1>4, <1>6 DEF Alters
<1>8. QED
  BY <1>1, <1>7 DEF Alters, Fields, Sending

(* The same for the events of the delivery.                                *)
CutsFlux(k, kept, all) ==
    [k EXCEPT !.fluxEvents = kept, !.got = {},
              !.notes = IF kept = all THEN @ ELSE @ \cup {"flux_events_omitted"}]

LEMMA KeepFluxSilently ==
    ASSUME NEW c \in DOMAIN collections, IsCollection(collections[c]), KeepFluxEvents(c),
           Unsaid(collections'[c])
    PROVE  LET k == collections[c]
               q == collections'[c]
           IN  /\ k.pc = "flux_events" /\ q.pc = "decide"
               /\ Alters(q, k, {"pc", "fluxEvents", "got"})
<1> DEFINE k == collections[c]
           q == collections'[c]
           g == Goes(k, "decide")
<1>1. k.pc = "flux_events"
  BY DEF KeepFluxEvents, At
<1>2. PICK kept : q = CutsFlux(g, kept, g.got)
  BY DEF KeepFluxEvents, Becomes, CutsFlux
<1>3. IsCollection(g) /\ Alters(g, k, {"pc"}) /\ g.pc = "decide"
  BY GoesAlters
<1> DEFINE noted == IF kept = g.got THEN g.notes ELSE g.notes \cup {"flux_events_omitted"}
<1>4. q = [g EXCEPT !.fluxEvents = kept, !.got = {}, !.notes = noted]
  BY <1>2 DEF CutsFlux
<1> HIDE DEF g, noted
<1>5. q.notes = noted /\ Alters(q, g, {"fluxEvents", "got", "notes"})
  BY <1>3, <1>4 DEF Alters, IsCollection, Fields
<1>6. noted = g.notes
  BY <1>5 DEF Unsaid, noted
<1>7. Alters(q, k, {"pc", "fluxEvents", "got"})
  BY <1>3, <1>5, <1>6 DEF Alters, Fields
<1>8. q.pc = "decide"
  BY <1>3, <1>5 DEF Alters, Fields
<1>9. QED
  BY <1>1, <1>7, <1>8

LEMMA DecideAlters ==
    ASSUME NEW c \in DOMAIN collections, IsCollection(collections[c]), Decide(c)
    PROVE  LET k == collections[c]
               q == collections'[c]
           IN  k.pc = "decide" /\ q.pc = "done" /\ Alters(q, k, {"pc", "outcome"})
<1> DEFINE k == collections[c]
<1>1. PICK o : collections'[c] = Ends(k, o)
  BY DEF Decide, Becomes, Ends
<1>2. Ends(k, o).pc = "done" /\ Alters(Ends(k, o), k, {"pc", "outcome"})
  BY DEF Ends, Alters, IsCollection, Fields
<1>3. QED
  BY <1>1, <1>2 DEF Decide, At

-----------------------------------------------------------------------------
(* What was collected stays collected.                                     *)

(* What a collection is held against, and what decides whether it is.      *)
Aims == {"alert", "notes", "errors", "steady"}

LEMMA SmoothBefore ==
    ASSUME NEW k, NEW q, NEW F, Alters(q, k, F), F \cap Aims = {}, Smooth(q),
           k.pc # "done"
    PROVE  Smooth(k)
<1>1. /\ q.alert = k.alert /\ q.notes = k.notes /\ q.errors = k.errors
      /\ q.steady = k.steady
  BY DEF Alters, Aims, Fields
<1>2. AlertNamespace(q) = AlertNamespace(k)
  BY <1>1 DEF AlertNamespace
<1>3. QED
  BY <1>1, <1>2 DEF Smooth, Unsaid

LEMMA AllPodsStay ==
    ASSUME NEW k, NEW q, NEW F, Alters(q, k, F), F \cap {"alert", "pods", "raw"} = {},
           AllPods(k), q.pc \in AtPods => k.pc \in AtPods,
           q.pc \in AfterPods => k.pc \in AfterPods
    PROVE  AllPods(q)
<1>1. q.alert = k.alert /\ q.pods = k.pods /\ q.raw = k.raw
  BY DEF Alters, Fields
<1>2. PodsOf(q) = PodsOf(k)
  BY <1>1, SameAlert
<1>3. QED
  BY <1>1, <1>2 DEF AllPods

LEMMA AllEventsStay ==
    ASSUME NEW k, NEW q, NEW F, Alters(q, k, F), F \cap {"alert", "pods", "events"} = {},
           AllEvents(k), q.pc # "events", q.pc \in AfterEvents => k.pc \in AfterEvents
    PROVE  AllEvents(q)
<1>1. q.alert = k.alert /\ q.pods = k.pods /\ q.events = k.events
  BY DEF Alters, Fields
<1>2. \A name, heard : Heard(q, name, heard) <=> Heard(k, name, heard)
  BY <1>1 DEF Heard, About, AlertNamespace
<1>3. QED
  BY <1>1, <1>2 DEF AllEvents

LEMMA AllObjectsStay ==
    ASSUME NEW k, NEW q, NEW F, Alters(q, k, F),
           F \cap {"alert", "pods", "claims", "nodes"} = {},
           AllObjects(k), q.pc \in AfterClaim => k.pc \in AfterClaim,
           q.pc \in AfterNodes => k.pc \in AfterNodes
    PROVE  AllObjects(q)
<1>1. /\ q.alert = k.alert /\ q.pods = k.pods /\ q.claims = k.claims
      /\ q.nodes = k.nodes
  BY DEF Alters, Fields
<1>2. ClaimRef(q) = ClaimRef(k) /\ NodeName(q) = NodeName(k)
  BY <1>1 DEF ClaimRef, NodeName, AlertNamespace
<1>3. QED
  BY <1>1, <1>2 DEF AllObjects

LEMMA AllHopsStay ==
    ASSUME NEW k, NEW q, NEW F, Alters(q, k, F), F \cap {"flux", "target"} = {},
           AllHops(k), q.pc \in OnChain => k.pc \in OnChain,
           q.pc \in {"flux_events"} \cup AtEnd => k.pc \in {"flux_events"} \cup AtEnd
    PROVE  AllHops(q)
<1>1. q.flux = k.flux /\ q.target = k.target
  BY DEF Alters, Fields
<1>2. QED
  BY <1>1 DEF AllHops

(* There is no delivery yet.                                               *)
LEMMA NoHops ==
    ASSUME NEW q, q.flux = <<>>
    PROVE  AllHops(q)
<1>1. DOMAIN <<>> = {} /\ Len(<<>>) = 0 /\ 0 <= MaxHops + 1
  BY EvidenceBounds
<1>2. QED
  BY <1>1 DEF AllHops

LEMMA NoHopsYet ==
    ASSUME NEW k, NEW q, NEW F, Alters(q, k, F), "flux" \notin F, Ordered(k),
           k.pc \notin OnChain \cup {"flux_events"} \cup AtEnd
    PROVE  AllHops(q)
<1>1. k.flux = <<>> /\ q.flux = k.flux
  BY DEF Alters, Fields, Ordered, OfDelivery
<1>2. QED
  BY <1>1, NoHops

(* The names of the pods in hand.                                          *)
LEMMA NamesOfOneMore ==
    ASSUME NEW pods, IsSeq(pods), NEW pod
    PROVE  NamesIn(Append(pods, pod)) = NamesIn(pods) \cup {pod.name}
<1>1. /\ Append(pods, pod)[Len(pods) + 1] = pod /\ Len(pods) \in Nat
      /\ \A i \in DOMAIN pods : Append(pods, pod)[i] = pods[i]
      /\ DOMAIN pods = 1..Len(pods) /\ DOMAIN Append(pods, pod) = 1..(Len(pods) + 1)
  BY AppendIs
<1>2. DOMAIN Append(pods, pod) = DOMAIN pods \cup {Len(pods) + 1}
  BY <1>1
<1>3. QED
  BY <1>1, <1>2 DEF NamesIn

LEMMA NamesOfTheRest ==
    ASSUME NEW raw, IsSeq(raw), raw # <<>>
    PROVE  NamesRead(raw) = NamesRead(Tail(raw)) \cup {Head(raw)[1]}
<1>1. /\ 1 \in DOMAIN raw /\ Head(raw) = raw[1]
      /\ \A i \in DOMAIN Tail(raw) : i + 1 \in DOMAIN raw /\ Tail(raw)[i] = raw[i + 1]
      /\ \A i \in DOMAIN raw : i # 1 => i - 1 \in DOMAIN Tail(raw) /\ Tail(raw)[i - 1] = raw[i]
  BY TailMoves
<1>2. NamesRead(raw) \subseteq NamesRead(Tail(raw)) \cup {Head(raw)[1]}
  BY <1>1 DEF NamesRead
<1>3. NamesRead(Tail(raw)) \cup {Head(raw)[1]} \subseteq NamesRead(raw)
  BY <1>1 DEF NamesRead
<1>4. QED
  BY <1>2, <1>3

-----------------------------------------------------------------------------
(* The steps, one at a time.                                               *)

(* What a step starts from.                                                *)
Sofar(k) ==
    /\ Sound(k) /\ FiniteCluster
    /\ k.steady => Traced(k)
    /\ Smooth(k) => Complete(k)

LEMMA FrontCompletes ==
    ASSUME NEW c \in DOMAIN collections, Sofar(collections[c]),
           Filter(c) \/ Triage(c) \/ QueryLogs(c) \/ QueryMetrics(c) \/ CheckScope(c),
           Smooth(collections'[c])
    PROVE  Complete(collections'[c])
<1> DEFINE k == collections[c]
           q == collections'[c]
           F == {"pc"}
<1>1. /\ k.pc \in InFront /\ q.pc \in InFront \cup {"pods"} /\ Alters(q, k, F)
  BY FrontSilently DEF Sofar, Sound
<1>2. Complete(k)
  BY <1>1, SmoothBefore DEF Sofar, InFront, Aims
<1> HIDE DEF k, q
<1>3. AllPods(q) /\ AllEvents(q) /\ AllObjects(q)
  BY <1>1, <1>2, AllPodsStay, AllEventsStay, AllObjectsStay
  DEF Complete, InFront, AtPods, AfterPods, AfterEvents, AfterClaim, AfterNodes, OfDelivery,
      OnChain, AtEnd
<1>4. AllHops(q)
  <2>1. Ordered(k)
    BY DEF Sofar, Sound, k
  <2>2. QED
    BY <1>1, <2>1, NoHopsYet DEF InFront, OnChain, AtEnd
<1>5. QED
  BY <1>3, <1>4 DEF Complete, q

(* Before there is a pod only the pods are to be proved.                   *)
LEMMA PodsComplete ==
    ASSUME NEW k, NEW q, NEW F, Alters(q, k, F), Ordered(k), AllPods(q),
           F \cap {"flux"} = {},
           k.pc \in {"pods", "list"} \cup AtPods,
           q.pc \in {"pods", "list", "sources"} \cup AtPods
    PROVE  Complete(q)
<1>1. AllHops(q)
  BY NoHopsYet DEF AtPods, OnChain, AtEnd
<1>2. AllEvents(q) /\ AllObjects(q)
  BY DEF AllEvents, AllObjects, AtPods, AfterEvents, AfterClaim, AfterNodes, OfDelivery,
         OnChain, AtEnd
<1>3. QED
  BY <1>1, <1>2 DEF Complete

LEMMA FirstPodsComplete ==
    ASSUME NEW c \in DOMAIN collections, Sofar(collections[c]),
           GetPod(c) \/ GetWorkload(c) \/ NoPods(c),
           Smooth(collections'[c])
    PROVE  Complete(collections'[c])
<1> DEFINE k == collections[c]
           q == collections'[c]
<1>0. Unsaid(q) /\ Ordered(k) /\ IsCollection(k) /\ FiniteCluster
  BY DEF Smooth, Sofar, Sound
<1>1. ASSUME k.pc = "pods" PROVE k.pods = <<>>
  BY <1>1 DEF Sofar, Sound, Paid, PaidForPods
<1>2. DOMAIN <<>> = {} /\ IsSeq(<<>>) /\ NamesIn(<<>>) = {}
  <2>1. <<>> \in Seq({}) /\ DOMAIN <<>> = {}
    OBVIOUS
  <2>2. QED
    BY <2>1 DEF IsSeq, NamesIn
<1>3. CASE GetPod(c)
  <2> DEFINE F == {"pc", "raw"} \cup Sending
             read == ReadPod(PodRef(k))
  <2>1. /\ k.pc = "pods" /\ q.pc = "parse" /\ NameOf(PodRef(k)) # Nobody
        /\ PodRef(k) \in DOMAIN cluster.objects
        /\ q.raw = <<read>> /\ Alters(q, k, F)
    BY <1>0, <1>3, GetPodSilently
  <2>2. q.pods = <<>> /\ q.alert = k.alert
    BY <1>1, <2>1 DEF Alters, Fields, Sending
  <2>3. PodsOf(q) = {PodRef(k)}
    BY <2>1, <2>2, SameAlert DEF PodsOf
  <2>4. read[1] = NameOf(PodRef(k))
    BY DEF ReadPod
  <2> HIDE DEF read
  <2>5. NamesRead(q.raw) = NamesOf(PodsOf(q))
    <3>1. DOMAIN <<read>> = {1} /\ <<read>>[1] = read
      OBVIOUS
    <3>2. NamesRead(<<read>>) = {read[1]}
      BY <3>1 DEF NamesRead
    <3>3. QED
      BY <2>1, <2>3, <2>4, <3>2 DEF NamesOf
  <2>6. AllPods(q)
    BY <1>2, <2>1, <2>2, <2>5
    DEF AllPods, AtPods, AfterPods, AfterEvents, AfterClaim, AfterNodes, OfDelivery,
        OnChain, AtEnd
  <2>7. QED
    BY <1>0, <2>1, <2>6, PodsComplete DEF AtPods, Sending
<1>4. CASE GetWorkload(c)
  <2> DEFINE F == {"pc", "selector", "queried", "labels"} \cup Sending
  <2>1. k.pc = "pods" /\ q.pc = "list" /\ Alters(q, k, F)
    BY <1>0, <1>4, GetWorkloadSilently
  <2>2. q.pods = <<>>
    BY <1>1, <2>1 DEF Alters, Fields, Sending
  <2>3. AllPods(q)
    BY <1>2, <2>1, <2>2
    DEF AllPods, AtPods, AfterPods, AfterEvents, AfterClaim, AfterNodes, OfDelivery,
        OnChain, AtEnd
  <2>4. QED
    BY <1>0, <2>1, <2>3, PodsComplete DEF AtPods, Sending
<1>5. CASE NoPods(c)
  <2> DEFINE F == {"pc"}
  <2>1. /\ k.pc = "pods" /\ q.pc = "sources" /\ Alters(q, k, F)
        /\ NameOf(PodRef(k)) = Nobody /\ Workload(k) = NoObject
    BY <1>0, <1>5, NoPodsSilently
  <2>2. q.pods = <<>> /\ q.alert = k.alert
    BY <1>1, <2>1 DEF Alters, Fields
  <2>3. NoObject \notin DOMAIN cluster.objects
    BY <1>0 DEF FiniteCluster, NoObject, NameOf
  <2>4. PodsOf(q) = {}
    BY <2>1, <2>2, <2>3, SameAlert DEF PodsOf
  <2>5. NamesOf(PodsOf(q)) = {}
    BY <2>4 DEF NamesOf
  <2>6. AllPods(q)
    BY <1>2, <2>1, <2>2, <2>5 DEF AllPods, AtPods
  <2>7. QED
    BY <1>0, <2>1, <2>6, PodsComplete DEF AtPods
<1>6. QED
  BY <1>3, <1>4, <1>5

(* A list from which nothing was left out has everything.                  *)
LEMMA ShownIsAll ==
    ASSUME NEW pods, IsFiniteSet(DOMAIN pods), NEW list \in Shown(pods),
           ~(Cardinality(DOMAIN pods) > Len(list))
    PROVE  \A p \in DOMAIN pods : \E i \in DOMAIN list : list[i] = p
<1> DEFINE S == DOMAIN pods
           n == Cardinality(S)
<1>1. PICK l \in SetToSeqs(S) : list = SubSeq(l, 1, Min2(MaxPods, Len(l)))
  BY DEF Shown
<1>2. n \in Nat
  BY FS_CardinalityType
<1>3. l \in [1..n -> S] /\ \A i, j \in 1..n : i # j => l[i] # l[j]
  BY <1>1 DEF SetToSeqs
<1>0. IsFiniteSet(S) /\ n = Cardinality(S) /\ ~(n > Len(list))
  OBVIOUS
<1> HIDE DEF S, n
<1>4. \A p \in S : \E j \in 1..n : l[j] = p
  <2>1. l \in Injection(1..n, S)
    BY <1>3 DEF Injection, IsInjective
  <2>2. IsFiniteSet(1..n) /\ Cardinality(1..n) = n
    BY <1>2, FS_Interval
  <2>3. l \in Surjection(1..n, S)
    BY <1>0, <2>1, <2>2, FS_Injection
  <2>4. QED
    BY <2>3 DEF Surjection
<1>5. l \in Seq(S) /\ Len(l) = n /\ DOMAIN l = 1..n
  BY <1>2, <1>3
<1> DEFINE m == Min2(MaxPods, Len(l))
<1>6. m \in 0..n
  BY <1>2, <1>5, EvidenceBounds DEF Min2
<1>7. list = SubSeq(l, 1, m)
  BY <1>1
<1> HIDE DEF m
<1>8. /\ Len(list) = m /\ DOMAIN list = 1..m
      /\ \A i \in 1..m : list[i] = l[i]
  BY <1>2, <1>5, <1>6, <1>7
<1>9. m = n
  BY <1>0, <1>2, <1>6, <1>8
<1>10. QED
  BY <1>4, <1>8, <1>9 DEF S

LEMMA ListPodsCompletes ==
    ASSUME MaxPods < ScanLimit,
           NEW c \in DOMAIN collections, Sofar(collections[c]), ListPods(c),
           Smooth(collections'[c])
    PROVE  Complete(collections'[c])
<1> DEFINE k == collections[c]
           q == collections'[c]
           F == {"pc", "raw"} \cup Sending
           all == Matching(AlertNamespace(k), k.selector)
<1>0. Unsaid(q) /\ Ordered(k) /\ IsCollection(k) /\ FiniteCluster
  BY DEF Smooth, Sofar, Sound
<1>1. /\ k.pc = "list" /\ Alters(q, k, F)
      /\ \E some \in SUBSET all :
         \E list \in Shown([ref \in some |-> cluster.objects[ref]]) :
            /\ Cardinality(some) = Min2(ScanLimit, Cardinality(all))
            /\ ~(Cardinality(some) > Len(list))
            /\ q.raw = [i \in DOMAIN list |-> ReadPod(list[i])]
            /\ q.pc = IF list = <<>> THEN "sources" ELSE "parse"
  BY <1>0, ListPodsSilently
<1>2. PICK some \in SUBSET all : \E list \in Shown([ref \in some |-> cluster.objects[ref]]) :
            /\ Cardinality(some) = Min2(ScanLimit, Cardinality(all))
            /\ ~(Cardinality(some) > Len(list))
            /\ q.raw = [i \in DOMAIN list |-> ReadPod(list[i])]
            /\ q.pc = IF list = <<>> THEN "sources" ELSE "parse"
  BY <1>1
<1> DEFINE pods == [ref \in some |-> cluster.objects[ref]]
<1>3. PICK list \in Shown(pods) :
            /\ Cardinality(some) = Min2(ScanLimit, Cardinality(all))
            /\ ~(Cardinality(some) > Len(list))
            /\ q.raw = [i \in DOMAIN list |-> ReadPod(list[i])]
            /\ q.pc = IF list = <<>> THEN "sources" ELSE "parse"
  BY <1>2
<1>4. /\ k.pods = <<>> /\ q.pods = k.pods /\ q.alert = k.alert
      /\ q.steady = k.steady
  BY <1>1 DEF Alters, Fields, Sending, Sofar, Sound, Paid, PaidForPods
<1>5. PodsOf(q) = all
  <2>1. Traced(k)
    BY <1>4 DEF Sofar, Smooth
  <2>2. /\ NameOf(PodRef(k)) = Nobody /\ Workload(k) \in DOMAIN cluster.objects
        /\ k.selector = cluster.objects[Workload(k)].selector
    BY <1>1, <2>1 DEF Traced, SelectsItsPods
  <2>3. PodsOf(k) = all
    BY <2>2 DEF PodsOf
  <2>4. QED
    BY <1>4, <2>3, SameAlert
<1>6. /\ all \subseteq DOMAIN cluster.objects /\ IsFiniteSet(all) /\ IsFiniteSet(some)
      /\ DOMAIN pods = some
  <2>1. all \subseteq DOMAIN cluster.objects /\ some \subseteq DOMAIN cluster.objects
    BY DEF Matching
  <2>2. QED
    BY <1>0, <2>1, FS_Subset DEF FiniteCluster
<1> HIDE DEF all, pods, k, q
<1>7. some = all
  <2>1. /\ Cardinality(all) \in Nat /\ Cardinality(some) \in Nat
        /\ ScanLimit \in Nat /\ MaxPods \in Nat
    BY <1>6, FS_CardinalityType, EvidenceBounds
  <2>2. PICK S : list \in Seq(S) /\ Len(list) \in 0..MaxPods
    BY <1>3, <1>6, ShownIsShort
  <2>3. Cardinality(some) <= Len(list)
    BY <1>3, <2>1, <2>2
  <2>4. Cardinality(some) < ScanLimit
    BY <2>1, <2>2, <2>3
  <2>5. Cardinality(some) = Cardinality(all)
    BY <1>3, <2>1, <2>4 DEF Min2
  <2>6. QED
    BY <1>6, <2>5, FS_Subset
<1>8. NamesRead(q.raw) = NamesOf(PodsOf(q))
  <2>1. \A p \in all : \E i \in DOMAIN list : list[i] = p
    BY <1>3, <1>6, <1>7, ShownIsAll
  <2>2. \A i \in DOMAIN list : list[i] \in all
    BY <1>3, <1>6, <1>7, ShownAreThere
  <2>3. DOMAIN q.raw = DOMAIN list /\ \A i \in DOMAIN list : q.raw[i][1] = NameOf(list[i])
    BY <1>3 DEF ReadPod
  <2>4. NamesRead(q.raw) \subseteq NamesOf(all)
    BY <2>2, <2>3 DEF NamesRead, NamesOf
  <2>5. NamesOf(all) \subseteq NamesRead(q.raw)
    BY <2>1, <2>3 DEF NamesRead, NamesOf
  <2>6. QED
    BY <1>5, <2>4, <2>5
<1>9. /\ DOMAIN <<>> = {} /\ IsSeq(<<>>) /\ NamesIn(<<>>) = {}
      /\ q.pc = "sources" => NamesRead(q.raw) = {}
  <2>1. <<>> \in Seq({}) /\ DOMAIN <<>> = {}
    OBVIOUS
  <2>2. q.pc = "sources" => DOMAIN q.raw = {}
    BY <1>3, <2>1
  <2>3. QED
    BY <2>1, <2>2 DEF IsSeq, NamesIn, NamesRead
<1>10. q.pc \in {"sources", "parse"}
  BY <1>3
<1>11. AllPods(q)
  BY <1>4, <1>8, <1>9, <1>10
  DEF AllPods, AtPods, AfterPods, AfterEvents, AfterClaim, AfterNodes, OfDelivery, OnChain,
      AtEnd
<1>12. QED
  BY <1>0, <1>1, <1>10, <1>11, PodsComplete DEF AtPods, Sending, k, q

LEMMA ParseNextPodCompletes ==
    ASSUME NEW c \in DOMAIN collections, Sofar(collections[c]), ParseNextPod(c),
           Smooth(collections'[c])
    PROVE  Complete(collections'[c])
<1> DEFINE k == collections[c]
           q == collections'[c]
           F == {"pods", "queried", "raw", "walk", "pc"}
<1>0. Unsaid(q) /\ Ordered(k) /\ IsCollection(k)
  BY DEF Smooth, Sofar, Sound
<1>1. /\ k.pc = "parse" /\ q.pc = "owners" /\ q.raw = Tail(k.raw)
      /\ \E pod : /\ pod.chain = <<>> /\ pod.name = Head(k.raw)[1]
                  /\ q.pods = Append(k.pods, pod)
      /\ Alters(q, k, F)
  BY <1>0, ParseNextPodSilently
<1>2. PICK pod : /\ pod.chain = <<>> /\ pod.name = Head(k.raw)[1]
                 /\ q.pods = Append(k.pods, pod)
  BY <1>1
<1>3. IsSeq(k.pods) /\ IsSeq(k.raw) /\ k.raw # <<>>
  BY <1>1 DEF Sofar, Sound, Paid, PaidForPods
<1>4. AllPods(k)
  BY <1>1, SmoothBefore DEF Sofar, Complete, Aims
<1>5. PodsOf(q) = PodsOf(k)
  <2>1. q.alert = k.alert
    BY <1>1 DEF Alters, Fields
  <2>2. QED
    BY <2>1, SameAlert
<1>6. NamesIn(q.pods) \cup NamesRead(q.raw) = NamesOf(PodsOf(q))
  <2>1. NamesIn(q.pods) = NamesIn(k.pods) \cup {pod.name}
    BY <1>2, <1>3, NamesOfOneMore
  <2>2. NamesRead(k.raw) = NamesRead(q.raw) \cup {pod.name}
    BY <1>1, <1>2, <1>3, NamesOfTheRest
  <2>3. NamesIn(k.pods) \cup NamesRead(k.raw) = NamesOf(PodsOf(k))
    BY <1>1, <1>4 DEF AllPods, AtPods
  <2>4. QED
    BY <1>5, <2>1, <2>2, <2>3
<1>7. IsSeq(q.pods) /\ \A i \in DOMAIN q.pods : IsSeq(q.pods[i].chain)
  <2> DEFINE n == Len(k.pods)
  <2>1. /\ IsSeq(q.pods) /\ q.pods[n + 1] = pod /\ n \in Nat
        /\ \A i \in DOMAIN k.pods : q.pods[i] = k.pods[i]
        /\ DOMAIN k.pods = 1..n /\ DOMAIN q.pods = 1..(n + 1)
    BY <1>2, <1>3, AppendIs
  <2> HIDE DEF n
  <2>2. \A i \in DOMAIN q.pods : i \in DOMAIN k.pods \/ i = n + 1
    BY <2>1
  <2>3. IsSeq(<<>>)
    <3>1. <<>> \in Seq({})
      OBVIOUS
    <3>2. QED
      BY <3>1 DEF IsSeq
  <2>4. \A i \in DOMAIN k.pods : IsSeq(k.pods[i].chain)
    BY <1>4 DEF AllPods
  <2>5. QED
    BY <1>2, <2>1, <2>2, <2>3, <2>4
<1> HIDE DEF k, q
<1>8. AllPods(q)
  BY <1>1, <1>6, <1>7
  DEF AllPods, AfterPods, AfterEvents, AfterClaim, AfterNodes, OfDelivery, OnChain, AtEnd
<1>9. QED
  BY <1>0, <1>1, <1>8, PodsComplete DEF AtPods, k, q

LEMMA GrownPods ==
    ASSUME NEW k, NEW g, Grows(g, k), IsSeq(k.pods),
           \A i \in DOMAIN k.pods : IsSeq(k.pods[i].chain)
    PROVE  /\ NamesIn(g.pods) = NamesIn(k.pods) /\ IsSeq(g.pods)
           /\ \A i \in DOMAIN g.pods : IsSeq(g.pods[i].chain)
<1> DEFINE n == Len(k.pods)
<1>1. /\ IsSeq(g.pods) /\ Len(g.pods) = n /\ Len(g.pods) >= 1
      /\ IsSeq(g.pods[n].chain) /\ g.pods[n].name = k.pods[n].name
      /\ \A i \in 1..(n - 1) : g.pods[i] = k.pods[i]
  BY DEF Grows, HasPod, Last, Chain
<1>2. n \in Nat /\ DOMAIN k.pods = 1..n /\ DOMAIN g.pods = 1..n
  BY <1>1, AppendIs
<1> HIDE DEF n
<1>3. \A i \in 1..n : i \in 1..(n - 1) \/ i = n
  BY <1>2
<1>4. \A i \in 1..n : g.pods[i].name = k.pods[i].name
  BY <1>1, <1>3
<1>5. NamesIn(g.pods) = NamesIn(k.pods)
  BY <1>2, <1>4 DEF NamesIn
<1>6. QED
  BY <1>1, <1>2, <1>3, <1>5

LEMMA FollowOwnerCompletes ==
    ASSUME NEW c \in DOMAIN collections, Sofar(collections[c]), FollowOwner(c),
           Smooth(collections'[c])
    PROVE  Complete(collections'[c])
<1> DEFINE k == collections[c]
           q == collections'[c]
           F == {"pods", "pc", "walk", "labels"} \cup Sending
<1>0. Unsaid(q) /\ Ordered(k) /\ IsCollection(k)
  BY DEF Smooth, Sofar, Sound
<1>1. k.pc = "owners" /\ q.pc \in AtPods \cup {"sources"} /\ Alters(q, k, F)
  BY <1>0, FollowOwnerSilently
<1>2. HasPod(k)
  BY <1>1 DEF Sofar, Sound, Paid, PaidForPods
<1>3. AllPods(k)
  BY <1>1, SmoothBefore DEF Sofar, Complete, Aims, Sending
<1>4. PodsOf(q) = PodsOf(k) /\ q.raw = k.raw
  <2>1. q.alert = k.alert /\ q.raw = k.raw
    BY <1>1 DEF Alters, Fields, Sending
  <2>2. QED
    BY <2>1, SameAlert
<1>5. /\ \/ q.pods = k.pods
         \/ \E g, s : Grows(g, s) /\ s.pods = k.pods /\ q.pods = g.pods
      /\ q.pc = "sources" => k.raw = <<>>
  <2>1. \/ Moves(q, k, AfterWalk(k))
        \/ \E s : MayAsk(s, k, OwnerRef(k)) /\ (Climbs(q, s, OwnerRef(k)) \/ Loses(q, s))
    BY <1>0, <1>2, FollowOwnerMoves
  <2>2. CASE Moves(q, k, AfterWalk(k))
    BY <2>2 DEF Moves, SamePods, AfterWalk
  <2>3. ASSUME NEW s, MayAsk(s, k, OwnerRef(k)), Climbs(q, s, OwnerRef(k)) \/ Loses(q, s)
        PROVE  /\ \E g : Grows(g, s) /\ s.pods = k.pods /\ q.pods = g.pods
               /\ q.pc = "sources" => k.raw = <<>>
    <3>1. ~Loses(q, s)
      BY <1>1 DEF Loses, AtPods
    <3>2. PICK g : /\ Grows(g, s)
                   /\ \/ Moves(q, g, AfterWalk(s))
                      \/ Learns(q, g, "owners", cluster.objects[OwnerRef(k)].gitops)
      BY <2>3, <3>1 DEF Climbs
    <3>3. /\ q.pods = g.pods
          /\ q.pc = "sources" => s.raw = <<>>
      BY <3>2 DEF Moves, Learns, Shifts, SamePods, AfterWalk
    <3>4. s.pods = k.pods /\ s.raw = k.raw
      BY <2>3 DEF MayAsk, Asks, SamePods
    <3>5. QED
      BY <3>2, <3>3, <3>4
  <2>4. QED
    BY <2>1, <2>2, <2>3
<1> HIDE DEF k, q
<1>6. /\ NamesIn(q.pods) = NamesIn(k.pods) /\ IsSeq(q.pods)
      /\ \A i \in DOMAIN q.pods : IsSeq(q.pods[i].chain)
  BY <1>3, <1>5, GrownPods DEF AllPods
<1>7. q.pc = "sources" => NamesRead(q.raw) = {}
  <2>1. DOMAIN <<>> = {}
    OBVIOUS
  <2>2. QED
    BY <1>4, <1>5, <2>1 DEF NamesRead
<1>8. NamesIn(k.pods) \cup NamesRead(k.raw) = NamesOf(PodsOf(k))
  BY <1>1, <1>3 DEF AllPods, AtPods
<1>9. AllPods(q)
  BY <1>1, <1>4, <1>6, <1>7, <1>8
  DEF AllPods, AtPods, AfterPods, AfterEvents, AfterClaim, AfterNodes, OfDelivery, OnChain,
      AtEnd
<1>10. QED
  BY <1>0, <1>1, <1>9, PodsComplete DEF AtPods, Sending, k, q

-----------------------------------------------------------------------------
LEMMA ChooseSourcesCompletes ==
    ASSUME NEW c \in DOMAIN collections, Sofar(collections[c]), ChooseSources(c),
           Smooth(collections'[c])
    PROVE  Complete(collections'[c])
<1> DEFINE k == collections[c]
           q == collections'[c]
           F == {"pc", "left"}
<1>0. Unsaid(q) /\ Ordered(k) /\ IsCollection(k) /\ FiniteCluster
  BY DEF Smooth, Sofar, Sound
<1>1. /\ k.pc = "sources" /\ q.pc = "events" /\ Alters(q, k, F)
      /\ q.left = DOMAIN EventSources(k.pods, k.queried)
  BY <1>0, ChooseSourcesSilently
<1>2. Complete(k)
  BY <1>1, SmoothBefore DEF Sofar, Aims
<1>3. q.pods = k.pods /\ q.queried = k.queried
  BY <1>1 DEF Alters, Fields
<1> HIDE DEF k, q
<1>4. /\ IsSeq(k.pods) /\ \A i \in DOMAIN k.pods : IsSeq(k.pods[i].chain)
      /\ NamesIn(k.pods) = NamesOf(PodsOf(k))
  BY <1>1, <1>2 DEF Complete, AllPods, AfterPods
<1>5. \A i \in DOMAIN k.pods : k.pods[i].name # Nobody
  <2>1. \A ref \in PodsOf(k) : NameOf(ref) # Nobody
    BY <1>0 DEF PodsOf, Matching, FiniteCluster
  <2>2. \A i \in DOMAIN k.pods : k.pods[i].name \in NamesOf(PodsOf(k))
    BY <1>4 DEF NamesIn
  <2>3. QED
    BY <2>1, <2>2 DEF NamesOf
<1>6. AllEvents(q)
  <2>1. \A i \in DOMAIN k.pods : \E j \in DOMAIN EventSources(k.pods, k.queried) :
           EventSources(k.pods, k.queried)[j] = k.pods[i].name
    BY <1>4, <1>5, PodsAreSources
  <2>2. \A name \in NamesIn(q.pods) :
           \E j \in q.left : EventSources(q.pods, q.queried)[j] = name
    BY <1>1, <1>3, <2>1 DEF NamesIn
  <2>3. QED
    BY <1>1, <2>2
    DEF AllEvents, AfterEvents, AfterClaim, AfterNodes, OfDelivery, OnChain, AtEnd
<1>7. AllPods(q) /\ AllObjects(q)
  BY <1>1, <1>2, AllPodsStay, AllObjectsStay
  DEF Complete, AtPods, AfterPods, AfterClaim, AfterNodes, OfDelivery, OnChain, AtEnd
<1>8. AllHops(q)
  BY <1>0, <1>1, NoHopsYet DEF OnChain, AtEnd, k
<1>9. QED
  BY <1>6, <1>7, <1>8 DEF Complete, q

(* A list that may hold all events of a name does.                         *)
LEMMA AllAreListed ==
    ASSUME FiniteCluster, NEW k, NEW name,
           NEW list \in EventLists(cluster.events, AlertNamespace(k), name)
    PROVE  Heard(k, name, list)
<1> DEFINE matching == {e \in cluster.events : /\ NamespaceOf(e.on) = AlertNamespace(k)
                                               /\ NameOf(e.on) = name}
<1>1. matching = About(k, name)
  BY DEF About, NamespaceOf
<1>2. list \in SUBSET matching /\ Cardinality(list) = Min2(MaxEvents, Cardinality(matching))
  BY DEF EventLists
<1>3. IsFiniteSet(matching)
  BY FS_Subset DEF FiniteCluster
<1> HIDE DEF matching
<1>4. ASSUME Cardinality(matching) <= MaxEvents
      PROVE  list = matching
  <2>1. Cardinality(matching) \in Nat /\ MaxEvents \in Nat
    BY <1>3, FS_CardinalityType, EvidenceBounds
  <2>2. Cardinality(list) = Cardinality(matching)
    BY <1>2, <1>4, <2>1 DEF Min2
  <2>3. QED
    BY <1>2, <1>3, <2>2, FS_Subset
<1>5. QED
  BY <1>1, <1>4 DEF Heard

LEMMA GetEventsCompletes ==
    ASSUME NEW c \in DOMAIN collections, Sofar(collections[c]), GetEvents(c),
           Smooth(collections'[c])
    PROVE  Complete(collections'[c])
<1> DEFINE k == collections[c]
           q == collections'[c]
           F == {"got", "left"} \cup Sending
           name(i) == EventSources(k.pods, k.queried)[i]
<1>0. Unsaid(q) /\ Ordered(k) /\ IsCollection(k) /\ FiniteCluster
  BY DEF Smooth, Sofar, Sound
<1>1. /\ k.pc = "events" /\ Alters(q, k, F)
      /\ \E i \in k.left :
            /\ q.left = k.left \ {i}
            /\ \E list \in EventLists(cluster.events, AlertNamespace(k), name(i)) :
                  q.got = k.got \cup list
  BY <1>0, GetEventsSilently
<1>2. PICK i \in k.left :
         /\ q.left = k.left \ {i}
         /\ \E list \in EventLists(cluster.events, AlertNamespace(k), name(i)) :
               q.got = k.got \cup list
  BY <1>1
<1>3. PICK list \in EventLists(cluster.events, AlertNamespace(k), name(i)) :
         q.got = k.got \cup list
  BY <1>2
<1>4. Complete(k)
  BY <1>1, SmoothBefore DEF Sofar, Aims, Sending
<1>5. /\ q.pods = k.pods /\ q.queried = k.queried /\ q.alert = k.alert
      /\ q.pc = "events"
  BY <1>1 DEF Alters, Fields, Sending
<1>6. Heard(k, name(i), list)
  BY <1>0, <1>3, AllAreListed
<1> HIDE DEF k, q
<1>7. \A n, heard : Heard(q, n, heard) <=> Heard(k, n, heard)
  BY <1>5 DEF Heard, About, AlertNamespace
<1>8. AllEvents(q)
  <2>1. ASSUME NEW n \in NamesIn(q.pods)
        PROVE  \/ \E j \in q.left : EventSources(q.pods, q.queried)[j] = n
               \/ Heard(k, n, q.got)
    <3>1. \/ \E j \in k.left : name(j) = n
          \/ Heard(k, n, k.got)
      BY <1>1, <1>4, <1>5, <2>1 DEF Complete, AllEvents
    <3>2. CASE Heard(k, n, k.got)
      BY <1>3, <3>2 DEF Heard
    <3>3. CASE n = name(i)
      BY <1>3, <1>6, <3>3 DEF Heard
    <3>4. CASE \E j \in k.left : name(j) = n /\ j # i
      BY <1>2, <1>5, <3>4
    <3>5. QED
      BY <3>1, <3>2, <3>3, <3>4
  <2>2. QED
    BY <1>5, <1>7, <2>1
    DEF AllEvents, AfterEvents, AfterClaim, AfterNodes, OfDelivery, OnChain, AtEnd
<1>9. AllPods(q) /\ AllObjects(q)
  BY <1>1, <1>4, <1>5, AllPodsStay, AllObjectsStay
  DEF Complete, AtPods, AfterPods, AfterClaim, AfterNodes, OfDelivery, OnChain, AtEnd, Sending
<1>10. AllHops(q)
  BY <1>0, <1>1, NoHopsYet DEF OnChain, AtEnd, Sending, k
<1>11. QED
  BY <1>8, <1>9, <1>10 DEF Complete, q

LEMMA KeepCompletes ==
    ASSUME NEW c \in DOMAIN collections, Sofar(collections[c]),
           KeepEvents(c) \/ MergeEvents(c), Smooth(collections'[c])
    PROVE  Complete(collections'[c])
<1> DEFINE k == collections[c]
           q == collections'[c]
           F == {"pc", "events", "got"}
<1>0. Unsaid(q) /\ Ordered(k) /\ IsCollection(k)
  BY DEF Smooth, Sofar, Sound
<1>1. /\ Alters(q, k, F)
      /\ \/ k.pc = "events" /\ q.pc = "claim" /\ k.left = {} /\ q.events = k.got
         \/ k.pc = "merge" /\ q.pc = "node" /\ q.events = k.events \cup k.got
  BY <1>0, KeepSilently
<1>2. Complete(k)
  BY <1>1, SmoothBefore DEF Sofar, Aims
<1>3. q.pods = k.pods /\ q.alert = k.alert
  BY <1>1 DEF Alters, Fields
<1> HIDE DEF k, q
<1>4. \A n, heard : Heard(q, n, heard) <=> Heard(k, n, heard)
  BY <1>3 DEF Heard, About, AlertNamespace
<1>5. \A n \in NamesIn(q.pods) : Heard(k, n, q.events)
  <2>1. CASE k.pc = "events" /\ k.left = {} /\ q.events = k.got
    BY <1>2, <1>3, <2>1 DEF Complete, AllEvents
  <2>2. CASE k.pc = "merge" /\ q.events = k.events \cup k.got
    <3>1. \A n \in NamesIn(q.pods) : Heard(k, n, k.events)
      BY <1>2, <1>3, <2>2 DEF Complete, AllEvents, AfterEvents, AfterClaim
    <3>2. QED
      BY <2>2, <3>1 DEF Heard
  <2>3. QED
    BY <1>1, <2>1, <2>2
<1>6. AllEvents(q)
  BY <1>1, <1>4, <1>5 DEF AllEvents
<1>7. AllPods(q) /\ AllObjects(q)
  BY <1>1, <1>2, AllPodsStay, AllObjectsStay
  DEF Complete, AtPods, AfterPods, AfterEvents, AfterClaim, AfterNodes, OfDelivery, OnChain,
      AtEnd
<1>8. AllHops(q)
  BY <1>0, <1>1, NoHopsYet DEF OnChain, AtEnd, k
<1>9. QED
  BY <1>6, <1>7, <1>8 DEF Complete, q

LEMMA ClaimCompletes ==
    ASSUME NEW c \in DOMAIN collections, Sofar(collections[c]),
           NoClaim(c) \/ GetClaim(c) \/ GetClaimEvents(c), Smooth(collections'[c])
    PROVE  Complete(collections'[c])
<1> DEFINE k == collections[c]
           q == collections'[c]
           F == {"claims", "queried", "got", "pc"} \cup Sending
<1>0. Unsaid(q) /\ Ordered(k) /\ IsCollection(k)
  BY DEF Smooth, Sofar, Sound
<1>1. /\ Alters(q, k, F)
      /\ \/ k.pc = "claim" /\ q.pc = "node" /\ NameOf(ClaimRef(k)) = Nobody
         \/ k.pc = "claim" /\ q.pc = "claim_events" /\ q.claims # {}
         \/ k.pc = "claim_events" /\ q.pc = "merge" /\ q.claims = k.claims
  <2>1. CASE NoClaim(c) \/ GetClaim(c)
    BY <1>0, <2>1, ClaimSilently DEF Alters
  <2>2. CASE GetClaimEvents(c)
    BY <1>0, <2>2, GetClaimEventsSilently DEF Alters, Fields, Sending
  <2>3. QED
    BY <2>1, <2>2
<1>2. Complete(k)
  BY <1>1, SmoothBefore DEF Sofar, Aims, Sending
<1>3. q.alert = k.alert
  BY <1>1 DEF Alters, Fields, Sending
<1> HIDE DEF k, q
<1>4. AllObjects(q)
  <2>1. ClaimRef(q) = ClaimRef(k)
    BY <1>3 DEF ClaimRef, AlertNamespace
  <2>2. q.pc \notin AfterNodes
    BY <1>1 DEF AfterNodes, OfDelivery, OnChain, AtEnd
  <2>3. q.claims = {} => NameOf(ClaimRef(k)) = Nobody
    BY <1>1, <1>2 DEF Complete, AllObjects, AfterClaim
  <2>4. QED
    BY <2>1, <2>2, <2>3 DEF AllObjects
<1>5. AllPods(q) /\ AllEvents(q)
  BY <1>1, <1>2, AllPodsStay, AllEventsStay
  DEF Complete, AtPods, AfterPods, AfterEvents, AfterClaim, Sending
<1>6. AllHops(q)
  BY <1>0, <1>1, NoHopsYet DEF OnChain, AtEnd, Sending, k
<1>7. QED
  BY <1>4, <1>5, <1>6 DEF Complete, q

LEMMA GetNodeCompletes ==
    ASSUME NEW c \in DOMAIN collections, Sofar(collections[c]), GetNode(c),
           Smooth(collections'[c])
    PROVE  Complete(collections'[c])
<1> DEFINE k == collections[c]
           q == collections'[c]
           F == {"pc", "nodes", "queried"} \cup Sending
<1>0. Unsaid(q) /\ Ordered(k) /\ IsCollection(k)
  BY DEF Smooth, Sofar, Sound
<1>1. /\ k.pc = "node" /\ q.pc \in {"target", "decide"} /\ Alters(q, k, F)
      /\ q.nodes = {} => NodeName(k) = Nobody
  BY <1>0, GetNodeSilently
<1>2. Complete(k)
  BY <1>1, SmoothBefore DEF Sofar, Aims, Sending
<1>3. q.alert = k.alert /\ q.pods = k.pods /\ q.claims = k.claims
  BY <1>1 DEF Alters, Fields, Sending
<1> HIDE DEF k, q
<1>4. AllObjects(q)
  <2>1. ClaimRef(q) = ClaimRef(k) /\ NodeName(q) = NodeName(k)
    BY <1>3 DEF ClaimRef, NodeName, AlertNamespace
  <2>2. q.claims = {} => NameOf(ClaimRef(k)) = Nobody
    BY <1>1, <1>2, <1>3 DEF Complete, AllObjects, AfterClaim
  <2>3. QED
    BY <1>1, <2>1, <2>2 DEF AllObjects
<1>5. AllPods(q) /\ AllEvents(q)
  BY <1>1, <1>2, AllPodsStay, AllEventsStay
  DEF Complete, AtPods, AfterPods, AfterEvents, AfterClaim, Sending
<1>6. AllHops(q)
  BY <1>0, <1>1, NoHopsYet DEF OnChain, AtEnd, Sending, k
<1>7. QED
  BY <1>4, <1>5, <1>6 DEF Complete, q

-----------------------------------------------------------------------------
(* At the delivery everything else was collected.                          *)
LEMMA DeliveryCompletes ==
    ASSUME NEW k, NEW q, NEW F, Alters(q, k, F), Complete(k), AllHops(q),
           F \cap {"alert", "pods", "raw", "events", "claims", "nodes"} = {},
           k.pc \in AfterNodes, q.pc \in AfterNodes
    PROVE  Complete(q)
<1>1. AllPods(q) /\ AllEvents(q) /\ AllObjects(q)
  BY AllPodsStay, AllEventsStay, AllObjectsStay
  DEF Complete, AtPods, AfterPods, AfterEvents, AfterClaim, AfterNodes, OfDelivery, OnChain,
      AtEnd
<1>2. QED
  BY <1>1 DEF Complete

LEMMA ResolveTargetCompletes ==
    ASSUME NEW c \in DOMAIN collections, Sofar(collections[c]), ResolveTarget(c),
           Smooth(collections'[c])
    PROVE  Complete(collections'[c])
<1> DEFINE k == collections[c]
           q == collections'[c]
           F == {"pc", "target", "version"}
<1>0. Unsaid(q) /\ Ordered(k) /\ IsCollection(k)
  BY DEF Smooth, Sofar, Sound
<1>1. k.pc = "target" /\ q.pc \in {"decide", "version"} /\ Alters(q, k, F)
  BY <1>0, ResolveTargetSilently
<1>2. Complete(k)
  BY <1>1, SmoothBefore DEF Sofar, Aims
<1> HIDE DEF q
<1>3. AllHops(q)
  BY <1>0, <1>1, NoHopsYet DEF OnChain, AtEnd
<1>4. QED
  BY <1>1, <1>2, <1>3, DeliveryCompletes DEF AfterNodes, OfDelivery, OnChain, AtEnd, q

LEMMA WayCompletes ==
    ASSUME NEW c \in DOMAIN collections, Sofar(collections[c]),
           \/ ResolveVersion(c) \/ Discover(c) \/ StoreVersion(c)
           \/ GetFluxEvents(c) \/ KeepFluxEvents(c) \/ Decide(c),
           Smooth(collections'[c])
    PROVE  Complete(collections'[c])
<1> DEFINE k == collections[c]
           q == collections'[c]
           F == {"pc", "version", "stale", "asked", "got", "left", "fluxEvents", "outcome"}
                    \cup Sending
<1>0. Unsaid(q) /\ IsCollection(k)
  BY DEF Smooth, Sofar, Sound
<1>1. /\ Alters(q, k, F) /\ k.pc # "done" /\ k.pc \in AfterNodes /\ q.pc \in AfterNodes
      /\ q.pc \in OnChain => k.pc \in OnChain
      /\ q.pc \in {"flux_events"} \cup AtEnd => k.pc \in {"flux_events"} \cup AtEnd
  <2>1. CASE ResolveVersion(c)
    BY <1>0, <2>1, ResolveVersionSilently
    DEF Alters, AfterNodes, OfDelivery, OnChain, AtEnd
  <2>2. CASE Discover(c)
    BY <1>0, <2>2, DiscoverSilently DEF Alters, AfterNodes, OfDelivery, OnChain, AtEnd
  <2>3. CASE StoreVersion(c)
    BY <1>0, <2>3, StoreVersionSilently DEF Alters, AfterNodes, OfDelivery, OnChain, AtEnd
  <2>4. CASE GetFluxEvents(c)
    BY <1>0, <2>4, GetFluxEventsSilently DEF Alters, AfterNodes, OfDelivery, OnChain, AtEnd
  <2>5. CASE KeepFluxEvents(c)
    BY <1>0, <2>5, KeepFluxSilently DEF Alters, AfterNodes, OfDelivery, OnChain, AtEnd
  <2>6. CASE Decide(c)
    BY <1>0, <2>6, DecideAlters DEF Alters, AfterNodes, OfDelivery, OnChain, AtEnd
  <2>7. QED
    BY <2>1, <2>2, <2>3, <2>4, <2>5, <2>6
<1>2. F \cap Aims = {} /\ F \cap {"flux", "target"} = {}
      /\ F \cap {"alert", "pods", "raw", "events", "claims", "nodes"} = {}
  BY DEF Aims, Sending
<1> HIDE DEF q, F
<1>3. Complete(k)
  BY <1>1, <1>2, SmoothBefore DEF Sofar, q
<1>4. AllHops(q)
  BY <1>1, <1>2, <1>3, AllHopsStay DEF Complete
<1>5. QED
  BY <1>1, <1>2, <1>3, <1>4, DeliveryCompletes DEF q

LEMMA GetFluxCompletes ==
    ASSUME NEW c \in DOMAIN collections, Sofar(collections[c]), GetFlux(c),
           Smooth(collections'[c])
    PROVE  Complete(collections'[c])
<1> DEFINE k == collections[c]
           q == collections'[c]
           F == {"flux", "queried", "target", "version", "pc", "left"} \cup Sending
           object == cluster.objects[k.target]
           item == ParseFlux(k.target, object)
           n == Len(k.flux)
<1>0. Unsaid(q) /\ Ordered(k) /\ IsCollection(k) /\ IsSeq(k.flux)
  BY DEF Smooth, Sofar, Sound, Ordered
<1>1. /\ k.pc = "flux" /\ k.target \in DOMAIN cluster.objects
      /\ q.flux = Append(k.flux, item) /\ q.target = object.source
      /\ \/ q.pc = "version"
         \/ /\ q.pc = "flux_events"
            /\ object.source = NoObject \/ n = MaxHops
      /\ Alters(q, k, F)
  BY <1>0, GetFluxSilently
<1>2. Complete(k)
  BY <1>1, SmoothBefore DEF Sofar, Aims, Sending
<1>3. n \in Nat /\ n <= MaxHops /\ MaxHops \in Nat
  BY <1>0, <1>1, AppendIs, EvidenceBounds DEF Sofar, Sound, Paid, PaidForDelivery, OnChain
<1>4. /\ item.ref = k.target /\ item.source = object.source
      /\ object.source = SourceOf(k.target)
  BY <1>1 DEF ParseFlux, SourceOf
<1> HIDE DEF item, object
<1>5. /\ Len(q.flux) = n + 1 /\ q.flux[n + 1] = item
      /\ \A i \in DOMAIN k.flux : q.flux[i] = k.flux[i]
      /\ DOMAIN k.flux = 1..n /\ DOMAIN q.flux = 1..(n + 1)
  BY <1>0, <1>1, AppendIs
<1>6. k.flux # <<>> => k.target = k.flux[n].source
  BY <1>1, <1>2 DEF Complete, AllHops, OnChain
<1>7. n # 0 => k.flux # <<>>
  OBVIOUS
<1> HIDE DEF q, k, n
<1>8. ASSUME NEW i \in DOMAIN q.flux
      PROVE  /\ q.flux[i].ref \in DOMAIN cluster.objects
             /\ q.flux[i].source = SourceOf(q.flux[i].ref)
             /\ i # 1 => q.flux[i].ref = q.flux[i - 1].source
  <2>1. CASE i \in 1..n
    <3>1. q.flux[i] = k.flux[i] /\ i \in DOMAIN k.flux
      BY <1>5, <2>1
    <3>2. i # 1 => i - 1 \in 1..n
      BY <1>3, <2>1
    <3>3. i # 1 => q.flux[i - 1] = k.flux[i - 1]
      BY <1>5, <3>2
    <3>4. QED
      BY <1>2, <3>1, <3>3 DEF Complete, AllHops
  <2>2. CASE i = n + 1
    <3>1. q.flux[i] = item
      BY <1>5, <2>2
    <3>2. i # 1 => n \in 1..n /\ n # 0 /\ i - 1 = n
      BY <1>3, <2>2
    <3>3. i # 1 => q.flux[i - 1] = k.flux[n]
      BY <1>5, <3>2
    <3>4. QED
      BY <1>1, <1>4, <1>6, <1>7, <3>1, <3>2, <3>3
  <2>3. QED
    BY <1>3, <1>5, <2>1, <2>2
<1>9. q.target = q.flux[Len(q.flux)].source
  BY <1>1, <1>4, <1>5
<1>10. Len(q.flux) <= MaxHops + 1
  BY <1>3, <1>5
<1>11. q.pc \in {"flux_events"} \cup AtEnd =>
          q.flux[Len(q.flux)].source = NoObject \/ Len(q.flux) = MaxHops + 1
  BY <1>1, <1>4, <1>5 DEF AtEnd
<1>12. AllHops(q)
  BY <1>8, <1>9, <1>10, <1>11 DEF AllHops
<1>13. QED
  BY <1>1, <1>2, <1>12, DeliveryCompletes
  DEF AfterNodes, OfDelivery, OnChain, Sending, q

LEMMA StepCompletes ==
    ASSUME MaxPods < ScanLimit,
           NEW c \in DOMAIN collections, Sofar(collections[c]), Step(c),
           Smooth(collections'[c])
    PROVE  Complete(collections'[c])
<1>1. CASE Filter(c) \/ Triage(c) \/ QueryLogs(c) \/ QueryMetrics(c) \/ CheckScope(c)
  BY <1>1, FrontCompletes
<1>2. CASE GetPod(c) \/ GetWorkload(c) \/ NoPods(c) \/ ListPods(c) \/ ParseNextPod(c)
           \/ FollowOwner(c)
  BY <1>2, FirstPodsComplete, ListPodsCompletes, ParseNextPodCompletes,
     FollowOwnerCompletes
<1>3. CASE ChooseSources(c) \/ GetEvents(c) \/ KeepEvents(c) \/ NoClaim(c) \/ GetClaim(c)
           \/ GetClaimEvents(c) \/ MergeEvents(c) \/ GetNode(c)
  BY <1>3, ChooseSourcesCompletes, GetEventsCompletes, KeepCompletes, ClaimCompletes,
     GetNodeCompletes
<1>4. CASE ResolveTarget(c) \/ ResolveVersion(c) \/ Discover(c) \/ StoreVersion(c)
           \/ GetFlux(c) \/ GetFluxEvents(c) \/ KeepFluxEvents(c) \/ Decide(c)
  BY <1>4, ResolveTargetCompletes, WayCompletes, GetFluxCompletes
<1>5. QED
  BY <1>1, <1>2, <1>3, <1>4 DEF Step

(* What was collected stays so while the cluster is the same.              *)
LEMMA CompleteLater ==
    ASSUME NEW c, cluster' = cluster, world' = world,
           Smooth(collections'[c]) => Complete(collections'[c])
    PROVE  Smooth(collections[c])' => Complete(collections[c])'
<1> DEFINE q == collections'[c]
<1>1. AlertNamespace(collections[c])' = AlertNamespace(q)
  BY DEF AlertNamespace
<1>2. PodRef(collections[c])' = PodRef(q)
  BY DEF AlertNamespace, PodRef
<1>3. Workload(collections[c])' = Workload(q)
  BY DEF Workload, AlertNamespace, SelectInSeq
<1>4. PodsOf(collections[c])' = PodsOf(q)
  BY <1>1, <1>2, <1>3 DEF PodsOf, Matching
<1>5. Smooth(collections[c])' <=> Smooth(q)
  BY <1>1 DEF Smooth, Unsaid, InScope, Config, World
<1>6. ASSUME Complete(q) PROVE Complete(collections[c])'
  <2>1. AllPods(collections[c])'
    BY <1>4, <1>6 DEF Complete, AllPods
  <2>2. \A name, heard : Heard(collections[c], name, heard)' <=> Heard(q, name, heard)
    BY <1>1 DEF Heard, About
  <2>3. AllEvents(collections[c])'
    BY <1>6, <2>2 DEF Complete, AllEvents
  <2>4. /\ ClaimRef(collections[c])' = ClaimRef(q)
        /\ NodeName(collections[c])' = NodeName(q)
    BY DEF ClaimRef, NodeName, AlertNamespace
  <2>5. AllObjects(collections[c])'
    BY <1>6, <2>4 DEF Complete, AllObjects
  <2>6. AllHops(collections[c])'
    BY <1>6 DEF Complete, AllHops, SourceOf
  <2>7. QED
    BY <2>1, <2>3, <2>5, <2>6 DEF Complete
<1>7. QED
  BY <1>5, <1>6

LEMMA FreshComplete ==
    ASSUME NEW alert
    PROVE  Complete(Fresh(alert))
<1> DEFINE k == Fresh(alert)
<1>1. k.pods = <<>> /\ k.flux = <<>> /\ k.pc = "filter"
  BY DEF Fresh
<1> HIDE DEF k
<1>2. <<>> \in Seq({}) /\ DOMAIN <<>> = {}
  OBVIOUS
<1>3. AllPods(k) /\ AllEvents(k) /\ AllObjects(k)
  BY <1>1, <1>2
  DEF AllPods, AllEvents, AllObjects, IsSeq, AtPods, AfterPods, AfterEvents, AfterClaim,
      AfterNodes, OfDelivery, OnChain, AtEnd
<1>4. QED
  BY <1>1, <1>3, NoHops DEF Complete, k

(* A collection that has noted nothing and failed at nothing has, wherever *)
(* it is, left out nothing on its way there: every pod, every event of a   *)
(* pod, the claim, the node and every hop of the delivery.  This takes a   *)
(* limit of the list of pods (POD_SCAN_LIMIT, cluster_state.py:70) above   *)
(* the number of pods that are shown: what the API server leaves out of a  *)
(* list is only noted because the list is longer than that number.         *)
THEOREM NothingIsLeftOut ==
    ASSUME MaxPods < ScanLimit
    PROVE  Spec => []CompleteInv
<1>1. Init => CompleteInv
  BY FreshComplete DEF Init, CompleteInv
<1>2. ASSUME CompleteInv, TracedInv, EvidenceInv, [Next]_vars
      PROVE  CompleteInv'
  <2>1. ASSUME NEW c \in DOMAIN collections, Step(c)
        PROVE  CompleteInv'
    <3>1. /\ cluster' = cluster /\ world' = world
          /\ DOMAIN collections' = DOMAIN collections
          /\ \A d \in DOMAIN collections : d # c => collections'[d] = collections[d]
      BY <2>1, StepIsOne DEF OnlyOf, Outside
    <3>2. Sofar(collections[c])
      BY <1>2 DEF CompleteInv, TracedInv, EvidenceInv, Sofar
    <3>3. Smooth(collections'[c]) => Complete(collections'[c])
      BY <2>1, <3>2, StepCompletes
    <3>4. \A d \in DOMAIN collections :
             Smooth(collections'[d]) => Complete(collections'[d])
      BY <1>2, <3>1, <3>3 DEF CompleteInv
    <3>5. QED
      BY <3>1, <3>4, CompleteLater DEF CompleteInv
  <2>2. CASE Change \/ Upgrade
    <3>1. \A c \in DOMAIN collections : IsCollection(collections[c])
      BY <1>2 DEF EvidenceInv, Sound
    <3>2. Unsettled /\ DOMAIN collections' = DOMAIN collections
      BY <2>2 DEF Change, Upgrade, Unsettled
    <3>3. \A c \in DOMAIN collections : collections'[c].steady = FALSE
      BY <3>1, <3>2, UnsettledIsSame
    <3>4. QED
      BY <3>2, <3>3 DEF CompleteInv, Smooth
  <2>3. CASE Tick \/ UNCHANGED vars
    <3>1. cluster' = cluster /\ world' = world /\ collections' = collections
      BY <2>3 DEF Tick, vars
    <3>2. \A c \in DOMAIN collections :
             Smooth(collections'[c]) => Complete(collections'[c])
      BY <1>2, <3>1 DEF CompleteInv
    <3>3. QED
      BY <3>1, <3>2, CompleteLater DEF CompleteInv
  <2>4. QED
    BY <1>2, <2>1, <2>2, <2>3 DEF Next
<1>3. QED
  BY <1>1, <1>2, EvidenceInvariant, EvidenceIsTraced, PTL DEF Spec

(* The chain that was read is the whole chain.                             *)
LEMMA WholeChain ==
    ASSUME MaxHops = 2, FiniteCluster, NEW k, IsSeq(k.flux), k.flux # <<>>, AllHops(k),
           k.pc = "done"
    PROVE  ChainOf(k.flux[1].ref) = {k.flux[i].ref : i \in DOMAIN k.flux}
<1> DEFINE n == Len(k.flux)
           ref(i) == k.flux[i].ref
<1>1. NoObject \notin DOMAIN cluster.objects /\ SourceOf(NoObject) = NoObject
  BY DEF FiniteCluster, NoObject, NameOf, SourceOf
<1>2. n \in 1..3 /\ DOMAIN k.flux = 1..n
  <2>1. n \in Nat /\ DOMAIN k.flux = 1..n /\ n <= 3
    BY AppendIs DEF AllHops
  <2>2. PICK S : k.flux \in Seq(S)
    BY DEF IsSeq
  <2>3. n # 0
    BY <2>2
  <2> HIDE DEF n
  <2>4. n \in 1..3
    BY <2>1, <2>3
  <2>5. QED
    BY <2>1, <2>4
<1>3. SourceOf(ref(n)) = NoObject \/ n = 3
  BY <1>2 DEF AllHops, AtEnd
<1>4. \A i \in 1..n : /\ ref(i) \in DOMAIN cluster.objects
                      /\ i # 1 => ref(i) = SourceOf(ref(i - 1))
  <2>1. \A i \in 1..n : i # 1 => i - 1 \in 1..n
    BY <1>2
  <2>2. QED
    BY <1>2, <2>1 DEF AllHops
<1> HIDE DEF n
<1>5. {ref(i) : i \in DOMAIN k.flux} = {ref(i) : i \in 1..n}
  BY <1>2
<1> HIDE DEF ref
<1>6. CASE n = 1
  <2>1. 1..n = {1} /\ SourceOf(ref(1)) = NoObject /\ ref(1) \in DOMAIN cluster.objects
    BY <1>3, <1>4, <1>6
  <2>2. ChainOf(ref(1)) = {ref(1)}
    BY <1>1, <2>1 DEF ChainOf
  <2>3. QED
    BY <1>5, <2>1, <2>2 DEF ref
<1>7. CASE n = 2
  <2>1. /\ 1..n = {1, 2} /\ SourceOf(ref(1)) = ref(2) /\ SourceOf(ref(2)) = NoObject
        /\ ref(1) \in DOMAIN cluster.objects /\ ref(2) \in DOMAIN cluster.objects
    BY <1>3, <1>4, <1>7
  <2>2. ChainOf(ref(1)) = {ref(1), ref(2)}
    BY <1>1, <2>1 DEF ChainOf
  <2>3. QED
    BY <1>5, <2>1, <2>2 DEF ref
<1>8. CASE n = 3
  <2>1. /\ 1..n = {1, 2, 3} /\ SourceOf(ref(1)) = ref(2) /\ SourceOf(ref(2)) = ref(3)
        /\ ref(1) \in DOMAIN cluster.objects /\ ref(2) \in DOMAIN cluster.objects
        /\ ref(3) \in DOMAIN cluster.objects
    BY <1>4, <1>8
  <2>2. ChainOf(ref(1)) = {ref(1), ref(2), ref(3)}
    BY <2>1 DEF ChainOf
  <2>3. QED
    BY <1>5, <2>1, <2>2 DEF ref
<1>9. QED
  BY <1>2, <1>6, <1>7, <1>8

(* Without a note and without an error all that there is was collected:    *)
(* SilenceIsComplete, for every cluster and every order of its answers,    *)
(* with the chain as long as the code follows it (MAX_SOURCE_HOPS,         *)
(* cluster_state.py:75).                                                   *)
THEOREM SilenceTellsAll ==
    ASSUME MaxPods < ScanLimit, MaxHops = 2
    PROVE  Spec => []SilenceIsComplete
<1>1. CompleteInv /\ EvidenceInv => SilenceIsComplete
  <2> SUFFICES ASSUME CompleteInv, EvidenceInv, NEW c \in DOMAIN collections,
                      Settled(collections[c]), InScope(AlertNamespace(collections[c])),
                      collections[c].notes = {}, collections[c].errors = {}
               PROVE  LET k == collections[c]
                          about(name) ==
                              {e \in cluster.events : e.on[2] = AlertNamespace(k)
                                                      /\ NameOf(e.on) = name}
                      IN  /\ NamesIn(k.pods) = NamesOf(PodsOf(k))
                          /\ \A name \in NamesIn(k.pods) :
                                Cardinality(about(name)) <= MaxEvents =>
                                    about(name) \subseteq k.events
                          /\ k.nodes = {} => NodeName(k) = Nobody
                          /\ k.claims = {} => NameOf(ClaimRef(k)) = Nobody
                          /\ k.flux # <<>> =>
                                ChainOf(k.flux[1].ref) = {k.flux[i].ref : i \in DOMAIN k.flux}
    BY DEF SilenceIsComplete, NamesIn, NamesOf
  <2> DEFINE k == collections[c]
  <2>1. k.pc = "done" /\ Complete(k)
    BY DEF CompleteInv, Smooth, Unsaid, Settled
  <2>2. FiniteCluster /\ IsSeq(k.flux)
    BY DEF EvidenceInv, Sound, Ordered
  <2>3. k.flux # <<>> => ChainOf(k.flux[1].ref) = {k.flux[i].ref : i \in DOMAIN k.flux}
    BY <2>1, <2>2, WholeChain DEF Complete
  <2> HIDE DEF k
  <2>4. NamesIn(k.pods) = NamesOf(PodsOf(k))
    BY <2>1 DEF Complete, AllPods, AfterPods, AfterEvents, AfterClaim, AfterNodes, AtEnd
  <2>5. \A name \in NamesIn(k.pods) : Heard(k, name, k.events)
    BY <2>1 DEF Complete, AllEvents, AfterEvents, AfterClaim, AfterNodes, AtEnd
  <2>6. /\ k.nodes = {} => NodeName(k) = Nobody
        /\ k.claims = {} => NameOf(ClaimRef(k)) = Nobody
    BY <2>1 DEF Complete, AllObjects, AfterClaim, AfterNodes, AtEnd
  <2>7. QED
    BY <2>3, <2>4, <2>5, <2>6 DEF Heard, About, k
<1>2. QED
  BY <1>1, NothingIsLeftOut, EvidenceInvariant, PTL


-----------------------------------------------------------------------------
(* The types of what is collected.                                         *)

PodsTyped(k) ==
    /\ IsSeq(k.pods) /\ Len(k.pods) <= MaxPods
    /\ \A i \in DOMAIN k.pods : IsSeq(k.pods[i].chain) /\ Len(k.pods[i].chain) <= MaxDepth

(* Pods that were listed, but are not parsed yet.                          *)
RawTyped(k) ==
    \A i \in DOMAIN k.raw : <<"Pod", AlertNamespace(k), k.raw[i][1]>> \in Refs

EventsTyped(k) ==
    /\ IsFiniteSet(k.got)
    /\ Cardinality(k.events) <= MaxEvents /\ IsFiniteSet(k.events)
    /\ Cardinality(k.fluxEvents) <= MaxEvents

RefsTyped(k) ==
    /\ IsSeq(k.queried) /\ \A i \in DOMAIN k.queried : k.queried[i] \in Refs
    /\ Len(k.flux) <= MaxHops + 1 /\ \A i \in DOMAIN k.flux : k.flux[i].ref \in Refs

Outcomes == {"skipped", "dropped", "proceeds"}

Typed(k) ==
    /\ PodsTyped(k) /\ RawTyped(k) /\ EventsTyped(k) /\ RefsTyped(k)
    /\ k.pc = "done" <=> k.outcome # Nobody
    /\ k.outcome \in {Nobody} \cup Outcomes

(* A collection that is not done, and what keeps it so.                    *)
Live(k) == IsCollection(k) /\ Typed(k) /\ k.pc # "done"

Untyped == {"pc", "notes", "errors", "calls", "reads", "labels", "selector", "walk", "left",
            "target", "version", "asked", "stale", "claims", "nodes"}

LEMMA UntypedLive ==
    ASSUME NEW k, Live(k), NEW q, Alters(q, k, Untyped), q.pc # "done"
    PROVE  Live(q)
<1>1. /\ q.pods = k.pods /\ q.raw = k.raw /\ q.alert = k.alert /\ q.got = k.got
      /\ q.events = k.events /\ q.fluxEvents = k.fluxEvents /\ q.queried = k.queried
      /\ q.flux = k.flux /\ q.outcome = k.outcome /\ DOMAIN q = Fields
  BY DEF Alters, Untyped, Fields
<1>2. PodsTyped(q) /\ EventsTyped(q) /\ RefsTyped(q)
  BY <1>1 DEF Live, Typed, PodsTyped, EventsTyped, RefsTyped
<1>3. RawTyped(q)
  BY <1>1 DEF Live, Typed, RawTyped, AlertNamespace
<1>4. QED
  BY <1>1, <1>2, <1>3 DEF Live, Typed, IsCollection

LEMMA GoesLives ==
    \A k, l : Live(k) /\ l # "done" => Live(Goes(k, l)) /\ Goes(k, l).pc = l
<1> SUFFICES ASSUME NEW k, NEW l, Live(k), l # "done"
             PROVE  Live(Goes(k, l)) /\ Goes(k, l).pc = l
  OBVIOUS
<1>1. Alters(Goes(k, l), k, Untyped) /\ Goes(k, l).pc = l
  BY DEF Goes, Alters, Live, IsCollection, Untyped, Fields
<1>2. QED
  BY <1>1, UntypedLive

LEMMA NotedLives ==
    \A k, n, i, ref : Live(k) =>
        Live(Notes(k, n)) /\ Live(Errs(k, n)) /\ Live(SourceDone(k, i)) /\ Live(Sent(k, ref))
<1> SUFFICES ASSUME NEW k, NEW n, NEW i, NEW ref, Live(k)
             PROVE  /\ Live(Notes(k, n)) /\ Live(Errs(k, n)) /\ Live(SourceDone(k, i))
                    /\ Live(Sent(k, ref))
  OBVIOUS
<1>1. Alters(Notes(k, n), k, Untyped) /\ Notes(k, n).pc # "done"
  BY DEF Notes, Alters, Live, IsCollection, Untyped, Fields
<1>2. Alters(Errs(k, n), k, Untyped) /\ Errs(k, n).pc # "done"
  BY DEF Errs, Alters, Live, IsCollection, Untyped, Fields
<1>3. Alters(SourceDone(k, i), k, Untyped) /\ SourceDone(k, i).pc # "done"
  BY DEF SourceDone, Alters, Live, IsCollection, Untyped, Fields
<1>4. Alters(Sent(k, ref), k, Untyped) /\ Sent(k, ref).pc # "done"
  BY DEF Sent, Alters, Live, IsCollection, Untyped, Fields
<1>5. QED
  BY <1>1, <1>2, <1>3, <1>4, UntypedLive

LEMMA EndedLives ==
    \A k, version : Live(k) =>
        Live(AfterNode(k)) /\ Live(WalkEnds(k)) /\ Live(ChainEnds(k)) /\ Live(Taken(k, version))
<1> SUFFICES ASSUME NEW k, NEW version, Live(k)
             PROVE  /\ Live(AfterNode(k)) /\ Live(WalkEnds(k)) /\ Live(ChainEnds(k))
                    /\ Live(Taken(k, version))
  OBVIOUS
<1>1. Live(AfterNode(k)) /\ Live(WalkEnds(k))
  BY GoesLives DEF AfterNode, WalkEnds
<1>2. ASSUME NEW j, Live(j) PROVE Live(ChainEnds(j))
  <2>1. Alters(ChainEnds(j), j, {"pc", "left"}) /\ ChainEnds(j).pc # "done"
    BY <1>2, ChainEndsAlters DEF Live
  <2>2. Alters(ChainEnds(j), j, Untyped)
    BY <2>1 DEF Alters, Untyped
  <2>3. QED
    BY <1>2, <2>1, <2>2, UntypedLive
<1>3. Live(Uses(k, version))
  <2>1. Live(ChainEnds(Notes(k, "not_served")))
    BY <1>2, NotedLives
  <2> DEFINE u == [k EXCEPT !.pc = "flux", !.version = version]
  <2>2. Alters(u, k, Untyped) /\ u.pc # "done"
    BY DEF Alters, Live, IsCollection, Untyped, Fields
  <2>3. Live(u)
    BY <2>2, UntypedLive
  <2>4. QED
    BY <2>1, <2>3 DEF Uses
<1> DEFINE u == Uses(k, version)
           age == IF version = served THEN 0 ELSE now - since
<1>4. Taken(k, version) = [u EXCEPT !.stale = age]
  BY DEF Taken
<1> HIDE DEF u, age
<1>5. Live(u)
  BY <1>3 DEF u
<1>6. Alters(Taken(k, version), u, Untyped) /\ Taken(k, version).pc # "done"
  BY <1>4, <1>5 DEF Alters, Live, IsCollection, Untyped, Fields
<1>7. QED
  BY <1>1, <1>2, <1>5, <1>6, UntypedLive

LEMMA NothingTyped ==
    /\ IsSeq(<<>>) /\ Len(<<>>) = 0 /\ DOMAIN <<>> = {}
    /\ IsFiniteSet({}) /\ Cardinality({}) = 0
    /\ MaxPods \in Nat /\ MaxEvents \in Nat /\ MaxDepth \in Nat /\ MaxHops \in Nat
<1>1. <<>> \in Seq({}) /\ Len(<<>>) = 0 /\ DOMAIN <<>> = {}
  OBVIOUS
<1>2. QED
  BY <1>1, FS_EmptySet, EvidenceBounds DEF IsSeq

LEMMA LostLives ==
    \A k : Live(k) => Live(Lost(k))
<1> SUFFICES ASSUME NEW k, Live(k) PROVE Live(Lost(k))
  OBVIOUS
<1> DEFINE q == Lost(k)
<1>1. /\ q.pods = <<>> /\ q.raw = k.raw /\ q.alert = k.alert /\ q.got = k.got
      /\ q.events = {} /\ q.fluxEvents = {} /\ q.queried = k.queried
      /\ q.flux = <<>> /\ q.outcome = k.outcome /\ DOMAIN q = Fields /\ q.pc = "decide"
  BY DEF Lost, Live, IsCollection, Fields
<1> HIDE DEF q
<1>2. PodsTyped(q) /\ EventsTyped(q)
  BY <1>1, NothingTyped DEF Live, Typed, PodsTyped, EventsTyped
<1>3. RefsTyped(q)
  BY <1>1, NothingTyped DEF Live, Typed, RefsTyped
<1>4. RawTyped(q)
  BY <1>1 DEF Live, Typed, RawTyped, AlertNamespace
<1>5. QED
  BY <1>1, <1>2, <1>3, <1>4 DEF Live, Typed, IsCollection, q

LEMMA EndsTyped ==
    ASSUME NEW k, Live(k), NEW outcome \in Outcomes
    PROVE  IsCollection(Ends(k, outcome)) /\ Typed(Ends(k, outcome))
<1> DEFINE q == Ends(k, outcome)
<1>1. /\ q.pods = k.pods /\ q.raw = k.raw /\ q.alert = k.alert /\ q.got = k.got
      /\ q.events = k.events /\ q.fluxEvents = k.fluxEvents /\ q.queried = k.queried
      /\ q.flux = k.flux /\ q.outcome = outcome /\ DOMAIN q = Fields /\ q.pc = "done"
  BY DEF Ends, Live, IsCollection, Fields
<1> HIDE DEF q
<1>2. PodsTyped(q) /\ EventsTyped(q) /\ RefsTyped(q)
  BY <1>1 DEF Live, Typed, PodsTyped, EventsTyped, RefsTyped
<1>3. RawTyped(q)
  BY <1>1 DEF Live, Typed, RawTyped, AlertNamespace
<1>4. Nobody \notin Outcomes
  BY DEF Nobody, Outcomes
<1>5. QED
  BY <1>1, <1>2, <1>3, <1>4 DEF Typed, IsCollection, q
(* A reference more was queried.                                           *)
LEMMA QueriedTyped ==
    ASSUME NEW k, Live(k), NEW ref \in Refs, NEW q,
           Alters(q, k, Untyped \cup {"queried"}), q.queried = Append(k.queried, ref),
           q.pc # "done"
    PROVE  Live(q)
<1>1. /\ q.pods = k.pods /\ q.raw = k.raw /\ q.alert = k.alert /\ q.got = k.got
      /\ q.events = k.events /\ q.fluxEvents = k.fluxEvents
      /\ q.flux = k.flux /\ q.outcome = k.outcome /\ DOMAIN q = Fields
  BY DEF Alters, Untyped, Fields
<1>2. PodsTyped(q) /\ EventsTyped(q)
  BY <1>1 DEF Live, Typed, PodsTyped, EventsTyped
<1>3. RawTyped(q)
  BY <1>1 DEF Live, Typed, RawTyped, AlertNamespace
<1>4. IsSeq(q.queried) /\ \A i \in DOMAIN q.queried : q.queried[i] \in Refs
  <2>1. IsSeq(k.queried) /\ \A i \in DOMAIN k.queried : k.queried[i] \in Refs
    BY DEF Live, Typed, RefsTyped
  <2> DEFINE queried == k.queried
  <2> HIDE DEF queried
  <2>2. /\ IsSeq(Append(queried, ref)) /\ DOMAIN queried = 1..Len(queried)
        /\ Len(queried) \in Nat /\ DOMAIN Append(queried, ref) = 1..(Len(queried) + 1)
        /\ Append(queried, ref)[Len(queried) + 1] = ref
        /\ \A i \in DOMAIN queried : Append(queried, ref)[i] = queried[i]
    BY <2>1, AppendIs DEF queried
  <2>3. \A i \in 1..(Len(queried) + 1) : i = Len(queried) + 1 \/ i \in 1..Len(queried)
    BY <2>2
  <2>4. \A i \in DOMAIN queried : queried[i] \in Refs
    BY <2>1 DEF queried
  <2> HIDE DEF Refs
  <2>5. \A i \in DOMAIN Append(queried, ref) : Append(queried, ref)[i] \in Refs
    BY <2>2, <2>3, <2>4
  <2>6. QED
    BY <2>2, <2>5 DEF queried
<1>5. RefsTyped(q)
  BY <1>1, <1>4 DEF Live, Typed, RefsTyped
<1>6. QED
  BY <1>1, <1>2, <1>3, <1>5 DEF Live, Typed, IsCollection

LEMMA FindsLives ==
    ASSUME NEW k, Live(k), NEW ref \in Refs, NEW labels
    PROVE  Live(Finds(k, Append(k.queried, ref), labels))
<1> DEFINE queried == Append(k.queried, ref)
<1> HIDE DEF queried
<1>1. /\ Alters(Finds(k, queried, labels), k, Untyped \cup {"queried"})
      /\ Finds(k, queried, labels).queried = queried
      /\ Finds(k, queried, labels).pc # "done"
  BY DEF Finds, Alters, Live, IsCollection, Untyped, Fields
<1>2. QED
  BY <1>1, QueriedTyped DEF queried

LEMMA SelectsLives ==
    \A k, selector : Live(k) => Live(Selects(k, selector))
<1> SUFFICES ASSUME NEW k, NEW selector, Live(k) PROVE Live(Selects(k, selector))
  OBVIOUS
<1>1. Alters(Selects(k, selector), k, Untyped) /\ Selects(k, selector).pc # "done"
  BY DEF Selects, Alters, Live, IsCollection, Untyped, Fields
<1>2. QED
  BY <1>1, UntypedLive

LEMMA RetrievesLives ==
    ASSUME NEW k, Live(k), NEW raw, NEW l, l # "done",
           \A i \in DOMAIN raw : <<"Pod", AlertNamespace(k), raw[i][1]>> \in Refs
    PROVE  Live(Retrieves(k, raw, l))
<1> DEFINE q == Retrieves(k, raw, l)
<1>1. /\ q.pods = k.pods /\ q.raw = raw /\ q.alert = k.alert /\ q.got = k.got
      /\ q.events = k.events /\ q.fluxEvents = k.fluxEvents /\ q.queried = k.queried
      /\ q.flux = k.flux /\ q.outcome = k.outcome /\ DOMAIN q = Fields /\ q.pc = l
  BY DEF Retrieves, Live, IsCollection, Fields
<1> HIDE DEF q
<1>2. PodsTyped(q) /\ EventsTyped(q) /\ RefsTyped(q)
  BY <1>1 DEF Live, Typed, PodsTyped, EventsTyped, RefsTyped
<1>3. AlertNamespace(q) = AlertNamespace(k)
  BY <1>1 DEF AlertNamespace
<1>4. RawTyped(q)
  BY <1>1, <1>3 DEF RawTyped
<1>5. QED
  BY <1>1, <1>2, <1>4 DEF Live, Typed, IsCollection, q

LEMMA HeardLives ==
    ASSUME NEW k, Live(k), NEW got, IsFiniteSet(got), NEW i
    PROVE  Live(HeardOf(k, got, i)) /\ Live([k EXCEPT !.got = got])
<1> DEFINE q == [k EXCEPT !.got = got]
<1>1. /\ q.pods = k.pods /\ q.raw = k.raw /\ q.alert = k.alert /\ q.got = got
      /\ q.events = k.events /\ q.fluxEvents = k.fluxEvents /\ q.queried = k.queried
      /\ q.flux = k.flux /\ q.outcome = k.outcome /\ DOMAIN q = Fields /\ q.pc = k.pc
  BY DEF Live, IsCollection, Fields
<1> HIDE DEF q
<1>2. PodsTyped(q) /\ EventsTyped(q) /\ RefsTyped(q)
  BY <1>1 DEF Live, Typed, PodsTyped, EventsTyped, RefsTyped
<1>3. RawTyped(q)
  BY <1>1 DEF Live, Typed, RawTyped, AlertNamespace
<1>4. Live(q)
  BY <1>1, <1>2, <1>3 DEF Live, Typed, IsCollection
<1>5. QED
  BY <1>4, NotedLives DEF HeardOf, q

LEMMA CutsLives ==
    ASSUME NEW k, Live(k), NEW kept, NEW all, IsFiniteSet(kept),
           Cardinality(kept) <= MaxEvents
    PROVE  Live(Cuts(k, kept, all)) /\ Live(CutsFlux(k, kept, all))
<1>1. ASSUME NEW q, DOMAIN q = Fields, q.pods = k.pods, q.raw = k.raw, q.alert = k.alert,
             q.got = {}, q.queried = k.queried, q.flux = k.flux, q.outcome = k.outcome,
             q.pc = k.pc, q.events \in {k.events, kept}, q.fluxEvents \in {k.fluxEvents, kept}
      PROVE  Live(q)
  <2>1. PodsTyped(q) /\ RefsTyped(q)
    BY <1>1 DEF Live, Typed, PodsTyped, RefsTyped
  <2>2. EventsTyped(q)
    BY <1>1, NothingTyped DEF Live, Typed, EventsTyped
  <2>3. RawTyped(q)
    BY <1>1 DEF Live, Typed, RawTyped, AlertNamespace
  <2>4. QED
    BY <1>1, <2>1, <2>2, <2>3 DEF Live, Typed, IsCollection
<1> DEFINE noted == IF kept = all THEN k.notes ELSE k.notes \cup {"events_omitted"}
           fluxNoted == IF kept = all THEN k.notes ELSE k.notes \cup {"flux_events_omitted"}
<1>2. /\ Cuts(k, kept, all) = [k EXCEPT !.events = kept, !.got = {}, !.notes = noted]
      /\ CutsFlux(k, kept, all) =
             [k EXCEPT !.fluxEvents = kept, !.got = {}, !.notes = fluxNoted]
  BY DEF Cuts, CutsFlux
<1> HIDE DEF noted, fluxNoted
<1> DEFINE q == Cuts(k, kept, all)
           f == CutsFlux(k, kept, all)
<1>3. /\ DOMAIN q = Fields /\ q.pods = k.pods /\ q.raw = k.raw /\ q.alert = k.alert
      /\ q.got = {} /\ q.queried = k.queried /\ q.flux = k.flux /\ q.outcome = k.outcome
      /\ q.pc = k.pc /\ q.events = kept /\ q.fluxEvents = k.fluxEvents
  BY <1>2 DEF Live, IsCollection, Fields
<1>4. /\ DOMAIN f = Fields /\ f.pods = k.pods /\ f.raw = k.raw /\ f.alert = k.alert
      /\ f.got = {} /\ f.queried = k.queried /\ f.flux = k.flux /\ f.outcome = k.outcome
      /\ f.pc = k.pc /\ f.events = k.events /\ f.fluxEvents = kept
  BY <1>2 DEF Live, IsCollection, Fields
<1> HIDE DEF q, f
<1>5. Live(q) /\ Live(f)
  BY <1>1, <1>3, <1>4
<1>6. QED
  BY <1>5 DEF q, f

LEMMA AddsLives ==
    ASSUME NEW k, Live(k), NEW item, NEW next, IsSeq(k.flux), Len(k.flux) <= MaxHops,
           NEW ref \in Refs, item.ref \in Refs
    PROVE  Live(Adds(k, item, Append(k.queried, ref), next))
<1> DEFINE flux == Append(k.flux, item)
           g == [k EXCEPT !.queried = Append(k.queried, ref), !.target = next,
                          !.version = Nobody]
           queried == Append(k.queried, ref)
           q == Adds(k, item, queried, next)
<1>1. Live(g) /\ g.queried = queried
  <2> HIDE DEF queried
  <2>1. /\ Alters([k EXCEPT !.queried = queried, !.target = next, !.version = Nobody],
                  k, Untyped \cup {"queried"})
        /\ [k EXCEPT !.queried = queried, !.target = next, !.version = Nobody].pc # "done"
        /\ [k EXCEPT !.queried = queried, !.target = next, !.version = Nobody].queried
               = queried
    BY DEF Alters, Live, IsCollection, Untyped, Fields
  <2>2. QED
    BY <2>1, QueriedTyped DEF queried
<1> HIDE DEF queried
<1>2. /\ q.pods = k.pods /\ q.raw = k.raw /\ q.alert = k.alert /\ q.got = k.got
      /\ q.events = k.events /\ q.fluxEvents = k.fluxEvents /\ q.queried = queried
      /\ q.flux = flux /\ q.outcome = k.outcome /\ DOMAIN q = Fields /\ q.pc = k.pc
  <2> HIDE DEF flux
  <2>1. q = [k EXCEPT !.flux = flux, !.queried = queried, !.target = next,
                      !.version = Nobody]
    BY DEF Adds, flux
  <2> HIDE DEF q
  <2>2. QED
    BY <2>1 DEF Live, IsCollection, Fields
<1>3. Len(flux) <= MaxHops + 1 /\ \A i \in DOMAIN flux : flux[i].ref \in Refs
  <2> DEFINE old == k.flux
  <2>1. \A i \in DOMAIN old : old[i].ref \in Refs
    BY DEF Live, Typed, RefsTyped
  <2> HIDE DEF old
  <2>2. /\ Len(old) \in Nat /\ DOMAIN old = 1..Len(old)
        /\ Len(Append(old, item)) = Len(old) + 1
        /\ DOMAIN Append(old, item) = 1..(Len(old) + 1)
        /\ Append(old, item)[Len(old) + 1] = item
        /\ \A i \in DOMAIN old : Append(old, item)[i] = old[i]
    BY AppendIs DEF old
  <2>3. \A i \in 1..(Len(old) + 1) : i = Len(old) + 1 \/ i \in 1..Len(old)
    BY <2>2
  <2> HIDE DEF Refs
  <2>4. \A i \in DOMAIN Append(old, item) : Append(old, item)[i].ref \in Refs
    BY <2>1, <2>2, <2>3
  <2>5. Len(Append(old, item)) <= MaxHops + 1
    BY <2>2, NothingTyped DEF old
  <2>6. QED
    BY <2>4, <2>5 DEF old
<1> HIDE DEF q, flux
<1>4. PodsTyped(q) /\ EventsTyped(q)
  BY <1>2 DEF Live, Typed, PodsTyped, EventsTyped
<1>5. RawTyped(q)
  BY <1>2 DEF Live, Typed, RawTyped, AlertNamespace
<1>6. RefsTyped(q)
  BY <1>1, <1>2, <1>3 DEF Live, Typed, RefsTyped
<1>7. QED
  BY <1>2, <1>4, <1>5, <1>6 DEF Live, Typed, IsCollection, q, queried

(* The chain of the last pod has one owner more.                           *)
LEMMA WithOwnerLives ==
    ASSUME NEW k, Live(k), HasPod(k), Len(Chain(k)) < MaxDepth, NEW owner, NEW resolved
    PROVE  Live(WithOwner(k, owner, resolved))
<1> DEFINE q == WithOwner(k, owner, resolved)
           link == [kind |-> owner.kind, name |-> owner.name, resolved |-> resolved]
           pods == [k.pods EXCEPT ![Len(k.pods)].chain = Append(@, link)]
<1>1. q = [k EXCEPT !.pods = pods]
  BY DEF WithOwner
<1>2. Grows(q, k) /\ q.pc = k.pc
  BY WithOwnerGrows DEF Live
<1> HIDE DEF pods, q
<1>3. /\ q.raw = k.raw /\ q.alert = k.alert /\ q.got = k.got
      /\ q.events = k.events /\ q.fluxEvents = k.fluxEvents /\ q.queried = k.queried
      /\ q.flux = k.flux /\ q.outcome = k.outcome /\ DOMAIN q = Fields
  BY <1>1 DEF Live, IsCollection, Fields
<1>4. PodsTyped(q)
  <2>1. /\ IsSeq(q.pods) /\ Len(q.pods) = Len(k.pods) /\ IsSeq(k.pods)
        /\ Len(q.pods) <= MaxPods /\ Len(q.pods) >= 1
    BY <1>2 DEF Grows, HasPod, Live, Typed, PodsTyped
  <2> DEFINE n == Len(q.pods)
  <2>2. n \in Nat /\ DOMAIN q.pods = 1..n /\ DOMAIN k.pods = 1..n
    BY <2>1, AppendIs
  <2> HIDE DEF n
  <2>3. IsSeq(q.pods[n].chain) /\ Len(q.pods[n].chain) = Len(Chain(k)) + 1
    BY <1>2 DEF Grows, HasPod, Chain, Last, n
  <2>4. Len(Chain(k)) + 1 <= MaxDepth
    <3>1. Len(Chain(k)) \in Nat
      BY AppendIs DEF HasPod
    <3>2. QED
      BY <3>1, NothingTyped
  <2>5. \A i \in 1..(n - 1) : q.pods[i] = k.pods[i] /\ i \in 1..n
    BY <1>2, <2>1, <2>2 DEF Grows, n
  <2>6. \A i \in 1..n : i = n \/ i \in 1..(n - 1)
    BY <2>2
  <2>7. \A i \in 1..n : IsSeq(k.pods[i].chain) /\ Len(k.pods[i].chain) <= MaxDepth
    BY <2>2 DEF Live, Typed, PodsTyped
  <2>8. ASSUME NEW i \in DOMAIN q.pods
        PROVE  IsSeq(q.pods[i].chain) /\ Len(q.pods[i].chain) <= MaxDepth
    <3>1. CASE i = n
      BY <2>3, <2>4, <3>1
    <3>2. CASE i # n
      BY <2>2, <2>5, <2>6, <2>7, <3>2
    <3>3. QED
      BY <3>1, <3>2
  <2>9. QED
    BY <2>1, <2>8 DEF PodsTyped
<1>5. EventsTyped(q) /\ RefsTyped(q)
  BY <1>3 DEF Live, Typed, EventsTyped, RefsTyped
<1>6. RawTyped(q)
  BY <1>3 DEF Live, Typed, RawTyped, AlertNamespace
<1>7. QED
  BY <1>2, <1>3, <1>4, <1>5, <1>6 DEF Live, Typed, IsCollection, q

LEMMA ParseNextPodTypes ==
    ASSUME NEW c \in DOMAIN collections, Live(collections[c]), Paid(collections[c]),
           ParseNextPod(c)
    PROVE  Live(collections'[c])
<1> DEFINE k == collections[c]
           q == collections'[c]
           name == Head(k.raw)[1]
           walk == Head(k.raw)[2]
           parsed == ParsePod(name, walk)
           noted == IF walk.large THEN k.notes \cup {"spec_omitted"} ELSE k.notes
           tail == Tail(k.raw)
           ref == <<"Pod", AlertNamespace(k), name>>
           queried == Append(k.queried, ref)
           pods == Append(k.pods, parsed)
           g == [k EXCEPT !.queried = queried, !.notes = noted, !.walk = walk,
                          !.pc = "owners"]
<1>1. k.pc = "parse"
  BY DEF ParseNextPod, At
<1>2. /\ IsSeq(k.pods) /\ IsSeq(k.raw) /\ k.raw # <<>>
      /\ Len(k.pods) + Len(k.raw) <= MaxPods
  BY <1>1 DEF Paid, PaidForPods
<1>3. /\ 1 \in DOMAIN k.raw /\ Head(k.raw) = k.raw[1]
      /\ \A i \in DOMAIN tail : i + 1 \in DOMAIN k.raw /\ tail[i] = k.raw[i + 1]
  BY <1>2, TailMoves
<1>4. ref \in Refs /\ \A i \in DOMAIN tail : <<"Pod", AlertNamespace(k), tail[i][1]>> \in Refs
  <2> HIDE DEF tail, Refs
  <2>1. RawTyped(k)
    BY DEF Live, Typed
  <2>2. QED
    BY <1>3, <2>1 DEF RawTyped
<1>5. parsed.chain = <<>>
  BY DEF ParsePod
<1>6. q = [k EXCEPT !.pods = pods, !.queried = queried, !.notes = noted,
                    !.raw = tail, !.walk = walk, !.pc = "owners"]
  BY DEF ParseNextPod, Becomes
<1> HIDE DEF parsed, walk, tail, noted, pods, name, ref
<1>7. Live(g) /\ g.queried = queried
  <2> HIDE DEF queried
  <2>1. /\ Alters(g, k, Untyped \cup {"queried"}) /\ g.pc # "done" /\ g.queried = queried
    BY DEF Alters, Live, IsCollection, Untyped, Fields
  <2>2. QED
    BY <1>4, <2>1, QueriedTyped DEF queried
<1> HIDE DEF queried, g
<1>8. /\ q.pods = pods /\ q.raw = tail /\ q.alert = k.alert /\ q.got = k.got
      /\ q.events = k.events /\ q.fluxEvents = k.fluxEvents /\ q.queried = queried
      /\ q.flux = k.flux /\ q.outcome = k.outcome /\ DOMAIN q = Fields /\ q.pc = "owners"
  BY <1>6 DEF Live, IsCollection, Fields
<1>9. PodsTyped(q)
  <2> DEFINE old == k.pods
             n == Len(old)
  <2>1. \A i \in DOMAIN old : IsSeq(old[i].chain) /\ Len(old[i].chain) <= MaxDepth
    BY DEF Live, Typed, PodsTyped
  <2> HIDE DEF old
  <2>2. /\ IsSeq(Append(old, parsed)) /\ n \in Nat /\ DOMAIN old = 1..n
        /\ Len(Append(old, parsed)) = n + 1 /\ DOMAIN Append(old, parsed) = 1..(n + 1)
        /\ Append(old, parsed)[n + 1] = parsed
        /\ \A i \in DOMAIN old : Append(old, parsed)[i] = old[i]
    BY <1>2, AppendIs DEF old
  <2>3. n + 1 <= MaxPods
    <3> DEFINE r == Len(k.raw)
    <3>1. r \in Nat \ {0}
      BY <1>2, TailIs
    <3>2. n + r <= MaxPods
      BY <1>2 DEF old
    <3> HIDE DEF n, r
    <3>3. MaxPods \in Nat
      BY NothingTyped
    <3>4. QED
      BY <2>2, <3>1, <3>2, <3>3
  <2> HIDE DEF n
  <2>4. \A i \in 1..(n + 1) : i = n + 1 \/ i \in 1..n
    BY <2>2
  <2>5. 0 <= MaxDepth
    BY NothingTyped
  <2>6. ASSUME NEW i \in 1..(n + 1)
        PROVE  /\ IsSeq(Append(old, parsed)[i].chain)
               /\ Len(Append(old, parsed)[i].chain) <= MaxDepth
    BY <1>5, <2>1, <2>2, <2>4, <2>5, NothingTyped
  <2>7. QED
    BY <1>8, <2>2, <2>3, <2>6 DEF PodsTyped, pods, old
<1>10. AlertNamespace(q) = AlertNamespace(k)
  BY <1>8 DEF AlertNamespace
<1>11. RawTyped(q)
  <2> HIDE DEF Refs
  <2>1. QED
    BY <1>4, <1>8, <1>10 DEF RawTyped
<1>12. EventsTyped(q)
  BY <1>8 DEF Live, Typed, EventsTyped
<1>13. RefsTyped(q)
  <2>1. RefsTyped(g) /\ RefsTyped(k)
    BY <1>7 DEF Live, Typed
  <2>2. QED
    BY <1>7, <1>8, <2>1 DEF RefsTyped
<1>14. QED
  BY <1>8, <1>9, <1>11, <1>12, <1>13 DEF Live, Typed, IsCollection

-----------------------------------------------------------------------------
(* What the steps of a collection do to these types.                       *)

LEMMA SentLives ==
    ASSUME NEW k, Live(k), NEW ref, NEW s \in {k, Sent(k, ref)}
    PROVE  Live(s) /\ IsCollection(s) /\ Alters(s, k, Sending)
BY NotedLives, SentAlters DEF Live

LEMMA SentNames ==
    ASSUME NEW s, NEW k, Alters(s, k, Sending)
    PROVE  /\ s.alert = k.alert /\ AlertNamespace(s) = AlertNamespace(k)
           /\ PodRef(s) = PodRef(k) /\ Workload(s) = Workload(k) /\ ClaimRef(s) = ClaimRef(k)
           /\ NodeName(s) = NodeName(k) /\ s.target = k.target /\ s.flux = k.flux
           /\ s.pods = k.pods /\ s.got = k.got /\ s.pc = k.pc
<1>1. /\ s.alert = k.alert /\ s.target = k.target /\ s.flux = k.flux
      /\ s.pods = k.pods /\ s.got = k.got /\ s.pc = k.pc
  BY DEF Alters, Fields, Sending
<1>2. QED
  BY <1>1 DEF AlertNamespace, PodRef, Workload, ClaimRef, NodeName, Scheduled, SelectInSeq

LEMMA FrontTypes ==
    ASSUME NEW c \in DOMAIN collections, Live(collections[c]),
           Filter(c) \/ Triage(c) \/ QueryLogs(c) \/ QueryMetrics(c) \/ CheckScope(c)
           \/ NoPods(c) \/ NoClaim(c)
    PROVE  IsCollection(collections'[c]) /\ Typed(collections'[c])
<1> DEFINE k == collections[c]
           q == collections'[c]
<1>1. ASSUME NEW l, l # "done",
             \/ q = Goes(k, l)
             \/ \E n : q = Errs(Goes(k, l), n) \/ q = Notes(Goes(k, l), n)
                       \/ q = Goes(Notes(k, n), l)
      PROVE  Live(q)
  BY <1>1, GoesLives, NotedLives
<1>2. CASE Filter(c)
  <2>1. q = Ends(k, "skipped") \/ q = Goes(k, "triage")
    BY <1>2 DEF Filter, Becomes, Ends
  <2>2. QED
    BY <1>1, <2>1, EndsTyped DEF Live, Outcomes
<1>3. CASE Triage(c)
  <2>1. q = Ends(k, "dropped") \/ q = Goes(k, "logs")
    BY <1>3 DEF Triage, Becomes, Ends
  <2>2. QED
    BY <1>1, <2>1, EndsTyped DEF Live, Outcomes
<1>4. CASE QueryLogs(c)
  <2>1. q = Goes(k, "metrics") \/ \E e : q = Errs(Goes(k, "metrics"), e)
    BY <1>4 DEF QueryLogs, Becomes
  <2>2. QED
    BY <1>1, <2>1 DEF Live
<1>5. CASE QueryMetrics(c)
  <2>1. \E l \in {"scope", "decide"} : q = Goes(k, l) \/ \E e : q = Errs(Goes(k, l), e)
    BY <1>5 DEF QueryMetrics, Becomes
  <2>2. QED
    BY <1>1, <2>1 DEF Live
<1>6. CASE CheckScope(c)
  <2>1. \E l \in {"node", "pods", "target", "decide"} :
            q = Goes(k, l) \/ \E n : q = Goes(Notes(k, n), l)
    BY <1>6 DEF CheckScope, Becomes
  <2>2. QED
    BY <1>1, <2>1 DEF Live
<1>7. CASE NoPods(c) \/ NoClaim(c)
  <2>1. \E l \in {"sources", "node"} : q = Goes(k, l) \/ \E n : q = Notes(Goes(k, l), n)
    BY <1>7 DEF NoPods, NoClaim, Becomes
  <2>2. QED
    BY <1>1, <2>1 DEF Live
<1>8. QED
  BY <1>2, <1>3, <1>4, <1>5, <1>6, <1>7

(* A way out of a request, whose answer was no use.                        *)
LEMMA WayLives ==
    ASSUME NEW s, Live(s), NEW q, NEW l, l # "done",
           \/ \E n : q = Goes(Notes(s, n), l) \/ q = Goes(Errs(s, n), l)
           \/ q = Lost(s)
    PROVE  Live(q)
BY NotedLives, GoesLives, LostLives

LEMMA GetPodTypes ==
    ASSUME NEW c \in DOMAIN collections, Live(collections[c]), GetPod(c), FiniteCluster
    PROVE  Live(collections'[c])
<1> DEFINE k == collections[c]
           q == collections'[c]
           ref == PodRef(k)
           read == <<<<ref[3], cluster.objects[ref]>>>>
<1>1. PICK s \in {k, Sent(k, ref)} :
         \/ \E e : q = Goes(Notes(s, e), "sources") \/ q = Goes(Errs(s, e), "sources")
         \/ q = Lost(s)
         \/ /\ ref \in DOMAIN cluster.objects
            /\ q = Retrieves(s, <<<<PodRef(s)[3], cluster.objects[ref]>>>>, "parse")
  BY DEF GetPod, Get, Request, Becomes, Retrieves, IsThere
<1>2. Live(s) /\ Alters(s, k, Sending)
  BY SentLives
<1>3. PodRef(s) = ref /\ AlertNamespace(s) = AlertNamespace(k)
  BY <1>2, SentNames
<1>4. CASE ref \in DOMAIN cluster.objects /\ q = Retrieves(s, read, "parse")
  <2>1. ref \in Refs /\ ref = <<"Pod", AlertNamespace(k), ref[3]>>
    BY <1>4 DEF FiniteCluster, PodRef
  <2>2. \A i \in DOMAIN read : <<"Pod", AlertNamespace(s), read[i][1]>> \in Refs
    <3>1. \A i \in DOMAIN read : read[i][1] = ref[3]
      OBVIOUS
    <3> HIDE DEF read, ref
    <3>2. QED
      BY <1>3, <2>1, <3>1
  <2> HIDE DEF read, ref
  <2>3. QED
    BY <1>2, <1>4, <2>2, RetrievesLives
<1>5. QED
  <2>1. CASE /\ ref \in DOMAIN cluster.objects
             /\ q = Retrieves(s, <<<<PodRef(s)[3], cluster.objects[ref]>>>>, "parse")
    BY <1>3, <1>4, <2>1
  <2>2. QED
    BY <1>1, <1>2, <2>1, WayLives

LEMMA GetWorkloadTypes ==
    ASSUME NEW c \in DOMAIN collections, Live(collections[c]), GetWorkload(c), FiniteCluster
    PROVE  Live(collections'[c])
<1> DEFINE k == collections[c]
           q == collections'[c]
           ref == Workload(k)
           object == cluster.objects[ref]
           read(s) == Finds(s, Append(s.queried, Workload(s)),
                            Append(s.labels, object.gitops))
<1>1. PICK s \in {k, Sent(k, ref)} :
         \/ \E e : q = Goes(Notes(s, e), "sources") \/ q = Goes(Errs(s, e), "sources")
         \/ q = Lost(s)
         \/ /\ ref \in DOMAIN cluster.objects
            /\ \/ q = Goes(Notes(read(s), "no_selector"), "sources")
               \/ q = Selects(read(s), object.selector)
  BY DEF GetWorkload, Get, Request, Becomes, Finds, Selects, IsThere
<1>2. Live(s) /\ Workload(s) = ref
  BY SentLives, SentNames
<1>3. CASE /\ ref \in DOMAIN cluster.objects
           /\ \/ q = Goes(Notes(read(s), "no_selector"), "sources")
              \/ q = Selects(read(s), object.selector)
  <2>1. ref \in Refs
    BY <1>3 DEF FiniteCluster
  <2>2. Live(read(s))
    BY <1>2, <2>1, FindsLives
  <2> HIDE DEF read
  <2>3. QED
    BY <1>3, <2>2, NotedLives, GoesLives, SelectsLives
<1>4. CASE \/ \E e : q = Goes(Notes(s, e), "sources") \/ q = Goes(Errs(s, e), "sources")
           \/ q = Lost(s)
  BY <1>2, <1>4, WayLives
<1> HIDE DEF read, q
<1>5. QED
  BY <1>1, <1>3, <1>4 DEF q

LEMMA ListPodsTypes ==
    ASSUME NEW c \in DOMAIN collections, Live(collections[c]), ListPods(c), FiniteCluster
    PROVE  Live(collections'[c])
<1> DEFINE k == collections[c]
           q == collections'[c]
           namespace == AlertNamespace(k)
           ref == <<"Pod", namespace, "*">>
           all == Matching(namespace, k.selector)
           raw(list) == [i \in DOMAIN list |-> ReadPod(list[i])]
           label(list) == IF list = <<>> THEN "sources" ELSE "parse"
<1>1. PICK s \in {k, Sent(k, ref)} :
         \/ \E e : q = Goes(Errs(s, e), "sources")
         \/ q = Lost(s)
         \/ \E some \in SUBSET all : \E list \in Shown([o \in some |-> cluster.objects[o]]) :
               \/ q = Retrieves(s, raw(list), label(list))
               \/ q = Notes(Retrieves(s, raw(list), label(list)), "pods_omitted")
  BY DEF ListPods, Request, Becomes, Retrieves, ReadPod
<1>2. Live(s) /\ AlertNamespace(s) = namespace
  BY SentLives, SentNames
<1>3. ASSUME NEW some \in SUBSET all, NEW list \in Shown([o \in some |-> cluster.objects[o]])
      PROVE  Live(Retrieves(s, raw(list), label(list)))
  <2> DEFINE pods == [o \in some |-> cluster.objects[o]]
  <2>1. some \subseteq DOMAIN cluster.objects
    BY DEF Matching
  <2>2. IsFiniteSet(DOMAIN pods) /\ DOMAIN pods = some
    BY <2>1, FS_Subset DEF FiniteCluster
  <2> HIDE DEF pods
  <2>3. \A i \in DOMAIN list : list[i] \in all
    BY <2>2, ShownAreThere DEF pods
  <2> HIDE DEF Refs
  <2>4. \A o \in all : <<"Pod", namespace, NameOf(o)>> \in Refs
    <3>1. ASSUME NEW o \in all PROVE <<"Pod", namespace, NameOf(o)>> \in Refs
      <4>1. <<"Pod", namespace, NameOf(o)>> = o /\ o \in DOMAIN cluster.objects
        BY PodsAreNamed
      <4>2. QED
        BY <4>1 DEF FiniteCluster
    <3>2. QED
      BY <3>1
  <2>5. /\ DOMAIN raw(list) = DOMAIN list
        /\ \A i \in DOMAIN list : raw(list)[i][1] = NameOf(list[i])
    BY DEF ReadPod
  <2> HIDE DEF raw, all, namespace
  <2>6. \A i \in DOMAIN raw(list) : <<"Pod", AlertNamespace(s), raw(list)[i][1]>> \in Refs
    BY <1>2, <2>3, <2>4, <2>5
  <2>7. label(list) # "done"
    OBVIOUS
  <2> HIDE DEF label
  <2>8. QED
    BY <1>2, <2>6, <2>7, RetrievesLives
<1>4. CASE (\E e : q = Goes(Errs(s, e), "sources")) \/ q = Lost(s)
  BY <1>2, <1>4, WayLives
<1>5. CASE \E some \in SUBSET all : \E list \in Shown([o \in some |-> cluster.objects[o]]) :
              \/ q = Retrieves(s, raw(list), label(list))
              \/ q = Notes(Retrieves(s, raw(list), label(list)), "pods_omitted")
  <2> HIDE DEF raw, label, all, q
  <2>1. QED
    BY <1>3, <1>5, NotedLives DEF q
<1> HIDE DEF raw, label, all, q
<1>6. QED
  BY <1>1, <1>4, <1>5 DEF q

LEMMA FollowOwnerTypes ==
    ASSUME NEW c \in DOMAIN collections, Live(collections[c]), Paid(collections[c]),
           FollowOwner(c)
    PROVE  Live(collections'[c])
<1> DEFINE k == collections[c]
           q == collections'[c]
           owner == ControllerRef(k.walk)
           ref == OwnerRef(k)
           object == cluster.objects[ref]
           grown(s, resolved) == WithOwner(s, owner, resolved)
<1>1. k.pc = "owners" /\ (FollowsOwner(k.walk, Chain(k)) => Len(Chain(k)) < MaxDepth)
  BY DEF FollowOwner, At, FollowsOwner
<1>2. CASE ~FollowsOwner(k.walk, Chain(k))
  <2>1. q = WalkEnds(k)
    BY <1>2 DEF FollowOwner, Becomes
  <2>2. QED
    BY <2>1, EndedLives
<1>3. CASE FollowsOwner(k.walk, Chain(k))
  <2>1. PICK s \in {k, Sent(k, ref)} :
           \/ q = WalkEnds(grown(s, FALSE))
           \/ q = Lost(s)
           \/ q = Turns(grown(s, TRUE), object,
                        Append(grown(s, TRUE).labels, object.gitops))
    BY <1>3 DEF FollowOwner, Get, Request, Becomes, Turns, OwnerRef, IsThere
  <2>2. Live(s) /\ s.pods = k.pods
    BY SentLives, SentNames
  <2>3. HasPod(s) /\ Len(Chain(s)) < MaxDepth
    BY <1>1, <1>3, <2>2 DEF Paid, PaidForPods, HasPod, Chain
  <2>4. Live(grown(s, TRUE)) /\ Live(grown(s, FALSE))
    BY <2>2, <2>3, WithOwnerLives
  <2> HIDE DEF grown
  <2>5. ASSUME NEW g, Live(g), NEW walk, NEW labels PROVE Live(Turns(g, walk, labels))
    <3>1. Alters(Turns(g, walk, labels), g, Untyped) /\ Turns(g, walk, labels).pc # "done"
      BY <2>5 DEF Turns, Alters, Live, IsCollection, Untyped, Fields
    <3>2. QED
      BY <2>5, <3>1, UntypedLive
  <2>6. QED
    BY <2>1, <2>2, <2>4, <2>5, EndedLives, LostLives
<1>4. QED
  BY <1>2, <1>3

-----------------------------------------------------------------------------
(* Events, claim and node.                                                 *)

LEMMA ListedIsFinite ==
    ASSUME FiniteCluster, NEW namespace, NEW name,
           NEW list \in EventLists(cluster.events, namespace, name)
    PROVE  IsFiniteSet(list)
<1>1. list \subseteq cluster.events
  BY DEF EventLists
<1>2. QED
  BY <1>1, FS_Subset DEF FiniteCluster

LEMMA NewestFit ==
    ASSUME NEW events, IsFiniteSet(events), NEW kept \in Newest(events, MaxEvents)
    PROVE  IsFiniteSet(kept) /\ Cardinality(kept) <= MaxEvents
<1>1. kept \subseteq events /\ Cardinality(kept) = Min2(MaxEvents, Cardinality(events))
  BY DEF Newest
<1>2. Cardinality(events) \in Nat /\ MaxEvents \in Nat
  BY FS_CardinalityType, NothingTyped
<1>3. QED
  BY <1>1, <1>2, FS_Subset DEF Min2

LEMMA ChooseSourcesTypes ==
    ASSUME NEW c \in DOMAIN collections, Live(collections[c]), ChooseSources(c)
    PROVE  Live(collections'[c])
<1> DEFINE k == collections[c]
           q == collections'[c]
           g == Goes(k, "events")
           all == DOMAIN EventSources(g.pods, g.queried)
           chosen == all \cap 1..MaxSources
           noted == IF chosen = all THEN g.notes ELSE g.notes \cup {"sources_omitted"}
<1>1. Live(g)
  BY GoesLives
<1>2. q = [g EXCEPT !.left = chosen, !.notes = noted]
  BY DEF ChooseSources, Becomes
<1> HIDE DEF g, chosen, noted
<1>3. Alters(q, g, Untyped) /\ q.pc # "done"
  BY <1>1, <1>2 DEF Alters, Live, IsCollection, Untyped, Fields
<1>4. QED
  BY <1>1, <1>3, UntypedLive

LEMMA ListEventsTypes ==
    ASSUME NEW c \in DOMAIN collections, Live(collections[c]), FiniteCluster,
           GetEvents(c) \/ GetClaimEvents(c) \/ GetFluxEvents(c)
    PROVE  Live(collections'[c])
<1> DEFINE k == collections[c]
           q == collections'[c]
           lists(ref) == EventLists(cluster.events, NamespaceOf(ref), NameOf(ref))
<1>1. ASSUME NEW s, Live(s), NEW ref, NEW list \in lists(ref), NEW some \in SUBSET list
      PROVE  IsFiniteSet(s.got \cup some)
  <2>1. IsFiniteSet(list)
    BY <1>1, ListedIsFinite
  <2>2. QED
    BY <1>1, <2>1, FS_Subset, FS_Union DEF Live, Typed, EventsTyped
<1>2. ASSUME NEW ref, NEW i, NEW s \in {k, Sent(k, EventsOf(ref))},
             \/ q = SourceDone(Errs(s, "events"), i)
             \/ q = Lost(s)
             \/ \E list \in lists(ref) : \E some \in SUBSET list :
                    q = HeardOf(s, s.got \cup some, i)
      PROVE  Live(q)
  <2>1. Live(s)
    BY SentLives
  <2> HIDE DEF lists
  <2>2. QED
    BY <1>1, <1>2, <2>1, NotedLives, LostLives, HeardLives
<1>3. CASE GetEvents(c)
  <2> DEFINE ref(i) == <<"Event", AlertNamespace(k), EventSources(k.pods, k.queried)[i]>>
  <2>1. PICK i \in k.left :
           ListEvents(c, ref(i), LAMBDA e : TRUE, LAMBDA j : SourceDone(j, i),
                         LAMBDA j : SourceDone(Errs(j, "events"), i))
    BY <1>3 DEF GetEvents
  <2> HIDE DEF ref
  <2>2. PICK s \in {k, Sent(k, EventsOf(ref(i)))} :
           \/ q = SourceDone(Errs(s, "events"), i)
           \/ q = Lost(s)
           \/ \E list \in lists(ref(i)) : q = HeardOf(s, s.got \cup {e \in list : TRUE}, i)
    BY <2>1 DEF ListEvents, Request, Becomes, HeardOf
  <2>3. \A list : {e \in list : TRUE} \in SUBSET list
    OBVIOUS
  <2> HIDE DEF lists
  <2>4. QED
    BY <1>2, <2>2, <2>3
<1>4. CASE GetFluxEvents(c)
  <2>1. PICK i \in k.left :
           LET ref == k.flux[i].ref
           IN  ListEvents(c, ref, LAMBDA e : IsOf(e, ref), LAMBDA j : SourceDone(j, i),
                          LAMBDA j : SourceDone(Errs(j, "events"), i))
    BY <1>4 DEF GetFluxEvents
  <2> DEFINE ref == k.flux[i].ref
  <2>2. PICK s \in {k, Sent(k, EventsOf(ref))} :
           \/ q = SourceDone(Errs(s, "events"), i)
           \/ q = Lost(s)
           \/ \E list \in lists(ref) :
                  q = HeardOf(s, s.got \cup {e \in list : IsOf(e, ref)}, i)
    BY <2>1 DEF ListEvents, Request, Becomes, HeardOf
  <2>3. \A list : {e \in list : IsOf(e, ref)} \in SUBSET list
    OBVIOUS
  <2> HIDE DEF lists, ref
  <2>4. QED
    BY <1>2, <2>2, <2>3
<1>5. CASE GetClaimEvents(c)
  <2> DEFINE ref == ClaimRef(k)
             heard(s, got) == Goes([s EXCEPT !.got = got], "merge")
  <2>1. PICK s \in {k, Sent(k, EventsOf(ref))} :
           \/ \E e : q = Goes(Errs(s, e), "node")
           \/ q = Lost(s)
           \/ \E list \in lists(ref) : q = heard(s, s.got \cup {e \in list : TRUE})
    BY <1>5 DEF GetClaimEvents, ListEvents, Request, Becomes
  <2>2. Live(s)
    BY SentLives
  <2>3. ASSUME NEW list \in lists(ref), q = heard(s, s.got \cup {e \in list : TRUE})
        PROVE  Live(q)
    <3>1. IsFiniteSet(s.got \cup {e \in list : TRUE})
      BY <1>1, <2>2
    <3> DEFINE got == s.got \cup {e \in list : TRUE}
    <3> HIDE DEF got
    <3>2. Live([s EXCEPT !.got = got])
      BY <2>2, <3>1, HeardLives DEF got
    <3>3. QED
      BY <2>3, <3>2, GoesLives DEF got
  <2>4. CASE (\E e : q = Goes(Errs(s, e), "node")) \/ q = Lost(s)
    BY <2>2, <2>4, WayLives
  <2> HIDE DEF lists, heard, ref, q
  <2>5. QED
    BY <2>1, <2>3, <2>4 DEF q
<1>6. QED
  BY <1>3, <1>4, <1>5

LEMMA KeepTypes ==
    ASSUME NEW c \in DOMAIN collections, Live(collections[c]),
           KeepEvents(c) \/ MergeEvents(c) \/ KeepFluxEvents(c)
    PROVE  Live(collections'[c])
<1> DEFINE k == collections[c]
           q == collections'[c]
<1>1. ASSUME NEW l, l # "done" PROVE Live(Goes(k, l)) /\ EventsTyped(Goes(k, l))
  BY <1>1, GoesLives DEF Live, Typed
<1>2. CASE KeepEvents(c)
  <2> DEFINE g == Goes(k, "claim")
  <2>1. PICK kept \in Newest(g.got, MaxEvents) : q = Cuts(g, kept, g.got)
    BY <1>2 DEF KeepEvents, Becomes, Cuts
  <2>2. Live(g) /\ IsFiniteSet(g.got)
    BY <1>1 DEF EventsTyped
  <2> HIDE DEF g
  <2>3. QED
    BY <2>1, <2>2, NewestFit, CutsLives
<1>3. CASE MergeEvents(c)
  <2> DEFINE g == Goes(k, "node")
             all == g.events \cup g.got
  <2>1. PICK kept \in Newest(all, MaxEvents) : q = Cuts(g, kept, all)
    BY <1>3 DEF MergeEvents, Becomes, Cuts
  <2>2. Live(g) /\ IsFiniteSet(all)
    BY <1>1, FS_Union DEF EventsTyped
  <2> HIDE DEF g, all
  <2>3. QED
    BY <2>1, <2>2, NewestFit, CutsLives
<1>4. CASE KeepFluxEvents(c)
  <2> DEFINE g == Goes(k, "decide")
  <2>1. PICK kept \in Newest(g.got, MaxEvents) : q = CutsFlux(g, kept, g.got)
    BY <1>4 DEF KeepFluxEvents, Becomes, CutsFlux
  <2>2. Live(g) /\ IsFiniteSet(g.got)
    BY <1>1 DEF EventsTyped
  <2> HIDE DEF g
  <2>3. QED
    BY <2>1, <2>2, NewestFit, CutsLives
<1>5. QED
  BY <1>2, <1>3, <1>4

LEMMA GetClaimTypes ==
    ASSUME NEW c \in DOMAIN collections, Live(collections[c]), GetClaim(c), FiniteCluster
    PROVE  Live(collections'[c])
<1> DEFINE k == collections[c]
           q == collections'[c]
           ref == ClaimRef(k)
           found(s) == [s EXCEPT !.claims = {NameOf(ClaimRef(s))},
                                 !.queried = Append(s.queried, ClaimRef(s)),
                                 !.pc = "claim_events"]
<1>1. PICK s \in {k, Sent(k, ref)} :
         \/ \E e : q = Goes(Notes(s, e), "node") \/ q = Goes(Errs(s, e), "node")
         \/ q = Lost(s)
         \/ ref \in DOMAIN cluster.objects /\ q = found(s)
  BY DEF GetClaim, Get, Request, Becomes, IsThere
<1>2. Live(s) /\ ClaimRef(s) = ref
  BY SentLives, SentNames
<1>3. CASE ref \in DOMAIN cluster.objects /\ q = found(s)
  <2> DEFINE queried == Append(s.queried, ref)
             claims == {NameOf(ref)}
  <2>1. ref \in Refs
    BY <1>3 DEF FiniteCluster
  <2>2. q = [s EXCEPT !.claims = claims, !.queried = queried, !.pc = "claim_events"]
    BY <1>2, <1>3
  <2> HIDE DEF queried, claims, ref
  <2>3. Alters(q, s, Untyped \cup {"queried"}) /\ q.queried = queried /\ q.pc # "done"
    BY <1>2, <2>2 DEF Alters, Live, IsCollection, Untyped, Fields
  <2>4. QED
    BY <1>2, <2>1, <2>3, QueriedTyped DEF queried
<1>4. QED
  <2>1. CASE \/ \E e : q = Goes(Notes(s, e), "node") \/ q = Goes(Errs(s, e), "node")
             \/ q = Lost(s)
    BY <1>2, <2>1, WayLives
  <2> HIDE DEF found, q, ref
  <2>2. QED
    BY <1>1, <1>3, <2>1 DEF q

LEMMA GetNodeTypes ==
    ASSUME NEW c \in DOMAIN collections, Live(collections[c]), GetNode(c), FiniteCluster
    PROVE  Live(collections'[c])
<1> DEFINE k == collections[c]
           q == collections'[c]
           ref == <<"Node", Nobody, NodeName(k)>>
           found(s) == [s EXCEPT !.nodes = {NodeName(s)},
                                 !.queried = Append(s.queried,
                                                    <<"Node", Nobody, NodeName(s)>>)]
<1>1. ASSUME NEW s, Live(s), NEW n
      PROVE  Live(AfterNode(s)) /\ Live(AfterNode(Notes(s, n))) /\ Live(AfterNode(Errs(s, n)))
  BY <1>1, NotedLives, EndedLives
<1>2. CASE NodeName(k) = Nobody
  <2>1. q = AfterNode(k)
    BY <1>2 DEF GetNode, Becomes
  <2>2. QED
    BY <1>1, <2>1
<1>3. CASE NodeName(k) # Nobody
  <2>1. \/ \E n : q = AfterNode(Notes(k, n))
        \/ \E s \in {k, Sent(k, ref)} :
              \/ ref \in DOMAIN cluster.objects /\ q = AfterNode(found(s))
              \/ \E n : q = AfterNode(Notes(s, n)) \/ q = AfterNode(Errs(s, n))
              \/ q = Lost(s)
    BY <1>3 DEF GetNode, Get, Request, Becomes, IsThere
  <2>2. ASSUME NEW s \in {k, Sent(k, ref)}, ref \in DOMAIN cluster.objects
        PROVE  Live(found(s))
    <3> DEFINE queried == Append(s.queried, ref)
               nodes == {NodeName(s)}
    <3>1. Live(s) /\ NodeName(s) = NodeName(k)
      BY SentLives, SentNames
    <3>2. ref \in Refs
      BY <2>2 DEF FiniteCluster
    <3>3. found(s) = [s EXCEPT !.nodes = nodes, !.queried = queried]
      BY <3>1
    <3> HIDE DEF queried, nodes, ref, found
    <3>4. /\ Alters(found(s), s, Untyped \cup {"queried"}) /\ found(s).queried = queried
          /\ found(s).pc # "done"
      BY <3>1, <3>3 DEF Alters, Live, IsCollection, Untyped, Fields
    <3>5. QED
      BY <3>1, <3>2, <3>4, QueriedTyped DEF queried
  <2>3. \A s \in {k, Sent(k, ref)} : Live(s)
    BY SentLives
  <2> HIDE DEF found, k, q
  <2>4. QED
    BY <1>1, <2>1, <2>2, <2>3, EndedLives, LostLives DEF k, q
<1>4. QED
  BY <1>2, <1>3

-----------------------------------------------------------------------------
(* The delivery.                                                           *)

LEMMA ChainTypes ==
    ASSUME NEW c \in DOMAIN collections, Live(collections[c]),
           ResolveTarget(c) \/ ResolveVersion(c) \/ Discover(c) \/ StoreVersion(c)
    PROVE  Live(collections'[c])
<1> DEFINE k == collections[c]
           q == collections'[c]
<1>1. CASE ResolveTarget(c)
  <2> DEFINE aims(target, version) ==
                 [k EXCEPT !.pc = "version", !.target = target, !.version = version]
  <2>1. \/ q = Goes(k, "decide")
        \/ \E n : q = Goes(Notes(k, n), "decide")
        \/ \E target, version : q = aims(target, version)
    BY <1>1 DEF ResolveTarget, Becomes
  <2>2. ASSUME NEW target, NEW version PROVE Live(aims(target, version))
    <3>1. Alters(aims(target, version), k, Untyped) /\ aims(target, version).pc # "done"
      BY DEF Alters, Live, IsCollection, Untyped, Fields
    <3> HIDE DEF aims
    <3>2. QED
      BY <3>1, UntypedLive
  <2> HIDE DEF aims
  <2>3. QED
    BY <2>1, <2>2, NotedLives, GoesLives
<1>2. CASE ResolveVersion(c)
  <2>1. \/ q = ChainEnds(Notes(k, "flux_out_of_scope"))
        \/ q = Goes(k, "flux") \/ q = Goes(k, "discover")
        \/ q = Taken(k, cached.version)
    BY <1>2 DEF ResolveVersion, Becomes
  <2>2. QED
    BY <2>1, NotedLives, GoesLives, EndedLives
<1>3. CASE Discover(c)
  <2> DEFINE answered(s) == [s EXCEPT !.pc = "store", !.version = served, !.asked = now]
  <2>1. PICK s \in {k, Sent(k, <<"APIGroup", Nobody, "*">>)} :
           \/ q = ChainEnds(Errs(s, "flux"))
           \/ q = Lost(s)
           \/ q = answered(s)
    BY <1>3 DEF Discover, Request, Becomes
  <2>2. Live(s)
    BY SentLives
  <2>3. Alters(answered(s), s, Untyped) /\ answered(s).pc # "done"
    BY <2>2 DEF Alters, Live, IsCollection, Untyped, Fields
  <2> HIDE DEF answered
  <2>4. QED
    BY <2>1, <2>2, <2>3, NotedLives, EndedLives, LostLives, UntypedLive
<1>4. CASE StoreVersion(c)
  BY <1>4, EndedLives DEF StoreVersion, Becomes
<1>5. QED
  BY <1>1, <1>2, <1>3, <1>4

LEMMA GetFluxTypes ==
    ASSUME NEW c \in DOMAIN collections, Live(collections[c]), Ordered(collections[c]),
           Paid(collections[c]), GetFlux(c), FiniteCluster
    PROVE  Live(collections'[c])
<1> DEFINE k == collections[c]
           q == collections'[c]
           ref == k.target
           object == cluster.objects[ref]
<1>1. PICK s \in {k, Sent(k, ref)} :
         \/ \E n : q = ChainEnds(Notes(s, n)) \/ q = ChainEnds(Errs(s, n))
         \/ q = Lost(s)
         \/ ref \in DOMAIN cluster.objects /\ q = WithObject(s, object)
  BY DEF GetFlux, Get, Request, Becomes, IsThere
<1>2. Live(s) /\ s.target = ref /\ s.flux = k.flux
  BY SentLives, SentNames
<1>3. CASE ref \in DOMAIN cluster.objects /\ q = WithObject(s, object)
  <2> DEFINE item == ParseFlux(ref, object)
             found == Adds(s, item, Append(s.queried, ref), object.source)
  <2>1. k.pc = "flux" /\ IsSeq(s.flux) /\ Len(s.flux) <= MaxHops
    BY <1>2 DEF GetFlux, At, Ordered, Paid, PaidForDelivery, OnChain
  <2>2. ref \in Refs /\ item.ref = ref
    BY <1>3 DEF FiniteCluster, ParseFlux
  <2>3. \/ q = ChainEnds(found)
        \/ q = ChainEnds(Notes(found, "source_not_read"))
        \/ q = Goes(found, "version")
    BY <1>2, <1>3 DEF WithObject, Adds
  <2> HIDE DEF item, ref, object
  <2>4. Live(found)
    BY <1>2, <2>1, <2>2, AddsLives
  <2> HIDE DEF found
  <2>5. QED
    BY <2>3, <2>4, NotedLives, GoesLives, EndedLives
<1>4. QED
  <2>1. CASE \/ \E n : q = ChainEnds(Notes(s, n)) \/ q = ChainEnds(Errs(s, n))
             \/ q = Lost(s)
    BY <1>2, <2>1, NotedLives, EndedLives, LostLives
  <2> HIDE DEF q, object
  <2>2. QED
    BY <1>1, <1>3, <2>1 DEF q

LEMMA DecideTypes ==
    ASSUME NEW c \in DOMAIN collections, Live(collections[c]), Decide(c)
    PROVE  IsCollection(collections'[c]) /\ Typed(collections'[c])
<1>1. PICK o \in {"skipped", "proceeds"} : collections'[c] = Ends(collections[c], o)
  BY DEF Decide, Becomes, Ends
<1>2. QED
  BY <1>1, EndsTyped DEF Outcomes

LEMMA StepTypes ==
    ASSUME NEW c \in DOMAIN collections, Sound(collections[c]), Typed(collections[c]),
           FiniteCluster, Step(c)
    PROVE  Typed(collections'[c])
<1>1. collections[c].pc # "done"
  <2>1. CASE Filter(c) \/ Triage(c) \/ QueryLogs(c) \/ QueryMetrics(c) \/ CheckScope(c)
             \/ NoPods(c) \/ NoClaim(c) \/ Decide(c)
    BY <2>1 DEF Filter, Triage, QueryLogs, QueryMetrics, CheckScope, NoPods, NoClaim,
                Decide, At
  <2>2. CASE GetPod(c) \/ GetWorkload(c) \/ ListPods(c) \/ ParseNextPod(c) \/ FollowOwner(c)
    BY <2>2 DEF GetPod, GetWorkload, ListPods, ParseNextPod, FollowOwner, At
  <2>3. CASE ChooseSources(c) \/ GetEvents(c) \/ KeepEvents(c) \/ GetClaim(c)
             \/ GetClaimEvents(c) \/ MergeEvents(c) \/ GetNode(c)
    BY <2>3 DEF ChooseSources, GetEvents, KeepEvents, GetClaim, GetClaimEvents, MergeEvents,
                GetNode, At
  <2>4. CASE ResolveTarget(c) \/ ResolveVersion(c) \/ Discover(c) \/ StoreVersion(c)
             \/ GetFlux(c) \/ GetFluxEvents(c) \/ KeepFluxEvents(c)
    BY <2>4 DEF ResolveTarget, ResolveVersion, Discover, StoreVersion, GetFlux,
                GetFluxEvents, KeepFluxEvents, At
  <2>5. QED
    BY <2>1, <2>2, <2>3, <2>4 DEF Step
<1>2. Live(collections[c]) /\ Paid(collections[c]) /\ Ordered(collections[c])
  BY <1>1 DEF Live, Sound
<1>3. CASE Filter(c) \/ Triage(c) \/ QueryLogs(c) \/ QueryMetrics(c) \/ CheckScope(c)
           \/ NoPods(c) \/ NoClaim(c) \/ Decide(c)
  BY <1>2, <1>3, FrontTypes, DecideTypes
<1>4. CASE GetPod(c) \/ GetWorkload(c) \/ ListPods(c) \/ ParseNextPod(c) \/ FollowOwner(c)
  BY <1>2, <1>4, GetPodTypes, GetWorkloadTypes, ListPodsTypes, ParseNextPodTypes,
     FollowOwnerTypes DEF Live
<1>5. CASE ChooseSources(c) \/ GetEvents(c) \/ KeepEvents(c) \/ GetClaim(c)
           \/ GetClaimEvents(c) \/ MergeEvents(c) \/ GetNode(c)
  BY <1>2, <1>5, ChooseSourcesTypes, ListEventsTypes, KeepTypes, GetClaimTypes,
     GetNodeTypes DEF Live
<1>6. CASE ResolveTarget(c) \/ ResolveVersion(c) \/ Discover(c) \/ StoreVersion(c)
           \/ GetFlux(c) \/ GetFluxEvents(c) \/ KeepFluxEvents(c)
  BY <1>2, <1>6, ChainTypes, GetFluxTypes, ListEventsTypes, KeepTypes DEF Live
<1>7. QED
  BY <1>3, <1>4, <1>5, <1>6 DEF Step

-----------------------------------------------------------------------------
(* The types of everything.                                                *)

TypedInv ==
    /\ now <= World.last /\ failures \in 0..MaxFailures
    /\ \A c \in DOMAIN collections : Typed(collections[c])

LEMMA TypedLater ==
    ASSUME NEW c, Typed(collections'[c])
    PROVE  Typed(collections[c])'
BY DEF Typed, PodsTyped, RawTyped, EventsTyped, RefsTyped, AlertNamespace

LEMMA FreshTyped ==
    ASSUME NEW alert
    PROVE  Typed(Fresh(alert))
<1> DEFINE k == Fresh(alert)
<1>1. /\ k.pods = <<>> /\ k.raw = <<>> /\ k.got = {} /\ k.events = {} /\ k.fluxEvents = {}
      /\ k.queried = <<>> /\ k.flux = <<>> /\ k.outcome = Nobody /\ k.pc = "filter"
  BY DEF Fresh
<1> HIDE DEF k
<1>2. QED
  BY <1>1, NothingTyped DEF Typed, PodsTyped, RawTyped, EventsTyped, RefsTyped, k

(* Requests fail no more often than the model allows.                      *)
LEMMA FailuresCount ==
    ASSUME NEW c \in DOMAIN collections, Step(c), failures \in 0..MaxFailures
    PROVE  failures' \in 0..MaxFailures
<1>0. MaxFailures \in Nat
  BY EvidenceBounds
<1>1. CASE Filter(c) \/ CheckScope(c) \/ NoPods(c) \/ ParseNextPod(c) \/ ChooseSources(c)
           \/ KeepEvents(c) \/ NoClaim(c) \/ MergeEvents(c)
  BY <1>1 DEF Filter, CheckScope, NoPods, ParseNextPod, ChooseSources, KeepEvents, NoClaim,
              MergeEvents, Local
<1>2. CASE ResolveTarget(c) \/ ResolveVersion(c) \/ StoreVersion(c) \/ KeepFluxEvents(c)
           \/ Decide(c)
  BY <1>2 DEF ResolveTarget, ResolveVersion, StoreVersion, KeepFluxEvents, Decide, Local
<1>3. UNCHANGED failures \/ (failures < MaxFailures /\ failures' = failures + 1)
      => failures' \in 0..MaxFailures
  BY <1>0
<1>4. CASE Triage(c) \/ QueryLogs(c) \/ QueryMetrics(c)
  <2>1. UNCHANGED failures \/ (failures < MaxFailures /\ failures' = failures + 1)
    BY <1>4 DEF Triage, QueryLogs, QueryMetrics
  <2>2. QED
    BY <1>3, <2>1
<1>5. CASE GetPod(c) \/ GetWorkload(c) \/ ListPods(c)
  <2>1. UNCHANGED failures \/ (failures < MaxFailures /\ failures' = failures + 1)
    BY <1>5 DEF GetPod, GetWorkload, ListPods, Get, Request
  <2>2. QED
    BY <1>3, <2>1
<1>6. CASE FollowOwner(c) \/ GetNode(c)
  <2>1. UNCHANGED failures \/ (failures < MaxFailures /\ failures' = failures + 1)
    BY <1>6 DEF FollowOwner, GetNode, Get, Request, Local
  <2>2. QED
    BY <1>3, <2>1
<1>7. CASE GetEvents(c) \/ GetClaimEvents(c) \/ GetFluxEvents(c)
  <2>1. UNCHANGED failures \/ (failures < MaxFailures /\ failures' = failures + 1)
    BY <1>7 DEF GetEvents, GetClaimEvents, GetFluxEvents, ListEvents, Request
  <2>2. QED
    BY <1>3, <2>1
<1>8. CASE GetClaim(c) \/ Discover(c) \/ GetFlux(c)
  <2>1. UNCHANGED failures \/ (failures < MaxFailures /\ failures' = failures + 1)
    BY <1>8 DEF GetClaim, Discover, GetFlux, Get, Request
  <2>2. QED
    BY <1>3, <2>1
<1>9. QED
  BY <1>1, <1>2, <1>4, <1>5, <1>6, <1>7, <1>8 DEF Step

LEMMA TriplesAre ==
    ASSUME NEW S, NEW ref \in S \X S \X S
    PROVE  ref \in Seq(S) /\ Len(ref) = 3
<1>1. ref = <<ref[1], ref[2], ref[3]>> /\ ref[1] \in S /\ ref[2] \in S /\ ref[3] \in S
  OBVIOUS
<1>2. ASSUME NEW a \in S, NEW b \in S, NEW d \in S
      PROVE  <<a, b, d>> \in Seq(S) /\ Len(<<a, b, d>>) = 3
  OBVIOUS
<1>3. QED
  BY <1>1, <1>2

LEMMA RefsAre == \A ref \in Refs : Ref(ref)
BY TriplesAre DEF Refs, Ref

(* Pods, owners and the hops of a delivery stay within their limits, as do *)
(* the events, every reference is one to an object, and a collection has   *)
(* an outcome as soon as it is done: EvidenceTypeOK, for every cluster.    *)
THEOREM EvidenceIsTyped == Spec => []EvidenceTypeOK
<1>1. Init => TypedInv
  <2> SUFFICES ASSUME Init PROVE TypedInv
    OBVIOUS
  <2>1. World.last \in Nat /\ now = 0 /\ failures = 0 /\ MaxFailures \in Nat
    BY WorldsEnd, EvidenceBounds DEF Init, World
  <2>2. \A c \in DOMAIN collections : Typed(collections[c])
    BY FreshTyped DEF Init
  <2> HIDE DEF World
  <2>3. QED
    BY <2>1, <2>2 DEF TypedInv
<1>2. ASSUME TypedInv, EvidenceInv, [Next]_vars
      PROVE  TypedInv'
  <2>1. ASSUME NEW c \in DOMAIN collections, Step(c)
        PROVE  TypedInv'
    <3>1. /\ DOMAIN collections' = DOMAIN collections /\ UNCHANGED <<world, now>>
          /\ \A d \in DOMAIN collections : d # c => collections'[d] = collections[d]
      BY <2>1, StepIsOne DEF OnlyOf, Outside
    <3>2. Typed(collections'[c])
      BY <1>2, <2>1, StepTypes DEF EvidenceInv, TypedInv
    <3>3. \A d \in DOMAIN collections : Typed(collections'[d])
      BY <1>2, <3>1, <3>2 DEF TypedInv
    <3>4. failures' \in 0..MaxFailures
      BY <1>2, <2>1, FailuresCount DEF TypedInv
    <3>5. (now <= World.last)'
      BY <1>2, <3>1 DEF TypedInv, World, AllOf
    <3>6. QED
      BY <3>1, <3>3, <3>4, <3>5, TypedLater DEF TypedInv
  <2>2. CASE Change \/ Upgrade
    <3>1. Unsettled /\ UNCHANGED <<world, now, failures>>
      BY <2>2 DEF Change, Upgrade
    <3>2. DOMAIN collections' = DOMAIN collections
      BY <3>1 DEF Unsettled
    <3>3. ASSUME NEW d \in DOMAIN collections PROVE Typed(collections'[d])
      <4> DEFINE k == collections[d]
                 q == collections'[d]
      <4>1. Typed(k) /\ IsCollection(k)
        BY <1>2 DEF TypedInv, EvidenceInv, Sound
      <4>2. q = [k EXCEPT !.steady = FALSE]
        BY <3>1 DEF Unsettled
      <4> HIDE DEF k, q
      <4>3. /\ q.pods = k.pods /\ q.raw = k.raw /\ q.alert = k.alert /\ q.got = k.got
            /\ q.events = k.events /\ q.fluxEvents = k.fluxEvents /\ q.queried = k.queried
            /\ q.flux = k.flux /\ q.outcome = k.outcome /\ q.pc = k.pc
        BY <4>1, <4>2 DEF IsCollection, Fields
      <4>4. PodsTyped(q) /\ EventsTyped(q) /\ RefsTyped(q)
        BY <4>1, <4>3 DEF Typed, PodsTyped, EventsTyped, RefsTyped
      <4>5. RawTyped(q)
        BY <4>1, <4>3 DEF Typed, RawTyped, AlertNamespace
      <4>6. Typed(q)
        BY <4>1, <4>3, <4>4, <4>5 DEF Typed
      <4>7. QED
        BY <4>6 DEF q
    <3>4. (now <= World.last)'
      BY <1>2, <3>1 DEF TypedInv, World, AllOf
    <3>5. QED
      BY <1>2, <3>1, <3>2, <3>3, <3>4, TypedLater DEF TypedInv
  <2>3. CASE Tick \/ UNCHANGED vars
    <3>1. UNCHANGED <<world, failures, collections>>
      BY <2>3 DEF Tick, vars
    <3>2. now' <= World.last
      <4>1. now \in Nat /\ World.last \in Nat /\ now <= World.last
        BY <1>2, WorldsEnd DEF EvidenceInv, Clocks, World, TypedInv
      <4>2. now' = now \/ (now < World.last /\ now' = now + 1)
        BY <2>3 DEF Tick, vars
      <4> HIDE DEF World
      <4>3. QED
        BY <4>1, <4>2
    <3>3. (now <= World.last)'
      BY <3>1, <3>2 DEF World, AllOf
    <3>4. \A d \in DOMAIN collections : Typed(collections'[d])
      BY <1>2, <3>1 DEF TypedInv
    <3>5. QED
      BY <1>2, <3>1, <3>3, <3>4, TypedLater DEF TypedInv
  <2>4. QED
    BY <1>2, <2>1, <2>2, <2>3 DEF Next
<1>3. TypedInv /\ EvidenceInv => EvidenceTypeOK
  <2> SUFFICES ASSUME TypedInv, EvidenceInv PROVE EvidenceTypeOK
    OBVIOUS
  <2>1. world \in DOMAIN AllOf /\ FiniteCluster /\ Clocks
    BY DEF EvidenceInv
  <2>2. \A ref \in DOMAIN cluster.objects : Ref(ref)
    BY <2>1, RefsAre DEF FiniteCluster
  <2>3. now \in 0..World.last
    <3>1. now \in Nat /\ now <= World.last /\ World.last \in Nat
      BY <2>1, WorldsEnd DEF Clocks, World, TypedInv
    <3> HIDE DEF World
    <3>2. QED
      BY <3>1
  <2>4. ASSUME NEW c \in DOMAIN collections
        PROVE  LET k == collections[c]
               IN  /\ Len(k.pods) <= MaxPods /\ Len(k.flux) <= MaxHops + 1
                   /\ \A i \in DOMAIN k.pods : Len(k.pods[i].chain) <= MaxDepth
                   /\ Cardinality(k.events) <= MaxEvents
                   /\ Cardinality(k.fluxEvents) <= MaxEvents
                   /\ \A i \in DOMAIN k.queried : Ref(k.queried[i])
                   /\ \A i \in DOMAIN k.flux : Ref(k.flux[i].ref)
                   /\ k.outcome \in {Nobody, "skipped", "dropped", "proceeds"}
                   /\ (k.pc = "done") = (k.outcome # Nobody)
    <3> DEFINE k == collections[c]
    <3>1. Typed(k)
      BY DEF TypedInv
    <3> HIDE DEF k, Ref
    <3>2. /\ Len(k.pods) <= MaxPods
          /\ \A i \in DOMAIN k.pods : Len(k.pods[i].chain) <= MaxDepth
      BY <3>1 DEF Typed, PodsTyped
    <3>3. Cardinality(k.events) <= MaxEvents /\ Cardinality(k.fluxEvents) <= MaxEvents
      BY <3>1 DEF Typed, EventsTyped
    <3>4. /\ \A i \in DOMAIN k.queried : k.queried[i] \in Refs
          /\ \A i \in DOMAIN k.flux : k.flux[i].ref \in Refs
          /\ Len(k.flux) <= MaxHops + 1
      BY <3>1 DEF Typed, RefsTyped
    <3> HIDE DEF Refs
    <3>5. /\ \A i \in DOMAIN k.queried : Ref(k.queried[i])
          /\ \A i \in DOMAIN k.flux : Ref(k.flux[i].ref)
      BY <3>4, RefsAre
    <3>6. k.outcome \in {Nobody, "skipped", "dropped", "proceeds"}
      BY <3>1 DEF Typed, Outcomes
    <3>7. (k.pc = "done") = (k.outcome # Nobody)
      BY <3>1 DEF Typed
    <3>8. QED
      BY <3>2, <3>3, <3>4, <3>5, <3>6, <3>7 DEF k
  <2>5. QED
    BY <2>1, <2>2, <2>3, <2>4 DEF EvidenceTypeOK, Clocks, TypedInv
<1>4. QED
  BY <1>1, <1>2, <1>3, EvidenceInvariant, PTL DEF Spec
=============================================================================

------------------------------- MODULE Services -------------------------------
(***************************************************************************)
(* The registry of the monitored services, src/services_registry.py: what  *)
(* becomes of each block of services.yaml that is missing or malformed.    *)
(*                                                                         *)
(* A block of the file is a record whose `form` says whether it is absent, *)
(* not of the expected shape ("malformed") or a "mapping", in which case   *)
(* its other fields hold its keys.  A path is a sequence of components.    *)
(***************************************************************************)
EXTENDS Naturals, SequencesExt

None == "none"
NoFile == <<>>

(* _opt_str: a blank scalar, or a list where a scalar belongs, is nothing. *)
OptStr(value) == IF value \in {"", "[]"} THEN None ELSE value

-----------------------------------------------------------------------------
DeliveryModes == {"git-manifest", "oci-chart", "image-build"}

(* Modes where a merged change of the source does not reach the cluster.   *)
IndirectModes == {"oci-chart", "image-build"}

(* A reference with nothing in it is the same as no reference.             *)
NoRef == [repo |-> None, path |-> NoFile, key |-> None]

ParseVersionRef(raw) ==
    IF raw.form # "mapping" THEN NoRef
    ELSE [repo |-> OptStr(raw.repo), path |-> raw.path, key |-> OptStr(raw.key)]

(* A delivery block that cannot be read constrains nothing, and its        *)
(* service stays.                                                          *)
NoDelivery == [mode |-> None, ref |-> NoRef]

ParseDelivery(raw) ==
    IF raw.form # "mapping" THEN NoDelivery
    ELSE IF OptStr(raw.mode) \notin DeliveryModes THEN NoDelivery
    ELSE [mode |-> raw.mode, ref |-> ParseVersionRef(raw.ref)]

IsIndirect(delivery) == delivery.mode \in IndirectModes

(* Layers, outermost first; those without a name are dropped.              *)
ParseChartLineage(raw) ==
    IF raw.form # "list" THEN <<>>
    ELSE LET named == SelectSeq(raw.layers, LAMBDA layer :
                          layer.form = "mapping" /\ OptStr(layer.name) # None)
         IN  [i \in DOMAIN named |-> [name |-> named[i].name,
                                      visible |-> named[i].visible]]

-----------------------------------------------------------------------------
IsUsable(entry) ==
    /\ entry.form = "mapping"
    /\ entry.codebase # ""
    /\ entry.repo # ""

ParseService(entry) ==
    [codebase |-> entry.codebase, repo |-> entry.repo,
     delivery |-> ParseDelivery(entry.delivery),
     lineage |-> ParseChartLineage(entry.lineage)]

(* The services of a file.  A file that is missing, is not YAML or is not  *)
(* a mapping gives an empty registry, not an error.                        *)
Registry(file) ==
    IF file.form # "mapping" THEN [name \in {} |-> NoDelivery]
    ELSE [name \in {n \in DOMAIN file.entries : IsUsable(file.entries[n])}
             |-> ParseService(file.entries[name])]
=============================================================================

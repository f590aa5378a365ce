------------------------------ MODULE Redaction ------------------------------
(***************************************************************************)
(* What leaves an API object of Kubernetes on its way to a prompt:         *)
(* redact_pod_spec and redact_object of src/integrations/                  *)
(* kubernetes_client.py.                                                   *)
(*                                                                         *)
(* A node of an object is a map (keys to nodes), a list of nodes or a      *)
(* leaf.  The operators are recursive, and checked by TLC only.            *)
(***************************************************************************)
EXTENDS Sequences

CONSTANT Specs    \* name of a pod spec -> the spec

Map(of) == [kind |-> "map", of |-> of]
List(of) == [kind |-> "list", of |-> of]
Leaf(value) == [kind |-> "leaf", of |-> value]

Redacted == Leaf("[redacted]")

ContainerLists == {"containers", "initContainers", "ephemeralContainers"}
ArgvKeys == {"command", "args"}

(* A node of that kind with each of its parts replaced.                    *)
Each(node, New(_)) == [node EXCEPT !.of = [k \in DOMAIN node.of |-> New(k)]]

Hidden(node) == Each(node, LAMBDA k : Redacted)

(* An entry of a list of names and values keeps its name.                  *)
WithoutValues(list) ==
    Each(list, LAMBDA i :
        IF list.of[i].kind = "map" /\ "value" \in DOMAIN list.of[i].of
        THEN [list.of[i] EXCEPT !.of["value"] = Redacted] ELSE list.of[i])

-----------------------------------------------------------------------------
(* _redact_inline_values: arguments and headers, wherever they are in a    *)
(* container.                                                              *)
RECURSIVE RedactInlineValues(_)
RedactInlineValues(node) ==
    CASE node.kind = "leaf" -> node
      [] node.kind = "list" -> Each(node, LAMBDA i : RedactInlineValues(node.of[i]))
      [] node.kind = "map" ->
            Each(node, LAMBDA key :
                LET value == node.of[key]
                IN  CASE key \in ArgvKeys /\ value.kind = "list" -> Hidden(value)
                      [] key = "httpHeaders" /\ value.kind = "list" -> WithoutValues(value)
                      [] key = "env" -> value
                      [] OTHER -> RedactInlineValues(value))

RedactEnv(container) ==
    IF "env" \in DOMAIN container.of /\ container.of["env"].kind = "list"
    THEN [container EXCEPT !.of["env"] = WithoutValues(@)] ELSE container

(* redact_object: data of maps and the copy of the object in an annotation.*)
RECURSIVE RedactObject(_)
RedactObject(node) ==
    CASE node.kind = "leaf" -> node
      [] node.kind = "list" -> Each(node, LAMBDA i : RedactObject(node.of[i]))
      [] node.kind = "map" ->
            Each(node, LAMBDA key :
                LET value == node.of[key]
                IN  CASE key \in {"data", "stringData"} /\ value.kind = "map" ->
                            Hidden(value)
                      [] key = "annotations" /\ value.kind = "map" ->
                            Each(value, LAMBDA name :
                                IF name = "last-applied" THEN Redacted
                                ELSE value.of[name])
                      [] OTHER -> RedactObject(value))

RedactContainer(node) ==
    IF node.kind = "map" THEN RedactInlineValues(RedactEnv(node)) ELSE node

(* Mutant of RedactPodSpec: only the containers that run on are known.     *)
RedactPodSpecMainOnly(spec) ==
    RedactObject(Each(spec, LAMBDA key :
        LET value == spec.of[key]
        IN  IF key = "containers" /\ value.kind = "list"
            THEN Each(value, LAMBDA i : RedactContainer(value.of[i])) ELSE value))

RedactPodSpec(spec) ==
    RedactObject(Each(spec, LAMBDA key :
        LET value == spec.of[key]
        IN  IF key \in ContainerLists /\ value.kind = "list"
            THEN Each(value, LAMBDA i : RedactContainer(value.of[i])) ELSE value))

-----------------------------------------------------------------------------
(* What may be read in an object.                                          *)
RECURSIVE Leaves(_)
Leaves(node) ==
    IF node.kind = "leaf" THEN {node.of}
    ELSE UNION {Leaves(node.of[k]) : k \in DOMAIN node.of}

KeptOfSpecs == [name \in DOMAIN Specs |-> Leaves(RedactPodSpec(Specs[name]))]
AllOfSpecs == [name \in DOMAIN Specs |-> Leaves(Specs[name])]
=============================================================================

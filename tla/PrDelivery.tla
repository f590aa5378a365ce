------------------------------ MODULE PrDelivery ------------------------------
(***************************************************************************)
(* What opening a pull request promises to the rest of the agent: module   *)
(* Pipeline takes it for one step, which offers a finished change or none. *)
(*                                                                         *)
(* `offered` is, for every attempt that has a pull request, the tree that  *)
(* its reviewers see.                                                      *)
(***************************************************************************)
EXTENDS Naturals

CONSTANT Attempts

VARIABLES outcome, offered

Init ==
    /\ outcome = [a \in Attempts |-> "working"]
    /\ offered = [a \in {} |-> 0]

Offers(a, tree) ==
    /\ a \notin DOMAIN offered
    /\ offered' = [b \in DOMAIN offered \cup {a} |->
                      IF b = a THEN tree ELSE offered[b]]

(* All at once: the change is complete when it is offered, and stays.      *)
Open(a) ==
    /\ outcome[a] = "working"
    /\ a \in DOMAIN offered' /\ Offers(a, offered'[a])
    /\ outcome' \in {[outcome EXCEPT ![a] = "opened"],
                     [outcome EXCEPT ![a] = "errored"]}

(* An error may hide a pull request that was opened, a refusal may not.    *)
GiveUp(a) ==
    /\ outcome[a] = "working" /\ a \notin DOMAIN offered
    /\ outcome' \in {[outcome EXCEPT ![a] = o] :
                        o \in {"skipped", "refused", "errored"}}
    /\ UNCHANGED offered

(* Whoever was at work is not any more.                                    *)
Crash ==
    /\ \E killed \in SUBSET {a \in Attempts : outcome[a] = "working"} :
          outcome' = [a \in Attempts |->
                         IF a \in killed THEN "killed" ELSE outcome[a]]
    /\ UNCHANGED offered

Next == Crash \/ \E a \in Attempts : Open(a) \/ GiveUp(a)

Spec == Init /\ [][Next]_<<outcome, offered>>
=============================================================================

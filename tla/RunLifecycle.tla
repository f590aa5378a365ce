---------------------------- MODULE RunLifecycle ----------------------------
(***************************************************************************)
(* What the agent promises of the run table, with no pipeline in sight.    *)
(*                                                                         *)
(* A run advances along the phases and never goes back, except that an     *)
(* operator takes a parked run up again; a settled run stays as it is; and *)
(* the table takes a new run of an alert only when no run of that alert is *)
(* under way or waiting (main.py: "if there's already an open Run (queued  *)
(* or in-flight) for the same dedup_key, skip creating another row").      *)
(***************************************************************************)
CONSTANTS
    Runs,  \* the ids that the table may give
    Keys   \* the dedup keys

VARIABLES
    status,  \* a function from the runs in the table to their status
    key      \* the same runs' dedup keys

vars == <<status, key>>

Settled == {"done", "skipped", "failed"}

Follows(s) ==
    CASE s = "pending"       -> {"queued", "triaging", "collecting", "skipped", "failed"}
      [] s = "queued"        -> {"pending"}
      [] s = "triaging"      -> {"collecting", "skipped", "failed"}
      [] s = "collecting"    -> {"investigating", "generating", "skipped", "failed"}
      [] s = "investigating" -> {"generating", "failed"}
      [] s = "generating"    -> {"posting", "failed"}
      [] s = "posting"       -> {"done", "failed"}
      [] s \in Settled       -> {}

Init ==
    /\ status = [r \in {} |-> "pending"]
    /\ key = [r \in {} |-> "none"]

Admit(r, k) ==
    /\ r \notin DOMAIN status
    /\ \A q \in DOMAIN status : key[q] = k => status[q] \in Settled
    /\ status' = [q \in DOMAIN status \cup {r} |->
                     IF q = r THEN "pending" ELSE status[q]]
    /\ key' = [q \in DOMAIN status \cup {r} |-> IF q = r THEN k ELSE key[q]]

Move(r) ==
    /\ \E s \in Follows(status[r]) : status' = [status EXCEPT ![r] = s]
    /\ UNCHANGED key

Forget(kept) ==
    /\ status' = [r \in kept |-> status[r]]
    /\ key' = [r \in kept |-> key[r]]

Next ==
    \/ \E r \in Runs, k \in Keys : Admit(r, k)
    \/ \E r \in DOMAIN status : Move(r)
    \/ \E kept \in SUBSET DOMAIN status : Forget(kept)

Spec == Init /\ [][Next]_vars
=============================================================================

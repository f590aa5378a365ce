-------------------------------- MODULE Schema --------------------------------
(***************************************************************************)
(* The schema of the shared database (init_schema of src/db/engine.py and  *)
(* the revisions of alembic/versions): the processes that connect to it    *)
(* start in any order, at once, and again after a crash.                   *)
(*                                                                         *)
(* The schema is the set of the revisions whose columns and tables are     *)
(* there; 0 stands for the tables that were there before the first one.    *)
(* Transactions are those of PostgreSQL: of two that create one thing, the *)
(* later one fails, and a failed one leaves nothing behind.                *)
(***************************************************************************)
EXTENDS Integers

CONSTANTS
    Processes,  \* processes that connect to the database
    Migrating,  \* those that own migrations: the agent and the evaluation
    Lasting,    \* those that are started again: the agent and the dashboard
    Newest,     \* the newest revision of any release
    OwnTable,   \* revisions that create a table of their own
    MaxCrashes  \* bound of the model

ASSUME SchemaAssumption ==
    /\ Migrating \subseteq Processes
    /\ Lasting \subseteq Processes
    /\ Newest \in Nat \ {0}
    /\ OwnTable \subseteq 1..Newest
    /\ MaxCrashes \in Nat

VARIABLES
    columns,  \* revisions whose effect is in the database
    version,  \* alembic_version, or Unversioned
    image,    \* process -> the newest revision that it knows
    pc,       \* process -> where its start has got to
    saw,      \* process -> the schema that its transaction has seen
    seen,     \* process -> the version that its transaction has seen
    crashes   \* crashes so far

schemaVars == <<columns, version, image, pc, saw, seen, crashes>>

Unversioned == 0
Revisions == 1..Newest

Labels == {"down", "detect", "tables", "create", "stamp", "version", "upgrade", "up"}

SchemaTypeOK ==
    /\ columns \subseteq 0..Newest
    /\ version \in 0..Newest
    /\ image \in [Processes -> Revisions]
    /\ pc \in [Processes -> Labels]
    /\ saw \in [Processes -> SUBSET (0..Newest)]
    /\ seen \in [Processes -> 0..Newest]
    /\ crashes \in 0..MaxCrashes

(* A database is new, from the time before revisions, or at some version.  *)
(* All processes of a new one come from one release.                       *)
SchemaInit ==
    /\ version \in 0..Newest
    /\ columns \in IF version = Unversioned THEN {{}, {0}} ELSE {0..version}
    /\ image \in [Processes -> Revisions]
    /\ version = Unversioned => \A p, q \in Processes : image[p] = image[q]
    /\ pc = [p \in Processes |-> "down"]
    /\ saw = [p \in Processes |-> {}]
    /\ seen = [p \in Processes |-> Unversioned]
    /\ crashes = 0

-----------------------------------------------------------------------------
Starting(p, label) == pc[p] = label
Moves(p, label) == pc' = [pc EXCEPT ![p] = label]
NoChange == UNCHANGED <<columns, version, image, crashes>>

HasTables(schema) == 0 \in schema

(* Mutant of Route: a database without a version is a new one.             *)
RouteLegacyAsNew(p) ==
    IF version # Unversioned THEN "version" ELSE "tables"

(* The three cases of a process that migrates, and those of the dashboard. *)
Route(p) ==
    IF p \in Migrating
    THEN IF version # Unversioned \/ HasTables(columns) THEN "version" ELSE "tables"
    ELSE IF HasTables(columns) THEN "up" ELSE "tables"

Start(p) ==
    /\ Starting(p, "down") /\ Moves(p, "detect")
    /\ UNCHANGED <<saw, seen>> /\ NoChange

Detect(p) ==
    /\ Starting(p, "detect") /\ Moves(p, Route(p))
    /\ UNCHANGED <<saw, seen>> /\ NoChange

(* create_all looks for each table and then creates those that are missing;*)
(* it adds nothing to a table that is there.                               *)
ReadTables(p) ==
    /\ Starting(p, "tables") /\ Moves(p, "create")
    /\ saw' = [saw EXCEPT ![p] = columns]
    /\ UNCHANGED seen /\ NoChange

Missing(p) ==
    IF HasTables(saw[p]) THEN (OwnTable \cap 1..image[p]) \ saw[p] ELSE 0..image[p]

CreateAll(p) ==
    /\ Starting(p, "create")
    /\ IF Missing(p) \cap columns = {}
       THEN /\ columns' = columns \cup Missing(p)
            /\ Moves(p, IF p \in Migrating THEN "stamp" ELSE "up")
       ELSE UNCHANGED columns /\ Moves(p, "down")
    /\ UNCHANGED <<version, image, saw, seen, crashes>>

(* A version that the image does not know is an error.                     *)
Stamp(p) ==
    /\ Starting(p, "stamp")
    /\ IF version <= image[p]
       THEN version' = image[p] /\ Moves(p, "up")
       ELSE UNCHANGED version /\ Moves(p, "down")
    /\ UNCHANGED <<columns, image, saw, seen, crashes>>

ReadVersion(p) ==
    /\ Starting(p, "version")
    /\ Moves(p, IF version <= image[p] THEN "upgrade" ELSE "down")
    /\ saw' = [saw EXCEPT ![p] = columns]
    /\ seen' = [seen EXCEPT ![p] = version]
    /\ NoChange

Pending(p) == (seen[p] + 1)..image[p]

(* Mutant of Applies: a revision adds what is there already.               *)
AppliesBlindly(p) == Pending(p)

(* Every revision looks for what it adds.                                  *)
Applies(p) == Pending(p) \ saw[p]

(* The pending revisions are one transaction.                              *)
Upgrade(p) ==
    /\ Starting(p, "upgrade")
    /\ IF Pending(p) = {} THEN UNCHANGED <<columns, version>> /\ Moves(p, "up")
       ELSE IF version = seen[p] /\ Applies(p) \cap columns = {}
       THEN /\ columns' = columns \cup Applies(p)
            /\ version' = image[p]
            /\ Moves(p, "up")
       ELSE UNCHANGED <<columns, version>> /\ Moves(p, "down")
    /\ UNCHANGED <<image, saw, seen, crashes>>

Crash(p) ==
    /\ ~Starting(p, "down") /\ crashes < MaxCrashes
    /\ Moves(p, "down")
    /\ crashes' = crashes + 1
    /\ UNCHANGED <<columns, version, image, saw, seen>>

(* A release reaches a process, and never one with fewer revisions, once   *)
(* the database has a version.                                             *)
Deploy(p, revision) ==
    /\ version # Unversioned /\ revision > image[p]
    /\ image' = [image EXCEPT ![p] = revision]
    /\ Moves(p, "detect")
    /\ UNCHANGED <<columns, version, saw, seen, crashes>>

-----------------------------------------------------------------------------
Boot(p) ==
    \/ Detect(p) \/ ReadTables(p) \/ CreateAll(p) \/ Stamp(p)
    \/ ReadVersion(p) \/ Upgrade(p)

SchemaNext ==
    \E p \in Processes :
        \/ Start(p) \/ Boot(p) \/ Crash(p)
        \/ \E revision \in Revisions : Deploy(p, revision)

SchemaSpec == SchemaInit /\ [][SchemaNext]_schemaVars

-----------------------------------------------------------------------------
(* The version never promises a revision that is not there, whoever starts *)
(* first or dies halfway (src/db/engine.py:3-16): nothing would ever add   *)
(* it.                                                                     *)
VersionIsTrue == version # Unversioned => 0..version \subseteq columns

(* A process that owns migrations serves only on a schema with everything  *)
(* that its models have.                                                   *)
UpMeansMigrated ==
    \A p \in Migrating : Starting(p, "up") => 0..image[p] \subseteq columns
=============================================================================

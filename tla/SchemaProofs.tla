------------------------------ MODULE SchemaProofs ------------------------------
(***************************************************************************)
(* Proofs about the schema of the shared database.  What makes the version *)
(* true is that a database without tables is empty and has no version, so  *)
(* that whoever creates the tables creates those of the one release there  *)
(* is, and that nobody who migrates stamps a database that had tables.     *)
(***************************************************************************)
EXTENDS Schema, TLAPS

Has(p, schema) == 0..image[p] \subseteq schema

(* What a process may rely on, where its start has got to.                 *)
ProcessInv(p) ==
    /\ saw[p] \subseteq columns
    /\ pc[p] \in {"tables", "create", "stamp"} /\ HasTables(columns) => Has(p, columns)
    /\ pc[p] \in {"stamp", "version", "upgrade"} => HasTables(columns)
    /\ pc[p] = "upgrade" => seen[p] <= image[p] /\ 0..seen[p] \subseteq columns
    /\ pc[p] = "up" /\ p \in Migrating => Has(p, columns)

OneRelease == version = Unversioned => \A p, q \in Processes : image[p] = image[q]

SchemaInv ==
    /\ SchemaTypeOK
    /\ VersionIsTrue
    /\ ~HasTables(columns) => columns = {}
    /\ OneRelease
    /\ \A p \in Processes : ProcessInv(p)

-----------------------------------------------------------------------------
LEMMA InitSchemaInv == SchemaInit => SchemaInv
<1> SUFFICES ASSUME SchemaInit PROVE SchemaInv
  OBVIOUS
<1>1. version \in 0..Newest /\ Newest \in Nat /\ Newest # 0
  BY SchemaAssumption DEF SchemaInit
<1>2. columns \subseteq 0..Newest
  BY <1>1 DEF SchemaInit, Unversioned
<1>3. SchemaTypeOK
  BY <1>1, <1>2, SchemaAssumption
     DEF SchemaInit, SchemaTypeOK, Labels, Unversioned, Revisions
<1>4. VersionIsTrue /\ (~HasTables(columns) => columns = {}) /\ OneRelease
  BY <1>1 DEF SchemaInit, VersionIsTrue, HasTables, OneRelease, Unversioned
<1>5. \A p \in Processes : ProcessInv(p)
  BY DEF SchemaInit, ProcessInv
<1> QED
  BY <1>3, <1>4, <1>5 DEF SchemaInv

(* Every step keeps the types.                                             *)
LEMMA NextTypes ==
    ASSUME SchemaTypeOK, [SchemaNext]_schemaVars PROVE SchemaTypeOK'
<1>1. Newest \in Nat \ {0} /\ OwnTable \subseteq 1..Newest /\ MaxCrashes \in Nat
  BY SchemaAssumption
<1>2. CASE UNCHANGED schemaVars
  BY <1>2 DEF schemaVars, SchemaTypeOK
<1>3. ASSUME NEW p \in Processes, Start(p) \/ Detect(p) \/ ReadTables(p) \/ ReadVersion(p)
      PROVE  SchemaTypeOK'
  BY <1>3 DEF Start, Detect, ReadTables, ReadVersion, SchemaTypeOK, Moves, NoChange,
              Labels, Route
<1>4. ASSUME NEW p \in Processes, CreateAll(p) PROVE SchemaTypeOK'
  <2>1. image[p] \in 1..Newest
    BY DEF SchemaTypeOK, Revisions
  <2>2. Missing(p) \subseteq 0..Newest
    BY <1>1, <2>1 DEF Missing
  <2> QED
    BY <1>4, <2>2 DEF CreateAll, SchemaTypeOK, Moves, Labels
<1>5. ASSUME NEW p \in Processes, Stamp(p) PROVE SchemaTypeOK'
  BY <1>1, <1>5 DEF Stamp, SchemaTypeOK, Moves, Labels, Revisions
<1>6. ASSUME NEW p \in Processes, Upgrade(p) PROVE SchemaTypeOK'
  <2>1. image[p] \in 1..Newest /\ seen[p] \in 0..Newest
    BY DEF SchemaTypeOK, Revisions
  <2>2. Applies(p) \subseteq 0..Newest
    BY <1>1, <2>1 DEF Applies, Pending
  <2>3. columns' \subseteq 0..Newest /\ version' \in 0..Newest
    <3>1. columns' \in {columns, columns \cup Applies(p)} /\ version' \in {version, image[p]}
      BY <1>6 DEF Upgrade
    <3>2. image[p] \in 0..Newest
      BY <1>1, <2>1
    <3> QED
      BY <2>2, <3>1, <3>2 DEF SchemaTypeOK
  <2>4. pc' \in [Processes -> Labels] /\ UNCHANGED <<image, saw, seen, crashes>>
    BY <1>6 DEF Upgrade, SchemaTypeOK, Moves, Labels
  <2> QED
    BY <2>3, <2>4 DEF SchemaTypeOK
<1>7. ASSUME NEW p \in Processes, Crash(p) PROVE SchemaTypeOK'
  BY <1>1, <1>7 DEF Crash, SchemaTypeOK, Moves, Labels
<1>8. ASSUME NEW p \in Processes, NEW revision \in Revisions, Deploy(p, revision)
      PROVE  SchemaTypeOK'
  BY <1>8 DEF Deploy, SchemaTypeOK, Moves, Labels
<1> QED
  BY <1>2, <1>3, <1>4, <1>5, <1>6, <1>7, <1>8 DEF SchemaNext, Boot

-----------------------------------------------------------------------------
(* What a process relies on survives a step of another one that only adds  *)
(* to the schema, and that adds the first tables with all that goes with   *)
(* them.                                                                   *)
LEMMA OthersKeep ==
    ASSUME NEW q \in Processes, ProcessInv(q),
           pc'[q] = pc[q], saw'[q] = saw[q], seen'[q] = seen[q], image'[q] = image[q],
           columns \subseteq columns',
           HasTables(columns') => HasTables(columns) \/ Has(q, columns')
    PROVE  ProcessInv(q)'
BY DEF ProcessInv, Has, HasTables

(* A step that leaves schema, version and images alone.                    *)
LEMMA QuietStepKeeps ==
    ASSUME SchemaInv, NEW p \in Processes,
           Start(p) \/ Detect(p) \/ ReadTables(p) \/ ReadVersion(p) \/ Crash(p)
    PROVE  SchemaInv'
<1>1. SchemaTypeOK'
  BY NextTypes DEF SchemaInv, SchemaNext, Boot
<1>2. UNCHANGED <<columns, version, image>>
  BY DEF Start, Detect, ReadTables, ReadVersion, Crash, NoChange
<1>3. \A q \in Processes : q # p =>
         pc'[q] = pc[q] /\ saw'[q] = saw[q] /\ seen'[q] = seen[q]
  BY DEF Start, Detect, ReadTables, ReadVersion, Crash, SchemaInv, SchemaTypeOK, Moves
<1>4. ProcessInv(p)'
  <2>0. ProcessInv(p) /\ version \in Nat /\ image[p] \in Nat
    BY SchemaAssumption DEF SchemaInv, SchemaTypeOK, Revisions
  <2>1. CASE Start(p) \/ Crash(p)
    BY <1>2, <2>0, <2>1 DEF Start, Crash, Moves, SchemaInv, SchemaTypeOK, ProcessInv
  <2>2. CASE Detect(p)
    <3>1. pc'[p] = Route(p) /\ saw'[p] = saw[p] /\ seen'[p] = seen[p]
      BY <2>2 DEF Detect, Moves, SchemaInv, SchemaTypeOK
    <3>2. version # Unversioned => HasTables(columns)
      BY <2>0 DEF SchemaInv, VersionIsTrue, HasTables, Unversioned
    <3> QED
      BY <1>2, <2>0, <3>1, <3>2 DEF ProcessInv, Route
  <2>3. CASE ReadTables(p)
    BY <1>2, <2>0, <2>3 DEF ReadTables, Starting, Moves, SchemaInv, SchemaTypeOK,
                            ProcessInv, Has
  <2>4. CASE ReadVersion(p)
    <3>1. /\ pc'[p] = IF version <= image[p] THEN "upgrade" ELSE "down"
          /\ saw'[p] = columns /\ seen'[p] = version
          /\ HasTables(columns)
      BY <2>0, <2>4 DEF ReadVersion, Starting, Moves, SchemaInv, SchemaTypeOK, ProcessInv
    <3>2. 0..version \subseteq columns
      BY <2>0, <3>1 DEF SchemaInv, VersionIsTrue, HasTables, Unversioned
    <3> QED
      BY <1>2, <3>1, <3>2 DEF ProcessInv
  <2> QED
    BY <2>1, <2>2, <2>3, <2>4
<1>5. \A q \in Processes : ProcessInv(q)'
  BY <1>2, <1>3, <1>4, OthersKeep DEF SchemaInv
<1> QED
  BY <1>1, <1>2, <1>5 DEF SchemaInv, VersionIsTrue, OneRelease, HasTables

(* Creating the missing tables.                                            *)
LEMMA CreateAllKeeps ==
    ASSUME SchemaInv, NEW p \in Processes, CreateAll(p) PROVE SchemaInv'
<1>1. SchemaTypeOK'
  BY NextTypes DEF SchemaInv, SchemaNext, Boot
<1>2. /\ UNCHANGED <<version, image, saw, seen>>
      /\ \A q \in Processes : q # p => pc'[q] = pc[q]
      /\ ProcessInv(p) /\ saw[p] \subseteq columns /\ image[p] \in Nat
  BY SchemaAssumption
     DEF CreateAll, Moves, SchemaInv, SchemaTypeOK, ProcessInv, Revisions
<1>3. columns \subseteq columns'
  BY DEF CreateAll
<1>4. pc'[p] = "stamp" => HasTables(columns')
  BY <1>2 DEF CreateAll, Missing, HasTables, SchemaInv, SchemaTypeOK, Moves
<1>5. \A q \in Processes : HasTables(columns') => HasTables(columns) \/ Has(q, columns')
  <2> SUFFICES ASSUME NEW q \in Processes, HasTables(columns'), ~HasTables(columns)
               PROVE  Has(q, columns')
    OBVIOUS
  <2>1. ~HasTables(saw[p]) /\ columns' = columns \cup 0..image[p]
    BY <1>2 DEF CreateAll, Missing, HasTables
  <2>2. version = Unversioned
    BY DEF SchemaInv, SchemaTypeOK, VersionIsTrue, HasTables, Unversioned
  <2>3. image[q] = image[p]
    BY <2>2 DEF SchemaInv, OneRelease
  <2> QED
    BY <2>1, <2>3 DEF Has
<1>6. ProcessInv(p)'
  <2>1. pc[p] = "create" /\ pc'[p] \in {"stamp", "up", "down"}
        /\ (pc'[p] = "up" => p \notin Migrating)
    BY DEF CreateAll, Starting, Moves, SchemaInv, SchemaTypeOK
  <2>2. HasTables(columns') => Has(p, columns')
    BY <1>2, <1>3, <1>5, <2>1 DEF ProcessInv, Has
  <2> QED
    BY <1>2, <1>3, <1>4, <2>1, <2>2 DEF ProcessInv, Has
<1>7. \A q \in Processes : ProcessInv(q)'
  BY <1>2, <1>3, <1>5, <1>6, OthersKeep DEF SchemaInv
<1>8. ~HasTables(columns') => columns' = {}
  BY <1>2 DEF CreateAll, Missing, HasTables, SchemaInv
<1> QED
  BY <1>1, <1>2, <1>3, <1>7, <1>8 DEF SchemaInv, VersionIsTrue, OneRelease

(* Recording the version of a schema that has just been created.           *)
LEMMA StampKeeps ==
    ASSUME SchemaInv, NEW p \in Processes, Stamp(p) PROVE SchemaInv'
<1>1. SchemaTypeOK'
  BY NextTypes DEF SchemaInv, SchemaNext, Boot
<1>2. /\ UNCHANGED <<columns, image, saw, seen>>
      /\ \A q \in Processes : q # p => pc'[q] = pc[q]
      /\ pc[p] = "stamp" /\ pc'[p] \in {"up", "down"}
      /\ version' \in {version, image[p]}
      /\ image[p] # Unversioned
  BY DEF Stamp, Starting, Moves, SchemaInv, SchemaTypeOK, Revisions, Unversioned
<1>3. Has(p, columns)
  BY <1>2 DEF SchemaInv, ProcessInv
<1>4. VersionIsTrue' /\ OneRelease'
  BY <1>2, <1>3 DEF SchemaInv, VersionIsTrue, OneRelease, Has
<1>5. ProcessInv(p)'
  BY <1>2, <1>3 DEF SchemaInv, ProcessInv, Has
<1>6. \A q \in Processes : ProcessInv(q)'
  BY <1>2, <1>5, OthersKeep DEF SchemaInv
<1> QED
  BY <1>1, <1>2, <1>4, <1>6 DEF SchemaInv

(* Applying the pending revisions.                                         *)
LEMMA UpgradeKeeps ==
    ASSUME SchemaInv, NEW p \in Processes, Upgrade(p) PROVE SchemaInv'
<1>1. SchemaTypeOK'
  BY NextTypes DEF SchemaInv, SchemaNext, Boot
<1>2. /\ UNCHANGED <<image, saw, seen>>
      /\ \A q \in Processes : q # p => pc'[q] = pc[q]
      /\ pc[p] = "upgrade" /\ pc'[p] \in {"up", "down"}
      /\ image[p] \in Nat \ {0} /\ seen[p] \in Nat
  BY SchemaAssumption
     DEF Upgrade, Starting, Moves, SchemaInv, SchemaTypeOK, Revisions
<1>3. /\ saw[p] \subseteq columns /\ HasTables(columns)
      /\ seen[p] <= image[p] /\ 0..seen[p] \subseteq columns
  BY <1>2 DEF SchemaInv, ProcessInv
<1>4. columns \subseteq columns'
  BY DEF Upgrade
<1>5. CASE pc'[p] = "down"
  <2>1. UNCHANGED <<columns, version>>
    BY <1>5 DEF Upgrade, Moves, SchemaInv, SchemaTypeOK
  <2>2. ProcessInv(p)'
    BY <1>2, <1>3, <1>5, <2>1 DEF ProcessInv
  <2>3. \A q \in Processes : ProcessInv(q)'
    BY <1>2, <2>1, <2>2, OthersKeep DEF SchemaInv
  <2> QED
    BY <1>1, <1>2, <2>1, <2>3 DEF SchemaInv, VersionIsTrue, OneRelease
<1>6. CASE pc'[p] = "up"
  <2>1. \/ Pending(p) = {} /\ UNCHANGED <<columns, version>>
        \/ columns' = columns \cup Applies(p) /\ version' = image[p]
    BY <1>6 DEF Upgrade, Moves, SchemaInv, SchemaTypeOK
  <2>2. Has(p, columns')
    <3> SUFFICES ASSUME NEW r \in 0..image[p] PROVE r \in columns'
      BY DEF Has
    <3>1. CASE r <= seen[p]
      BY <1>2, <1>3, <1>4, <3>1
    <3>2. CASE r > seen[p]
      <4>1. r \in Pending(p)
        BY <1>2, <3>2 DEF Pending
      <4> QED
        BY <1>3, <2>1, <4>1 DEF Applies
    <3> QED
      BY <1>2, <3>1, <3>2
  <2>3. VersionIsTrue' /\ OneRelease'
    BY <1>2, <1>4, <2>1, <2>2 DEF SchemaInv, VersionIsTrue, OneRelease, Has, Unversioned
  <2>4. ProcessInv(p)'
    BY <1>2, <1>3, <1>4, <1>6, <2>2 DEF ProcessInv, Has
  <2>5. \A q \in Processes : ProcessInv(q)'
    BY <1>2, <1>3, <1>4, <2>4, OthersKeep DEF SchemaInv
  <2>6. HasTables(columns')
    BY <1>3, <1>4 DEF HasTables
  <2> QED
    BY <1>1, <2>3, <2>5, <2>6 DEF SchemaInv
<1> QED
  BY <1>2, <1>5, <1>6

(* A new release of one process.                                           *)
LEMMA DeployKeeps ==
    ASSUME SchemaInv, NEW p \in Processes, NEW revision \in Revisions, Deploy(p, revision)
    PROVE  SchemaInv'
<1>1. SchemaTypeOK'
  BY NextTypes DEF SchemaInv, SchemaNext
<1>2. /\ UNCHANGED <<columns, version, saw, seen>>
      /\ version # Unversioned /\ pc'[p] = "detect"
      /\ \A q \in Processes : q # p => pc'[q] = pc[q] /\ image'[q] = image[q]
  BY DEF Deploy, Moves, SchemaInv, SchemaTypeOK
<1>3. ProcessInv(p)'
  BY <1>2 DEF SchemaInv, ProcessInv
<1>4. \A q \in Processes : ProcessInv(q)'
  BY <1>2, <1>3, OthersKeep DEF SchemaInv
<1> QED
  BY <1>1, <1>2, <1>4 DEF SchemaInv, VersionIsTrue, OneRelease

LEMMA NextSchemaInv == SchemaInv /\ [SchemaNext]_schemaVars => SchemaInv'
<1> SUFFICES ASSUME SchemaInv, [SchemaNext]_schemaVars PROVE SchemaInv'
  OBVIOUS
<1>1. CASE UNCHANGED schemaVars
  BY <1>1 DEF schemaVars, SchemaInv, SchemaTypeOK, VersionIsTrue, HasTables, OneRelease,
              ProcessInv, Has
<1>2. CASE SchemaNext
  BY <1>2, QuietStepKeeps, CreateAllKeeps, StampKeeps, UpgradeKeeps, DeployKeeps
     DEF SchemaNext, Boot
<1> QED
  BY <1>1, <1>2

LEMMA SchemaInvHolds == SchemaSpec => []SchemaInv
BY InitSchemaInv, NextSchemaInv, PTL DEF SchemaSpec

LEMMA SchemaInvSuffices == SchemaInv => SchemaTypeOK /\ VersionIsTrue /\ UpMeansMigrated
<1>1. ASSUME SchemaInv, NEW p \in Processes, p \in Migrating, Starting(p, "up")
      PROVE  0..image[p] \subseteq columns
  <2>1. ProcessInv(p) /\ pc[p] = "up"
    BY <1>1 DEF SchemaInv, Starting
  <2> QED
    BY <1>1, <2>1 DEF ProcessInv, Has
<1> QED
  BY <1>1, SchemaAssumption DEF SchemaInv, UpMeansMigrated

(* Whatever processes there are, however many revisions, and in whatever   *)
(* order they start, die and are released, the version in the database     *)
(* promises nothing that is not there.                                     *)
THEOREM VersionsAreTrue == SchemaSpec => []VersionIsTrue
BY SchemaInvHolds, SchemaInvSuffices, PTL

(* ... and no process that owns migrations serves on a schema that lacks   *)
(* something of its own models.                                            *)
THEOREM ServingIsMigrated == SchemaSpec => []UpMeansMigrated
BY SchemaInvHolds, SchemaInvSuffices, PTL
=============================================================================

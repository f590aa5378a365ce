---------------------------- MODULE DeliveryProofs ----------------------------
(***************************************************************************)
(* Proofs about the way from a diagnosis to a pull request.  An attempt    *)
(* reads GitHub file by file while others push, and then writes file by    *)
(* file to a branch of its own.  What makes the result whole is that a     *)
(* branch has one writer, named by a second that no branch had before, and *)
(* that GitHub takes a file only from who has read what is there.          *)
(***************************************************************************)
EXTENDS DeliveryProperties, WellFoundedInduction, SequenceTheorems,
        FiniteSetTheorems, TLAPS

Fields == {"pc", "affected", "proposal", "hunks", "base", "fetched", "left",
           "branch"}

(* The variables have the form on which every step below rests.            *)
Shape ==
    /\ world \in DOMAIN Worlds
    /\ DOMAIN attempts = World.runs
    /\ \A a \in World.runs : DOMAIN attempts[a] = Fields
    /\ second \in Nat \ {0}

-----------------------------------------------------------------------------
(* What every step of an attempt does, field by field.                     *)

KeepsAllBut(a, changed) ==
    \A field \in Fields \ changed : attempts'[a][field] = attempts[a][field]

OnlyItself(a) ==
    /\ world' = world /\ main' = main
    /\ DOMAIN attempts' = DOMAIN attempts
    /\ DOMAIN attempts'[a] = Fields
    /\ \A b \in World.runs : b # a => attempts'[b] = attempts[b]

AllPassGates(a) ==
    \A file \in Touched(a) :
        PassesGates(file, AllowedPaths(Service, attempts[a].affected),
                    ChartRoots(World.clone))

(* Before it writes: it takes an answer, passes the gates, takes a base,   *)
(* or keeps what a file became.                                            *)
Prepares(a) ==
    /\ UNCHANGED <<branches, pulls>>
    /\ \/ /\ At(a, "investigate") /\ attempts'[a].pc = "synthesize"
          /\ KeepsAllBut(a, {"pc", "affected"})
          /\ \E bullets \in World.answers :
                attempts'[a].affected =
                    ParseAffectedFiles(bullets, ValidPaths(World.clone))
       \/ /\ At(a, "synthesize") /\ attempts'[a].pc \in {"skipped", "gates"}
          /\ KeepsAllBut(a, {"pc", "proposal", "hunks"})
          /\ \E i \in DOMAIN World.proposals :
                /\ attempts'[a].proposal = i
                /\ attempts'[a].hunks = ParseFilePatches(World.proposals[i].diff)
       \/ /\ At(a, "gates") /\ attempts'[a].pc = "base"
          /\ KeepsAllBut(a, {"pc"})
          /\ AllPassGates(a)
       \/ /\ At(a, "base") /\ attempts'[a].pc = "fetch"
          /\ KeepsAllBut(a, {"pc", "base", "left"})
          /\ attempts'[a].left = Touched(a) /\ attempts'[a].base = main

Fetches(a) ==
    /\ UNCHANGED <<branches, pulls>>
    /\ At(a, "fetch") /\ KeepsAllBut(a, {"pc", "fetched", "left"})
    /\ \E file \in attempts[a].left :
          LET text == main[Normalized(file)]
          IN  /\ Normalized(file) \in DOMAIN main
              /\ attempts'[a].fetched =
                     Put(attempts[a].fetched, file,
                         [old |-> text,
                          new |-> ApplyPatch(text, Hunks(a)[file]).text])
              /\ attempts'[a].left = attempts[a].left \ {file}
    /\ \/ attempts'[a].pc = "fetch" \/ attempts'[a].pc = "refused"
       \/ /\ attempts'[a].pc = "branch" /\ attempts'[a].left = {}
          /\ Valid(attempts'[a].fetched)

(* The writes.  A lost answer leaves the attempt with an error and its     *)
(* notes as they were.                                                     *)
Branches(a) ==
    /\ At(a, "branch") /\ NameIsFree
    /\ branches' = Put(branches, second, attempts[a].base) /\ pulls' = pulls
    /\ \/ attempts'[a].pc = "errored" /\ KeepsAllBut(a, {"pc"})
       \/ /\ attempts'[a].pc = "commit"
          /\ KeepsAllBut(a, {"pc", "branch", "left"})
          /\ attempts'[a].branch = second
          /\ attempts'[a].left = Touched(a)

Commits(a) ==
    /\ At(a, "commit") /\ pulls' = pulls
    /\ \E file \in attempts[a].left :
          /\ IsUnchanged(a, file)
          /\ branches' = [branches EXCEPT ![attempts[a].branch][Normalized(file)] =
                              attempts[a].fetched[file].new]
          /\ \/ attempts'[a].pc = "errored" /\ KeepsAllBut(a, {"pc"})
             \/ /\ KeepsAllBut(a, {"pc", "left"})
                /\ attempts'[a].left = attempts[a].left \ {file}
                /\ \/ attempts'[a].pc = "commit"
                   \/ attempts'[a].pc = "pull" /\ attempts'[a].left = {}

Offers(a) ==
    /\ At(a, "pull") /\ branches' = branches
    /\ pulls' = Put(pulls, a, attempts[a].branch)
    /\ attempts'[a].pc \in {"opened", "errored"} /\ KeepsAllBut(a, {"pc"})

GivesUp(a) ==
    /\ UNCHANGED <<branches, pulls>>
    /\ attempts[a].pc \notin Outcomes
    /\ attempts'[a].pc \in {"refused", "errored"} /\ KeepsAllBut(a, {"pc"})

Moves(a) ==
    /\ OnlyItself(a) /\ second' = second
    /\ \/ Prepares(a) \/ Fetches(a) \/ Branches(a) \/ Commits(a)
       \/ Offers(a) \/ GivesUp(a)

(* The clock, other people's pushes and a crash, which only ends attempts. *)
Elapses ==
    /\ UNCHANGED <<world, branches, pulls>>
    /\ main' \in {main} \cup World.pushes
    /\ \/ second' = second
       \/ second < MaxSecond /\ second' = second + 1
    /\ DOMAIN attempts' = DOMAIN attempts
    /\ \A a \in World.runs :
          /\ DOMAIN attempts'[a] = Fields
          /\ KeepsAllBut(a, {"pc"})
          /\ \/ attempts'[a].pc = attempts[a].pc
             \/ attempts'[a].pc = "killed" /\ attempts[a].pc \notin Outcomes

LEMMA EndKeeps ==
    ASSUME Shape, NEW a \in World.runs, NEW outcome, End(a, outcome),
           world' = world, main' = main
    PROVE  /\ OnlyItself(a) /\ KeepsAllBut(a, {"pc"})
           /\ attempts'[a].pc = outcome
BY DEF Shape, End, OnlyItself, KeepsAllBut, Fields

(* Every action of an attempt is one of these moves.                       *)
LEMMA StepMoves ==
    ASSUME Shape, NEW a \in World.runs,
           Step(a) \/ RequestFails(a) \/ LosesReply(a)
    PROVE  Moves(a)
<1> USE DEF Moves, NoRequest, Here
<1>1. CASE Investigate(a)
  <2>1. PICK bullets \in World.answers :
            attempts' = [attempts EXCEPT ![a] =
                [attempts[a] EXCEPT !.pc = "synthesize",
                        !.affected = ParseAffectedFiles(
                                         bullets, ValidPaths(World.clone))]]
    BY <1>1 DEF Investigate
  <2>2. /\ OnlyItself(a) /\ attempts'[a].pc = "synthesize"
        /\ KeepsAllBut(a, {"pc", "affected"})
        /\ attempts'[a].affected =
              ParseAffectedFiles(bullets, ValidPaths(World.clone))
    BY <1>1, <2>1 DEF Investigate, Shape, OnlyItself, KeepsAllBut, Fields
  <2> QED
    BY <1>1, <2>1, <2>2 DEF Investigate, Prepares
<1>2. CASE Synthesize(a)
  <2>1. PICK i \in DOMAIN World.proposals, pc \in {"skipped", "gates"} :
            attempts' = [attempts EXCEPT ![a] =
                [attempts[a] EXCEPT !.proposal = i,
                        !.hunks = ParseFilePatches(World.proposals[i].diff),
                        !.pc = pc]]
    BY <1>2 DEF Synthesize
  <2>2. /\ OnlyItself(a) /\ attempts'[a].pc = pc
        /\ KeepsAllBut(a, {"pc", "proposal", "hunks"})
        /\ attempts'[a].hunks = ParseFilePatches(World.proposals[i].diff)
        /\ attempts'[a].proposal = i
    BY <1>2, <2>1 DEF Synthesize, Shape, OnlyItself, KeepsAllBut, Fields
  <2> QED
    BY <1>2, <2>1, <2>2 DEF Synthesize, Prepares
<1>3. CASE PassGates(a)
  <2>1. CASE AllPassGates(a)
    <3>1. End(a, "base")
      BY <1>3, <2>1 DEF PassGates, AllPassGates
    <3> QED
      BY <1>3, <2>1, <3>1, EndKeeps DEF PassGates, Prepares
  <2>2. CASE ~AllPassGates(a)
    <3>1. End(a, "refused")
      BY <1>3, <2>2 DEF PassGates, AllPassGates
    <3> QED
      BY <1>3, <3>1, EndKeeps DEF PassGates, GivesUp, At, Outcomes
  <2> QED
    BY <2>1, <2>2
<1>4. CASE GetDefaultBranch(a)
  <2>1. /\ OnlyItself(a) /\ attempts'[a].pc = "fetch"
        /\ KeepsAllBut(a, {"pc", "base", "left"})
        /\ attempts'[a].left = Touched(a) /\ attempts'[a].base = main
    BY <1>4 DEF GetDefaultBranch, Shape, OnlyItself, KeepsAllBut, Fields
  <2> QED
    BY <1>4, <2>1 DEF GetDefaultBranch, Prepares
<1>5. CASE GetFile(a)
  <2> DEFINE text(file) == main[Normalized(file)]
             new(file) == ApplyPatch(text(file), Hunks(a)[file])
             kept(file) == Kept(attempts[a], file,
                                [old |-> text(file), new |-> new(file).text])
  <2>1. PICK file \in attempts[a].left :
            \/ End(a, "errored") \/ End(a, "refused")
            \/ Normalized(file) \in DOMAIN main /\ attempts' = [attempts EXCEPT ![a] = kept(file)]
    BY <1>5 DEF GetFile
  <2>2. CASE End(a, "errored") \/ End(a, "refused")
    BY <1>5, <2>2, EndKeeps DEF GetFile, GivesUp, At, Outcomes
  <2>3. CASE /\ Normalized(file) \in DOMAIN main
             /\ attempts' = [attempts EXCEPT ![a] = kept(file)]
    <3>1. /\ OnlyItself(a) /\ attempts'[a] = kept(file)
      BY <1>5, <2>3 DEF GetFile, Shape, OnlyItself, Kept
    <3>2. /\ KeepsAllBut(a, {"pc", "fetched", "left"})
          /\ attempts'[a].left = attempts[a].left \ {file}
          /\ attempts'[a].fetched =
                Put(attempts[a].fetched, file,
                    [old |-> text(file), new |-> new(file).text])
          /\ \/ attempts'[a].pc \in {"fetch", "refused"}
             \/ /\ attempts'[a].pc = "branch" /\ attempts'[a].left = {}
                /\ Valid(attempts'[a].fetched)
      BY <3>1 DEF Shape, Kept, KeepsAllBut, Fields
    <3> QED
      BY <1>5, <2>3, <3>1, <3>2 DEF GetFile, Fetches
  <2> QED
    BY <2>1, <2>2, <2>3
<1>6. CASE CreateBranch(a)
  <2>1. /\ OnlyItself(a) /\ attempts'[a].pc = "commit"
        /\ KeepsAllBut(a, {"pc", "branch", "left"})
        /\ attempts'[a].branch = second
        /\ attempts'[a].left = Touched(a)
    BY <1>6 DEF CreateBranch, Shape, OnlyItself, KeepsAllBut, Fields
  <2> QED
    BY <1>6, <2>1 DEF CreateBranch, BranchCreated, Branches
<1>7. CASE UpdateFile(a)
  <2>1. PICK file \in attempts[a].left :
            /\ Committed(a, file)
            /\ attempts' = [attempts EXCEPT ![a] =
                   [@ EXCEPT !.left = attempts[a].left \ {file},
                             !.pc = IF attempts[a].left = {file} THEN "pull"
                                    ELSE "commit"]]
    BY <1>7, Zenon DEF UpdateFile
  <2>2. /\ OnlyItself(a)
        /\ KeepsAllBut(a, {"pc", "left"})
        /\ attempts'[a].left = attempts[a].left \ {file}
        /\ attempts'[a].pc = IF attempts[a].left = {file} THEN "pull"
                             ELSE "commit"
    BY <1>7, <2>1 DEF UpdateFile, Shape, OnlyItself, KeepsAllBut, Fields
  <2> QED
    BY <1>7, <2>1, <2>2 DEF UpdateFile, Committed, Commits
<1>8. CASE CreatePr(a)
  BY <1>8, EndKeeps DEF CreatePr, PullCreated, Offers
<1>9. CASE Rejected(a)
  BY <1>9, EndKeeps DEF Rejected, GivesUp, At, Outcomes
<1>10. CASE RequestFails(a)
  BY <1>10, EndKeeps DEF RequestFails, GivesUp, At, Outcomes
<1>11. CASE LosesReply(a)
  <2>1. /\ OnlyItself(a) /\ KeepsAllBut(a, {"pc"}) /\ attempts'[a].pc = "errored"
    BY <1>11, EndKeeps DEF LosesReply
  <2> QED
    BY <1>11, <2>1 DEF LosesReply, BranchCreated, Committed, PullCreated,
                       Branches, Commits, Offers
<1> QED
  BY <1>1, <1>2, <1>3, <1>4, <1>5, <1>6, <1>7, <1>8, <1>9, <1>10, <1>11 DEF Step

LEMMA OthersElapse ==
    ASSUME Shape, Crash \/ Push \/ Tick \/ UNCHANGED vars
    PROVE  Elapses
<1>1. CASE Crash
  <2>1. /\ UNCHANGED <<world, branches, pulls, main, second>>
        /\ DOMAIN attempts' = DOMAIN attempts
    BY <1>1 DEF Crash, NoRequest, Here, Shape
  <2>2. \A a \in World.runs :
            /\ DOMAIN attempts'[a] = Fields /\ KeepsAllBut(a, {"pc"})
            /\ \/ attempts'[a].pc = attempts[a].pc
               \/ attempts'[a].pc = "killed" /\ attempts[a].pc \notin Outcomes
    BY <1>1 DEF Crash, Shape, KeepsAllBut, Fields
  <2> QED
    BY <2>1, <2>2 DEF Elapses
<1>2. CASE Push \/ Tick \/ UNCHANGED vars
  <2>1. /\ UNCHANGED <<world, branches, pulls, attempts>>
        /\ main' \in {main} \cup World.pushes
        /\ \/ second' = second
           \/ second < MaxSecond /\ second' = second + 1
    BY <1>2 DEF Push, Tick, vars
  <2> QED
    BY <2>1 DEF Shape, Elapses, KeepsAllBut
<1> QED
  BY <1>1, <1>2

LEMMA NextMoves ==
    ASSUME Shape, [Next]_vars
    PROVE  Elapses \/ \E a \in World.runs : Moves(a)
BY StepMoves, OthersElapse DEF Next

(* The variables keep their form.                                          *)
LEMMA ShapeStays ==
    ASSUME Shape, Elapses \/ \E a \in World.runs : Moves(a)
    PROVE  Shape' /\ World' = World
BY DEF Shape, World, Elapses, Moves, OnlyItself

-----------------------------------------------------------------------------
(* What every attempt keeps to.                                            *)

Starting(a) == attempts[a].pc \in {"investigate", "synthesize", "gates", "base"}
Reading(a) == attempts[a].pc \in {"fetch", "branch"}
Writing(a) == attempts[a].pc \in {"commit", "pull"}
Offered(a) == a \in DOMAIN pulls

(* The stages come in order: nothing is read before the base commit, no    *)
(* branch is there before all is read, no pull request before all is       *)
(* written.                                                                *)
InOrder(a) ==
    /\ attempts[a].branch = 0 \/ attempts[a].branch \in DOMAIN branches
    /\ Starting(a) => DOMAIN attempts[a].fetched = {}
    /\ Starting(a) \/ Reading(a) => attempts[a].branch = 0
    /\ Writing(a) \/ Offered(a) => attempts[a].branch # 0
    /\ Offered(a) => /\ attempts[a].pc \in Outcomes
                     /\ pulls[a] = attempts[a].branch
    /\ At(a, "fetch") => /\ attempts[a].left \subseteq Touched(a)
                         /\ DOMAIN attempts[a].fetched = Touched(a) \ attempts[a].left
    /\ At(a, "commit") => attempts[a].left \subseteq Touched(a)
    /\ At(a, "pull") \/ Offered(a) => attempts[a].left = {}

Verified(a) ==
    At(a, "branch") \/ attempts[a].branch # 0 =>
        /\ DOMAIN attempts[a].fetched = Touched(a)
        /\ Valid(attempts[a].fetched)

Agreed(a) ==
    At(a, "base") \/ Reading(a) \/ attempts[a].branch # 0 => AllPassGates(a)

(* What a file became is its patch applied to what was read.               *)
Applied(a) ==
    \A file \in DOMAIN attempts[a].fetched :
        attempts[a].fetched[file].new =
            ApplyPatch(attempts[a].fetched[file].old, Hunks(a)[file]).text

Parsed(a) ==
    \/ Touched(a) = {}
    \/ \E i \in DOMAIN World.proposals :
          Hunks(a) = ParseFilePatches(World.proposals[i].diff)

(* The branch of an attempt is its base with some files written.           *)
OnBase(a) ==
    Writing(a) \/ Offered(a) =>
        LET base == attempts[a].base
            tree == branches[attempts[a].branch]
        IN  /\ DOMAIN tree = DOMAIN base
            /\ \A path \in DOMAIN base :
                  \/ tree[path] = base[path]
                  \/ \E file \in Touched(a) \ attempts[a].left :
                        Normalized(file) = path

AttemptInv(a) ==
    InOrder(a) /\ Verified(a) /\ Agreed(a) /\ Applied(a) /\ Parsed(a) /\ OnBase(a)

DeliveryInv ==
    /\ Shape
    /\ DOMAIN pulls \subseteq World.runs
    /\ \A a \in World.runs : AttemptInv(a)
    /\ BranchesAreExclusive

(* What a step leaves to an attempt that it is not about.                  *)
Undisturbed(b) ==
    /\ DOMAIN attempts'[b] = Fields
    /\ KeepsAllBut(b, {"pc"})
    /\ \/ attempts'[b].pc = attempts[b].pc
       \/ attempts'[b].pc = "killed" /\ attempts[b].pc \notin Outcomes
    /\ b \in DOMAIN pulls' <=> b \in DOMAIN pulls
    /\ b \in DOMAIN pulls => pulls'[b] = pulls[b]
    /\ attempts[b].branch \in DOMAIN branches =>
          /\ attempts[b].branch \in DOMAIN branches'
          /\ attempts[b].branch # 0 =>
                branches'[attempts[b].branch] = branches[attempts[b].branch]

LEMMA ElapsesUndisturbed ==
    ASSUME DeliveryInv, Elapses, NEW b \in World.runs
    PROVE  Undisturbed(b)
BY DEF Elapses, Undisturbed

LEMMA PullsArePut ==
    ASSUME Shape, NEW a \in World.runs, Moves(a)
    PROVE  \/ pulls' = pulls
           \/ At(a, "pull") /\ pulls' = Put(pulls, a, attempts[a].branch)
BY DEF Moves, Prepares, Fetches, Branches, Commits, Offers, GivesUp

LEMMA OthersUndisturbed ==
    ASSUME DeliveryInv, NEW a \in World.runs, Moves(a),
           NEW b \in World.runs, b # a
    PROVE  Undisturbed(b)
<1>1. attempts'[b] = attempts[b] /\ DOMAIN attempts[b] = Fields
  BY DEF DeliveryInv, Shape, Moves, OnlyItself
<1>2. DOMAIN attempts'[b] = Fields /\ KeepsAllBut(b, {"pc"})
  BY <1>1 DEF KeepsAllBut
<1>3. /\ b \in DOMAIN pulls' <=> b \in DOMAIN pulls
      /\ b \in DOMAIN pulls => pulls'[b] = pulls[b]
  <2>1. \/ pulls' = pulls
        \/ pulls' = Put(pulls, a, attempts[a].branch)
    BY PullsArePut DEF DeliveryInv
  <2> QED
    BY <2>1 DEF Put
<1>4. ASSUME attempts[b].branch \in DOMAIN branches
      PROVE  /\ attempts[b].branch \in DOMAIN branches'
             /\ attempts[b].branch # 0 =>
                   branches'[attempts[b].branch] = branches[attempts[b].branch]
  <2>1. CASE branches' = branches
    BY <1>4, <2>1
  <2>2. CASE Branches(a)
    BY <1>4, <2>2 DEF Branches, NameIsFree, Put
  <2>3. CASE Commits(a)
    <3>1. attempts[a].branch # 0 /\ attempts[a].branch \in DOMAIN branches
      BY <2>3 DEF Commits, DeliveryInv, AttemptInv, InOrder, Writing, At
    <3>2. attempts[b].branch # attempts[a].branch
      BY <3>1 DEF DeliveryInv, BranchesAreExclusive
    <3> QED
      BY <1>4, <2>3, <3>2 DEF Commits
  <2> QED
    BY <2>1, <2>2, <2>3 DEF Moves, Prepares, Fetches, Offers, GivesUp
<1> QED
  BY <1>1, <1>2, <1>3, <1>4 DEF Undisturbed

(* ... and so all of that stays true of it.                                *)
LEMMA UndisturbedStays ==
    ASSUME NEW b \in World.runs, Undisturbed(b), World' = World,
           AttemptInv(b)
    PROVE  AttemptInv(b)'
<1>1. /\ attempts'[b].affected = attempts[b].affected
      /\ attempts'[b].hunks = attempts[b].hunks
      /\ attempts'[b].base = attempts[b].base
      /\ attempts'[b].fetched = attempts[b].fetched
      /\ attempts'[b].left = attempts[b].left
      /\ attempts'[b].branch = attempts[b].branch
  BY DEF Undisturbed, KeepsAllBut, Fields
<1>2. InOrder(b)'
  BY <1>1 DEF AttemptInv, Undisturbed, InOrder, Starting, Reading, Writing,
              Offered, At, Touched, Hunks, Outcomes
<1>3. Verified(b)'
  BY <1>1 DEF AttemptInv, Undisturbed, Verified, At, Touched, Hunks, Valid
<1>4. Agreed(b)'
  BY <1>1 DEF AttemptInv, Undisturbed, Agreed, Reading, At, AllPassGates,
              Touched, Hunks, Service
<1>5. Applied(b)'
  BY <1>1 DEF AttemptInv, Applied, Hunks
<1>6. Parsed(b)'
  BY <1>1 DEF AttemptInv, Parsed, Touched, Hunks
<1>7. OnBase(b)'
  BY <1>1 DEF AttemptInv, InOrder, Undisturbed, OnBase, Writing, Offered, At,
              Touched, Hunks, Outcomes
<1> QED
  BY <1>2, <1>3, <1>4, <1>5, <1>6, <1>7 DEF AttemptInv

(* The attempt that moves keeps it as well, stage by stage.                *)
LEMMA PreparesKeeps ==
    ASSUME NEW a \in World.runs, World' = World, Prepares(a), ~Offered(a),
           AttemptInv(a), DOMAIN attempts'[a] = Fields
    PROVE  AttemptInv(a)'
<1> DEFINE f == attempts[a]
           g == attempts'[a]
<1>1. g.branch = 0 /\ f.branch = 0
  BY DEF Prepares, AttemptInv, InOrder, Starting, At, KeepsAllBut, Fields
<1>2. g.fetched = f.fetched /\ DOMAIN g.fetched = {}
  BY DEF Prepares, AttemptInv, InOrder, Starting, At, KeepsAllBut, Fields
<1>3. ~Offered(a)'
  BY DEF Prepares, Offered
<1>4. g.pc \in {"synthesize", "skipped", "gates", "base", "fetch"}
  BY DEF Prepares
<1>5. g.pc = "fetch" => g.left = Touched(a)'
  BY <1>4 DEF Prepares, Touched, Hunks, KeepsAllBut, Fields
<1>6. InOrder(a)'
  BY <1>1, <1>2, <1>3, <1>4, <1>5 DEF InOrder, Starting, Reading, Writing, At
<1>7. Agreed(a)'
  <2>1. CASE g.pc \in {"base", "fetch"}
    <3>1. AllPassGates(a)
      BY <2>1 DEF Prepares, AttemptInv, Agreed
    <3>2. g.hunks = f.hunks /\ g.affected = f.affected
      BY <2>1 DEF Prepares, KeepsAllBut, Fields
    <3> QED
      BY <3>1, <3>2 DEF Agreed, AllPassGates, Touched, Hunks, Service
  <2>2. CASE g.pc \notin {"base", "fetch"}
    BY <1>1, <1>4, <2>2 DEF Agreed, At, Reading
  <2> QED
    BY <2>1, <2>2
<1>8. Parsed(a)'
  <2>1. \/ g.hunks = f.hunks
        \/ \E i \in DOMAIN World.proposals :
              g.hunks = ParseFilePatches(World.proposals[i].diff)
    BY DEF Prepares, KeepsAllBut, Fields
  <2> QED
    BY <2>1 DEF AttemptInv, Parsed, Touched, Hunks
<1>9. Verified(a)' /\ Applied(a)' /\ OnBase(a)'
  BY <1>1, <1>2, <1>3, <1>4 DEF Verified, Applied, OnBase, At, Writing
<1> QED
  BY <1>6, <1>7, <1>8, <1>9 DEF AttemptInv

LEMMA FetchesKeeps ==
    ASSUME NEW a \in World.runs, World' = World, Fetches(a),
           AttemptInv(a), DOMAIN attempts'[a] = Fields
    PROVE  AttemptInv(a)'
<1> DEFINE f == attempts[a]
           g == attempts'[a]
           text(file) == main[Normalized(file)]
           result(file) == ApplyPatch(text(file), Hunks(a)[file]).text
<1>1. /\ g.hunks = f.hunks /\ g.affected = f.affected /\ g.base = f.base
      /\ g.branch = f.branch
  BY DEF Fetches, KeepsAllBut, Fields
<1>2. f.branch = 0 /\ ~Offered(a) /\ ~Offered(a)'
  BY DEF Fetches, AttemptInv, InOrder, At, Reading, Offered, Outcomes
<1>3. /\ f.left \subseteq Touched(a)
      /\ DOMAIN f.fetched = Touched(a) \ f.left
  BY DEF Fetches, AttemptInv, InOrder
<1>4. PICK file \in f.left :
          /\ g.fetched = Put(f.fetched, file,
                             [old |-> text(file), new |-> result(file)])
          /\ g.left = f.left \ {file}
  BY DEF Fetches
<1>5. DOMAIN g.fetched = Touched(a) \ g.left /\ g.left \subseteq Touched(a)
  BY <1>3, <1>4 DEF Put
<1>6. \/ g.pc \in {"fetch", "refused"}
      \/ g.pc = "branch" /\ g.left = {} /\ Valid(g.fetched)
  BY DEF Fetches
<1>7. InOrder(a)'
  BY <1>1, <1>2, <1>5, <1>6 DEF InOrder, Starting, Reading, Writing, At,
                                Touched, Hunks
<1>8. Verified(a)'
  BY <1>1, <1>2, <1>5, <1>6 DEF Verified, At, Touched, Hunks, Valid
<1>9. Applied(a)'
  BY <1>1, <1>4 DEF AttemptInv, Applied, Put, Hunks
<1>10. Agreed(a)' /\ Parsed(a)'
  <2>1. AllPassGates(a)
    BY DEF Fetches, AttemptInv, Agreed, Reading, At
  <2> QED
    BY <1>1, <2>1 DEF AttemptInv, Agreed, AllPassGates, Parsed, Touched, Hunks,
                      Service
<1>11. OnBase(a)'
  BY <1>2, <1>6 DEF OnBase, Writing, At
<1> QED
  BY <1>7, <1>8, <1>9, <1>10, <1>11 DEF AttemptInv

LEMMA BranchesKeeps ==
    ASSUME Shape, NEW a \in World.runs, World' = World, Branches(a),
           AttemptInv(a), DOMAIN attempts'[a] = Fields
    PROVE  AttemptInv(a)'
<1> DEFINE f == attempts[a]
           g == attempts'[a]
<1>1. /\ g.hunks = f.hunks /\ g.affected = f.affected /\ g.base = f.base
      /\ g.fetched = f.fetched
  BY DEF Branches, KeepsAllBut, Fields
<1>2. f.branch = 0 /\ ~Offered(a) /\ ~Offered(a)'
  BY DEF Branches, AttemptInv, InOrder, At, Reading, Offered, Outcomes
<1>3. second \in DOMAIN branches' /\ branches'[second] = f.base /\ second # 0
  BY DEF Branches, Put, Shape
<1>4. \/ g.pc = "errored" /\ g.branch = 0
      \/ g.pc = "commit" /\ g.branch = second /\ g.left = Touched(a)
  BY <1>2 DEF Branches, KeepsAllBut, Fields
<1>5. InOrder(a)'
  BY <1>1, <1>2, <1>3, <1>4 DEF InOrder, Starting, Reading, Writing, At,
                                Touched, Hunks
<1>6. Verified(a)' /\ Applied(a)'
  BY <1>1 DEF Branches, AttemptInv, Verified, Applied, At, Touched, Hunks, Valid
<1>7. Agreed(a)' /\ Parsed(a)'
  <2>1. AllPassGates(a)
    BY DEF Branches, AttemptInv, Agreed, Reading, At
  <2> QED
    BY <1>1, <2>1 DEF AttemptInv, Agreed, AllPassGates, Parsed, Touched, Hunks,
                      Service
<1>8. OnBase(a)'
  BY <1>1, <1>2, <1>3, <1>4 DEF OnBase, Writing, At
<1> QED
  BY <1>5, <1>6, <1>7, <1>8 DEF AttemptInv

LEMMA CommitsKeeps ==
    ASSUME NEW a \in World.runs, World' = World, Commits(a),
           AttemptInv(a), DOMAIN attempts'[a] = Fields
    PROVE  AttemptInv(a)'
<1> DEFINE f == attempts[a]
           g == attempts'[a]
           tree == branches[f.branch]
<1>1. /\ g.hunks = f.hunks /\ g.affected = f.affected /\ g.base = f.base
      /\ g.fetched = f.fetched /\ g.branch = f.branch
  BY DEF Commits, KeepsAllBut, Fields
<1>2. f.branch # 0 /\ ~Offered(a) /\ ~Offered(a)' /\ f.left \subseteq Touched(a)
  BY DEF Commits, AttemptInv, InOrder, At, Writing, Offered, Outcomes
<1>3. PICK file \in f.left :
          /\ IsUnchanged(a, file)
          /\ branches' = [branches EXCEPT ![f.branch][Normalized(file)] =
                              f.fetched[file].new]
          /\ \/ g.pc = "errored"
             \/ /\ g.left = f.left \ {file}
                /\ \/ g.pc = "commit"
                   \/ g.pc = "pull" /\ g.left = {}
  BY DEF Commits
<1>4. DOMAIN branches' = DOMAIN branches
  BY <1>3
<1>5. InOrder(a)'
  BY <1>1, <1>2, <1>3, <1>4 DEF AttemptInv, InOrder, Starting, Reading, Writing,
                                At, Touched, Hunks
<1>6. Verified(a)' /\ Applied(a)'
  BY <1>1, <1>2, <1>3 DEF AttemptInv, Verified, Applied, At, Touched, Hunks, Valid
<1>7. Agreed(a)' /\ Parsed(a)'
  BY <1>1, <1>2 DEF AttemptInv, Agreed, AllPassGates, Parsed, Touched, Hunks,
                    Service
<1>8. OnBase(a)'
  <2>1. /\ DOMAIN tree = DOMAIN f.base
        /\ \A path \in DOMAIN f.base :
              \/ tree[path] = f.base[path]
              \/ \E other \in Touched(a) \ f.left : Normalized(other) = path
    BY DEF Commits, AttemptInv, OnBase, Writing, At
  <2>2. f.branch \in DOMAIN branches
    BY <1>2 DEF AttemptInv, InOrder
  <2>3. branches'[f.branch] =
            [tree EXCEPT ![Normalized(file)] = f.fetched[file].new]
    BY <1>3, <2>2
  <2>4. CASE g.left = f.left \ {file}
    BY <1>1, <1>2, <2>1, <2>3, <2>4 DEF OnBase, Touched, Hunks
  <2>5. CASE g.pc = "errored"
    BY <1>2, <2>5 DEF OnBase, Writing
  <2> QED
    BY <1>3, <2>4, <2>5
<1> QED
  BY <1>5, <1>6, <1>7, <1>8 DEF AttemptInv

LEMMA OffersKeeps ==
    ASSUME NEW a \in World.runs, World' = World, Offers(a),
           AttemptInv(a), DOMAIN attempts'[a] = Fields
    PROVE  AttemptInv(a)'
<1> DEFINE f == attempts[a]
           g == attempts'[a]
<1>1. /\ g.hunks = f.hunks /\ g.affected = f.affected /\ g.base = f.base
      /\ g.fetched = f.fetched /\ g.branch = f.branch /\ g.left = f.left
      /\ g.pc \in {"opened", "errored"} /\ branches' = branches
  BY DEF Offers, KeepsAllBut, Fields
<1>2. f.branch # 0 /\ f.left = {} /\ f.branch \in DOMAIN branches
  BY DEF Offers, AttemptInv, InOrder, At, Writing
<1>3. pulls'[a] = f.branch
  BY DEF Offers, Put
<1>4. InOrder(a)'
  BY <1>1, <1>2, <1>3 DEF InOrder, Starting, Reading, Writing, Offered,
                          Outcomes, At
<1>5. Verified(a)' /\ Applied(a)' /\ Agreed(a)' /\ Parsed(a)'
  BY <1>1, <1>2 DEF AttemptInv, Verified, Applied, Agreed, AllPassGates, Parsed,
                    At, Touched, Hunks, Service, Valid
<1>6. OnBase(a)'
  BY <1>1 DEF Offers, AttemptInv, OnBase, Writing, At, Touched, Hunks
<1> QED
  BY <1>4, <1>5, <1>6 DEF AttemptInv

LEMMA GivesUpKeeps ==
    ASSUME NEW a \in World.runs, World' = World, GivesUp(a),
           AttemptInv(a), DOMAIN attempts'[a] = Fields
    PROVE  AttemptInv(a)'
<1> DEFINE f == attempts[a]
           g == attempts'[a]
<1>1. /\ g.hunks = f.hunks /\ g.affected = f.affected /\ g.base = f.base
      /\ g.fetched = f.fetched /\ g.branch = f.branch /\ g.left = f.left
      /\ g.pc \in {"refused", "errored"}
      /\ branches' = branches /\ pulls' = pulls
  BY DEF GivesUp, KeepsAllBut, Fields
<1>2. ~Offered(a) /\ ~Offered(a)'
  BY DEF GivesUp, AttemptInv, InOrder, Offered
<1>3. InOrder(a)' /\ OnBase(a)'
  BY <1>1, <1>2 DEF AttemptInv, InOrder, OnBase, Starting, Reading, Writing, At
<1>4. Verified(a)' /\ Applied(a)' /\ Agreed(a)' /\ Parsed(a)'
  BY <1>1 DEF AttemptInv, Verified, Applied, Agreed, AllPassGates, Parsed,
              At, Reading, Touched, Hunks, Service, Valid
<1> QED
  BY <1>3, <1>4 DEF AttemptInv

LEMMA MoveKeeps ==
    ASSUME DeliveryInv, NEW a \in World.runs, Moves(a)
    PROVE  AttemptInv(a)'
<1>1. AttemptInv(a) /\ Shape /\ DOMAIN attempts'[a] = Fields /\ World' = World
  BY DEF DeliveryInv, Moves, OnlyItself, World
<1>2. CASE Prepares(a)
  <2>1. ~Offered(a)
    BY <1>1, <1>2 DEF Prepares, AttemptInv, InOrder, Offered, Outcomes, At
  <2> QED
    BY <1>1, <1>2, <2>1, PreparesKeeps
<1>3. CASE Fetches(a)
  BY <1>1, <1>3, FetchesKeeps
<1>4. CASE Branches(a)
  BY <1>1, <1>4, BranchesKeeps
<1>5. CASE Commits(a)
  BY <1>1, <1>5, CommitsKeeps
<1>6. CASE Offers(a)
  BY <1>1, <1>6, OffersKeeps
<1>7. CASE GivesUp(a)
  BY <1>1, <1>7, GivesUpKeeps
<1> QED
  BY <1>2, <1>3, <1>4, <1>5, <1>6, <1>7 DEF Moves

(* A branch that is taken up is one that was not there.                    *)
LEMMA BranchIsNew ==
    ASSUME NEW a \in World.runs, Moves(a)
    PROVE  \/ attempts'[a].branch = attempts[a].branch
           \/ attempts'[a].branch \notin DOMAIN branches
BY DEF Moves, Prepares, Fetches, Branches, Commits, Offers, GivesUp,
       KeepsAllBut, Fields, NameIsFree

LEMMA ExclusiveStays ==
    ASSUME DeliveryInv, Elapses \/ \E a \in World.runs : Moves(a)
    PROVE  BranchesAreExclusive'
<1>1. World' = World
  BY ShapeStays DEF DeliveryInv
<1>2. CASE Elapses
  BY <1>1, <1>2 DEF Elapses, KeepsAllBut, Fields, DeliveryInv,
                    BranchesAreExclusive
<1>3. ASSUME NEW a \in World.runs, Moves(a)
      PROVE  BranchesAreExclusive'
  <2>1. \/ attempts'[a].branch = attempts[a].branch
        \/ attempts'[a].branch \notin DOMAIN branches
    BY <1>3, BranchIsNew
  <2>2. \A b \in World.runs : b # a => attempts'[b] = attempts[b]
    BY <1>3 DEF Moves, OnlyItself
  <2>3. \A b \in World.runs :
            attempts[b].branch = 0 \/ attempts[b].branch \in DOMAIN branches
    BY DEF DeliveryInv, AttemptInv, InOrder
  <2> QED
    BY <1>1, <2>1, <2>2, <2>3 DEF DeliveryInv, BranchesAreExclusive
<1> QED
  BY <1>2, <1>3

LEMMA DeliveryInit ==
    ASSUME Init
    PROVE  DeliveryInv
<1>1. Shape
  BY DEF Init, Shape, AllOf, FreshAttempt, Fields
<1>2. \A a \in World.runs : attempts[a] = FreshAttempt
  BY DEF Init
<1>3. DOMAIN pulls = {}
  BY DEF Init
<1>4. \A a \in World.runs : AttemptInv(a)
  BY <1>2, <1>3 DEF FreshAttempt, AttemptInv, InOrder, Verified, Agreed,
        Applied, Parsed, OnBase, Starting, Reading, Writing, Offered, At,
        Touched, Hunks, Outcomes
<1>5. BranchesAreExclusive
  BY <1>2 DEF FreshAttempt, BranchesAreExclusive
<1> QED
  BY <1>1, <1>3, <1>4, <1>5 DEF DeliveryInv

LEMMA DeliveryStep ==
    ASSUME DeliveryInv, [Next]_vars
    PROVE  DeliveryInv'
<1>1. Elapses \/ \E a \in World.runs : Moves(a)
  BY NextMoves DEF DeliveryInv
<1>2. Shape' /\ World' = World
  BY <1>1, ShapeStays DEF DeliveryInv
<1>3. DOMAIN pulls' \subseteq World.runs
  <2>1. CASE Elapses
    BY <2>1 DEF Elapses, DeliveryInv
  <2>2. ASSUME NEW a \in World.runs, Moves(a)
        PROVE  DOMAIN pulls' \subseteq World.runs
    <3>1. pulls' = pulls \/ pulls' = Put(pulls, a, attempts[a].branch)
      BY <2>2, PullsArePut DEF DeliveryInv
    <3> QED
      BY <3>1 DEF Put, DeliveryInv
  <2> QED
    BY <1>1, <2>1, <2>2
<1>4. ASSUME NEW b \in World.runs
      PROVE  AttemptInv(b)'
  <2>1. AttemptInv(b)
    BY DEF DeliveryInv
  <2>2. CASE Undisturbed(b)
    BY <1>2, <2>1, <2>2, UndisturbedStays
  <2>3. CASE Moves(b)
    BY <2>3, MoveKeeps
  <2> QED
    BY <1>1, <2>2, <2>3, ElapsesUndisturbed, OthersUndisturbed
<1>5. BranchesAreExclusive'
  BY <1>1, ExclusiveStays
<1> QED
  BY <1>2, <1>3, <1>4, <1>5 DEF DeliveryInv

LEMMA DeliveryInvariant == Spec => []DeliveryInv
  BY DeliveryInit, DeliveryStep, PTL DEF Spec

-----------------------------------------------------------------------------
(* No branch holds the commits of two attempts: a name that is taken is    *)
(* refused by GitHub, and nobody takes up a branch that is there           *)
(* (_create_branch).                                                       *)
THEOREM OneWriterPerBranch == Spec => []BranchesAreExclusive
<1>1. DeliveryInv => BranchesAreExclusive
  BY DEF DeliveryInv
<1> QED
  BY <1>1, DeliveryInvariant, PTL

(* open_pr gets, patches and validates every file before it creates the    *)
(* branch: whatever is written, also by an attempt that failed or died     *)
(* half-way, was verified whole.                                           *)
THEOREM VerifiedBeforeWritten == Spec => []WrittenIsVerified
<1>1. DeliveryInv => WrittenIsVerified
  BY DEF DeliveryInv, AttemptInv, Verified, WrittenIsVerified
<1> QED
  BY <1>1, DeliveryInvariant, PTL

(* A pull request changes no file but those its patch names, and every one *)
(* of these passed the path gates: no deploy surface, and inside the scope *)
(* of the investigation (_validate_patch_paths, open_pr).                  *)
ChangesPassedTheGates ==
    \A a \in DOMAIN pulls :
        /\ AllPassGates(a)
        /\ DOMAIN branches[pulls[a]] = DOMAIN attempts[a].base
        /\ \A path \in DOMAIN attempts[a].base :
              branches[pulls[a]][path] # attempts[a].base[path] =>
                  \E file \in Touched(a) : Normalized(file) = path

THEOREM NothingButThePatch == Spec => []ChangesPassedTheGates
<1>1. ASSUME DeliveryInv, NEW a \in DOMAIN pulls
      PROVE  /\ AllPassGates(a)
             /\ DOMAIN branches[pulls[a]] = DOMAIN attempts[a].base
             /\ \A path \in DOMAIN attempts[a].base :
                   branches[pulls[a]][path] # attempts[a].base[path] =>
                       \E file \in Touched(a) : Normalized(file) = path
  <2>1. AttemptInv(a) /\ Offered(a)
    BY <1>1 DEF DeliveryInv, Offered
  <2> QED
    BY <2>1 DEF AttemptInv, InOrder, Agreed, OnBase
<1>2. DeliveryInv => ChangesPassedTheGates
  BY <1>1 DEF ChangesPassedTheGates
<1> QED
  BY <1>2, DeliveryInvariant, PTL

-----------------------------------------------------------------------------
(* The content of the branch.  The patch must name every file in one way   *)
(* only: of a file that it names twice, "values.yaml" and "./values.yaml", *)
(* the second hunk may apply to what another's push made of the file, and  *)
(* be written over the first one's result if the two look alike.           *)

SpelledOnce(a) ==
    \A f, g \in Touched(a) : Normalized(f) = Normalized(g) => f = g

OneSpelling ==
    \A w \in DOMAIN Worlds : \A i \in DOMAIN Worlds[w].proposals :
        \A f, g \in DOMAIN ParseFilePatches(Worlds[w].proposals[i].diff) :
            Normalized(f) = Normalized(g) => f = g

(* Each file written so far is the patch applied to the base, although it  *)
(* was read from a branch that moves on: GitHub compared the two.          *)
Carries(a) ==
    SpelledOnce(a) /\ (Writing(a) \/ Offered(a)) =>
        LET base == attempts[a].base
            tree == branches[attempts[a].branch]
        IN  \A file \in Touched(a) \ attempts[a].left :
               /\ Normalized(file) \in DOMAIN base
               /\ tree[Normalized(file)] =
                     ApplyPatch(base[Normalized(file)], Hunks(a)[file]).text

ContentInv ==
    /\ DeliveryInv
    /\ \A a \in World.runs : Carries(a)

LEMMA UndisturbedCarries ==
    ASSUME NEW b \in World.runs, Undisturbed(b), AttemptInv(b), Carries(b)
    PROVE  Carries(b)'
<1>1. /\ attempts'[b].hunks = attempts[b].hunks
      /\ attempts'[b].base = attempts[b].base
      /\ attempts'[b].left = attempts[b].left
      /\ attempts'[b].branch = attempts[b].branch
  BY DEF Undisturbed, KeepsAllBut, Fields
<1> QED
  BY <1>1 DEF AttemptInv, InOrder, Undisturbed, Carries, SpelledOnce, Writing,
              Offered, At, Touched, Hunks, Outcomes

LEMMA CommitCarries ==
    ASSUME NEW a \in World.runs, Commits(a), AttemptInv(a), Carries(a),
           DOMAIN attempts'[a] = Fields
    PROVE  Carries(a)'
<1> DEFINE f == attempts[a]
           g == attempts'[a]
           tree == branches[f.branch]
<1>1. /\ g.hunks = f.hunks /\ g.base = f.base /\ g.branch = f.branch
  BY DEF Commits, KeepsAllBut, Fields
<1>2. /\ f.branch \in DOMAIN branches /\ ~Offered(a)'
      /\ f.left \subseteq Touched(a) /\ DOMAIN f.fetched = Touched(a)
  BY DEF Commits, AttemptInv, InOrder, Verified, At, Writing, Offered, Outcomes
<1>3. PICK file \in f.left :
          /\ IsUnchanged(a, file)
          /\ branches' = [branches EXCEPT ![f.branch][Normalized(file)] =
                              f.fetched[file].new]
          /\ \/ g.pc = "errored"
             \/ g.left = f.left \ {file}
  BY DEF Commits
<1>4. branches'[f.branch] =
          [tree EXCEPT ![Normalized(file)] = f.fetched[file].new]
  BY <1>2, <1>3
<1>5. /\ Normalized(file) \in DOMAIN f.base
      /\ DOMAIN tree = DOMAIN f.base
      /\ \A path \in DOMAIN f.base :
            \/ tree[path] = f.base[path]
            \/ \E other \in Touched(a) \ f.left : Normalized(other) = path
      /\ tree[Normalized(file)] = f.fetched[file].old
  BY <1>3 DEF Commits, AttemptInv, OnBase, Writing, At, IsUnchanged
<1>6. f.fetched[file].new =
          ApplyPatch(f.fetched[file].old, Hunks(a)[file]).text
  BY <1>2, <1>3 DEF AttemptInv, Applied
<1>7. CASE g.pc = "errored"
  BY <1>2, <1>7 DEF Carries, Writing
<1>8. CASE g.left = f.left \ {file} /\ SpelledOnce(a)
  <2>1. tree[Normalized(file)] = f.base[Normalized(file)]
    BY <1>2, <1>5, <1>8 DEF SpelledOnce
  <2>2. branches'[f.branch][Normalized(file)] =
            ApplyPatch(f.base[Normalized(file)], Hunks(a)[file]).text
    BY <1>4, <1>5, <1>6, <2>1
  <2>3. ASSUME NEW other \in Touched(a) \ f.left
        PROVE  /\ Normalized(other) \in DOMAIN f.base
               /\ branches'[f.branch][Normalized(other)] =
                     ApplyPatch(f.base[Normalized(other)], Hunks(a)[other]).text
    <3>1. /\ Normalized(other) \in DOMAIN f.base
          /\ tree[Normalized(other)] =
                ApplyPatch(f.base[Normalized(other)], Hunks(a)[other]).text
      BY <1>8 DEF Commits, Carries, Writing, At
    <3>2. Normalized(other) # Normalized(file)
      BY <1>2, <1>8 DEF SpelledOnce
    <3> QED
      BY <1>4, <1>5, <3>1, <3>2
  <2> QED
    BY <1>1, <1>5, <1>8, <2>2, <2>3 DEF Carries, Touched, Hunks
<1>9. CASE ~SpelledOnce(a)
  BY <1>1, <1>9 DEF Carries, SpelledOnce, Touched, Hunks
<1> QED
  BY <1>3, <1>7, <1>8, <1>9

LEMMA MoveCarries ==
    ASSUME ContentInv, NEW a \in World.runs, Moves(a)
    PROVE  Carries(a)'
<1>1. /\ AttemptInv(a) /\ Carries(a) /\ AttemptInv(a)'
      /\ DOMAIN attempts'[a] = Fields
  BY MoveKeeps DEF ContentInv, DeliveryInv, Moves, OnlyItself
<1>2. CASE Commits(a)
  BY <1>1, <1>2, CommitCarries
<1>3. CASE Branches(a)
  <2>1. \/ ~Writing(a)'
        \/ attempts'[a].left = Touched(a)'
    BY <1>3 DEF Branches, Writing, Touched, Hunks, KeepsAllBut, Fields
  <2>2. ~Offered(a)'
    BY <1>1, <1>3 DEF Branches, AttemptInv, InOrder, At, Offered, Outcomes
  <2> QED
    BY <2>1, <2>2 DEF Carries
<1>4. CASE Offers(a)
  <2>1. /\ attempts'[a].hunks = attempts[a].hunks
        /\ attempts'[a].base = attempts[a].base
        /\ attempts'[a].branch = attempts[a].branch
        /\ attempts'[a].left = attempts[a].left
        /\ branches' = branches /\ Writing(a)
    BY <1>4 DEF Offers, KeepsAllBut, Fields, Writing, At
  <2> QED
    BY <1>1, <2>1 DEF Carries, SpelledOnce, Touched, Hunks
<1>5. CASE Prepares(a) \/ Fetches(a) \/ GivesUp(a)
  <2>1. ~Offered(a)'
    BY <1>1, <1>5 DEF Prepares, Fetches, GivesUp, AttemptInv, InOrder, At,
                      Offered, Outcomes
  <2>2. ~Writing(a)'
    BY <1>5 DEF Prepares, Fetches, GivesUp, Writing
  <2> QED
    BY <2>1, <2>2 DEF Carries
<1> QED
  BY <1>2, <1>3, <1>4, <1>5 DEF Moves

LEMMA ContentStep ==
    ASSUME ContentInv, [Next]_vars
    PROVE  ContentInv'
<1>1. DeliveryInv /\ DeliveryInv'
  BY DeliveryStep DEF ContentInv
<1>2. Elapses \/ \E a \in World.runs : Moves(a)
  BY <1>1, NextMoves DEF DeliveryInv
<1>3. World' = World
  BY <1>1, <1>2, ShapeStays DEF DeliveryInv
<1>4. ASSUME NEW b \in World.runs
      PROVE  Carries(b)'
  <2>1. AttemptInv(b) /\ Carries(b)
    BY DEF ContentInv, DeliveryInv
  <2>2. CASE Undisturbed(b)
    BY <2>1, <2>2, UndisturbedCarries
  <2>3. CASE Moves(b)
    BY <2>3, MoveCarries
  <2> QED
    BY <1>1, <1>2, <2>2, <2>3, ElapsesUndisturbed, OthersUndisturbed
<1> QED
  BY <1>1, <1>3, <1>4 DEF ContentInv

LEMMA ContentInit ==
    ASSUME Init
    PROVE  ContentInv
<1>1. \A a \in World.runs : ~Writing(a) /\ ~Offered(a)
  BY DEF Init, FreshAttempt, Writing, Offered
<1> QED
  BY <1>1, DeliveryInit DEF ContentInv, Carries

LEMMA OffersCarry ==
    ASSUME OneSpelling, ContentInv
    PROVE  PrCarriesThePatch
<1> SUFFICES ASSUME NEW a \in DOMAIN pulls, NEW path \in DOMAIN attempts[a].base
             PROVE  LET base == attempts[a].base
                        of == {file \in Touched(a) : Normalized(file) = path}
                    IN  branches[pulls[a]][path] \in
                            IF of = {} THEN {base[path]}
                            ELSE {ApplyPatch(base[path], Hunks(a)[file]).text :
                                     file \in of}
  BY DEF PrCarriesThePatch
<1>1. /\ a \in World.runs /\ AttemptInv(a) /\ Carries(a) /\ Offered(a)
      /\ world \in DOMAIN Worlds
  BY DEF ContentInv, DeliveryInv, Offered, Shape
<1>2. SpelledOnce(a)
  BY <1>1 DEF OneSpelling, SpelledOnce, AttemptInv, Parsed, Touched, Hunks,
              World, AllOf
<1>3. pulls[a] = attempts[a].branch /\ attempts[a].left = {}
  BY <1>1 DEF AttemptInv, InOrder
<1>4. \/ branches[pulls[a]][path] = attempts[a].base[path]
      \/ \E file \in Touched(a) : Normalized(file) = path
  BY <1>1, <1>3 DEF AttemptInv, OnBase
<1>5. \A file \in Touched(a) : Normalized(file) = path =>
          branches[pulls[a]][path] =
              ApplyPatch(attempts[a].base[path], Hunks(a)[file]).text
  BY <1>1, <1>2, <1>3 DEF Carries
<1> QED
  BY <1>4, <1>5

(* A pull request is its base commit with the patch applied to that very   *)
(* commit, whatever others pushed while open_pr was reading.               *)
THEOREM PullRequestIsThePatch == OneSpelling /\ Spec => []PrCarriesThePatch
<1>1. Spec => []ContentInv
  BY ContentInit, ContentStep, PTL DEF Spec
<1>2. CASE OneSpelling
  <2>1. ContentInv => PrCarriesThePatch
    BY <1>2, OffersCarry
  <2> QED
    BY <1>1, <2>1, PTL
<1> QED
  BY <1>2

-----------------------------------------------------------------------------
(* For the rest of the agent all of this is one step (module PrDelivery).  *)

OutcomeBar ==
    [a \in Attempts |->
        IF a \in World.runs /\ attempts[a].pc \in Outcomes
        THEN attempts[a].pc ELSE "working"]

OfferedBar == [a \in DOMAIN pulls |-> branches[pulls[a]]]

LEMMA RunsAreAttempts == Shape => World.runs \subseteq Attempts
  BY DeliveryBounds DEF Shape, World, AllOf

(* What was offered is not touched again.                                  *)
LEMMA OfferedStays ==
    ASSUME DeliveryInv, \A b \in DOMAIN pulls : Undisturbed(b)
    PROVE  \A b \in DOMAIN pulls :
               b \in DOMAIN pulls' /\ OfferedBar'[b] = OfferedBar[b]
<1> SUFFICES ASSUME NEW b \in DOMAIN pulls
             PROVE  b \in DOMAIN pulls' /\ OfferedBar'[b] = OfferedBar[b]
  OBVIOUS
<1>1. /\ pulls[b] = attempts[b].branch /\ attempts[b].branch # 0
      /\ attempts[b].branch \in DOMAIN branches
  BY DEF DeliveryInv, AttemptInv, InOrder, Offered
<1>2. /\ b \in DOMAIN pulls' /\ pulls'[b] = pulls[b]
      /\ branches'[pulls[b]] = branches[pulls[b]]
  BY <1>1 DEF Undisturbed
<1> QED
  BY <1>2 DEF OfferedBar

LEMMA MovesAreNotOver ==
    ASSUME NEW a \in World.runs, Moves(a)
    PROVE  attempts[a].pc \notin Outcomes
BY DEF Moves, Prepares, Fetches, Branches, Commits, Offers, GivesUp, At, Outcomes

LEMMA ElapsesRefines ==
    ASSUME DeliveryInv, Elapses
    PROVE  Delivery!Crash
<1> DEFINE gone == {a \in World.runs : /\ attempts[a].pc \notin Outcomes
                                      /\ attempts'[a].pc = "killed"}
<1>1. World' = World /\ World.runs \subseteq Attempts
  BY ShapeStays, RunsAreAttempts DEF DeliveryInv
<1>2. OfferedBar' = OfferedBar
  BY DEF Elapses, OfferedBar
<1>3. OutcomeBar' = [a \in Attempts |->
                        IF a \in gone THEN "killed" ELSE OutcomeBar[a]]
  BY <1>1 DEF Elapses, OutcomeBar, Outcomes
<1>4. gone \in SUBSET {a \in Attempts : OutcomeBar[a] = "working"}
  BY <1>1 DEF OutcomeBar
<1> QED
  BY <1>2, <1>3, <1>4 DEF Delivery!Crash, OutcomeBar, OfferedBar

LEMMA MovesRefine ==
    ASSUME DeliveryInv, NEW a \in World.runs, Moves(a)
    PROVE  \/ Delivery!Open(a) \/ Delivery!GiveUp(a)
           \/ UNCHANGED <<OutcomeBar, OfferedBar>>
<1>1. /\ World' = World /\ World.runs \subseteq Attempts
      /\ DOMAIN pulls \subseteq World.runs
      /\ \A b \in World.runs : b # a => attempts'[b] = attempts[b]
  BY ShapeStays, RunsAreAttempts DEF DeliveryInv, Moves, OnlyItself
<1>2. /\ attempts[a].pc \notin Outcomes /\ a \notin DOMAIN pulls
      /\ OutcomeBar[a] = "working" /\ a \in Attempts
  BY <1>1, MovesAreNotOver
     DEF DeliveryInv, AttemptInv, InOrder, Offered, OutcomeBar
<1>3. \A b \in DOMAIN pulls :
          b \in DOMAIN pulls' /\ OfferedBar'[b] = OfferedBar[b]
  BY <1>1, <1>2, OthersUndisturbed, OfferedStays
<1>4. OutcomeBar' = [OutcomeBar EXCEPT ![a] =
                        IF attempts'[a].pc \in Outcomes THEN attempts'[a].pc
                        ELSE "working"]
  BY <1>1 DEF OutcomeBar
<1>5. CASE Offers(a)
  <2>1. pulls' = Put(pulls, a, attempts[a].branch)
    BY <1>5 DEF Offers
  <2>2. /\ OfferedBar' = [b \in DOMAIN OfferedBar \cup {a} |->
                            IF b = a THEN OfferedBar'[a] ELSE OfferedBar[b]]
        /\ a \in DOMAIN OfferedBar' /\ a \notin DOMAIN OfferedBar
    BY <1>2, <1>3, <2>1 DEF OfferedBar, Put
  <2>3. attempts'[a].pc \in {"opened", "errored"}
    BY <1>5 DEF Offers
  <2>4. OutcomeBar' \in {[OutcomeBar EXCEPT ![a] = "opened"],
                        [OutcomeBar EXCEPT ![a] = "errored"]}
    BY <1>4, <2>3 DEF Outcomes
  <2>5. Delivery!Open(a)
    BY <1>2, <2>2, <2>4
       DEF Delivery!Open, Delivery!Offers, OutcomeBar, OfferedBar
  <2> QED
    BY <2>5
<1>6. CASE ~Offers(a)
  <2>1. pulls' = pulls
    BY <1>6 DEF Moves, Prepares, Fetches, Branches, Commits, GivesUp
  <2>2. OfferedBar' = OfferedBar
    BY <1>3, <2>1 DEF OfferedBar
  <2>3. \/ attempts'[a].pc \notin Outcomes
        \/ attempts'[a].pc \in {"skipped", "refused", "errored"}
    BY <1>6 DEF Moves, Prepares, Fetches, Branches, Commits, GivesUp, Outcomes
  <2>4. CASE attempts'[a].pc \notin Outcomes
    <3>1. OutcomeBar' = OutcomeBar
      BY <1>2, <1>4, <2>4 DEF OutcomeBar
    <3> QED
      BY <2>2, <3>1
  <2>5. CASE attempts'[a].pc \in {"skipped", "refused", "errored"}
    <3>1. OutcomeBar' \in {[OutcomeBar EXCEPT ![a] = o] :
                              o \in {"skipped", "refused", "errored"}}
      BY <1>4, <2>5 DEF Outcomes
    <3>2. a \notin DOMAIN OfferedBar
      BY <1>2 DEF OfferedBar
    <3>3. Delivery!GiveUp(a)
      BY <1>2, <2>2, <3>1, <3>2 DEF Delivery!GiveUp, OutcomeBar, OfferedBar
    <3> QED
      BY <3>3
  <2> QED
    BY <2>3, <2>4, <2>5
<1> QED
  BY <1>5, <1>6

(* Every history of the attempts, with its requests that fail or lose      *)
(* their answer, its crashes and other people's pushes, is for the rest of *)
(* the agent one of module PrDelivery: a change is offered complete, once, *)
(* and never after a refusal.                                              *)
THEOREM OpeningIsOneStep == Spec => ImplementsDelivery
<1>1. Init => Delivery!Init
  <2> SUFFICES ASSUME Init PROVE Delivery!Init
    OBVIOUS
  <2>1. DOMAIN pulls = {} /\ \A a \in World.runs : attempts[a].pc = "investigate"
    BY DEF Init, FreshAttempt
  <2> QED
    BY <2>1 DEF Delivery!Init, Outcomes
<1>2. DeliveryInv /\ [Next]_vars =>
          [Delivery!Next]_<<OutcomeBar, OfferedBar>>
  <2> SUFFICES ASSUME DeliveryInv, [Next]_vars
               PROVE  [Delivery!Next]_<<OutcomeBar, OfferedBar>>
    OBVIOUS
  <2>1. Elapses \/ \E a \in World.runs : Moves(a)
    BY NextMoves DEF DeliveryInv
  <2>2. World.runs \subseteq Attempts
    BY RunsAreAttempts DEF DeliveryInv
  <2> QED
    BY <2>1, <2>2, ElapsesRefines, MovesRefine DEF Delivery!Next
<1> QED
  BY <1>1, <1>2, DeliveryInvariant, PTL
     DEF Spec, ImplementsDelivery, Delivery!Spec, OutcomeBar, OfferedBar

(* What the model is shown is decided file by file: a clone that can be    *)
(* read at all is never shown as empty, and the prompt tells of a narrowed *)
(* view whenever there is one (generate, build_synthesis_prompt).          *)
THEOREM SynthesisSees == Spec => []NeverBlind
<1>1. NeverBlind
  <2> SUFFICES ASSUME NEW a \in World.runs
      PROVE  LET affected == attempts[a].affected
                 shown == Shown(World.clone, Service, affected)
                 told == "handoff" \in
                     PromptSections(World.clone, Service, affected, FALSE)
             IN  /\ LoadTree(World.clone) # {} => shown # {}
                 /\ shown # LoadTree(World.clone) => told
                 /\ told => affected # <<>>
    BY DEF NeverBlind
  <2>1. ("handoff" \in PromptSections(World.clone, Service,
                                     attempts[a].affected, FALSE))
        <=> NarrowedTo(World.clone, Service, attempts[a].affected) # {}
    BY DEF PromptSections
  <2> QED
    BY <2>1 DEF Shown, NarrowedTo
<1> QED
  BY <1>1, PTL

-----------------------------------------------------------------------------
(* Induction, by the least counterexample: the library's own theorems take *)
(* the claim as an operator, which no prover here can be given.            *)
Below == {p \in Nat \X Nat : p[1] < p[2]}

LEMMA NoEndlessDescent == IsWellFoundedOn(Below, Nat)
  BY ONLY NatLessThanWellFounded, Zenon DEF OpToRel, Below

LEMMA Least ==
    ASSUME NEW T, T \subseteq Nat, T # {}
    PROVE  \E m \in T : \A n \in T : m <= n
<1>1. PICK m \in T : \A n \in T : ~(<<n, m>> \in Below)
  BY WFMin, NoEndlessDescent
<1>2. ASSUME NEW n \in T PROVE m <= n
  <2>1. <<n, m>> \in Nat \X Nat
    OBVIOUS
  <2>2. ~(n < m)
    BY <1>1, <2>1 DEF Below
  <2> QED
    BY <2>2
<1> QED
  BY <1>2

(* A set that holds 0, and with each number below n the next one, holds    *)
(* every number up to n.                                                   *)
LEMMA UpTo ==
    ASSUME NEW n \in Nat, NEW T, 0 \in T,
           \A i \in 0..n : i \in T /\ i < n => i + 1 \in T
    PROVE  0..n \subseteq T
<1> DEFINE rest == (0..n) \ T
<1> SUFFICES ASSUME rest # {} PROVE FALSE
  OBVIOUS
<1>1. rest \subseteq Nat
  OBVIOUS
<1>2. PICK m \in rest : \A i \in rest : m <= i
  <2> HIDE DEF rest
  <2> QED
    BY <1>1, Least
<1>3. m # 0 /\ m - 1 \in 0..n /\ m - 1 < n /\ (m - 1) + 1 = m
  OBVIOUS
<1>4. ~(m <= m - 1)
  OBVIOUS
<1>5. m - 1 \in T
  BY <1>2, <1>3, <1>4
<1> QED
  BY <1>3, <1>5

PartIs(part, seq, places, n) ==
    part = [i \in 0..n |->
               IF i = 0 THEN <<>>
               ELSE IF i \in places THEN Append(part[i - 1], seq[i])
               ELSE part[i - 1]]

LEMMA PartsExist ==
    ASSUME NEW seq, NEW places, NEW n \in Nat
    PROVE  \E part : PartIs(part, seq, places, n)
<1> DEFINE T == {k \in 0..n : \E part : PartIs(part, seq, places, k)}
<1>1. 0 \in T
  <2>1. PartIs([i \in 0..0 |-> <<>>], seq, places, 0)
    BY DEF PartIs
  <2> QED
    BY <2>1
<1>2. ASSUME NEW k \in 0..n, k \in T, k < n
      PROVE  k + 1 \in T
  <2>1. PICK part : PartIs(part, seq, places, k)
    BY <1>2
  <2> DEFINE grown == [i \in 0..(k + 1) |->
                          IF i <= k THEN part[i]
                          ELSE IF i \in places THEN Append(part[k], seq[i])
                          ELSE part[k]]
  <2>2. ASSUME NEW i \in 0..(k + 1)
        PROVE  grown[i] = IF i = 0 THEN <<>>
                          ELSE IF i \in places THEN Append(grown[i - 1], seq[i])
                          ELSE grown[i - 1]
    <3>1. CASE i = 0
      BY <2>1, <3>1 DEF PartIs
    <3>2. CASE i # 0 /\ i <= k
      <4>1. i \in 0..k /\ i - 1 \in 0..k /\ i - 1 \in 0..(k + 1) /\ i - 1 <= k
        BY <3>2
      <4>2. part[i] = IF i \in places THEN Append(part[i - 1], seq[i])
                      ELSE part[i - 1]
        BY <2>1, <3>2, <4>1 DEF PartIs
      <4> QED
        BY <3>2, <4>1, <4>2
    <3>3. CASE i = k + 1
      BY <3>3
    <3> QED
      BY <3>1, <3>2, <3>3
  <2>3. PartIs(grown, seq, places, k + 1)
    BY <2>2 DEF PartIs
  <2> QED
    BY <2>3
<1> HIDE DEF T
<1>3. 0..n \subseteq T
  BY <1>1, <1>2, UpTo
<1>4. n \in T
  BY <1>3
<1> QED
  BY <1>4 DEF T

LEMMA PartSteps ==
    ASSUME NEW seq, NEW places, Len(seq) \in Nat
    PROVE  \E part : /\ part[0] = <<>>
                     /\ \A i \in 1..Len(seq) :
                           part[i] = IF i \in places
                                     THEN Append(part[i - 1], seq[i])
                                     ELSE part[i - 1]
                     /\ Part(seq, places) = part[Len(seq)]
<1> DEFINE part == CHOOSE p : PartIs(p, seq, places, Len(seq))
<1>1. PartIs(part, seq, places, Len(seq))
  BY PartsExist
<1>2. Part(seq, places) = part[Len(seq)]
  BY DEF Part, PartIs
<1> HIDE DEF part
<1>3. part[0] = <<>> /\ \A i \in 1..Len(seq) :
           part[i] = IF i \in places THEN Append(part[i - 1], seq[i])
                     ELSE part[i - 1]
  <2> DEFINE n == Len(seq)
  <2> HIDE DEF n
  <2>1. PartIs(part, seq, places, n) /\ n \in Nat
    BY <1>1 DEF n
  <2>2. 0 \in 0..n /\ \A i \in 1..n : i \in 0..n /\ i # 0
    BY <2>1
  <2>3. part[0] = <<>> /\ \A i \in 1..n :
           part[i] = IF i \in places THEN Append(part[i - 1], seq[i])
                     ELSE part[i - 1]
    BY <2>1, <2>2 DEF PartIs
  <2> QED
    BY <2>3 DEF n
<1> QED
  BY <1>2, <1>3

(* Nothing but elements at the chosen places.                              *)
LEMMA PartType ==
    ASSUME NEW S, NEW seq \in Seq(S), NEW places,
           NEW T, \A i \in places \cap DOMAIN seq : seq[i] \in T
    PROVE  Part(seq, places) \in Seq(T)
<1>1. PICK part : /\ part[0] = <<>>
                  /\ \A i \in 1..Len(seq) :
                        part[i] = IF i \in places THEN Append(part[i - 1], seq[i])
                                  ELSE part[i - 1]
                  /\ Part(seq, places) = part[Len(seq)]
  BY PartSteps
<1> DEFINE K == {i \in 0..Len(seq) : part[i] \in Seq(T)}
<1>2. 0 \in K
  <2>1. 0 \in 0..Len(seq)
    OBVIOUS
  <2>2. <<>> \in Seq(T)
    OBVIOUS
  <2> QED
    BY <1>1, <2>1, <2>2
<1>3. ASSUME NEW i \in 0..Len(seq), i \in K, i < Len(seq)
      PROVE  i + 1 \in K
  <2>1. i + 1 \in 1..Len(seq) /\ (i + 1) - 1 = i
    BY <1>3
  <2>2. part[i + 1] = IF i + 1 \in places THEN Append(part[i], seq[i + 1])
                      ELSE part[i]
    BY <1>1, <2>1
  <2>3. i + 1 \in DOMAIN seq /\ i + 1 \in 0..Len(seq)
    BY <2>1
  <2>4. i + 1 \in places => seq[i + 1] \in T
    BY <2>3
  <2>5. part[i] \in Seq(T)
    BY <1>3
  <2>6. part[i + 1] \in Seq(T)
    <3>1. \A x \in T : Append(part[i], x) \in Seq(T)
      BY <2>5
    <3> QED
      BY <2>2, <2>4, <2>5, <3>1
  <2> QED
    BY <2>3, <2>6
<1> HIDE DEF K
<1>4. 0..Len(seq) \subseteq K
  BY <1>2, <1>3, UpTo, SMTT(30)
<1>5. Len(seq) \in K
  BY <1>4
<1> QED
  BY <1>1, <1>5 DEF K

(* All of them, when all places are chosen.                                *)
LEMMA PartWhole ==
    ASSUME NEW S, NEW seq \in Seq(S), NEW places, DOMAIN seq \subseteq places
    PROVE  Part(seq, places) = seq
<1>1. PICK part : /\ part[0] = <<>>
                  /\ \A i \in 1..Len(seq) :
                        part[i] = IF i \in places THEN Append(part[i - 1], seq[i])
                                  ELSE part[i - 1]
                  /\ Part(seq, places) = part[Len(seq)]
  BY PartSteps
<1> DEFINE K == {i \in 0..Len(seq) : part[i] = SubSeq(seq, 1, i)}
<1>0. SubSeq(seq, 1, 0) = <<>>
  OBVIOUS
<1>2. 0 \in K
  <2>1. 0 \in 0..Len(seq)
    OBVIOUS
  <2> QED
    BY <1>0, <1>1, <2>1
<1>3. ASSUME NEW i \in 0..Len(seq), i \in K, i < Len(seq)
      PROVE  i + 1 \in K
  <2>1. i + 1 \in 1..Len(seq) /\ (i + 1) - 1 = i /\ i + 1 \in places
    BY <1>3
  <2>2. part[i + 1] = Append(SubSeq(seq, 1, i), seq[i + 1])
    BY <1>1, <1>3, <2>1
  <2>3. Append(SubSeq(seq, 1, i), seq[i + 1]) = SubSeq(seq, 1, i + 1)
    BY <2>1, SMTT(30)
  <2> QED
    BY <2>1, <2>2, <2>3
<1> HIDE DEF K
<1>4. 0..Len(seq) \subseteq K
  BY <1>2, <1>3, UpTo
<1>5. Len(seq) \in K
  BY <1>4
<1> QED
  BY <1>1, <1>5 DEF K

(* A path that was normalised stays as it is.                              *)
LEMMA NormalizedTwice ==
    ASSUME NEW path \in Seq(STRING)
    PROVE  /\ Normalized(path) \in Seq(STRING)
           /\ Normalized(Normalized(path)) = Normalized(path)
<1> DEFINE plain == STRING \ Dots
           places == {i \in DOMAIN path : path[i] \notin Dots}
           rest == Normalized(path)
<1>1. \A i \in places \cap DOMAIN path : path[i] \in plain
  OBVIOUS
<1>2. rest \in Seq(plain)
  <2> HIDE DEF plain, places
  <2>1. Part(path, places) \in Seq(plain)
    BY <1>1, PartType
  <2> QED
    BY <2>1 DEF Normalized, places
<1> HIDE DEF rest
<1>3. rest \in Seq(STRING) /\ \A i \in DOMAIN rest : rest[i] \notin Dots
  BY <1>2
<1>4. Normalized(rest) = rest
  BY <1>3, PartWhole DEF Normalized
<1> QED
  BY <1>3, <1>4 DEF rest

-----------------------------------------------------------------------------
(* A hunk.                                                                 *)

Texts == Seq(STRING)

LEMMA SideType ==
    ASSUME NEW lines \in Seq(HunkLine), NEW marks
    PROVE  Side(lines, marks) \in Texts
<1> DEFINE places == {i \in DOMAIN lines : lines[i].mark \in marks}
           of == Part(lines, places)
<1>1. \A i \in places \cap DOMAIN lines : lines[i] \in HunkLine
  OBVIOUS
<1>2. of \in Seq(HunkLine)
  <2> HIDE DEF places
  <2> QED
    BY <1>1, PartType
<1> HIDE DEF of
<1>3. ASSUME NEW i \in DOMAIN of
      PROVE  of[i].arg \in STRING
  <2>1. of[i] \in HunkLine
    BY <1>2
  <2> QED
    BY <2>1 DEF HunkLine
<1>4. [i \in DOMAIN of |-> of[i].arg] \in Texts
  BY <1>2, <1>3 DEF Texts
<1> QED
  BY <1>4 DEF Side, of

LEMMA HunkSides ==
    ASSUME NEW hunk \in Hunk
    PROVE  /\ Anchor(hunk.lines) \in Texts /\ Replacement(hunk.lines) \in Texts
           /\ hunk.start \in Nat
BY SideType DEF Anchor, Replacement, Hunk

(* Of the places where a hunk fits the nearest is one.                     *)
LEMMA NearestIsOne ==
    ASSUME NEW places, places \subseteq Nat, places # {}, NEW header \in Int
    PROVE  Nearest(places, header) \in places
<1> DEFINE far == {Distance(j, header) : j \in places}
<1>1. far \subseteq Nat /\ far # {}
  <2>1. ASSUME NEW j \in Nat
        PROVE  Distance(j, header) \in Nat
    BY DEF Distance
  <2> QED
    BY <2>1
<1>2. PICK d \in far : \A e \in far : d <= e
  <2> HIDE DEF far
  <2> QED
    BY <1>1, Least
<1> DEFINE closest == {j \in places : Distance(j, header) = d}
<1>3. closest \subseteq Nat /\ closest # {}
  BY <1>2
<1>4. PICK j \in closest : \A k \in closest : j <= k
  <2> HIDE DEF closest
  <2> QED
    BY <1>3, Least
<1>5. ASSUME NEW k \in places
      PROVE  \/ Distance(j, header) < Distance(k, header)
             \/ Distance(j, header) = Distance(k, header) /\ j <= k
  <2>1. d <= Distance(k, header) /\ Distance(j, header) = d
    BY <1>2, <1>4
  <2>2. Distance(k, header) = d => j <= k
    BY <1>4
  <2>3. d \in Nat /\ Distance(k, header) \in Nat
    BY <1>1
  <2> QED
    BY <2>1, <2>2, <2>3
<1>6. j \in places
  OBVIOUS
<1> QED
  BY <1>5, <1>6 DEF Nearest

(* A place is found only where the file has the old lines of the hunk, and *)
(* not before what earlier hunks have consumed; and when it has them       *)
(* anywhere behind that, a place is found.                                 *)
Fits(file, expected, place, from) ==
    /\ place \in Nat /\ place >= from /\ place + Len(expected) <= Len(file)
    /\ \A k \in DOMAIN expected : file[place + k] = expected[k]

LEMMA LocateFits ==
    ASSUME NEW file \in Texts, NEW expected \in Texts, NEW header \in Int,
           NEW from \in Nat,
           LocateHunk(file, expected, header, from) # NoPlace
    PROVE  Fits(file, expected, LocateHunk(file, expected, header, from), from)
<1> DEFINE m == Len(file)
           n == Len(expected)
<1>1. m \in Nat /\ n \in Nat /\ DOMAIN expected = 1..n
      /\ (expected = <<>> <=> n = 0)
  BY DEF Texts
<1>2. CASE expected = <<>>
  <2>1. LocateHunk(file, expected, header, from) = header
        /\ ~(header < from) /\ ~(header > m)
    BY <1>2 DEF LocateHunk
  <2> HIDE DEF m, n
  <2>2. header \in Nat /\ header >= from /\ header + n <= m /\ 1..n = {}
    BY <1>1, <1>2, <2>1
  <2> QED
    BY <1>1, <2>1, <2>2 DEF Fits, m, n
<1>3. CASE expected # <<>> /\ MatchesAt(file, expected, header, from)
  BY <1>3 DEF LocateHunk, MatchesAt, Fits
<1>4. CASE expected # <<>> /\ ~MatchesAt(file, expected, header, from)
  <2>1. Candidates(file, expected, from) # {}
    BY <1>4 DEF LocateHunk
  <2>2. Candidates(file, expected, from) \subseteq Nat
    BY DEF Candidates, MatchesAt, Texts
  <2>3. LocateHunk(file, expected, header, from) \in
            Candidates(file, expected, from)
    BY <1>4, <2>1, <2>2, NearestIsOne DEF LocateHunk
  <2> QED
    BY <2>2, <2>3 DEF Candidates, MatchesAt, Fits
<1> QED
  BY <1>2, <1>3, <1>4

LEMMA FitsIsLocated ==
    ASSUME NEW file \in Texts, NEW expected \in Texts, expected # <<>>,
           NEW header \in Int, NEW from \in Nat,
           NEW place, Fits(file, expected, place, from)
    PROVE  LocateHunk(file, expected, header, from) # NoPlace
<1> DEFINE m == Len(file)
           n == Len(expected)
<1>1. m \in Nat /\ n \in Nat
  BY DEF Texts
<1>2. place \in Nat /\ place >= from /\ place + n <= m
  BY DEF Fits
<1>3. place \in from..(m - n) /\ place >= 0
  <2> HIDE DEF m, n
  <2> QED
    BY <1>1, <1>2
<1>4. place \in Candidates(file, expected, from)
  BY <1>3 DEF Candidates, MatchesAt, Fits
<1>5. CASE MatchesAt(file, expected, header, from)
  BY <1>5 DEF LocateHunk, MatchesAt, NoPlace
<1>6. CASE ~MatchesAt(file, expected, header, from)
  <2>1. Candidates(file, expected, from) \subseteq Nat
    BY <1>1 DEF Candidates, MatchesAt
  <2>2. Nearest(Candidates(file, expected, from), header) \in Nat
    BY <1>4, <2>1, NearestIsOne
  <2> QED
    BY <1>4, <1>6, <2>2 DEF LocateHunk, NoPlace
<1> QED
  BY <1>5, <1>6

-----------------------------------------------------------------------------
(* The hunks of a file, one after the other.                               *)

Start == [ok |-> TRUE, at |-> 0, out |-> <<>>]

AppliedIs(applied, file, hunks, n) ==
    applied = [i \in 0..n |-> IF i = 0 THEN Start
                              ELSE ApplyHunk(file, applied[i - 1], hunks[i])]

LEMMA ApplicationsExist ==
    ASSUME NEW file, NEW hunks, NEW n \in Nat
    PROVE  \E applied : AppliedIs(applied, file, hunks, n)
<1> DEFINE T == {k \in 0..n : \E applied : AppliedIs(applied, file, hunks, k)}
<1>1. 0 \in T
  <2>1. AppliedIs([i \in 0..0 |-> Start], file, hunks, 0)
    BY DEF AppliedIs
  <2> QED
    BY <2>1
<1>2. ASSUME NEW k \in 0..n, k \in T, k < n
      PROVE  k + 1 \in T
  <2>1. PICK applied : AppliedIs(applied, file, hunks, k)
    BY <1>2
  <2> DEFINE grown == [i \in 0..(k + 1) |->
                          IF i <= k THEN applied[i]
                          ELSE ApplyHunk(file, applied[k], hunks[i])]
  <2>2. ASSUME NEW i \in 0..(k + 1)
        PROVE  grown[i] = IF i = 0 THEN Start
                          ELSE ApplyHunk(file, grown[i - 1], hunks[i])
    <3>1. CASE i = 0
      BY <2>1, <3>1 DEF AppliedIs
    <3>2. CASE i # 0 /\ i <= k
      <4>1. i \in 0..k /\ i - 1 \in 0..k /\ i - 1 \in 0..(k + 1) /\ i - 1 <= k
        BY <3>2
      <4>2. applied[i] = ApplyHunk(file, applied[i - 1], hunks[i])
        BY <2>1, <3>2, <4>1 DEF AppliedIs
      <4> QED
        BY <3>2, <4>1, <4>2
    <3>3. CASE i = k + 1
      BY <3>3
    <3> QED
      BY <3>1, <3>2, <3>3
  <2>3. AppliedIs(grown, file, hunks, k + 1)
    BY <2>2 DEF AppliedIs
  <2>4. k + 1 \in 0..n
    BY <1>2
  <2> QED
    BY <2>3, <2>4
<1> HIDE DEF T
<1>3. n \in T
  BY <1>1, <1>2, UpTo
<1> QED
  BY <1>3 DEF T

(* What ApplyPatch goes through, hunk by hunk.                             *)
Applies(applied, file, hunks) ==
    /\ applied[0] = Start
    /\ \A i \in 1..Len(hunks) :
          applied[i] = ApplyHunk(file, applied[i - 1], hunks[i])

LEMMA PatchSteps ==
    ASSUME NEW file, NEW hunks, Len(hunks) \in Nat
    PROVE  \E applied :
               /\ Applies(applied, file, hunks)
               /\ ApplyPatch(file, hunks) =
                     [ok |-> applied[Len(hunks)].ok,
                      text |-> applied[Len(hunks)].out
                               \o SubSeq(file, applied[Len(hunks)].at + 1, Len(file))]
<1> DEFINE n == Len(hunks)
           applied == CHOOSE a : AppliedIs(a, file, hunks, n)
<1>1. AppliedIs(applied, file, hunks, n)
  BY ApplicationsExist
<1>2. ApplyPatch(file, hunks) =
          [ok |-> applied[n].ok,
           text |-> applied[n].out \o SubSeq(file, applied[n].at + 1, Len(file))]
  BY DEF ApplyPatch, AppliedIs, Start
<1> HIDE DEF applied, n
<1>3. Applies(applied, file, hunks)
  <2>1. n \in Nat
    BY DEF n
  <2>2. 0 \in 0..n /\ \A i \in 1..n : i \in 0..n /\ i # 0
    BY <2>1
  <2>3. applied[0] = Start /\ \A i \in 1..n :
            applied[i] = ApplyHunk(file, applied[i - 1], hunks[i])
    BY <1>1, <2>2 DEF AppliedIs
  <2> QED
    BY <2>3 DEF Applies, n
<1> QED
  BY <1>2, <1>3 DEF n

(* How far an application has come.                                        *)
Sofar(file) == [ok : BOOLEAN, at : 0..Len(file), out : Texts]

LEMMA HunkApplies ==
    ASSUME NEW file \in Texts, NEW hunk \in Hunk, NEW a \in Sofar(file)
    PROVE  /\ ApplyHunk(file, a, hunk) \in Sofar(file)
           /\ ApplyHunk(file, a, hunk).ok =>
                 LET anchor == Anchor(hunk.lines)
                     place == LocateHunk(file, anchor, hunk.start - 1, a.at)
                 IN  /\ a.ok /\ Fits(file, anchor, place, a.at)
                     /\ ApplyHunk(file, a, hunk).at = place + Len(anchor)
                     /\ ApplyHunk(file, a, hunk).out =
                           a.out \o SubSeq(file, a.at + 1, place)
                                 \o Replacement(hunk.lines)
<1> DEFINE anchor == Anchor(hunk.lines)
           place == LocateHunk(file, anchor, hunk.start - 1, a.at)
           replacement == Replacement(hunk.lines)
           m == Len(file)
<1>1. /\ anchor \in Texts /\ replacement \in Texts /\ hunk.start - 1 \in Int
      /\ a.at \in Nat /\ a.at <= m /\ m \in Nat /\ a.out \in Texts
  BY HunkSides DEF Sofar, Texts
<1>2. CASE ~a.ok \/ place = NoPlace
  <2>1. ApplyHunk(file, a, hunk) = [a EXCEPT !.ok = FALSE]
    BY <1>2 DEF ApplyHunk
  <2> QED
    BY <2>1 DEF Sofar
<1>3. CASE a.ok /\ place # NoPlace
  <2>1. Fits(file, anchor, place, a.at)
    <3> HIDE DEF anchor
    <3> QED
      BY <1>1, <1>3, LocateFits
  <2> DEFINE next == [ok |-> TRUE, at |-> place + Len(anchor),
                      out |-> a.out \o SubSeq(file, a.at + 1, place) \o replacement]
  <2>2. ApplyHunk(file, a, hunk) = next
    BY <1>3 DEF ApplyHunk
  <2> HIDE DEF place, anchor, replacement
  <2>3. place \in Nat /\ place + Len(anchor) <= m /\ Len(anchor) \in Nat
    BY <1>1, <2>1 DEF Fits, Texts
  <2>4. place + Len(anchor) \in 0..m
    BY <1>1, <2>3
  <2>5. place <= m
    BY <1>1, <2>3
  <2>6. SubSeq(file, a.at + 1, place) \in Texts
    BY <1>1, <2>3, <2>5 DEF Texts
  <2>7. a.out \o SubSeq(file, a.at + 1, place) \o replacement \in Texts
    BY <1>1, <2>6 DEF Texts
  <2>8. next \in Sofar(file)
    BY <2>4, <2>7 DEF Sofar
  <2>9. /\ next.at = place + Len(anchor)
        /\ next.out = a.out \o SubSeq(file, a.at + 1, place) \o replacement
    OBVIOUS
  <2> HIDE DEF next
  <2> QED
    BY <1>3, <2>1, <2>2, <2>8, <2>9 DEF place, anchor, replacement
<1> QED
  BY <1>2, <1>3 DEF Sofar

LEMMA PatchApplies ==
    ASSUME NEW file \in Texts, NEW hunks \in Seq(Hunk), NEW applied,
           Applies(applied, file, hunks)
    PROVE  \A i \in 0..Len(hunks) : applied[i] \in Sofar(file)
<1> DEFINE n == Len(hunks)
           T == {i \in 0..n : applied[i] \in Sofar(file)}
<1>0. n \in Nat /\ \A i \in 1..n : hunks[i] \in Hunk
  OBVIOUS
<1>1. 0 \in T
  <2>1. Len(file) \in Nat /\ <<>> \in Texts
    BY DEF Texts
  <2>2. Start \in Sofar(file)
    BY <2>1 DEF Start, Sofar
  <2> QED
    BY <2>2 DEF Applies
<1>2. ASSUME NEW i \in 0..n, i \in T, i < n
      PROVE  i + 1 \in T
  <2>1. i + 1 \in 1..n /\ i + 1 \in 0..n /\ (i + 1) - 1 = i
    BY <1>0, <1>2
  <2>2. applied[i + 1] = ApplyHunk(file, applied[i], hunks[i + 1])
    BY <2>1 DEF Applies
  <2> QED
    BY <1>0, <1>2, <2>1, <2>2, HunkApplies
<1> HIDE DEF T, n
<1>3. 0..n \subseteq T
  BY <1>0, <1>1, <1>2, UpTo
<1> QED
  BY <1>3 DEF T, n

LEMMA PatchType ==
    ASSUME NEW file \in Texts, NEW hunks \in Seq(Hunk)
    PROVE  /\ ApplyPatch(file, hunks).text \in Texts
           /\ ApplyPatch(file, hunks).ok \in BOOLEAN
<1>1. PICK applied :
          /\ Applies(applied, file, hunks)
          /\ ApplyPatch(file, hunks) =
                [ok |-> applied[Len(hunks)].ok,
                 text |-> applied[Len(hunks)].out
                          \o SubSeq(file, applied[Len(hunks)].at + 1, Len(file))]
  <2>1. Len(hunks) \in Nat
    OBVIOUS
  <2> QED
    BY <2>1, PatchSteps
<1>2. applied[Len(hunks)] \in Sofar(file)
  BY <1>1, PatchApplies
<1> DEFINE last == applied[Len(hunks)]
<1> HIDE DEF last
<1>3. last.out \in Texts /\ last.at \in Nat /\ last.ok \in BOOLEAN
  BY <1>2 DEF last, Sofar
<1>4. SubSeq(file, last.at + 1, Len(file)) \in Texts
  BY <1>3 DEF Texts
<1>5. last.out \o SubSeq(file, last.at + 1, Len(file)) \in Texts
  BY <1>3, <1>4 DEF Texts
<1> QED
  BY <1>1, <1>3, <1>5 DEF last

(* A diff with a hunk that fits nowhere is not applied.                    *)
LEMMA MisfitRefused ==
    ASSUME NEW file \in Texts, NEW hunks \in Seq(Hunk), NEW i \in DOMAIN hunks,
           ApplyPatch(file, hunks).ok
    PROVE  \E place : Fits(file, Anchor(hunks[i].lines), place, 0)
<1> DEFINE n == Len(hunks)
<1>0. n \in Nat /\ i \in 1..n /\ \A j \in 1..n : hunks[j] \in Hunk
  OBVIOUS
<1>1. PICK applied : Applies(applied, file, hunks) /\ applied[n].ok
  <2>1. ASSUME NEW a, ApplyPatch(file, hunks) =
               [ok |-> a[n].ok, text |-> a[n].out \o SubSeq(file, a[n].at + 1, Len(file))]
        PROVE  a[n].ok
    BY <2>1
  <2> QED
    BY <1>0, <2>1, PatchSteps
<1> HIDE DEF n
<1>2. \A j \in 0..n : applied[j] \in Sofar(file)
  BY <1>1, PatchApplies DEF n
<1>3. ASSUME NEW j \in 1..n, applied[j].ok
      PROVE  /\ j - 1 \in 0..n /\ applied[j - 1].ok
             /\ \E place : Fits(file, Anchor(hunks[j].lines), place, applied[j - 1].at)
  <2>1. j - 1 \in 0..n
    BY <1>0
  <2>2. applied[j] = ApplyHunk(file, applied[j - 1], hunks[j])
    BY <1>1 DEF Applies, n
  <2>3. applied[j - 1] \in Sofar(file) /\ hunks[j] \in Hunk
    BY <1>0, <1>2, <2>1
  <2>4. ApplyHunk(file, applied[j - 1], hunks[j]).ok
    BY <1>3, <2>2
  <2>5. /\ applied[j - 1].ok
        /\ Fits(file, Anchor(hunks[j].lines),
                LocateHunk(file, Anchor(hunks[j].lines), hunks[j].start - 1,
                           applied[j - 1].at), applied[j - 1].at)
    BY <2>3, <2>4, HunkApplies
  <2> QED
    BY <2>1, <2>5
<1> DEFINE T == {k \in 0..n : applied[n - k].ok}
<1>4. 0 \in T
  BY <1>0, <1>1
<1>5. ASSUME NEW k \in 0..n, k \in T, k < n
      PROVE  k + 1 \in T
  <2>1. n - k \in 1..n /\ k + 1 \in 0..n /\ (n - k) - 1 = n - (k + 1)
    BY <1>0, <1>5
  <2> QED
    BY <1>3, <1>5, <2>1
<1>6. 0..n \subseteq T
  <2> HIDE DEF T
  <2> QED
    BY <1>0, <1>4, <1>5, UpTo
<1>7. n - i \in 0..n /\ n - (n - i) = i
  BY <1>0
<1>8. applied[i].ok
  BY <1>6, <1>7
<1>9. PICK place : Fits(file, Anchor(hunks[i].lines), place, applied[i - 1].at)
  BY <1>0, <1>3, <1>8
<1>10. i - 1 \in 0..n
  BY <1>0
<1>11. applied[i - 1].at \in Nat
  BY <1>2, <1>10 DEF Sofar
<1> QED
  BY <1>9, <1>11, SMTT(30) DEF Fits

-----------------------------------------------------------------------------
(* Reading a diff.                                                         *)

Begin == [patches |-> [p \in {} |-> <<>>], file |-> NoPath,
          hunks |-> <<>>, lines |-> <<>>, start |-> 0]

ReadIs(read, diff, n) ==
    read = [i \in 0..n |-> IF i = 0 THEN Begin
                           ELSE ReadLine(read[i - 1], AsRead(diff[i]))]

LEMMA ReadingsExist ==
    ASSUME NEW diff, NEW n \in Nat
    PROVE  \E read : ReadIs(read, diff, n)
<1> DEFINE T == {k \in 0..n : \E read : ReadIs(read, diff, k)}
<1>1. 0 \in T
  <2>1. ReadIs([i \in 0..0 |-> Begin], diff, 0)
    BY DEF ReadIs
  <2> QED
    BY <2>1
<1>2. ASSUME NEW k \in 0..n, k \in T, k < n
      PROVE  k + 1 \in T
  <2>1. PICK read : ReadIs(read, diff, k)
    BY <1>2
  <2> DEFINE grown == [i \in 0..(k + 1) |->
                          IF i <= k THEN read[i]
                          ELSE ReadLine(read[k], AsRead(diff[i]))]
  <2>2. ASSUME NEW i \in 0..(k + 1)
        PROVE  grown[i] = IF i = 0 THEN Begin
                          ELSE ReadLine(grown[i - 1], AsRead(diff[i]))
    <3>1. CASE i = 0
      BY <2>1, <3>1 DEF ReadIs
    <3>2. CASE i # 0 /\ i <= k
      <4>1. i \in 0..k /\ i - 1 \in 0..k /\ i - 1 \in 0..(k + 1) /\ i - 1 <= k
        BY <3>2
      <4>2. read[i] = ReadLine(read[i - 1], AsRead(diff[i]))
        BY <2>1, <3>2, <4>1 DEF ReadIs
      <4> QED
        BY <3>2, <4>1, <4>2
    <3>3. CASE i = k + 1
      BY <3>3
    <3> QED
      BY <3>1, <3>2, <3>3
  <2>3. ReadIs(grown, diff, k + 1)
    BY <2>2 DEF ReadIs
  <2>4. k + 1 \in 0..n
    BY <1>2
  <2> QED
    BY <2>3, <2>4
<1> HIDE DEF T
<1>3. n \in T
  BY <1>1, <1>2, UpTo
<1> QED
  BY <1>3 DEF T

(* What is read of a diff: paths and hunks.                                *)
IsPatches(patches) ==
    /\ DOMAIN patches \subseteq Seq(STRING)
    /\ \A file \in DOMAIN patches : patches[file] \in Seq(Hunk)

Reads(reader) ==
    /\ reader = [patches |-> reader.patches, file |-> reader.file,
                 hunks |-> reader.hunks, lines |-> reader.lines,
                 start |-> reader.start]
    /\ IsPatches(reader.patches) /\ reader.file \in Seq(STRING)
    /\ reader.hunks \in Seq(Hunk) /\ reader.lines \in Seq(HunkLine)
    /\ reader.start \in Nat

LEMMA FiledType ==
    ASSUME NEW reader, Reads(reader)
    PROVE  IsPatches(Filed(reader)) /\ Flushed(reader) \in Seq(Hunk)
<1>1. [start |-> reader.start, lines |-> reader.lines] \in Hunk
  BY DEF Reads, Hunk
<1>2. Flushed(reader) \in Seq(Hunk)
  BY <1>1 DEF Flushed, Reads
<1>3. IsPatches(Filed(reader))
  BY <1>2 DEF Filed, Reads, IsPatches
<1> QED
  BY <1>2, <1>3

(* A mark says what follows it.                                            *)
LEMMA MarksTell ==
    /\ NoMark \notin {"---", "+++", "@@"} /\ "---" # "+++"
    /\ \A mark \in Marks : mark \notin {"---", "+++", "@@"}
    /\ "@@" \notin {"---", "+++"}
BY Zenon DEF Marks, NoMark

LEMMA LinesAre ==
    ASSUME NEW line, IsLine(line)
    PROVE  /\ line.mark = "+++" => line.arg \in Seq(STRING)
           /\ line.mark = "@@" => line.arg \in Nat
           /\ line.mark \in Marks => line \in HunkLine
<1> USE MarksTell
<1>1. CASE IsHeader(line)
  BY <1>1 DEF IsHeader
<1>2. CASE line.mark = "@@" /\ line.arg \in Nat
  BY <1>2
<1>3. CASE line.mark = NoMark /\ NoMark \notin Marks
  BY <1>3
<1>4. CASE line.mark \in Marks /\ line.arg \in STRING
  BY <1>4 DEF IsLine, HunkLine
<1> QED
  BY <1>1, <1>2, <1>3, <1>4 DEF IsLine

LEMMA ReadsParts ==
    ASSUME NEW patches, IsPatches(patches), NEW file \in Seq(STRING),
           NEW hunks \in Seq(Hunk), NEW lines \in Seq(HunkLine),
           NEW start \in Nat, NEW reader,
           reader = [patches |-> patches, file |-> file, hunks |-> hunks,
                     lines |-> lines, start |-> start]
    PROVE  Reads(reader)
<1>1. /\ reader.patches = patches /\ reader.file = file
      /\ reader.hunks = hunks /\ reader.lines = lines /\ reader.start = start
  OBVIOUS
<1>2. IsPatches(reader.patches)
  BY <1>1, Zenon
<1> QED
  BY <1>1, <1>2 DEF Reads

LEMMA ReadLineType ==
    ASSUME NEW reader, Reads(reader), NEW line, IsLine(line)
    PROVE  Reads(ReadLine(reader, line))
<1>0. /\ IsPatches(reader.patches) /\ reader.file \in Seq(STRING)
      /\ reader.hunks \in Seq(Hunk) /\ reader.lines \in Seq(HunkLine)
      /\ reader.start \in Nat
  BY DEF Reads
<1>1. IsPatches(Filed(reader)) /\ Flushed(reader) \in Seq(Hunk)
  BY FiledType
<1> DEFINE next == ReadLine(reader, line)
<1> SUFFICES Reads(next)
  OBVIOUS
<1> HIDE DEF next
<1>2. CASE line.mark = "---"
  <2>1. next = [reader EXCEPT !.patches = Filed(reader), !.file = NoPath,
                              !.hunks = <<>>, !.lines = <<>>]
    BY <1>2, MarksTell DEF ReadLine, next
  <2>2. next = [patches |-> Filed(reader), file |-> NoPath, hunks |-> <<>>,
                lines |-> <<>>, start |-> reader.start]
    BY <2>1 DEF Reads
  <2>3. NoPath \in Seq(STRING) /\ <<>> \in Seq(Hunk) /\ <<>> \in Seq(HunkLine)
    BY DEF NoPath
  <2> QED
    BY <1>1, <2>2, <2>3, <1>0, ReadsParts
<1>3. CASE line.mark = "+++"
  <2>1. next = [reader EXCEPT !.file = line.arg]
    BY <1>3, MarksTell DEF ReadLine, next
  <2>2. next = [patches |-> reader.patches, file |-> line.arg,
                hunks |-> reader.hunks, lines |-> reader.lines,
                start |-> reader.start]
    BY <2>1 DEF Reads
  <2>3. line.arg \in Seq(STRING)
    BY <1>3, LinesAre
  <2> QED
    BY <2>2, <2>3, <1>0, ReadsParts
<1>4. CASE line.mark = "@@"
  <2>1. next = [reader EXCEPT !.hunks = Flushed(reader), !.lines = <<>>,
                              !.start = line.arg]
    BY <1>4, MarksTell DEF ReadLine, next
  <2>2. next = [patches |-> reader.patches, file |-> reader.file,
                hunks |-> Flushed(reader), lines |-> <<>>, start |-> line.arg]
    BY <2>1 DEF Reads
  <2>3. line.arg \in Nat /\ <<>> \in Seq(HunkLine)
    BY <1>4, LinesAre
  <2> QED
    BY <1>1, <2>2, <2>3, <1>0, ReadsParts
<1>5. CASE line.mark \in Marks /\ reader.file # NoPath
  <2>1. next = [reader EXCEPT !.lines = Append(@, line)]
    BY <1>5, MarksTell DEF ReadLine, next
  <2>2. next = [patches |-> reader.patches, file |-> reader.file,
                hunks |-> reader.hunks, lines |-> Append(reader.lines, line),
                start |-> reader.start]
    BY <2>1 DEF Reads
  <2>3. line \in HunkLine
    BY <1>5, LinesAre
  <2>4. Append(reader.lines, line) \in Seq(HunkLine)
    BY <2>3 DEF Reads
  <2> QED
    BY <2>2, <2>4, <1>0, ReadsParts
<1>6. CASE /\ line.mark \notin {"---", "+++", "@@"}
           /\ ~(line.mark \in Marks /\ reader.file # NoPath)
  <2>1. next = reader
    BY <1>6 DEF ReadLine, next
  <2> QED
    BY <2>1
<1> QED
  BY <1>2, <1>3, <1>4, <1>5, <1>6

LEMMA PatchesType ==
    ASSUME NEW diff, diff \in Seq(Range(diff)), \A i \in DOMAIN diff : IsLine(diff[i])
    PROVE  IsPatches(ParseFilePatches(diff))
<1> DEFINE n == Len(diff)
           read == CHOOSE r : ReadIs(r, diff, n)
<1>0. n \in Nat /\ DOMAIN diff = 1..n
  OBVIOUS
<1>1. ReadIs(read, diff, n)
  BY <1>0, ReadingsExist
<1>2. ParseFilePatches(diff) = Filed(read[n])
  BY DEF ParseFilePatches, ReadIs, Begin
<1> HIDE DEF read, n
<1> DEFINE T == {i \in 0..n : Reads(read[i])}
<1>3. 0 \in T
  <2>1. 0 \in 0..n
    BY <1>0
  <2>2. read[0] = Begin
    BY <1>1, <2>1 DEF ReadIs
  <2>3. Reads(Begin)
    BY DEF Begin, Reads, IsPatches, NoPath
  <2> QED
    BY <2>1, <2>2, <2>3
<1>4. ASSUME NEW i \in 0..n, i \in T, i < n
      PROVE  i + 1 \in T
  <2>1. i + 1 \in 0..n /\ i + 1 # 0 /\ (i + 1) - 1 = i /\ i + 1 \in 1..n
    BY <1>0, <1>4
  <2>2. read[i + 1] = ReadLine(read[i], AsRead(diff[i + 1]))
    BY <1>1, <2>1 DEF ReadIs
  <2>3. IsLine(diff[i + 1])
    BY <1>0, <2>1
  <2>4. IsLine(AsRead(diff[i + 1]))
    <3> DEFINE key == <<diff[i + 1].mark, diff[i + 1].arg>>
    <3>1. CASE key \in DOMAIN Ruled
      <4>1. AsRead(diff[i + 1]) = Ruled[key] /\ IsHeader(Ruled[key])
        BY <3>1, RuledAreHeaders DEF AsRead
      <4> QED
        BY <4>1 DEF IsLine, IsHeader
    <3>2. CASE key \notin DOMAIN Ruled
      BY <2>3, <3>2 DEF AsRead
    <3> QED
      BY <3>1, <3>2
  <2> QED
    BY <1>4, <2>1, <2>2, <2>4, ReadLineType
<1>5. 0..n \subseteq T
  <2> HIDE DEF T
  <2> QED
    BY <1>0, <1>3, <1>4, UpTo
<1>6. n \in 0..n
  BY <1>0
<1>7. Reads(read[n])
  BY <1>5, <1>6
<1> QED
  BY <1>2, <1>7, FiledType
-----------------------------------------------------------------------------
(* The files of an answer.                                                 *)

FilesIs(files, bullets, valid, n) ==
    files = [i \in 0..n |->
                IF i = 0 THEN <<>>
                ELSE IF /\ Len(files[i - 1]) < MaxAffected
                        /\ bullets[i] \in valid
                        /\ bullets[i] \notin Range(files[i - 1])
                     THEN Append(files[i - 1], bullets[i]) ELSE files[i - 1]]

LEMMA FilesExist ==
    ASSUME NEW bullets, NEW valid, NEW n \in Nat
    PROVE  \E files : FilesIs(files, bullets, valid, n)
<1> DEFINE T == {k \in 0..n : \E files : FilesIs(files, bullets, valid, k)}
<1> DEFINE next(so, i) == IF /\ Len(so) < MaxAffected
                             /\ bullets[i] \in valid
                             /\ bullets[i] \notin Range(so)
                          THEN Append(so, bullets[i]) ELSE so
<1>0. ASSUME NEW files, NEW k,
             files = [i \in 0..k |-> IF i = 0 THEN <<>> ELSE next(files[i - 1], i)]
      PROVE  FilesIs(files, bullets, valid, k)
  BY <1>0 DEF FilesIs
<1>1. 0 \in T
  <2>1. FilesIs([i \in 0..0 |-> <<>>], bullets, valid, 0)
    BY DEF FilesIs
  <2> QED
    BY <2>1
<1>2. ASSUME NEW k \in 0..n, k \in T, k < n
      PROVE  k + 1 \in T
  <2>1. PICK files : FilesIs(files, bullets, valid, k)
    BY <1>2
  <2>2. files = [i \in 0..k |-> IF i = 0 THEN <<>> ELSE next(files[i - 1], i)]
    BY <2>1 DEF FilesIs
  <2> HIDE DEF next
  <2> DEFINE grown == [i \in 0..(k + 1) |->
                          IF i <= k THEN files[i] ELSE next(files[k], i)]
  <2>3. ASSUME NEW i \in 0..(k + 1)
        PROVE  grown[i] = IF i = 0 THEN <<>> ELSE next(grown[i - 1], i)
    <3>1. CASE i = 0
      BY <2>2, <3>1
    <3>2. CASE i # 0 /\ i <= k
      <4>1. i \in 0..k /\ i - 1 \in 0..k /\ i - 1 \in 0..(k + 1) /\ i - 1 <= k
        BY <3>2
      <4>2. files[i] = next(files[i - 1], i)
        BY <2>2, <3>2, <4>1
      <4> QED
        BY <3>2, <4>1, <4>2
    <3>3. CASE i = k + 1
      BY <3>3
    <3> QED
      BY <3>1, <3>2, <3>3
  <2>4. grown = [i \in 0..(k + 1) |->
                    IF i = 0 THEN <<>> ELSE next(grown[i - 1], i)]
    BY <2>3
  <2>5. FilesIs(grown, bullets, valid, k + 1)
    <3> HIDE DEF grown
    <3> QED
      BY <2>4, <1>0
  <2>6. k + 1 \in 0..n
    BY <1>2
  <2> QED
    BY <2>5, <2>6
<1> HIDE DEF T
<1>3. n \in T
  BY <1>1, <1>2, UpTo
<1> QED
  BY <1>3 DEF T

(* An answer names nothing but files that it was offered.                  *)
LEMMA AffectedAreValid ==
    ASSUME NEW bullets, NEW valid, Len(bullets) \in Nat
    PROVE  ParseAffectedFiles(bullets, valid) \in Seq(valid)
<1> DEFINE n == Len(bullets)
           files == CHOOSE f : FilesIs(f, bullets, valid, n)
<1>1. FilesIs(files, bullets, valid, n)
  BY FilesExist
<1>2. ParseAffectedFiles(bullets, valid) = files[n]
  BY DEF ParseAffectedFiles, FilesIs
<1>3. n \in Nat
  OBVIOUS
<1> HIDE DEF files, n
<1> DEFINE T == {i \in 0..n : files[i] \in Seq(valid)}
<1>4. 0 \in T
  <2>1. 0 \in 0..n /\ <<>> \in Seq(valid)
    BY <1>3
  <2> QED
    BY <1>1, <2>1 DEF FilesIs
<1>5. ASSUME NEW i \in 0..n, i \in T, i < n
      PROVE  i + 1 \in T
  <2>1. i + 1 \in 0..n /\ i + 1 # 0 /\ (i + 1) - 1 = i
    BY <1>3, <1>5
  <2>2. \/ files[i + 1] = files[i]
        \/ bullets[i + 1] \in valid /\ files[i + 1] = Append(files[i], bullets[i + 1])
    BY <1>1, <2>1 DEF FilesIs
  <2>3. files[i] \in Seq(valid)
    BY <1>5
  <2>4. \A x \in valid : Append(files[i], x) \in Seq(valid)
    BY <2>3
  <2>5. files[i + 1] \in Seq(valid)
    BY <2>2, <2>3, <2>4
  <2> QED
    BY <2>1, <2>5
<1>6. 0..n \subseteq T
  <2> HIDE DEF T
  <2> QED
    BY <1>3, <1>4, <1>5, UpTo
<1>7. n \in 0..n
  BY <1>3
<1> QED
  BY <1>2, <1>6, <1>7
-----------------------------------------------------------------------------
(* The types.                                                              *)

Stages == {"investigate", "synthesize", "gates", "base", "fetch", "branch",
           "commit", "pull"}

(* The notes of an attempt: what it was answered, and what it read.        *)
Typed(a) ==
    /\ attempts[a].pc \in Stages \cup Outcomes
    /\ attempts[a].affected \in Seq(ValidPaths(World.clone))
    /\ \/ attempts[a].proposal = NoProposal /\ Touched(a) = {}
       \/ /\ attempts[a].proposal \in DOMAIN World.proposals
          /\ Hunks(a) = ParseFilePatches(Proposal(a).diff)
    /\ Tree(attempts[a].base)
    /\ Starting(a) => attempts[a].left = {}
    /\ attempts[a].left \subseteq Touched(a)
    /\ DOMAIN attempts[a].fetched \subseteq Touched(a)
    /\ \A file \in DOMAIN attempts[a].fetched :
          attempts[a].fetched[file].new \in Seq(STRING)

TypedInv ==
    /\ DeliveryInv
    /\ Tree(main)
    /\ second \in 1..MaxSecond
    /\ \A b \in DOMAIN branches : b \in 1..MaxSecond /\ Tree(branches[b])
    /\ \A a \in World.runs : Typed(a)

(* What the assumption on the worlds says of the one that is there.        *)
LEMMA WorldIsTyped ==
    ASSUME Shape
    PROVE  /\ Tree(World.main) /\ \A pushed \in World.pushes : Tree(pushed)
           /\ \A path \in DOMAIN World.clone :
                 path \in Seq(STRING) /\ Normalized(path) = path
           /\ \A bullets \in World.answers : bullets \in Seq(Seq(STRING))
           /\ \A i \in DOMAIN World.proposals :
                 IsPatches(ParseFilePatches(World.proposals[i].diff))
<1>1. world \in DOMAIN Worlds /\ World = Worlds[world]
  BY DEF Shape, World, AllOf
<1>2. ASSUME NEW i \in DOMAIN World.proposals
      PROVE  IsPatches(ParseFilePatches(World.proposals[i].diff))
  <2> DEFINE diff == World.proposals[i].diff
  <2>1. diff \in Seq(Range(diff)) /\ \A j \in DOMAIN diff : IsLine(diff[j])
    BY <1>1, WorldsAreTyped
  <2> HIDE DEF diff
  <2>2. IsPatches(ParseFilePatches(diff))
    BY <2>1, PatchesType
  <2> QED
    BY <2>2 DEF diff
<1> QED
  BY <1>1, <1>2, WorldsAreTyped

LEMMA HunksAreTyped ==
    ASSUME Shape, NEW a \in World.runs, Typed(a), NEW file \in Touched(a)
    PROVE  file \in Seq(STRING) /\ Hunks(a)[file] \in Seq(Hunk)
<1>1. IsPatches(Hunks(a))
  BY WorldIsTyped DEF Typed, Proposal
<1> QED
  BY <1>1 DEF IsPatches, Touched

LEMMA UndisturbedTyped ==
    ASSUME NEW b \in World.runs, Undisturbed(b), World' = World, Typed(b)
    PROVE  Typed(b)'
<1>1. /\ attempts'[b].affected = attempts[b].affected
      /\ attempts'[b].proposal = attempts[b].proposal
      /\ attempts'[b].hunks = attempts[b].hunks
      /\ attempts'[b].base = attempts[b].base
      /\ attempts'[b].fetched = attempts[b].fetched
      /\ attempts'[b].left = attempts[b].left
  BY DEF Undisturbed, KeepsAllBut, Fields
<1> QED
  BY <1>1 DEF Typed, Undisturbed, Starting, Outcomes, Touched, Hunks, Proposal

LEMMA PreparesTyped ==
    ASSUME Shape, Tree(main), NEW a \in World.runs, World' = World,
           Prepares(a), Typed(a), InOrder(a)
    PROVE  Typed(a)'
<1> DEFINE f == attempts[a]
           g == attempts'[a]
<1>1. CASE At(a, "investigate")
  <2>1. PICK bullets \in World.answers :
            g.affected = ParseAffectedFiles(bullets, ValidPaths(World.clone))
    BY <1>1 DEF Prepares, At
  <2>2. Len(bullets) \in Nat
    <3>1. bullets \in Seq(Seq(STRING))
      BY WorldIsTyped
    <3> QED
      BY <3>1
  <2>3. g.affected \in Seq(ValidPaths(World.clone))
    BY <2>1, <2>2, AffectedAreValid
  <2>4. /\ g.proposal = f.proposal /\ g.hunks = f.hunks /\ g.base = f.base
        /\ g.fetched = f.fetched /\ g.left = f.left /\ g.pc = "synthesize"
    BY <1>1 DEF Prepares, At, KeepsAllBut, Fields
  <2>5. f.left = {}
    BY <1>1 DEF Typed, Starting, At
  <2> QED
    BY <2>3, <2>4, <2>5 DEF Typed, Stages, Touched, Hunks, Proposal
<1>2. CASE At(a, "synthesize")
  <2>1. /\ g.affected = f.affected /\ g.base = f.base /\ g.fetched = f.fetched
        /\ g.left = f.left /\ g.pc \in Stages \cup Outcomes
    BY <1>2 DEF Prepares, At, KeepsAllBut, Fields, Stages, Outcomes
  <2>2. PICK i \in DOMAIN World.proposals :
            /\ g.proposal = i
            /\ g.hunks = ParseFilePatches(World.proposals[i].diff)
    BY <1>2 DEF Prepares, At
  <2>3. f.left = {} /\ DOMAIN f.fetched = {}
    BY <1>2 DEF Typed, InOrder, Starting, At
  <2> QED
    BY <2>1, <2>2, <2>3 DEF Typed, Touched, Hunks, Proposal
<1>3. CASE At(a, "gates")
  <2>1. /\ g.affected = f.affected /\ g.base = f.base /\ g.fetched = f.fetched
        /\ g.left = f.left /\ g.pc = "base" /\ g.hunks = f.hunks
        /\ g.proposal = f.proposal
    BY <1>3 DEF Prepares, At, KeepsAllBut, Fields
  <2>2. f.left = {}
    BY <1>3 DEF Typed, Starting, At
  <2> QED
    BY <2>1, <2>2 DEF Typed, Stages, Touched, Hunks, Proposal
<1>4. CASE At(a, "base")
  <2>1. /\ g.affected = f.affected /\ g.base = main /\ g.fetched = f.fetched
        /\ g.left = Touched(a) /\ g.pc = "fetch" /\ g.hunks = f.hunks
        /\ g.proposal = f.proposal
    BY <1>4 DEF Prepares, At, KeepsAllBut, Fields
  <2> QED
    BY <2>1 DEF Typed, Stages, Starting, Touched, Hunks, Proposal
<1> QED
  BY <1>1, <1>2, <1>3, <1>4 DEF Prepares

LEMMA FetchesTyped ==
    ASSUME Shape, Tree(main), NEW a \in World.runs, World' = World,
           Fetches(a), Typed(a)
    PROVE  Typed(a)'
<1> DEFINE f == attempts[a]
           g == attempts'[a]
<1>1. /\ g.affected = f.affected /\ g.base = f.base /\ g.hunks = f.hunks
      /\ g.proposal = f.proposal
      /\ g.pc \in {"fetch", "refused", "branch"}
  BY DEF Fetches, KeepsAllBut, Fields
<1> DEFINE text(file) == main[Normalized(file)]
<1>2. PICK file \in f.left :
          /\ Normalized(file) \in DOMAIN main
          /\ g.fetched = Put(f.fetched, file,
                             [old |-> text(file),
                              new |-> ApplyPatch(text(file), Hunks(a)[file]).text])
          /\ g.left = f.left \ {file}
  BY DEF Fetches
<1>3. file \in Touched(a)
  BY DEF Typed
<1>4. ApplyPatch(text(file), Hunks(a)[file]).text \in Seq(STRING)
  <2>1. Hunks(a)[file] \in Seq(Hunk)
    BY <1>3, HunksAreTyped
  <2>2. text(file) \in Texts
    BY <1>2 DEF Tree, Texts
  <2> HIDE DEF text
  <2> QED
    BY <2>1, <2>2, PatchType DEF Texts
<1>5. /\ DOMAIN g.fetched \subseteq Touched(a)
      /\ \A other \in DOMAIN g.fetched : g.fetched[other].new \in Seq(STRING)
  BY <1>2, <1>3, <1>4 DEF Put, Typed
<1>6. g.pc \in Stages \cup Outcomes /\ ~Starting(a)'
  BY <1>1 DEF Starting, Stages, Outcomes
<1> QED
  BY <1>1, <1>2, <1>5, <1>6 DEF Typed, Touched, Hunks, Proposal

LEMMA WritesTyped ==
    ASSUME NEW a \in World.runs, World' = World, Typed(a),
           Branches(a) \/ Commits(a) \/ Offers(a) \/ GivesUp(a)
    PROVE  Typed(a)'
<1> DEFINE f == attempts[a]
           g == attempts'[a]
<1>1. /\ g.affected = f.affected /\ g.base = f.base /\ g.hunks = f.hunks
      /\ g.proposal = f.proposal /\ g.fetched = f.fetched
      /\ g.pc \in {"errored", "commit", "pull", "opened", "refused"}
      /\ \/ g.left \subseteq f.left \/ g.left = Touched(a)
  BY DEF Branches, Commits, Offers, GivesUp, KeepsAllBut, Fields
<1> QED
  BY <1>1 DEF Typed, Starting, Stages, Outcomes, Touched, Hunks, Proposal

LEMMA MoveTyped ==
    ASSUME TypedInv, NEW a \in World.runs, Moves(a)
    PROVE  /\ Typed(a)' /\ main' = main /\ second' = second
           /\ \A b \in DOMAIN branches' :
                 b \in 1..MaxSecond /\ Tree(branches'[b])
<1>1. /\ Shape /\ World' = World /\ AttemptInv(a) /\ Typed(a) /\ InOrder(a)
      /\ Tree(main) /\ main' = main /\ second' = second
  BY DEF TypedInv, DeliveryInv, AttemptInv, Moves, OnlyItself, World
<1>2. Typed(a)'
  BY <1>1, PreparesTyped, FetchesTyped, WritesTyped DEF Moves
<1>3. ASSUME NEW b \in DOMAIN branches'
      PROVE  b \in 1..MaxSecond /\ Tree(branches'[b])
  <2>1. CASE branches' = branches
    BY <2>1 DEF TypedInv
  <2>2. CASE Branches(a)
    BY <1>1, <2>2 DEF TypedInv, Typed, Branches, Put
  <2>3. CASE Commits(a)
    <3>1. PICK file \in attempts[a].left :
              branches' = [branches EXCEPT ![attempts[a].branch][Normalized(file)] =
                               attempts[a].fetched[file].new]
      BY <2>3 DEF Commits
    <3>2. file \in DOMAIN attempts[a].fetched
      BY <1>1, <2>3 DEF Typed, AttemptInv, Verified, InOrder, Writing, Commits, At
    <3>3. attempts[a].fetched[file].new \in Seq(STRING)
      BY <1>1, <3>2 DEF Typed
    <3>4. b \in DOMAIN branches /\ b \in 1..MaxSecond /\ Tree(branches[b])
      BY <3>1 DEF TypedInv
    <3> QED
      BY <3>1, <3>3, <3>4 DEF Tree
  <2> QED
    BY <2>1, <2>2, <2>3 DEF Moves, Prepares, Fetches, Offers, GivesUp
<1> QED
  BY <1>1, <1>2, <1>3

LEMMA TypedInit ==
    ASSUME Init
    PROVE  TypedInv
<1>1. DeliveryInv
  BY DeliveryInit
<1>2. second \in 1..MaxSecond /\ DOMAIN branches = {}
  BY DeliveryBounds DEF Init
<1>3. Tree(main)
  BY <1>1, WorldIsTyped DEF Init, DeliveryInv
<1>4. ASSUME NEW a \in World.runs
      PROVE  Typed(a)
  <2>1. attempts[a] = FreshAttempt
    BY DEF Init
  <2>2. <<>> \in Seq(ValidPaths(World.clone))
    OBVIOUS
  <2> QED
    BY <2>1, <2>2 DEF FreshAttempt, Typed, Stages, Tree, Touched, Hunks
<1> QED
  BY <1>1, <1>2, <1>3, <1>4 DEF TypedInv

LEMMA TypedStep ==
    ASSUME TypedInv, [Next]_vars
    PROVE  TypedInv'
<1>1. DeliveryInv /\ DeliveryInv'
  BY DeliveryStep DEF TypedInv
<1>2. Elapses \/ \E a \in World.runs : Moves(a)
  BY <1>1, NextMoves DEF DeliveryInv
<1>3. World' = World
  BY <1>1, <1>2, ShapeStays DEF DeliveryInv
<1>4. ASSUME NEW b \in World.runs
      PROVE  Typed(b)'
  <2>1. Typed(b)
    BY DEF TypedInv
  <2>2. CASE Undisturbed(b)
    BY <1>3, <2>1, <2>2, UndisturbedTyped
  <2>3. CASE Moves(b)
    BY <2>3, MoveTyped
  <2> QED
    BY <1>1, <1>2, <2>2, <2>3, ElapsesUndisturbed, OthersUndisturbed
<1>5. /\ Tree(main)' /\ second' \in 1..MaxSecond
      /\ \A b \in DOMAIN branches' : b \in 1..MaxSecond /\ Tree(branches'[b])
  <2>1. CASE Elapses
    <3>1. main' \in {main} \cup World.pushes /\ branches' = branches
      BY <2>1 DEF Elapses
    <3>2. second' \in 1..MaxSecond
      BY <2>1, DeliveryBounds DEF Elapses, TypedInv
    <3>3. Tree(main') 
      BY <1>1, <3>1, WorldIsTyped DEF TypedInv, DeliveryInv
    <3> QED
      BY <3>1, <3>2, <3>3 DEF TypedInv
  <2>2. ASSUME NEW a \in World.runs, Moves(a)
        PROVE  /\ Tree(main)' /\ second' \in 1..MaxSecond
               /\ \A b \in DOMAIN branches' :
                     b \in 1..MaxSecond /\ Tree(branches'[b])
    BY <2>2, MoveTyped DEF TypedInv
  <2> QED
    BY <1>2, <2>1, <2>2
<1> QED
  BY <1>1, <1>3, <1>4, <1>5 DEF TypedInv

LEMMA TypedInvariant == Spec => []TypedInv
  BY TypedInit, TypedStep, PTL DEF Spec

(* Every variable has the type that its declaration announces.             *)
THEOREM DeliveryIsTyped == Spec => []DeliveryTypeOK
<1>1. ASSUME TypedInv
      PROVE  DeliveryTypeOK
  <2>1. /\ Shape /\ DOMAIN pulls \subseteq World.runs
        /\ \A a \in World.runs : AttemptInv(a) /\ Typed(a)
    BY <1>1 DEF TypedInv, DeliveryInv
  <2>2. \A a \in DOMAIN pulls : pulls[a] \in DOMAIN branches
    BY <2>1 DEF AttemptInv, InOrder, Offered
  <2>3. \A a \in World.runs : attempts[a].branch \in {0} \cup DOMAIN branches
    BY <2>1 DEF AttemptInv, InOrder
  <2>4. world \in DOMAIN AllOf
    BY <2>1 DEF Shape, AllOf
  <2> QED
    BY <1>1, <2>1, <2>2, <2>3, <2>4 DEF TypedInv, Typed, DeliveryTypeOK, Stages
<1> QED
  BY <1>1, TypedInvariant, PTL
-----------------------------------------------------------------------------
(* The paths.                                                              *)

LEMMA ValidAreNormal ==
    ASSUME Shape, NEW a \in World.runs, Typed(a)
    PROVE  \A path \in Range(attempts[a].affected) :
               path \in DOMAIN World.clone /\ Normalized(path) = path
<1>1. Range(attempts[a].affected) \subseteq ValidPaths(World.clone)
  BY DEF Typed, Range
<1> QED
  BY <1>1, WorldIsTyped DEF ValidPaths

(* The gates read a path normalised.                                       *)
LEMMA GatesNormalise ==
    ASSUME NEW file \in Seq(STRING), NEW roots, ~IsProtected(file, roots)
    PROVE  ~IsProtected(Normalized(file), roots)
<1>1. Normalized(Normalized(file)) = Normalized(file)
  BY NormalizedTwice
<1> QED
  BY <1>1 DEF IsProtected

(* Whatever a pull request changes, under whatever spelling the patch had  *)
(* for it, is no deploy surface and inside the scope of the investigation  *)
(* or the declared version reference: the gate before GitHub               *)
(* (_validate_patch_paths) is asked about the same files that open_pr      *)
(* writes.                                                                 *)
THEOREM OnlyAgreedFiles == Spec => []OnlyAgreedFilesChange
<1>1. ASSUME TypedInv, ChangesPassedTheGates
      PROVE  OnlyAgreedFilesChange
  <2> DEFINE ref == Service.delivery.ref.path
             agreed(a) == Range(attempts[a].affected) \cup {Normalized(ref)}
  <2>1. ASSUME NEW a \in DOMAIN pulls, NEW path \in DOMAIN attempts[a].base,
               branches[pulls[a]][path] # attempts[a].base[path]
        PROVE  /\ ~IsProtected(path, ChartRoots(World.clone))
               /\ attempts[a].affected = <<>> \/ path \in agreed(a)
    <3>1. Shape /\ a \in World.runs /\ Typed(a)
      BY <1>1 DEF TypedInv, DeliveryInv
    <3>2. PICK file \in Touched(a) : Normalized(file) = path
      BY <1>1, <2>1 DEF ChangesPassedTheGates
    <3> DEFINE allowed == AllowedPaths(Service, attempts[a].affected)
    <3>3. PassesGates(file, allowed, ChartRoots(World.clone))
      BY <1>1 DEF ChangesPassedTheGates, AllPassGates
    <3>4. ~IsProtected(path, ChartRoots(World.clone))
      BY <3>1, <3>2, <3>3, HunksAreTyped, GatesNormalise DEF PassesGates
    <3>5. ASSUME attempts[a].affected # <<>>
          PROVE  path \in agreed(a)
      <4>1. PICK p \in allowed.paths : Normalized(p) = path
        BY <3>2, <3>3, <3>5 DEF PassesGates, AllowedPaths
      <4>2. \/ p \in Range(attempts[a].affected)
            \/ p = SameRepoVersionRefPath(Service) /\ p # NoFile
        BY <3>5, <4>1 DEF AllowedPaths
      <4>3. CASE p \in Range(attempts[a].affected)
        BY <3>1, <4>1, <4>3, ValidAreNormal
      <4>4. CASE p = SameRepoVersionRefPath(Service) /\ p # NoFile
        BY <4>1, <4>4 DEF SameRepoVersionRefPath
      <4> QED
        BY <4>2, <4>3, <4>4
    <3> QED
      BY <3>4, <3>5
  <2> QED
    BY <2>1 DEF OnlyAgreedFilesChange
<1> QED
  BY <1>1, TypedInvariant, NothingButThePatch, PTL

(* A version bump that the prompt asks for is shown and let through,       *)
(* whatever the investigation named: load_only, SameRepoVersionRef and the *)
(* gate read the declared path alike.                                      *)
THEOREM BumpIsDeliverable == Spec => []DeclaredBumpIsDeliverable
<1>1. ASSUME TypedInv
      PROVE  DeclaredBumpIsDeliverable
  <2> DEFINE path == Service.delivery.ref.path
             ref == Normalized(path)
             roots == ChartRoots(World.clone)
  <2> SUFFICES ASSUME AsksForBump(Service), ref \in LoadTree(World.clone),
                      ~IsProtected(ref, roots), NEW a \in World.runs
               PROVE  /\ ref \in Shown(World.clone, Service, attempts[a].affected)
                      /\ PassesGates(ref, AllowedPaths(Service, attempts[a].affected),
                                     roots)
    BY DEF DeclaredBumpIsDeliverable
  <2> DEFINE affected == attempts[a].affected
  <2>1. Shape /\ Typed(a)
    BY <1>1 DEF TypedInv, DeliveryInv
  <2>2. ref \in DOMAIN World.clone /\ Normalized(ref) = ref
    BY <2>1, WorldIsTyped DEF LoadTree, ValidPaths
  <2>3. path # NoFile
    <3>1. Normalized(<<>>) = <<>>
      <4>1. <<>> \in Seq({}) /\ \A places : DOMAIN <<>> \subseteq places
        OBVIOUS
      <4> QED
        BY <4>1, PartWhole DEF Normalized
    <3> QED
      BY <2>2, <3>1 DEF IsProtected, NoFile
  <2>4. SameRepoVersionRef(Service) = path /\ SameRepoVersionRefPath(Service) = path
    BY DEF AsksForBump, SameRepoVersionRef, SameRepoVersionRefPath
  <2>5. CASE affected = <<>>
    <3>1. ref \in Shown(World.clone, Service, affected)
      BY <2>5 DEF Shown, NarrowedTo
    <3>2. PassesGates(ref, AllowedPaths(Service, affected), roots)
      BY <2>5 DEF PassesGates, AllowedPaths, Unrestricted
    <3> QED
      BY <3>1, <3>2
  <2>6. CASE affected # <<>>
    <3>1. path \in Range(Append(affected, path))
      <4>1. affected \in Seq(ValidPaths(World.clone))
        BY <2>1 DEF Typed
      <4> HIDE DEF affected, path
      <4>2. /\ Len(affected) + 1 \in DOMAIN Append(affected, path)
            /\ Append(affected, path)[Len(affected) + 1] = path
        BY <4>1
      <4> QED
        BY <4>2 DEF Range
    <3>2. NarrowedTo(World.clone, Service, affected) =
              LoadOnly(World.clone, Append(affected, path))
      BY <2>3, <2>4, <2>6 DEF NarrowedTo
    <3>3. ref \in LoadOnly(World.clone, Append(affected, path))
      BY <2>2, <3>1 DEF LoadOnly, LoadTree
    <3>4. ref \in Shown(World.clone, Service, affected)
      BY <3>2, <3>3 DEF Shown
    <3>5. AllowedPaths(Service, affected) =
              [any |-> FALSE, paths |-> Range(affected) \cup {path}]
      BY <2>3, <2>4, <2>6 DEF AllowedPaths
    <3>6. PassesGates(ref, AllowedPaths(Service, affected), roots)
      BY <2>2, <3>5 DEF PassesGates
    <3> QED
      BY <3>4, <3>6
  <2> QED
    BY <2>5, <2>6
<1> QED
  BY <1>1, TypedInvariant, PTL
-----------------------------------------------------------------------------
(* What the model meant.                                                   *)

(* The places where a text has the old lines of a hunk.                    *)
SplicedAt(text, hunk, place) ==
    SubSeq(text, 1, place) \o Replacement(hunk.lines)
        \o SubSeq(text, place + Len(Anchor(hunk.lines)) + 1, Len(text))

LEMMA FitsIsSplice ==
    ASSUME NEW text \in Texts, NEW anchor \in Texts, NEW place,
           Fits(text, anchor, place, 0)
    PROVE  /\ place \in 0..(Len(text) - Len(anchor))
           /\ SubSeq(text, place + 1, place + Len(anchor)) = anchor
<1> DEFINE m == Len(text)
           n == Len(anchor)
           part == SubSeq(text, place + 1, place + n)
<1>1. /\ place \in Nat /\ place + n <= m /\ m \in Nat /\ n \in Nat
      /\ anchor \in Seq(STRING) /\ text \in Seq(STRING) /\ DOMAIN anchor = 1..n
      /\ DOMAIN text = 1..m
      /\ \A k \in DOMAIN anchor : text[place + k] = anchor[k]
  BY DEF Fits, Texts
<1> HIDE DEF m, n
<1>2. place \in 0..(m - n)
  BY <1>1
<1>3. \A i \in (place + 1)..(place + n) : text[i] \in STRING
  BY <1>1
<1>4. /\ part \in Seq(STRING)
      /\ Len(part) = IF place + 1 <= place + n THEN (place + n) - (place + 1) + 1 ELSE 0
      /\ \A i \in 1..((place + n) - (place + 1) + 1) :
            part[i] = text[(place + 1) + i - 1]
  BY <1>1, <1>3, SubSeqProperties
<1>5. Len(part) = n /\ \A i \in 1..n : part[i] = anchor[i]
  <2>1. Len(part) = n
    BY <1>1, <1>4
  <2>2. ASSUME NEW i \in 1..n
        PROVE  part[i] = anchor[i]
    <3>1. i \in 1..((place + n) - (place + 1) + 1) /\ (place + 1) + i - 1 = place + i
      BY <1>1
    <3> QED
      BY <1>1, <1>4, <3>1
  <2> QED
    BY <2>1, <2>2
<1> HIDE DEF part
<1>6. part = anchor
  BY <1>1, <1>4, <1>5, SeqEqual DEF n
<1> QED
  BY <1>2, <1>6 DEF m, n, part

LEMMA SpliceIsFit ==
    ASSUME NEW text \in Texts, NEW anchor \in Texts,
           NEW place \in 0..(Len(text) - Len(anchor)),
           SubSeq(text, place + 1, place + Len(anchor)) = anchor
    PROVE  Fits(text, anchor, place, 0)
<1> DEFINE m == Len(text)
           n == Len(anchor)
<1>1. /\ m \in Nat /\ n \in Nat /\ DOMAIN anchor = 1..n /\ DOMAIN text = 1..m
      /\ text \in Seq(STRING)
  BY DEF Texts
<1> HIDE DEF m, n
<1>2. place \in Nat /\ place >= 0 /\ place + n <= m
  <2>1. place \in 0..(m - n)
    BY DEF m, n
  <2> QED
    BY <1>1, <2>1
<1>3. \A i \in (place + 1)..(place + n) : text[i] \in STRING
  BY <1>1, <1>2
<1>4. \A i \in 1..((place + n) - (place + 1) + 1) :
          SubSeq(text, place + 1, place + n)[i] = text[(place + 1) + i - 1]
  BY <1>1, <1>2, <1>3, SubSeqProperties
<1>5. ASSUME NEW i \in 1..n
      PROVE  text[place + i] = anchor[i]
  <2>1. i \in 1..((place + n) - (place + 1) + 1) /\ (place + 1) + i - 1 = place + i
    BY <1>1, <1>2
  <2>2. SubSeq(text, place + 1, place + n) = anchor
    BY DEF n
  <2> QED
    BY <1>4, <2>1, <2>2
<1> QED
  BY <1>1, <1>2, <1>5 DEF Fits, m, n

LEMMA SplicesAreFits ==
    ASSUME NEW text \in Texts, NEW hunk \in Hunk
    PROVE  /\ \A place : Fits(text, Anchor(hunk.lines), place, 0)
                  => SplicedAt(text, hunk, place) \in Spliced(text, hunk)
           /\ Spliced(text, hunk) # {}
                  => \E place : Fits(text, Anchor(hunk.lines), place, 0)
<1> DEFINE anchor == Anchor(hunk.lines)
<1>1. anchor \in Texts
  BY HunkSides
<1>2. Spliced(text, hunk) =
          {SplicedAt(text, hunk, i) :
              i \in {j \in 0..(Len(text) - Len(anchor)) :
                        SubSeq(text, j + 1, j + Len(anchor)) = anchor}}
  BY DEF Spliced, SplicedAt
<1> HIDE DEF anchor
<1>3. ASSUME NEW place, Fits(text, anchor, place, 0)
      PROVE  SplicedAt(text, hunk, place) \in Spliced(text, hunk)
  BY <1>1, <1>2, <1>3, FitsIsSplice
<1>4. ASSUME Spliced(text, hunk) # {}
      PROVE  \E place : Fits(text, anchor, place, 0)
  BY <1>1, <1>2, <1>4, SpliceIsFit
<1> QED
  BY <1>3, <1>4 DEF anchor

(* An attempt that fetches has the hunks of the edits that its model made. *)
LEMMA FetchingIsMeant ==
    ASSUME AllMeanTheirEdits(Worlds), TypedInv, NEW a \in World.runs,
           NEW file \in Fetching(a)
    PROVE  /\ file \in Touched(a) /\ main[Normalized(file)] \in Texts
           /\ Hunks(a)[file] = Proposal(a).edits[file].hunks
           /\ Hunks(a)[file] \in Seq(Hunk)
           /\ IsEdit(Proposal(a).edits[file])
<1>1. Shape /\ Typed(a) /\ file \in attempts[a].left
      /\ Normalized(file) \in DOMAIN main /\ Tree(main)
  BY DEF TypedInv, DeliveryInv, Fetching
<1>2. file \in Touched(a) /\ main[Normalized(file)] \in Texts
  BY <1>1 DEF Typed, Tree, Texts
<1>3. /\ attempts[a].proposal \in DOMAIN World.proposals
      /\ Hunks(a) = ParseFilePatches(Proposal(a).diff)
  BY <1>1, <1>2 DEF Typed
<1>4. MeansItsEdits(Proposal(a))
  BY <1>1, <1>3 DEF AllMeanTheirEdits, Shape, Proposal, World, AllOf
<1> QED
  BY <1>1, <1>2, <1>3, <1>4, HunksAreTyped DEF MeansItsEdits, Touched

(* A diff with a hunk whose old lines are nowhere in the file is refused,  *)
(* whatever else it holds: no hunk is applied beside the others            *)
(* (_apply_patch).  The diff must say what the model has in mind.  Run     *)
(* odd_diff shows two that do not.                                         *)
THEOREM HallucinationsAreRefused ==
    AllMeanTheirEdits(Worlds) /\ Spec => []HallucinationRefused
<1>1. ASSUME AllMeanTheirEdits(Worlds), TypedInv
      PROVE  HallucinationRefused
  <2>1. ASSUME NEW a \in World.runs, NEW file \in Fetching(a),
               NEW i \in DOMAIN Proposal(a).edits[file].hunks,
               Spliced(main[Normalized(file)],
                       Proposal(a).edits[file].hunks[i]) = {},
               Patched(a, file).ok
        PROVE  FALSE
    <3> DEFINE text == main[Normalized(file)]
               hunks == Hunks(a)[file]
    <3>1. /\ text \in Texts /\ hunks \in Seq(Hunk)
          /\ hunks = Proposal(a).edits[file].hunks
      BY <1>1, FetchingIsMeant
    <3>2. ApplyPatch(text, hunks).ok
      BY <2>1 DEF Patched
    <3> HIDE DEF text, hunks
    <3>3. i \in DOMAIN hunks /\ hunks[i] \in Hunk
      BY <3>1
    <3>4. \E place : Fits(text, Anchor(hunks[i].lines), place, 0)
      BY <3>1, <3>2, <3>3, MisfitRefused
    <3>5. Spliced(text, hunks[i]) # {}
      BY <3>1, <3>3, <3>4, SplicesAreFits
    <3> QED
      BY <2>1, <3>1, <3>5 DEF text
  <2> QED
    BY <2>1 DEF HallucinationRefused
<1>2. CASE AllMeanTheirEdits(Worlds)
  <2>1. TypedInv => HallucinationRefused
    BY <1>1, <1>2
  <2> QED
    BY <2>1, TypedInvariant, PTL
<1> QED
  BY <1>2
-----------------------------------------------------------------------------
(* A hunk whose lines are in the file: it applies at one of their places.  *)
LEMMA OneHunkApplies ==
    ASSUME NEW text \in Texts, NEW hunks \in Seq(Hunk), Len(hunks) = 1,
           Anchor(hunks[1].lines) # <<>>, Spliced(text, hunks[1]) # {}
    PROVE  /\ ApplyPatch(text, hunks).ok
           /\ ApplyPatch(text, hunks).text \in Spliced(text, hunks[1])
<1> DEFINE hunk == hunks[1]
           anchor == Anchor(hunk.lines)
           place == LocateHunk(text, anchor, hunk.start - 1, 0)
           replacement == Replacement(hunk.lines)
           rest == SubSeq(text, place + Len(anchor) + 1, Len(text))
<1>1. /\ hunk \in Hunk /\ anchor \in Texts /\ hunk.start - 1 \in Int
      /\ replacement \in Texts
  <2>1. hunk \in Hunk
    OBVIOUS
  <2> HIDE DEF hunk
  <2> QED
    BY <2>1, HunkSides
<1>2. PICK applied :
          /\ Applies(applied, text, hunks)
          /\ ApplyPatch(text, hunks) =
                [ok |-> applied[1].ok,
                 text |-> applied[1].out
                          \o SubSeq(text, applied[1].at + 1, Len(text))]
  <2>1. PICK applied :
            /\ Applies(applied, text, hunks)
            /\ ApplyPatch(text, hunks) =
                  [ok |-> applied[Len(hunks)].ok,
                   text |-> applied[Len(hunks)].out
                            \o SubSeq(text, applied[Len(hunks)].at + 1, Len(text))]
    <3>1. Len(hunks) \in Nat
      OBVIOUS
    <3> QED
      BY <3>1, PatchSteps, Zenon
  <2>2. Len(hunks) = 1
    OBVIOUS
  <2> QED
    BY <2>1, <2>2, Zenon
<1>3. applied[1] = ApplyHunk(text, Start, hunk)
  BY <1>2 DEF Applies
<1>4. place # NoPlace
  <2>1. PICK p : Fits(text, anchor, p, 0)
    BY <1>1, SplicesAreFits
  <2> HIDE DEF anchor, hunk
  <2> QED
    BY <1>1, <2>1, FitsIsLocated DEF anchor, hunk
<1> HIDE DEF hunk
<1>5. ApplyHunk(text, Start, hunk).ok
  BY <1>4 DEF ApplyHunk, Start
<1>6. Start \in Sofar(text)
  <2>1. Len(text) \in Nat /\ <<>> \in Texts
    BY DEF Texts
  <2> QED
    BY <2>1 DEF Start, Sofar
<1>7. /\ Fits(text, anchor, place, 0)
      /\ applied[1].at = place + Len(anchor)
      /\ applied[1].out = <<>> \o SubSeq(text, 1, place) \o replacement
  <2>1. Start.at = 0 /\ Start.out = <<>> /\ 0 + 1 = 1
    BY DEF Start
  <2> DEFINE a == Start
  <2> HIDE DEF a
  <2>2. a \in Sofar(text) /\ a.at = 0 /\ a.out = <<>> /\ ApplyHunk(text, a, hunk).ok
    BY <1>5, <1>6, <2>1 DEF a
  <2>3. LET found == LocateHunk(text, anchor, hunk.start - 1, a.at)
        IN  /\ Fits(text, anchor, found, a.at)
            /\ ApplyHunk(text, a, hunk).at = found + Len(anchor)
            /\ ApplyHunk(text, a, hunk).out =
                  a.out \o SubSeq(text, a.at + 1, found) \o replacement
    BY <1>1, <2>2, HunkApplies
  <2> QED
    BY <1>3, <2>1, <2>2, <2>3 DEF a
<1>8. SplicedAt(text, hunk, place) \in Spliced(text, hunk)
  BY <1>1, <1>7, SplicesAreFits
<1>9. SplicedAt(text, hunk, place) = SubSeq(text, 1, place) \o replacement \o rest
  BY DEF SplicedAt
<1>10. <<>> \o SubSeq(text, 1, place) = SubSeq(text, 1, place)
  <2>1. place \in Nat /\ place <= Len(text)
    BY <1>1, <1>7 DEF Fits, Texts
  <2> HIDE DEF place
  <2>2. SubSeq(text, 1, place) \in Texts
    BY <2>1 DEF Texts
  <2> QED
    BY <2>2, ConcatEmptySeq DEF Texts
<1>11. ApplyPatch(text, hunks) =
          [ok |-> TRUE, text |-> SubSeq(text, 1, place) \o replacement \o rest]
  <2>1. applied[1].ok = TRUE
    BY <1>3, <1>4 DEF ApplyHunk, Start
  <2> HIDE DEF place, anchor, replacement
  <2> QED
    BY <1>2, <1>7, <1>10, <2>1
<1> HIDE DEF place, anchor, replacement
<1> QED
  BY <1>8, <1>9, <1>11 DEF hunk

(* Sequences put together and taken apart.                                 *)
LEMMA Fronts ==
    ASSUME NEW p \in Texts, NEW r \in Texts, NEW k \in 0..Len(p)
    PROVE  SubSeq(p \o r, 1, k) = SubSeq(p, 1, k)
<1>1. CASE k = 0
  BY <1>1, SubSeqEmpty
<1>2. CASE k # 0
  <2>1. 1 \in 1..Len(p) /\ k \in 1..Len(p)
    BY <1>2 DEF Texts
  <2> QED
    BY <2>1, SubSeqOfConcat1 DEF Texts
<1> QED
  BY <1>1, <1>2

LEMMA Rests ==
    ASSUME NEW p \in Texts, NEW r \in Texts
    PROVE  SubSeq(p \o r, Len(p) + 1, Len(p \o r)) = r
<1> DEFINE m == Len(p)
           n == Len(r)
<1>1. m \in Nat /\ n \in Nat /\ Len(p \o r) = m + n
  BY DEF Texts
<1> HIDE DEF m, n
<1>2. CASE n = 0
  <2>1. m + n < m + 1
    BY <1>1, <1>2
  <2>2. SubSeq(p \o r, m + 1, m + n) = <<>>
    BY <1>1, <2>1, SubSeqEmpty
  <2>3. r = <<>>
    BY <1>2 DEF n, Texts
  <2> QED
    BY <1>1, <2>2, <2>3 DEF m
<1>3. CASE n # 0
  <2>1. /\ m + 1 \in (m + 1)..(m + n) /\ m + n \in (m + 1)..(m + n)
        /\ (m + 1) - m = 1 /\ (m + n) - m = n
    BY <1>1, <1>3
  <2>2. SubSeq(p \o r, m + 1, m + n) = SubSeq(r, (m + 1) - m, (m + n) - m)
    BY <2>1, SubSeqOfConcat2 DEF m, n, Texts
  <2>3. SubSeq(r, 1, n) = r
    BY SubSeqFull DEF n, Texts
  <2> QED
    BY <1>1, <2>1, <2>2, <2>3 DEF m
<1> QED
  BY <1>2, <1>3

LEMMA Regrouped ==
    \A s, t, u, v \in Texts : s \o t \o u \o v = s \o (t \o u \o v)
<1> TAKE s, t, u, v \in Texts
<1>1. (s \o t) \o u = s \o (t \o u) /\ t \o u \in Texts
  BY ConcatAssociative DEF Texts
<1> DEFINE w == t \o u
<1>2. w \in Texts
  BY <1>1
<1> HIDE DEF w
<1>3. (s \o w) \o v = s \o (w \o v)
  BY <1>2, ConcatAssociative DEF Texts
<1> QED
  BY <1>1, <1>3, Zenon DEF w

LEMMA Splits ==
    ASSUME NEW text \in Texts, NEW i \in Nat, NEW j \in Nat,
           i <= j, j <= Len(text)
    PROVE  /\ SubSeq(text, 1, i) \in Texts /\ SubSeq(text, i + 1, j) \in Texts
           /\ Len(SubSeq(text, 1, i)) = i
           /\ SubSeq(text, 1, i) \o SubSeq(text, i + 1, j) = SubSeq(text, 1, j)
<1> DEFINE m == Len(text)
<1>1. m \in Nat /\ DOMAIN text = 1..m /\ \A k \in 1..m : text[k] \in STRING
  BY DEF Texts
<1>2. j <= m
  OBVIOUS
<1> HIDE DEF m
<1>3. 1 \in 1..(m + 1) /\ i \in (1 - 1)..m /\ j \in i..m
  BY <1>1, <1>2
<1>4. SubSeq(text, 1, i) \o SubSeq(text, i + 1, j) = SubSeq(text, 1, j)
  BY <1>3, ConcatAdjacentSubSeq DEF m, Texts
<1>5. /\ \A k \in 1..i : text[k] \in STRING
      /\ \A k \in (i + 1)..j : text[k] \in STRING
  BY <1>1, <1>2
<1>6. /\ SubSeq(text, 1, i) \in Seq(STRING)
      /\ SubSeq(text, i + 1, j) \in Seq(STRING)
      /\ Len(SubSeq(text, 1, i)) = IF 1 <= i THEN i - 1 + 1 ELSE 0
  BY <1>5, SubSeqProperties
<1>7. Len(SubSeq(text, 1, i)) = i
  BY <1>6
<1> QED
  BY <1>4, <1>6, <1>7 DEF Texts
-----------------------------------------------------------------------------
(* Hunks that say where they belong.                                       *)

BecomeIs(become, text, hunks, n) ==
    become = [i \in 0..n |->
                 IF i = 0 THEN text
                 ELSE Exchanged(become[i - 1], hunks[Len(hunks) - i + 1])]

LEMMA ExchangesExist ==
    ASSUME NEW text, NEW hunks, NEW n \in Nat
    PROVE  \E become : BecomeIs(become, text, hunks, n)
<1> DEFINE T == {k \in 0..n : \E become : BecomeIs(become, text, hunks, k)}
           hunk(i) == hunks[Len(hunks) - i + 1]
<1>0. ASSUME NEW become, NEW k,
             become = [i \in 0..k |-> IF i = 0 THEN text
                                      ELSE Exchanged(become[i - 1], hunk(i))]
      PROVE  BecomeIs(become, text, hunks, k)
  BY <1>0 DEF BecomeIs
<1>1. 0 \in T
  <2>1. BecomeIs([i \in 0..0 |-> text], text, hunks, 0)
    BY DEF BecomeIs
  <2> QED
    BY <2>1
<1>2. ASSUME NEW k \in 0..n, k \in T, k < n
      PROVE  k + 1 \in T
  <2>1. PICK become : BecomeIs(become, text, hunks, k)
    BY <1>2
  <2>2. become = [i \in 0..k |-> IF i = 0 THEN text
                                 ELSE Exchanged(become[i - 1], hunk(i))]
    BY <2>1 DEF BecomeIs
  <2> HIDE DEF hunk
  <2> DEFINE grown == [i \in 0..(k + 1) |->
                          IF i <= k THEN become[i] ELSE Exchanged(become[k], hunk(i))]
  <2>3. ASSUME NEW i \in 0..(k + 1)
        PROVE  grown[i] = IF i = 0 THEN text ELSE Exchanged(grown[i - 1], hunk(i))
    <3>1. CASE i = 0
      BY <2>2, <3>1
    <3>2. CASE i # 0 /\ i <= k
      <4>1. i \in 0..k /\ i - 1 \in 0..k /\ i - 1 \in 0..(k + 1) /\ i - 1 <= k
        BY <3>2
      <4>2. become[i] = Exchanged(become[i - 1], hunk(i))
        BY <2>2, <3>2, <4>1
      <4> QED
        BY <3>2, <4>1, <4>2
    <3>3. CASE i = k + 1
      BY <3>3
    <3> QED
      BY <3>1, <3>2, <3>3
  <2>4. grown = [i \in 0..(k + 1) |-> IF i = 0 THEN text
                                      ELSE Exchanged(grown[i - 1], hunk(i))]
    BY <2>3
  <2>5. BecomeIs(grown, text, hunks, k + 1)
    <3> HIDE DEF grown
    <3> QED
      BY <2>4, <1>0
  <2>6. k + 1 \in 0..n
    BY <1>2
  <2> QED
    BY <2>5, <2>6
<1> HIDE DEF T
<1>3. n \in T
  BY <1>1, <1>2, UpTo
<1> QED
  BY <1>3 DEF T

LEMMA ExchangeSteps ==
    ASSUME NEW text, NEW hunks, Len(hunks) \in Nat
    PROVE  \E become :
               /\ become[0] = text
               /\ \A i \in 1..Len(hunks) :
                     become[i] = Exchanged(become[i - 1], hunks[Len(hunks) - i + 1])
               /\ ExchangedAll(text, hunks) = become[Len(hunks)]
<1> DEFINE n == Len(hunks)
           become == CHOOSE b : BecomeIs(b, text, hunks, n)
<1>1. BecomeIs(become, text, hunks, n)
  BY ExchangesExist
<1>2. ExchangedAll(text, hunks) = become[n]
  BY DEF ExchangedAll, BecomeIs
<1>3. n \in Nat
  OBVIOUS
<1> HIDE DEF become, n
<1>4. 0 \in 0..n /\ \A i \in 1..n : i \in 0..n /\ i # 0
  BY <1>3
<1>5. become[0] = text /\ \A i \in 1..n :
          become[i] = Exchanged(become[i - 1], hunks[Len(hunks) - i + 1])
  BY <1>1, <1>4 DEF BecomeIs
<1> QED
  BY <1>2, <1>5 DEF n

(* A hunk whose old lines are where it says goes there.                    *)
LEMMA InPlace ==
    ASSUME NEW file \in Texts, NEW hunk \in Hunk, NEW a \in Sofar(file), a.ok,
           NEW anchor, anchor = Anchor(hunk.lines), anchor # <<>>,
           NEW place, place = hunk.start - 1,
           MatchesAt(file, anchor, place, a.at)
    PROVE  /\ place \in Nat /\ a.at <= place /\ place + Len(anchor) <= Len(file)
           /\ ApplyHunk(file, a, hunk).ok
           /\ ApplyHunk(file, a, hunk).at = place + Len(anchor)
           /\ ApplyHunk(file, a, hunk).out =
                  a.out \o SubSeq(file, a.at + 1, place) \o Replacement(hunk.lines)
<1>1. place \in Int /\ a.at \in Nat
  <2>1. hunk.start \in Nat
    BY HunkSides
  <2> QED
    BY <2>1 DEF Sofar
<1>2. LocateHunk(file, anchor, place, a.at) = place
  BY DEF LocateHunk
<1>3. /\ place \in Nat /\ a.at <= place
      /\ place + Len(anchor) <= Len(file)
  BY <1>1 DEF MatchesAt
<1>4. place # NoPlace
  BY <1>3 DEF NoPlace
<1> DEFINE next == ApplyHunk(file, a, hunk)
<1>5. next = [ok |-> TRUE, at |-> place + Len(anchor),
              out |-> a.out \o SubSeq(file, a.at + 1, place)
                            \o Replacement(hunk.lines)]
  BY <1>2, <1>4 DEF ApplyHunk
<1> HIDE DEF next
<1>6. /\ next.ok = TRUE /\ next.at = place + Len(anchor)
      /\ next.out = a.out \o SubSeq(file, a.at + 1, place)
                          \o Replacement(hunk.lines)
  BY <1>5
<1> QED
  BY <1>3, <1>6, Zenon DEF next

(* ... and the hunks of an edit, first to last, give what they give last   *)
(* to first: behind what is consumed both have the same rest.              *)
LEMMA EditApplies ==
    ASSUME NEW edit, IsEdit(edit), edit.old \in Texts, edit.hunks \in Seq(Hunk)
    PROVE  ApplyPatch(edit.old, edit.hunks) = [ok |-> TRUE, text |-> edit.new]
<1> DEFINE old == edit.old
           hunks == edit.hunks
           n == Len(hunks)
           m == Len(old)
           place(i) == hunks[i].start - 1
           anchor(i) == Anchor(hunks[i].lines)
           replacement(i) == Replacement(hunks[i].lines)
           end(i) == place(i) + Len(anchor(i))
           from(i) == IF i = 1 THEN 0 ELSE end(i - 1)
<1>1. /\ old \in Texts /\ hunks \in Seq(Hunk) /\ n \in Nat /\ m \in Nat
      /\ \A i \in 1..n : /\ hunks[i] \in Hunk /\ anchor(i) # <<>>
                         /\ MatchesAt(old, anchor(i), place(i), from(i))
      /\ edit.new = ExchangedAll(old, hunks)
  <2>1. /\ old \in Texts /\ hunks \in Seq(Hunk) /\ n \in Nat /\ m \in Nat
        /\ DOMAIN hunks = 1..n /\ \A i \in 1..n : hunks[i] \in Hunk
    BY DEF Texts
  <2>2. /\ edit.new = ExchangedAll(old, hunks)
        /\ \A i \in DOMAIN hunks : /\ anchor(i) # <<>>
                                  /\ MatchesAt(old, anchor(i), place(i), from(i))
    BY Zenon DEF IsEdit
  <2> QED
    BY <2>1, <2>2, Zenon
<1>0. n \in Nat /\ old \in Texts
  BY <1>1
<1>2. PICK applied :
          /\ Applies(applied, old, hunks)
          /\ ApplyPatch(old, hunks) =
                [ok |-> applied[n].ok,
                 text |-> applied[n].out \o SubSeq(old, applied[n].at + 1, m)]
  BY <1>1, PatchSteps
<1>3. PICK become :
          /\ become[0] = old
          /\ \A i \in 1..n : become[i] = Exchanged(become[i - 1], hunks[n - i + 1])
          /\ ExchangedAll(old, hunks) = become[n]
  BY <1>1, ExchangeSteps
<1>4. /\ applied[0] = Start
      /\ \A i \in 1..n : applied[i] = ApplyHunk(old, applied[i - 1], hunks[i])
  BY <1>2 DEF Applies
<1>5. \A i \in 0..n : applied[i] \in Sofar(old)
  BY <1>1, <1>2, PatchApplies
<1> HIDE DEF n, m, old, hunks
<1>6. ASSUME NEW i \in 1..n, applied[i - 1].ok, applied[i - 1].at = from(i)
      PROVE  /\ place(i) \in Nat /\ applied[i - 1].at <= place(i) /\ end(i) <= m
             /\ applied[i].ok /\ applied[i].at = end(i)
             /\ applied[i].out = applied[i - 1].out
                    \o SubSeq(old, applied[i - 1].at + 1, place(i)) \o replacement(i)
  <2>1. i - 1 \in 0..n
    BY <1>1
  <2>2. applied[i - 1] \in Sofar(old) /\ hunks[i] \in Hunk
    BY <1>1, <1>5, <2>1
  <2>3. MatchesAt(old, anchor(i), place(i), applied[i - 1].at) /\ anchor(i) # <<>>
    BY <1>1, <1>6
  <2>4. applied[i] = ApplyHunk(old, applied[i - 1], hunks[i])
    BY <1>4
  <2> DEFINE a == applied[i - 1]
             hunk == hunks[i]
             c == anchor(i)
             p == place(i)
  <2>5. /\ a \in Sofar(old) /\ hunk \in Hunk /\ a.ok /\ c # <<>>
        /\ c = Anchor(hunk.lines) /\ p = hunk.start - 1
        /\ MatchesAt(old, c, p, a.at)
    BY <1>6, <2>2, <2>3
  <2> HIDE DEF a, hunk, c, p
  <2>6. /\ p \in Nat /\ a.at <= p /\ p + Len(c) <= Len(old)
        /\ ApplyHunk(old, a, hunk).ok
        /\ ApplyHunk(old, a, hunk).at = p + Len(c)
        /\ ApplyHunk(old, a, hunk).out =
               a.out \o SubSeq(old, a.at + 1, p) \o Replacement(hunk.lines)
    BY <1>0, <2>5, InPlace
  <2> QED
    BY <2>4, <2>6, Zenon DEF a, hunk, c, p, m
<1> DEFINE reached(i) == IF i = 0 THEN 0 ELSE end(i)
           T == {i \in 0..n : applied[i].ok /\ applied[i].at = reached(i)}
<1>7. 0 \in T
  BY <1>1, <1>4 DEF Start
<1>8. ASSUME NEW i \in 0..n, i \in T, i < n
      PROVE  i + 1 \in T
  <2>1. /\ i + 1 \in 1..n /\ i + 1 \in 0..n /\ i + 1 # 0 /\ (i + 1) - 1 = i
        /\ (i + 1 = 1 <=> i = 0)
    <3>1. i < n
      BY <1>8
    <3> HIDE DEF T
    <3> QED
      BY <1>0, <3>1
  <2> HIDE DEF end
  <2>2. applied[(i + 1) - 1].ok /\ applied[(i + 1) - 1].at = from(i + 1)
    BY <1>8, <2>1
  <2> HIDE DEF from
  <2>3. applied[i + 1].ok /\ applied[i + 1].at = end(i + 1)
    BY <1>6, <2>1, <2>2
  <2> QED
    BY <2>1, <2>3
<1>9. 0..n \subseteq T
  <2> HIDE DEF T
  <2> QED
    BY <1>1, <1>7, <1>8, UpTo
<1>10. ASSUME NEW i \in 1..n
       PROVE  /\ i - 1 \in 0..n
              /\ place(i) \in Nat /\ applied[i - 1].at \in Nat
              /\ applied[i - 1].at <= place(i) /\ end(i) <= m
              /\ applied[i].at = end(i)
              /\ applied[i].out = applied[i - 1].out
                    \o SubSeq(old, applied[i - 1].at + 1, place(i)) \o replacement(i)
  <2>1. i - 1 \in 0..n /\ (i - 1 = 0 <=> i = 1)
    BY <1>1
  <2>2. i - 1 \in T /\ applied[i - 1] \in Sofar(old)
    BY <1>5, <1>9, <2>1
  <2> HIDE DEF end
  <2>3. applied[i - 1].ok /\ applied[i - 1].at = from(i) /\ applied[i - 1].at \in Nat
    BY <2>1, <2>2 DEF Sofar
  <2> HIDE DEF T, from
  <2> QED
    BY <1>6, <2>1, <2>3 DEF end
<1> HIDE DEF T
<1> DEFINE final == applied[n].out \o SubSeq(old, applied[n].at + 1, m)
           at(i) == applied[i].at
           out(i) == applied[i].out
<1>11. /\ m = Len(old) /\ Len(old) \in Nat
       /\ \A i \in 0..n : at(i) \in Nat /\ at(i) <= m /\ out(i) \in Texts
  <2>1. m = Len(old) /\ Len(old) \in Nat
    BY <1>0 DEF m, Texts
  <2> QED
    BY <1>5, <2>1 DEF Sofar
<1> HIDE DEF at, out
<1> DEFINE Meets(k, rest) ==
              /\ become[k] = SubSeq(old, 1, at(n - k)) \o rest
              /\ final = out(n - k) \o rest
           K == {k \in 0..n : \E rest \in Texts : Meets(k, rest)}
<1>12. 0 \in K
  <2> DEFINE rest == SubSeq(old, at(n) + 1, m)
  <2>1. n \in 0..n /\ n - 0 = n /\ 0 \in 0..n
    BY <1>0
  <2>2. rest \in Texts /\ SubSeq(old, 1, at(n)) \o rest = SubSeq(old, 1, m)
    <3>1. /\ at(n) \in Nat /\ m \in Nat /\ at(n) <= m /\ m <= Len(old)
          /\ old \in Texts
      BY <1>0, <1>11, <2>1
    <3> QED
      BY <3>1, Splits
  <2>3. SubSeq(old, 1, m) = old
    BY <1>0, <1>11, SubSeqFull DEF Texts
  <2>4. become[0] = SubSeq(old, 1, at(n)) \o rest
    BY <1>3, <2>2, <2>3
  <2>5. final = out(n) \o rest
    BY DEF at, out
  <2> HIDE DEF rest, final
  <2> QED
    BY <2>1, <2>2, <2>4, <2>5
<1>13. ASSUME NEW k \in 0..n, k \in K, k < n
       PROVE  k + 1 \in K
  <2> DEFINE j == n - k
  <2> HIDE DEF K
  <2>1. /\ j \in 1..n /\ j \in 0..n /\ j - 1 \in 0..n /\ k + 1 \in 1..n /\ k + 1 \in 0..n
        /\ (k + 1) - 1 = k /\ n - (k + 1) + 1 = j /\ n - (k + 1) = j - 1
    BY <1>0, <1>13
  <2>2. PICK rest \in Texts : Meets(k, rest)
    BY <1>13 DEF K
  <2> DEFINE front == SubSeq(old, 1, at(j))
             before == SubSeq(old, 1, at(j - 1))
             middle == SubSeq(old, at(j - 1) + 1, place(j))
             new == replacement(j)
  <2>3. become[k] = front \o rest /\ final = out(j) \o rest
    BY <2>2
  <2> HIDE DEF Meets, final, j
  <2>4. /\ place(j) \in Nat /\ at(j - 1) \in Nat /\ at(j - 1) <= place(j)
        /\ at(j) = end(j) /\ at(j) \in Nat /\ at(j) <= m
        /\ out(j) = out(j - 1) \o middle \o new
    BY <1>10, <1>11, <2>1 DEF at, out
  <2>5. hunks[j] \in Hunk /\ Len(anchor(j)) \in Nat /\ new \in Texts
    <3>1. hunks[j] \in Hunk
      BY <1>1, <2>1
    <3> DEFINE hunk == hunks[j]
    <3> HIDE DEF hunk
    <3>2. Anchor(hunk.lines) \in Texts /\ Replacement(hunk.lines) \in Texts
      BY <3>1, HunkSides DEF hunk
    <3>3. Len(Anchor(hunk.lines)) \in Nat
      BY <3>2 DEF Texts
    <3> QED
      BY <3>1, <3>2, <3>3 DEF hunk
  <2>6. place(j) <= at(j)
    BY <2>4, <2>5
  <2>7. /\ front \in Texts /\ Len(front) = at(j)
        /\ before \in Texts /\ middle \in Texts
        /\ before \o middle = SubSeq(old, 1, place(j))
    <3>1. place(j) <= m
      BY <1>11, <2>4, <2>6
    <3>2. /\ before \in Texts /\ middle \in Texts
          /\ before \o middle = SubSeq(old, 1, place(j))
      BY <1>0, <1>11, <2>4, <3>1, Splits
    <3>3. front \in Texts /\ Len(front) = at(j)
      BY <1>0, <1>11, <2>4, Splits, SMTT(30)
    <3> QED
      BY <3>2, <3>3
  <2>8. become[k + 1] = Exchanged(become[k], hunks[j])
    BY <1>3, <2>1
  <2>9. Exchanged(become[k], hunks[j]) =
            SubSeq(front \o rest, 1, place(j)) \o new
                \o SubSeq(front \o rest, at(j) + 1, Len(front \o rest))
    BY <2>3, <2>4 DEF Exchanged
  <2>10. SubSeq(front \o rest, at(j) + 1, Len(front \o rest)) = rest
    <3> DEFINE f == front
    <3>1. f \in Texts /\ Len(f) = at(j)
      BY <2>7
    <3> HIDE DEF f
    <3>2. SubSeq(f \o rest, Len(f) + 1, Len(f \o rest)) = rest
      BY <3>1, Rests
    <3> QED
      BY <3>1, <3>2, Zenon DEF f
  <2>11. SubSeq(front \o rest, 1, place(j)) = SubSeq(old, 1, place(j))
    <3>1. place(j) \in 0..Len(front)
      BY <2>4, <2>6, <2>7
    <3>2. SubSeq(front \o rest, 1, place(j)) = SubSeq(front, 1, place(j))
      BY <2>7, <3>1, Fronts
    <3>3. front = SubSeq(old, 1, place(j)) \o SubSeq(old, place(j) + 1, at(j))
          /\ SubSeq(old, 1, place(j)) \in Texts
          /\ SubSeq(old, place(j) + 1, at(j)) \in Texts
          /\ Len(SubSeq(old, 1, place(j))) = place(j)
      BY <1>0, <1>11, <2>4, <2>6, Splits
    <3> DEFINE x == SubSeq(old, 1, place(j))
               y == SubSeq(old, place(j) + 1, at(j))
               p == place(j)
    <3>4. x \in Texts /\ y \in Texts /\ Len(x) = p /\ front = x \o y /\ p \in Nat
      BY <2>4, <3>3
    <3> HIDE DEF x, y, p, front
    <3>5. SubSeq(x \o y, 1, p) = SubSeq(x, 1, p)
      <4>1. p \in 0..Len(x)
        BY <3>4
      <4> QED
        BY <3>4, <4>1, Fronts
    <3>6. SubSeq(x, 1, p) = x
      BY <3>4, SubSeqFull DEF Texts
    <3>7. SubSeq(front, 1, p) = x
      BY <3>4, <3>5, <3>6
    <3> QED
      BY <3>2, <3>7 DEF x, p
  <2>12. become[k + 1] = before \o middle \o new \o rest
    BY <2>7, <2>8, <2>9, <2>10, <2>11
  <2>13. out(j - 1) \in Texts
    BY <1>11, <2>1
  <2>14. final = out(j - 1) \o middle \o new \o rest
    BY <2>3, <2>4
  <2> HIDE DEF before, middle, new, front
  <2> DEFINE more == middle \o new \o rest
  <2>15. middle \o new \in Texts /\ more \in Texts
    BY <2>5, <2>7 DEF Texts
  <2>16. \A s \in Texts : s \o middle \o new \o rest = s \o more
    <3>1. middle \in Texts /\ new \in Texts /\ rest \in Texts
      BY <2>5, <2>7
    <3>2. ASSUME NEW s \in Texts
          PROVE  s \o middle \o new \o rest = s \o (middle \o new \o rest)
      <4>1. \A t, u, v \in Texts : s \o t \o u \o v = s \o (t \o u \o v)
        BY Regrouped, Zenon
      <4>2. \A u, v \in Texts : s \o middle \o u \o v = s \o (middle \o u \o v)
        BY <3>1, <4>1, Zenon
      <4>3. \A v \in Texts : s \o middle \o new \o v = s \o (middle \o new \o v)
        BY <3>1, <4>2, Zenon
      <4> QED
        BY <4>3, Zenon
    <3> QED
      BY <3>2
  <2>17. become[k + 1] = before \o more /\ final = out(j - 1) \o more
    BY <2>7, <2>12, <2>13, <2>14, <2>16
  <2> HIDE DEF more
  <2>18. Meets(k + 1, more)
    BY <2>1, <2>17 DEF Meets, before
  <2> QED
    BY <2>1, <2>15, <2>18 DEF K
<1>14. n \in K
  <2> HIDE DEF K
  <2>1. 0..n \subseteq K
    BY <1>0, <1>12, <1>13, UpTo
  <2> QED
    BY <1>0, <2>1
<1>15. PICK rest \in Texts : Meets(n, rest)
  BY <1>14
<1>16. become[n] = rest /\ final = rest
  <2>1. n - n = 0 /\ at(0) = 0 /\ out(0) = <<>>
    BY <1>0, <1>4 DEF at, out, Start
  <2>2. become[n] = SubSeq(old, 1, 0) \o rest /\ final = <<>> \o rest
    BY <1>15, <2>1
  <2>3. SubSeq(old, 1, 0) = <<>>
    BY SubSeqEmpty
  <2>4. <<>> \o rest = rest
    BY ConcatEmptySeq DEF Texts
  <2> HIDE DEF final
  <2> QED
    BY <2>2, <2>3, <2>4
<1>17. applied[n].ok = TRUE
  <2>1. n \in 0..n
    BY <1>0
  <2>2. applied[n].ok /\ applied[n].ok \in BOOLEAN
    BY <1>5, <1>9, <2>1 DEF T, Sofar
  <2> QED
    BY <2>2
<1>18. ApplyPatch(old, hunks) = [ok |-> TRUE, text |-> final]
  BY <1>2, <1>17
<1> HIDE DEF final
<1>19. edit.new = final
  BY <1>1, <1>3, <1>16
<1> QED
  BY <1>18, <1>19 DEF old, hunks

(* A file that is as the model saw it becomes what the model meant, and a  *)
(* file that has moved on gets the change at the one place that has its    *)
(* old lines, however far off the line number of the hunk is               *)
(* (_apply_patch, _locate_hunk): for every text and every diff that says   *)
(* what the model has in mind.                                             *)
THEOREM EditsAreMeant == AllMeanTheirEdits(Worlds) /\ Spec => []IntendedResult
<1>1. ASSUME AllMeanTheirEdits(Worlds), TypedInv
      PROVE  IntendedResult
  <2>1. ASSUME NEW a \in World.runs, NEW file \in Fetching(a)
        PROVE  LET edit == Proposal(a).edits[file]
                   text == main[Normalized(file)]
                   once == Spliced(text, edit.hunks[1])
               IN  /\ text = edit.old
                         => Patched(a, file) = [ok |-> TRUE, text |-> edit.new]
                   /\ Len(edit.hunks) = 1 /\ Cardinality(once) = 1
                         => Patched(a, file).ok /\ Patched(a, file).text \in once
    <3> DEFINE edit == Proposal(a).edits[file]
               text == main[Normalized(file)]
    <3>1. /\ text \in Texts /\ edit.hunks \in Seq(Hunk) /\ IsEdit(edit)
          /\ Hunks(a)[file] = edit.hunks
      BY <1>1, FetchingIsMeant
    <3>2. Patched(a, file) = ApplyPatch(text, edit.hunks)
      BY <3>1 DEF Patched
    <3> HIDE DEF edit, text
    <3>3. ASSUME text = edit.old
          PROVE  Patched(a, file) = [ok |-> TRUE, text |-> edit.new]
      <4>1. edit.old \in Texts
        BY <3>1, <3>3
      <4>2. ApplyPatch(edit.old, edit.hunks) = [ok |-> TRUE, text |-> edit.new]
        BY <3>1, <4>1, EditApplies
      <4> QED
        BY <3>2, <3>3, <4>2
    <3>4. ASSUME Len(edit.hunks) = 1, Cardinality(Spliced(text, edit.hunks[1])) = 1
          PROVE  /\ Patched(a, file).ok
                 /\ Patched(a, file).text \in Spliced(text, edit.hunks[1])
      <4>1. Spliced(text, edit.hunks[1]) # {}
        BY <3>4, FS_EmptySet
      <4>2. Anchor(edit.hunks[1].lines) # <<>>
        <5>1. 1 \in DOMAIN edit.hunks
          BY <3>1, <3>4
        <5> QED
          BY <3>1, <5>1 DEF IsEdit
      <4>3. /\ ApplyPatch(text, edit.hunks).ok
            /\ ApplyPatch(text, edit.hunks).text \in Spliced(text, edit.hunks[1])
        BY <3>1, <3>4, <4>1, <4>2, OneHunkApplies
      <4> QED
        BY <3>2, <4>3
    <3> QED
      BY <3>3, <3>4 DEF edit, text
  <2> QED
    BY <2>1 DEF IntendedResult
<1>2. CASE AllMeanTheirEdits(Worlds)
  <2>1. TypedInv => IntendedResult
    BY <1>1, <1>2
  <2> QED
    BY <2>1, TypedInvariant, PTL
<1> QED
  BY <1>2
=============================================================================

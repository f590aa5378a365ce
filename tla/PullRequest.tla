----------------------------- MODULE PullRequest -----------------------------
(***************************************************************************)
(* GitHubClient.open_pr (src/integrations/github_client.py) and the stages *)
(* of process_alert that lead to it: one attempt per run, the attempts     *)
(* interleaved, GitHub a separate party whose default branch moves on      *)
(* while an attempt reads it.  Every request to GitHub is one action, and  *)
(* may fail before or after it took effect.                                *)
(*                                                                         *)
(* A tree is a function from paths to the lines of files.  A blob's sha is *)
(* as good as its content.                                                 *)
(***************************************************************************)
EXTENDS Patch, Synthesis

CONSTANTS
    Attempts,   \* runs that reach synthesis, all of alerts of one name; a
                \* world says which of them there are
    Worlds,     \* name -> what the agent may be started with:
                \* services.yaml, the clone, GitHub's trees, the answers
    Threshold,  \* the confidence threshold
    Checked,    \* file names with a suffix that the validator knows
    Broken,     \* lines that make such a file unreadable
    Failures,   \* subset of {"request", "reply", "crash"}
    MaxSecond   \* bound of the model: the last second of the clock

ASSUME DeliveryBounds ==
    /\ Failures \subseteq {"request", "reply", "crash"}
    /\ MaxSecond \in Nat \ {0}
    /\ \A w \in DOMAIN Worlds : Worlds[w].runs \subseteq Attempts

(* Texts are lines, and paths are read from a directory.                   *)
Tree(t) == \A path \in DOMAIN t : t[path] \in Seq(STRING)

ASSUME WorldsAreTyped ==
    \A w \in DOMAIN Worlds :
        /\ Tree(Worlds[w].main)
        /\ \A pushed \in Worlds[w].pushes : Tree(pushed)
        /\ \A path \in DOMAIN Worlds[w].clone :
              path \in Seq(STRING) /\ Normalized(path) = path
        /\ \A bullets \in Worlds[w].answers : bullets \in Seq(Seq(STRING))
        /\ \A i \in DOMAIN Worlds[w].proposals :
              LET diff == Worlds[w].proposals[i].diff
              IN  diff \in Seq(Range(diff))
                  /\ \A j \in DOMAIN diff : IsLine(diff[j])

VARIABLES
    world,     \* which of the Worlds this is
    main,      \* GitHub: the tree of the default branch
    branches,  \* GitHub: branches of the agent, by the second in their names
    pulls,     \* GitHub: the pull requests, attempt -> branch
    attempts,  \* the attempts
    second     \* the clock of the branch names

vars == <<world, main, branches, pulls, attempts, second>>

(* TLC evaluates a definition once, and a substituted constant every time. *)
AllOf == Worlds
World == AllOf[world]

NoProposal == <<>>

Outcomes == {"opened", "skipped", "refused", "errored", "killed"}

(* `hunks` is the patch, file by file, `fetched` holds the old and the new *)
(* lines of the files got so far, and `left` the files of the patch that   *)
(* the present loop has yet to visit.                                      *)
FreshAttempt ==
    [pc |-> "investigate", affected |-> <<>>, proposal |-> NoProposal,
     hunks |-> [p \in {} |-> <<>>], base |-> [p \in {} |-> <<>>], fetched |-> [p \in {} |-> <<>>],
     left |-> {}, branch |-> 0]

Init ==
    /\ world \in DOMAIN AllOf
    /\ main = World.main
    /\ branches = [b \in {} |-> <<>>]
    /\ pulls = [a \in {} |-> 0]
    /\ attempts = [a \in World.runs |-> FreshAttempt]
    /\ second = 1

-----------------------------------------------------------------------------
Put(f, x, v) == [y \in DOMAIN f \cup {x} |-> IF y = x THEN v ELSE f[y]]

At(a, label) == attempts[a].pc = label
End(a, outcome) == attempts' = [attempts EXCEPT ![a].pc = outcome]

Service == Registry(World.services)[World.service]
Proposal(a) == World.proposals[attempts[a].proposal]
Hunks(a) == attempts[a].hunks
Touched(a) == DOMAIN Hunks(a)

Here == UNCHANGED <<world, main, second>>
NoRequest == Here /\ UNCHANGED <<branches, pulls>>

(* An investigation that is off or raised is the one that names no file.   *)
Investigate(a) ==
    /\ At(a, "investigate")
    /\ \E bullets \in World.answers :
          attempts' = [attempts EXCEPT ![a] =
              [@ EXCEPT !.pc = "synthesize",
                        !.affected = ParseAffectedFiles(
                                         bullets, ValidPaths(World.clone))]]
    /\ NoRequest

(* _parse_confidence: no score is the lowest.                              *)
ParseConfidence(section) ==
    IF section.form \in {"scored", "digit"} THEN section.digit ELSE 0

Synthesize(a) ==
    /\ At(a, "synthesize")
    /\ \E i \in DOMAIN World.proposals :
          LET score == ParseConfidence(World.proposals[i].confidence)
              hunks == ParseFilePatches(World.proposals[i].diff)
          IN  attempts' = [attempts EXCEPT ![a] =
              [@ EXCEPT !.proposal = i, !.hunks = hunks,
                        !.pc = IF DOMAIN hunks = {} \/ score < Threshold
                               THEN "skipped" ELSE "gates"]]
    /\ NoRequest

(* Mutant of PassGates: one file in order lets the whole patch through.    *)
PassGatesOnce(a) ==
    /\ At(a, "gates")
    /\ LET allowed == AllowedPaths(Service, attempts[a].affected)
       IN  End(a, IF \E file \in Touched(a) :
                        PassesGates(file, allowed, ChartRoots(World.clone))
                  THEN "base" ELSE "refused")
    /\ NoRequest

PassGates(a) ==
    /\ At(a, "gates")
    /\ LET allowed == AllowedPaths(Service, attempts[a].affected)
       IN  End(a, IF \A file \in Touched(a) :
                        PassesGates(file, allowed, ChartRoots(World.clone))
                  THEN "base" ELSE "refused")
    /\ NoRequest

-----------------------------------------------------------------------------
(* Reading.  Files are read by the name of the default branch, each at its *)
(* own time and all of them after the commit that the branch will start    *)
(* from.                                                                   *)

GetDefaultBranch(a) ==
    /\ At(a, "base")
    /\ attempts' = [attempts EXCEPT ![a] =
           [@ EXCEPT !.pc = "fetch", !.base = main, !.left = Touched(a)]]
    /\ NoRequest

Parses(path, lines) ==
    Last(path) \in Checked => \A i \in DOMAIN lines : lines[i] \notin Broken

Valid(fetched) ==
    \A file \in DOMAIN fetched : Parses(Normalized(file), fetched[file].new)

(* Mutant of Kept: the new content is not validated.                       *)
KeptUnchecked(attempt, file, text) ==
    LET left == attempt.left \ {file}
    IN  [attempt EXCEPT !.fetched = Put(@, file, text), !.left = left,
                        !.pc = IF left # {} THEN "fetch" ELSE "branch"]

(* One file got and patched; the last one is followed by the validation.   *)
Kept(attempt, file, text) ==
    LET fetched == Put(attempt.fetched, file, text)
        left == attempt.left \ {file}
    IN  [attempt EXCEPT !.fetched = fetched, !.left = left,
                        !.pc = IF left # {} THEN "fetch"
                               ELSE IF Valid(fetched) THEN "branch"
                               ELSE "refused"]

GetFile(a) ==
    /\ At(a, "fetch")
    /\ \E file \in attempts[a].left :
          LET path == Normalized(file)
              text == ApplyPatch(main[path], Hunks(a)[file])
          IN  IF path \notin DOMAIN main THEN End(a, "errored")
              ELSE IF ~text.ok THEN End(a, "refused")
              ELSE attempts' = [attempts EXCEPT ![a] =
                       Kept(@, file, [old |-> main[path], new |-> text.text])]
    /\ NoRequest

-----------------------------------------------------------------------------
(* Writing.                                                                *)

(* Mutant of NameIsFree: a branch of that name will do.                    *)
NameIsAlwaysFree == TRUE

NameIsFree == second \notin DOMAIN branches

(* Mutant of BranchCreated: the answer to its creation is not looked at.   *)
BranchAssumed(a) == UNCHANGED <<branches, pulls>>

BranchCreated(a) ==
    /\ NameIsFree
    /\ branches' = Put(branches, second, attempts[a].base)
    /\ UNCHANGED pulls

CreateBranch(a) ==
    /\ At(a, "branch")
    /\ BranchCreated(a)
    /\ attempts' = [attempts EXCEPT ![a] =
           [@ EXCEPT !.pc = "commit", !.branch = second, !.left = Touched(a)]]
    /\ Here

(* Mutant of IsUnchanged: the sha of the file is not sent.                 *)
IsTakenAsUnchanged(a, file) == TRUE

(* GitHub takes the new content of a file only from who has its old one.   *)
IsUnchanged(a, file) ==
    LET tree == branches[attempts[a].branch]
    IN  /\ Normalized(file) \in DOMAIN tree
        /\ tree[Normalized(file)] = attempts[a].fetched[file].old

Committed(a, file) ==
    /\ IsUnchanged(a, file)
    /\ branches' = [branches EXCEPT ![attempts[a].branch][Normalized(file)] =
                        attempts[a].fetched[file].new]
    /\ UNCHANGED pulls

UpdateFile(a) ==
    /\ At(a, "commit")
    /\ \E file \in attempts[a].left :
          /\ Committed(a, file)
          /\ attempts' = [attempts EXCEPT ![a] =
                 [@ EXCEPT !.left = attempts[a].left \ {file},
                           !.pc = IF attempts[a].left = {file} THEN "pull"
                                  ELSE "commit"]]
    /\ Here

PullCreated(a) ==
    /\ pulls' = Put(pulls, a, attempts[a].branch)
    /\ UNCHANGED branches

CreatePr(a) ==
    /\ At(a, "pull")
    /\ PullCreated(a)
    /\ End(a, "opened")
    /\ Here

-----------------------------------------------------------------------------
(* Failures.                                                               *)

(* GitHub refuses: the branch exists, or the file is not the one read.     *)
Rejected(a) ==
    /\ \/ At(a, "branch") /\ ~NameIsFree
       \/ /\ At(a, "commit")
          /\ \E file \in attempts[a].left : ~IsUnchanged(a, file)
    /\ End(a, "errored")
    /\ NoRequest

RequestFails(a) ==
    /\ "request" \in Failures
    /\ attempts[a].pc \in {"base", "fetch", "branch", "commit", "pull"}
    /\ End(a, "errored")
    /\ NoRequest

(* The request took effect and the answer never came.                      *)
LosesReply(a) ==
    /\ "reply" \in Failures
    /\ \/ At(a, "branch") /\ BranchCreated(a)
       \/ At(a, "commit") /\ \E file \in attempts[a].left : Committed(a, file)
       \/ At(a, "pull") /\ PullCreated(a)
    /\ End(a, "errored")
    /\ Here

Crash ==
    /\ "crash" \in Failures
    /\ attempts' = [a \in World.runs |->
                       IF attempts[a].pc \in Outcomes THEN attempts[a]
                       ELSE [attempts[a] EXCEPT !.pc = "killed"]]
    /\ NoRequest

(* Others merge into the default branch.                                   *)
Push ==
    /\ main' \in World.pushes
    /\ UNCHANGED <<world, branches, pulls, attempts, second>>

Tick ==
    /\ second < MaxSecond
    /\ second' = second + 1
    /\ UNCHANGED <<world, main, branches, pulls, attempts>>

-----------------------------------------------------------------------------
Step(a) ==
    \/ Investigate(a) \/ Synthesize(a) \/ PassGates(a)
    \/ GetDefaultBranch(a) \/ GetFile(a)
    \/ CreateBranch(a) \/ UpdateFile(a) \/ CreatePr(a) \/ Rejected(a)

Next ==
    \/ \E a \in World.runs : Step(a) \/ RequestFails(a) \/ LosesReply(a)
    \/ Crash \/ Push \/ Tick

Spec == Init /\ [][Next]_vars
=============================================================================

------------------------- MODULE DeliveryProperties -------------------------
(***************************************************************************)
(* What the way from a diagnosis to a pull request should guarantee.       *)
(***************************************************************************)
EXTENDS PullRequest

(* Every variable has the type that its declaration announces.             *)
DeliveryTypeOK ==
    /\ world \in DOMAIN AllOf
    /\ Tree(main)
    /\ \A b \in DOMAIN branches : b \in 1..MaxSecond /\ Tree(branches[b])
    /\ DOMAIN pulls \subseteq World.runs
    /\ \A a \in DOMAIN pulls : pulls[a] \in DOMAIN branches
    /\ second \in 1..MaxSecond
    /\ \A a \in World.runs :
          /\ attempts[a].pc \in {"investigate", "synthesize", "gates", "base",
                                 "fetch", "branch", "commit", "pull"} \cup Outcomes
          /\ attempts[a].proposal \in {NoProposal} \cup DOMAIN World.proposals
          /\ attempts[a].proposal # NoProposal =>
                 /\ attempts[a].left \subseteq Touched(a)
                 /\ DOMAIN attempts[a].fetched \subseteq Touched(a)
          /\ attempts[a].branch \in {0} \cup DOMAIN branches

-----------------------------------------------------------------------------
(* The patch.                                                              *)

(* The texts that a file can become when a hunk is applied where its old   *)
(* lines are: one for each place that has them.                            *)
Spliced(text, hunk) ==
    {SubSeq(text, 1, i) \o Replacement(hunk.lines)
         \o SubSeq(text, i + Len(Anchor(hunk.lines)) + 1, Len(text)) :
     i \in {j \in 0..(Len(text) - Len(Anchor(hunk.lines))) :
               SubSeq(text, j + 1, j + Len(Anchor(hunk.lines)))
                   = Anchor(hunk.lines)}}

(* What applying the diff of attempt `a` to the present file would give.   *)
Patched(a, file) == ApplyPatch(main[Normalized(file)], Hunks(a)[file])

Fetching(a) ==
    IF At(a, "fetch")
    THEN {file \in attempts[a].left : Normalized(file) \in DOMAIN main} ELSE {}

(* What a text becomes when the lines of its hunks are exchanged where     *)
(* they say, from the last one to the first, so that no hunk moves the     *)
(* lines of another.                                                       *)
Exchanged(text, hunk) ==
    LET place == hunk.start - 1
    IN  SubSeq(text, 1, place) \o Replacement(hunk.lines)
            \o SubSeq(text, place + Len(Anchor(hunk.lines)) + 1, Len(text))

ExchangedAll(text, hunks) ==
    LET become[i \in 0..Len(hunks)] ==
            IF i = 0 THEN text
            ELSE Exchanged(become[i - 1], hunks[Len(hunks) - i + 1])
    IN  become[Len(hunks)]

(* An edit: hunks in the order of the file, none without old lines and     *)
(* each with its old lines where it says, behind those of the one before.  *)
IsEdit(edit) ==
    LET hunks == edit.hunks
        place(i) == hunks[i].start - 1
        anchor(i) == Anchor(hunks[i].lines)
    IN  /\ \A i \in DOMAIN hunks :
              /\ anchor(i) # <<>>
              /\ MatchesAt(edit.old, anchor(i), place(i),
                           IF i = 1 THEN 0 ELSE place(i - 1) + Len(anchor(i - 1)))
        /\ edit.new = ExchangedAll(edit.old, hunks)

(* A diff that says what the model has in mind: read back, it is the       *)
(* model's edits, file by file.                                            *)
MeansItsEdits(proposal) ==
    /\ ParseFilePatches(proposal.diff) =
           [file \in DOMAIN proposal.edits |-> proposal.edits[file].hunks]
    /\ \A file \in DOMAIN proposal.edits : IsEdit(proposal.edits[file])

AllMeanTheirEdits(worlds) ==
    \A w \in DOMAIN worlds : \A i \in DOMAIN worlds[w].proposals :
        MeansItsEdits(worlds[w].proposals[i])

(* The model's edit is what happens to the file: a file that is as the     *)
(* model saw it becomes what the model meant, and a file that has moved on *)
(* gets the change at the one place that has its old lines, however far    *)
(* off the hunk's line number is.                                          *)
IntendedResult ==
    \A a \in World.runs : \A file \in Fetching(a) :
        LET edit == Proposal(a).edits[file]
            text == main[Normalized(file)]
            once == Spliced(text, edit.hunks[1])
        IN  /\ text = edit.old => Patched(a, file) = [ok |-> TRUE, text |-> edit.new]
            /\ Len(edit.hunks) = 1 /\ Cardinality(once) = 1
                   => Patched(a, file).ok /\ Patched(a, file).text \in once

(* A diff with a hunk whose old lines are nowhere in the file is refused:  *)
(* github_client.py, "a hallucinated context/removal line has no home in   *)
(* the real file".                                                         *)
HallucinationRefused ==
    \A a \in World.runs : \A file \in Fetching(a) :
        LET edit == Proposal(a).edits[file]
            text == main[Normalized(file)]
        IN  (\E i \in DOMAIN edit.hunks : Spliced(text, edit.hunks[i]) = {})
                => ~Patched(a, file).ok

(* Every branch of an attempt comes after all of its files were verified   *)
(* and validated, also when the attempt failed or died later on.           *)
WrittenIsVerified ==
    \A a \in World.runs :
        attempts[a].branch # 0 =>
            /\ DOMAIN attempts[a].fetched = Touched(a)
            /\ Valid(attempts[a].fetched)

(* A pull request is its base commit with the patch applied to that very   *)
(* commit, although the files were read later and from a branch that moves *)
(* on: nobody else's change is reverted or taken along.                    *)
PrCarriesThePatch ==
    \A a \in DOMAIN pulls :
        LET base == attempts[a].base
            of(path) == {file \in Touched(a) : Normalized(file) = path}
        IN  \A path \in DOMAIN base :
                branches[pulls[a]][path] \in
                    IF of(path) = {} THEN {base[path]}
                    ELSE {ApplyPatch(base[path], Hunks(a)[file]).text :
                             file \in of(path)}

(* No branch holds the commits of two attempts, even of two alerts of one  *)
(* name in one second.                                                     *)
BranchesAreExclusive ==
    \A a, b \in World.runs :
        attempts[a].branch = attempts[b].branch /\ attempts[a].branch # 0 => a = b

-----------------------------------------------------------------------------
(* The paths.                                                              *)

(* Whatever a pull request changes is no deploy surface, and is a file     *)
(* that the investigation named (when it named any) or the version         *)
(* reference that the service declares.                                    *)
OnlyAgreedFilesChange ==
    \A a \in DOMAIN pulls :
        LET ref == Service.delivery.ref.path
            agreed == Range(attempts[a].affected) \cup {Normalized(ref)}
        IN  \A path \in DOMAIN attempts[a].base :
                branches[pulls[a]][path] # attempts[a].base[path] =>
                    /\ ~IsProtected(path, ChartRoots(World.clone))
                    /\ attempts[a].affected = <<>> \/ path \in agreed

(* patch_generator.py: "the prompt asks for the bump, the blob has to show *)
(* the file, and the gate has to let it through", for a version reference  *)
(* with a path to a file that could be shown and may be changed, however   *)
(* its path is spelled.                                                    *)
DeclaredBumpIsDeliverable ==
    LET ref == Normalized(Service.delivery.ref.path)
    IN  AsksForBump(Service) /\ ref \in LoadTree(World.clone)
            /\ ~IsProtected(ref, ChartRoots(World.clone))
        => \A a \in World.runs :
              LET affected == attempts[a].affected
              IN  /\ ref \in Shown(World.clone, Service, affected)
                  /\ PassesGates(ref, AllowedPaths(Service, affected),
                                 ChartRoots(World.clone))

(* An investigation that names files nobody can read does not leave        *)
(* synthesis without code ("never make synthesis worse than today"), and   *)
(* synthesis is told of a narrowed view exactly when it has one.           *)
NeverBlind ==
    \A a \in World.runs :
        LET affected == attempts[a].affected
            shown == Shown(World.clone, Service, affected)
            told == "handoff" \in
                        PromptSections(World.clone, Service, affected, FALSE)
        IN  /\ LoadTree(World.clone) # {} => shown # {}
            /\ shown # LoadTree(World.clone) => told
            /\ told => affected # <<>>

-----------------------------------------------------------------------------
(* Refinement.                                                             *)

Delivery == INSTANCE PrDelivery
    WITH outcome <- [a \in Attempts |->
                        IF a \in World.runs /\ attempts[a].pc \in Outcomes
                        THEN attempts[a].pc ELSE "working"],
         offered <- [a \in DOMAIN pulls |-> branches[pulls[a]]]

(* Opening a pull request is one step for who looks at outcomes and pull   *)
(* requests: what is offered is never half done, and is never offered      *)
(* after a refusal.                                                        *)
ImplementsDelivery == Delivery!Spec
=============================================================================

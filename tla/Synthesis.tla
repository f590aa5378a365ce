------------------------------ MODULE Synthesis ------------------------------
(***************************************************************************)
(* What the models are shown of a service's code, and what their patch may *)
(* touch: the investigation's list of affected files                       *)
(* (src/agent/investigator.py), the part of the code that synthesis reads  *)
(* (src/agent/patch_generator.py), and the path gates in front of GitHub   *)
(* (src/agent/processor.py, src/integrations/github_client.py).  Three     *)
(* places decide on the same paths and have to agree.                      *)
(*                                                                         *)
(* A path is a sequence of components.  The clone of a service is a        *)
(* function from paths to files, each with its lines and whether it can be *)
(* decoded; a clone that is not there has no files.                        *)
(***************************************************************************)
EXTENDS Services, Subsequence, FiniteSets

CONSTANTS
    TextNames,    \* file names with a suffix that the models are shown
    CiNames,      \* components that are a CI directory, in lower case or not
    DeployNames,  \* file names of CI, image and compose files, likewise
    MaxAffected   \* _MAX_AFFECTED_FILES

SkipDirs == {".git", "node_modules", "dist", "build"}

(* _normalize_repo_path; pathlib reads a path the same way.                *)
Dots == {"", "."}

Normalized(path) == Part(path, {i \in DOMAIN path : path[i] \notin Dots})

HasPart(path, parts) == \E i \in DOMAIN path : path[i] \in parts

-----------------------------------------------------------------------------
(* Investigation.                                                          *)

(* The files of the outline, and the only ones that an answer may name.    *)
ValidPaths(clone) ==
    {path \in DOMAIN clone : /\ ~HasPart(path, SkipDirs)
                             /\ Last(path) \in TextNames}

(* The bullets of the answer, in order: unknown paths and repetitions are  *)
(* dropped, and reading stops at the cap.                                  *)
ParseAffectedFiles(bullets, valid) ==
    LET files[i \in 0..Len(bullets)] ==
            IF i = 0 THEN <<>>
            ELSE IF /\ Len(files[i - 1]) < MaxAffected
                    /\ bullets[i] \in valid
                    /\ bullets[i] \notin Range(files[i - 1])
                 THEN Append(files[i - 1], bullets[i]) ELSE files[i - 1]
    IN  files[Len(bullets)]

-----------------------------------------------------------------------------
(* Synthesis.                                                              *)

(* The version reference, when a change of the source only takes effect    *)
(* with it and it lies in the repository of the pull request.              *)
SameRepoVersionRef(service) ==
    IF IsIndirect(service.delivery) /\ service.delivery.ref.repo = service.repo
    THEN service.delivery.ref.path ELSE NoFile

(* processor.py has its own, for the gate.                                 *)
SameRepoVersionRefPath(service) ==
    LET ref == service.delivery.ref
    IN  IF \/ ~IsIndirect(service.delivery) \/ ref.repo = None
           \/ ref.repo # service.repo
        THEN NoFile ELSE ref.path

LoadOnly(clone, files) ==
    {path \in DOMAIN clone :
        /\ \E file \in Range(files) : Normalized(file) = path
        /\ clone[path].readable}

LoadTree(clone) == {path \in ValidPaths(clone) : clone[path].readable}

NarrowedTo(clone, service, affected) ==
    IF affected = <<>> THEN {}
    ELSE LET ref == SameRepoVersionRef(service)
         IN  LoadOnly(clone, IF ref = NoFile THEN affected
                             ELSE Append(affected, ref))

(* Mutant of Shown: an investigation is trusted to name a readable file.   *)
ShownWithoutFallback(clone, service, affected) ==
    IF affected # <<>> THEN NarrowedTo(clone, service, affected)
    ELSE LoadTree(clone)

(* The fallback ladder of generate: the whole tree when the investigation  *)
(* failed, named nothing, or named nothing that could be read.             *)
Shown(clone, service, affected) ==
    IF NarrowedTo(clone, service, affected) # {}
    THEN NarrowedTo(clone, service, affected)
    ELSE LoadTree(clone)

(* The prompt tells the model to put a bump of the version in the diff.    *)
AsksForBump(service) ==
    /\ IsIndirect(service.delivery)
    /\ service.delivery.ref.repo # None
    /\ service.delivery.ref.repo = service.repo

(* The parts of the prompt that frame the code it shows.                   *)
PromptSections(clone, service, affected, merged) ==
    LET given(name, when) == IF when THEN {name} ELSE {}
    IN  given("previous attempt", merged)
        \cup given("handoff", NarrowedTo(clone, service, affected) # {})
        \cup given("delivery", IsIndirect(service.delivery))
        \cup given("lineage", service.lineage # <<>>)
        \cup given("invisible layers",
                   \E i \in DOMAIN service.lineage : ~service.lineage[i].visible)

-----------------------------------------------------------------------------
(* The gates.                                                              *)

(* The directories of the clone that hold a Chart.yaml.                    *)
ChartRoots(clone) ==
    {Front(path) : path \in
        {p \in DOMAIN clone : Last(p) = "Chart.yaml"
                              /\ ~HasPart(Front(p), SkipDirs)}}

IsChartTemplate(path, roots) ==
    \E i \in 1..(Len(path) - 1) :
        path[i] = "templates" /\ SubSeq(path, 1, i - 1) \in roots

IsProtected(file, roots) ==
    LET path == Normalized(file)
    IN  \/ path = <<>>
        \/ HasPart(path, {".."})
        \/ IsChartTemplate(path, roots)
        \/ HasPart(path, CiNames)
        \/ Last(path) \in DeployNames

(* No list of affected files: any path that is not protected will do.      *)
Unrestricted == [any |-> TRUE, paths |-> {}]

(* Mutant of AllowedPaths: the gate does not know of the bump.             *)
AllowedPathsWithoutRef(service, affected) ==
    IF affected = <<>> THEN Unrestricted
    ELSE [any |-> FALSE, paths |-> Range(affected)]

AllowedPaths(service, affected) ==
    IF affected = <<>> THEN Unrestricted
    ELSE [any |-> FALSE,
          paths |-> Range(affected)
                    \cup ({SameRepoVersionRefPath(service)} \ {NoFile})]

PassesGates(file, allowed, roots) ==
    /\ ~IsProtected(file, roots)
    /\ \/ allowed.any
       \/ Normalized(file) \in {Normalized(path) : path \in allowed.paths}
=============================================================================

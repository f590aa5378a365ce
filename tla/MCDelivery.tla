----------------------------- MODULE MCDelivery -----------------------------
(***************************************************************************)
(* Worlds for TLC: what the agent may be started with.  A proposal is      *)
(* given as the edits that the model has in mind; its diff is written here *)
(* as a model writes it, with the line numbers of the clone.               *)
(***************************************************************************)
EXTENDS DeliveryProperties, TLC

Marked(mark, lines) == [i \in DOMAIN lines |-> [mark |-> mark, arg |-> lines[i]]]

(* Replace lines i..j of `old` by `new`, with `c` lines of context.        *)
HunkOf(old, i, j, new, c) ==
    LET from == IF i - c < 1 THEN 1 ELSE i - c
        to == IF j + c > Len(old) THEN Len(old) ELSE j + c
    IN  [start |-> from,
         lines |-> Marked(" ", SubSeq(old, from, i - 1))
                   \o Marked("-", SubSeq(old, i, j)) \o Marked("+", new)
                   \o Marked(" ", SubSeq(old, j + 1, to))]

EditOf(old, i, j, new, c) ==
    [old |-> old, hunks |-> <<HunkOf(old, i, j, new, c)>>,
     new |-> SubSeq(old, 1, i - 1) \o new \o SubSeq(old, j + 1, Len(old))]

(* The first and the last line replaced, by hunks of their own.            *)
TwoHunkEdit(old, new) ==
    LET n == Len(old)
    IN  [old |-> old, hunks |-> <<HunkOf(old, 1, 1, new, 0), HunkOf(old, n, n, new, 0)>>,
         new |-> new \o SubSeq(old, 2, n - 1) \o new]

Section(file, hunks) ==
    <<[mark |-> "---", arg |-> file], [mark |-> "+++", arg |-> file]>>
    \o FlattenSeq([i \in DOMAIN hunks |->
                      <<[mark |-> "@@", arg |-> hunks[i].start]>> \o hunks[i].lines])

Scored(n) == [form |-> "scored", digit |-> n]

Answer(files, edits) ==
    [diff |-> FlattenSeq([i \in DOMAIN files |->
                             Section(files[i], edits[files[i]].hunks)]),
     confidence |-> Scored(4), edits |-> edits]

-----------------------------------------------------------------------------
(* Services.                                                               *)

Absent == [form |-> "absent"]
App == <<"app", "main.py">>
Values == <<"values.yaml">>
Stale == <<"app", "old.py">>
Template == <<"chart", "templates", "d.yaml">>

Entry(delivery) ==
    [form |-> "mapping", codebase |-> "/codebases/app", repo |-> "org/app",
     delivery |-> delivery,
     lineage |-> [form |-> "list",
                  layers |-> <<[form |-> "mapping", name |-> "umbrella",
                                visible |-> FALSE],
                               [form |-> "malformed"]>>]]

Indirect(repo, path) ==
    [form |-> "mapping", mode |-> "oci-chart",
     ref |-> [form |-> "mapping", repo |-> repo, path |-> path, key |-> "version"]]

Deliveries ==
    <<Absent, [form |-> "malformed"],
      [form |-> "mapping", mode |-> "oci_chart", ref |-> Absent],
      [form |-> "mapping", mode |-> "image-build", ref |-> Absent],
      Indirect("org/app", <<".", "values.yaml">>),
      Indirect("org/app", NoFile), Indirect("org/deploy", Values)>>

ServicesFile(delivery) ==
    [form |-> "mapping",
     entries |-> "app" :> Entry(delivery) @@ "broken" :> [form |-> "malformed"]]

-----------------------------------------------------------------------------
(* One file, every edit of it, and what may have become of it meanwhile.   *)

Texts == {<<"a">>, <<"a", "a">>, <<"a", "b">>, <<"a", "a", "a">>,
          <<"a", "a", "b">>, <<"a", "b", "a">>, <<"a", "b", "b">>}
Meanwhile(old) ==
    <<old, <<"b">> \o old, <<"n", "a">> \o old, [old EXCEPT ![1] = "n"],
      old \o old, SubSeq(old, 2, Len(old))>>

(* An edit is named by the lines it replaces, how many it puts in their    *)
(* place and its lines of context; no lines at all are the two hunks.      *)
EditNamed(old, name) ==
    IF name[1] = 0 THEN TwoHunkEdit(old, <<"c">>)
    ELSE EditOf(old, name[1], name[2], [i \in 1..name[3] |-> "c"], name[4])

(* A hunk without old lines has no place but its line number.              *)
Anchored(edit) == \A i \in DOMAIN edit.hunks : Anchor(edit.hunks[i].lines) # <<>>

EditNames(old) ==
    {name \in (1..Len(old)) \X (0..Len(old)) \X (0..1) \X (0..1) :
        name[2] + 1 \in name[1]..(name[1] + 2) /\ Anchored(EditNamed(old, name))}
    \cup (IF Len(old) > 1 THEN {<<0, 0, 0, 0>>} ELSE {})

EditWorld(old, present) ==
    [services |-> ServicesFile(Absent), service |-> "app", runs |-> {"first"},
     clone |-> App :> [lines |-> old, readable |-> TRUE],
     main |-> App :> present, pushes |-> {}, answers |-> {<<App>>},
     proposals |-> [name \in EditNames(old) |->
                       Answer(<<App>>, App :> EditNamed(old, name))]]

-----------------------------------------------------------------------------
(* A repository with a chart, and attempts side by side.                   *)

Main ==
    App :> <<"a", "b">> @@ Values :> <<"v1">> @@ Stale :> <<"a">>
    @@ Template :> <<"t">> @@ <<"chart", "Chart.yaml">> :> <<"v1">>

Clone == [path \in DOMAIN Main |-> [lines |-> Main[path], readable |-> path # Stale]]

FixApp == EditOf(Main[App], 1, 1, <<"c">>, 1)
Bump == EditOf(Main[Values], 1, 1, <<"v2">>, 0)
Fix == Answer(<<App>>, App :> FixApp)
FixAndBump == Answer(<<App, Values>>, App :> FixApp @@ Values :> Bump)
BumpTwice ==
    LET dotted == <<".", "values.yaml">>
    IN  Answer(<<Values, dotted>>, Values :> Bump @@ dotted :> Bump)
EditTemplate ==
    Answer(<<App, Template>>,
             App :> FixApp @@ Template :> EditOf(Main[Template], 1, 1, <<"c">>, 0))
EditUnread == Answer(<<Stale>>, Stale :> EditOf(<<"z">>, 1, 1, <<"c">>, 0))
BreakApp == Answer(<<App>>, App :> EditOf(Main[App], 2, 2, <<"((">>, 1))
NewFile ==
    LET file == <<"app", "new.py">>
    IN  Answer(<<file>>, file :> EditOf(<<"a">>, 1, 1, <<"c">>, 0))
Unsure == [Fix EXCEPT !.confidence = Scored(2)]
Unscored == [Fix EXCEPT !.confidence = [form |-> "missing"]]
NoPatch == [diff |-> <<[mark |-> "", arg |-> "no patch"]>>,
            confidence |-> Scored(5), edits |-> [p \in {} |-> <<>>]]

Moved == {[Main EXCEPT ![App] = <<"n", "a", "b">>], [Main EXCEPT ![App] = <<"b">>],
          [Main EXCEPT ![Values] = <<"v2">>]}

RepoWorld(delivery) ==
    [services |-> ServicesFile(delivery), service |-> "app", runs |-> {"first"},
     clone |-> Clone, main |-> Main, pushes |-> Moved,
     answers |-> {<<>>, <<App>>, <<Stale>>, <<App, <<"ghost.py">>, App, Values>>},
     proposals |->
        <<"fix">> :> Fix @@ <<"fix and bump">> :> FixAndBump
        @@ <<"bump twice">> :> BumpTwice @@ <<"template">> :> EditTemplate
        @@ <<"unread">> :> EditUnread @@ <<"break">> :> BreakApp
        @@ <<"new file">> :> NewFile @@ <<"unsure">> :> Unsure
        @@ <<"unscored">> :> Unscored @@ <<"no patch">> :> NoPatch]

TwoAttempts ==
    [RepoWorld(Absent) EXCEPT !.runs = {"first", "second"}, !.answers = {<<>>},
        !.proposals = <<"fix">> :> Fix @@ <<"fix and bump">> :> FixAndBump,
        !.pushes = {[Main EXCEPT ![App] = <<"n", "a", "b">>]}]

WorldNames ==
    {<<"edit", old, n>> : old \in Texts, n \in 1..6}
    \cup {<<"repository", n>> : n \in DOMAIN Deliveries} \cup {<<"two attempts">>}

AllWorlds ==
    [n \in {} |-> <<>>] @@ [name \in WorldNames |->
        CASE name[1] = "edit" -> EditWorld(name[2], Meanwhile(name[2])[name[3]])
          [] name[1] = "repository" -> RepoWorld(Deliveries[name[2]])
          [] name[1] = "two attempts" -> TwoAttempts]

(* Every diff here says what it means; those that follow are the ones that *)
(* do not.                                                                 *)
ASSUME WorldsMeanTheirEdits == AllMeanTheirEdits(AllWorlds)

-----------------------------------------------------------------------------
(* Diffs whose sections the parser does not keep apart, for a file that    *)
(* has moved on since: two sections for one file, the first of them about  *)
(* a line that is gone, and a removed line that reads as the header of the *)
(* next section, before a line that is gone.                               *)

Long == <<"a", "-- b", "c", "d">>

SplitInSections ==
    LET edit == TwoHunkEdit(Long, <<"z">>)
    IN  [Answer(<<App>>, App :> edit) EXCEPT !.diff =
            Section(App, <<edit.hunks[1]>>) \o Section(App, <<edit.hunks[2]>>)]

MCRuled == <<"-", "-- b">> :> [mark |-> "---", arg |-> <<"b">>]

RemovedRule == Answer(<<App>>, App :> EditOf(Long, 1, 3, <<"z">>, 1))

OddWorld(gone, answer) ==
    [EditWorld(Long, [Long EXCEPT ![gone] = "y"]) EXCEPT
        !.proposals = <<"odd">> :> answer]

OddWorlds ==
    <<"two sections">> :> OddWorld(1, SplitInSections)
    @@ <<"rule">> :> OddWorld(3, RemovedRule)

ASSUME OddWorldsDoNot ==
    \A w \in DOMAIN OddWorlds : \A i \in DOMAIN OddWorlds[w].proposals :
        ~MeansItsEdits(OddWorlds[w].proposals[i])
=============================================================================

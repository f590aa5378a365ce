-------------------------------- MODULE Patch --------------------------------
(***************************************************************************)
(* The patch algorithms of src/integrations/github_client.py: reading a    *)
(* unified diff (_parse_file_patches), finding where a hunk belongs        *)
(* (_locate_hunk) and applying the hunks of a file (_apply_patch).         *)
(*                                                                         *)
(* A file is a sequence of lines, line endings left out.  A line of a diff *)
(* is a record of its mark and of what follows the mark: "---" and "+++"   *)
(* with a path, "@@" with the first line of the old side, " ", "-" and "+" *)
(* with a line of a file, and "" for a line that is none of these.         *)
(***************************************************************************)
EXTENDS Subsequence

CONSTANTS
    Ruled   \* mark and line of a file -> the header that they read as: a line
            \* "-- b" behind a "-" is "--- b", and "++ b" behind a "+" is "+++ b"

NoPath == <<>>
NoPlace == -1
NoMark == ""

(* What a hunk is made of.                                                 *)
Marks == {" ", "-", "+"}
HunkLine == [mark : Marks, arg : STRING]
Hunk == [start : Nat, lines : Seq(HunkLine)]

IsHeader(line) ==
    /\ line = [mark |-> line.mark, arg |-> line.arg]
    /\ line.mark \in {"---", "+++"}
    /\ line.arg \in Seq(STRING)

IsLine(line) ==
    /\ line = [mark |-> line.mark, arg |-> line.arg]
    /\ \/ IsHeader(line)
       \/ line.mark = "@@" /\ line.arg \in Nat
       \/ line.mark \in Marks \cup {NoMark} /\ line.arg \in STRING

ASSUME RuledAreHeaders == \A ruled \in DOMAIN Ruled : IsHeader(Ruled[ruled])

-----------------------------------------------------------------------------
(* Reading a diff.  The tests for a header come first, whatever the line   *)
(* was meant to be.                                                        *)

AsRead(line) ==
    IF <<line.mark, line.arg>> \in DOMAIN Ruled
    THEN Ruled[<<line.mark, line.arg>>] ELSE line

(* The hunk being read joins the hunks of its file ...                     *)
Flushed(reader) ==
    IF reader.lines = <<>> THEN reader.hunks
    ELSE Append(reader.hunks, [start |-> reader.start, lines |-> reader.lines])

(* ... and they replace what an earlier section said of the same file.     *)
Filed(reader) ==
    IF reader.file = NoPath \/ Flushed(reader) = <<>> THEN reader.patches
    ELSE [p \in DOMAIN reader.patches \cup {reader.file} |->
             IF p = reader.file THEN Flushed(reader) ELSE reader.patches[p]]

ReadLine(reader, line) ==
    CASE line.mark = "---" ->
            [reader EXCEPT !.patches = Filed(reader), !.file = NoPath,
                           !.hunks = <<>>, !.lines = <<>>]
      [] line.mark = "+++" -> [reader EXCEPT !.file = line.arg]
      [] line.mark = "@@" ->
            [reader EXCEPT !.hunks = Flushed(reader), !.lines = <<>>,
                           !.start = line.arg]
      [] line.mark \in Marks /\ reader.file # NoPath ->
            [reader EXCEPT !.lines = Append(@, line)]
      [] OTHER -> reader

(* A function from the paths that a diff touches to their hunks.           *)
ParseFilePatches(diff) ==
    LET read[i \in 0..Len(diff)] ==
            IF i = 0 THEN [patches |-> [p \in {} |-> <<>>], file |-> NoPath,
                           hunks |-> <<>>, lines |-> <<>>, start |-> 0]
            ELSE ReadLine(read[i - 1], AsRead(diff[i]))
    IN  Filed(read[Len(diff)])

-----------------------------------------------------------------------------
(* Applying it.  Places in a file are counted from 0, lines from 1.        *)

Side(lines, marks) ==
    LET of == Part(lines, {i \in DOMAIN lines : lines[i].mark \in marks})
    IN  [i \in DOMAIN of |-> of[i].arg]

(* What the file must hold for a hunk to apply, and what it then holds.    *)
Anchor(lines) == Side(lines, {" ", "-"})
Replacement(lines) == Side(lines, {" ", "+"})

MatchesAt(file, expected, place, from) ==
    /\ place >= from /\ place >= 0
    /\ place + Len(expected) <= Len(file)
    /\ \A k \in DOMAIN expected : file[place + k] = expected[k]

Candidates(file, expected, from) ==
    {j \in from..(Len(file) - Len(expected)) : MatchesAt(file, expected, j, from)}

Distance(i, j) == IF i < j THEN j - i ELSE i - j

Nearest(places, header) ==
    CHOOSE j \in places :
        \A k \in places : \/ Distance(j, header) < Distance(k, header)
                          \/ Distance(j, header) = Distance(k, header) /\ j <= k

(* Mutant of LocateHunk: a hunk that does not match goes where it says.    *)
LocateHunkByHeader(file, expected, header, from) ==
    IF header < from \/ header + Len(expected) > Len(file) THEN NoPlace
    ELSE header

LocateHunk(file, expected, header, from) ==
    IF expected = <<>>
    THEN IF header < from \/ header > Len(file) THEN NoPlace ELSE header
    ELSE IF MatchesAt(file, expected, header, from) THEN header
    ELSE IF Candidates(file, expected, from) = {} THEN NoPlace
    ELSE Nearest(Candidates(file, expected, from), header)

(* Mutant of ApplyHunk: what a hunk that has moved consumes is counted     *)
(* from the place that its header names.                                   *)
ApplyHunkFromHeader(file, applied, hunk) ==
    LET anchor == Anchor(hunk.lines)
        place == LocateHunk(file, anchor, hunk.start - 1, applied.at)
    IN  IF ~applied.ok \/ place = NoPlace THEN [applied EXCEPT !.ok = FALSE]
        ELSE [ok |-> TRUE, at |-> hunk.start - 1 + Len(anchor),
              out |-> applied.out \o SubSeq(file, applied.at + 1, place)
                                  \o Replacement(hunk.lines)]

(* One hunk: `out` is the new file so far, `at` how much of the old one is *)
(* consumed, `ok` whether every hunk found its place.                      *)
ApplyHunk(file, applied, hunk) ==
    LET anchor == Anchor(hunk.lines)
        place == LocateHunk(file, anchor, hunk.start - 1, applied.at)
    IN  IF ~applied.ok \/ place = NoPlace THEN [applied EXCEPT !.ok = FALSE]
        ELSE [ok |-> TRUE, at |-> place + Len(anchor),
              out |-> applied.out \o SubSeq(file, applied.at + 1, place)
                                  \o Replacement(hunk.lines)]

ApplyPatch(file, hunks) ==
    LET applied[i \in 0..Len(hunks)] ==
            IF i = 0 THEN [ok |-> TRUE, at |-> 0, out |-> <<>>]
            ELSE ApplyHunk(file, applied[i - 1], hunks[i])
        last == applied[Len(hunks)]
    IN  [ok |-> last.ok,
         text |-> last.out \o SubSeq(file, last.at + 1, Len(file))]
=============================================================================

--------------------------- MODULE MarkdownCheck ---------------------------
(***************************************************************************)
(* velocitron check on Markdown: the petrinet fences of a file, each       *)
(* compiled on its own, and the lines of the file its diagnostics are at.  *)
(*                                                                         *)
(* A line is a record of kind "fence" [char, length, info, ticked], where  *)
(* info is the words after the marker and ticked tells a backtick among    *)
(* them, or of kind "text" [text], where text is a header, a statement or  *)
(* a word of prose.  Every statement has a line of its own.                *)
(*                                                                         *)
(* A path is a record of kind "file" [name, suffix and a source or lines   *)
(* of Markdown], "directory" [name, hidden, entries] or "absent" [name];   *)
(* hidden is what makes a walk leave a directory out.  Entries are sorted. *)
(***************************************************************************)
EXTENDS Contributions

(* A backtick fence's info cannot hold backticks: that line is prose.      *)
Opens(line) == line.kind = "fence" /\ ~(line.char = "tick" /\ line.ticked)

(* Variant: a shorter fence closes as well.                                *)
ClosesByKind(line, marker) ==
  line.kind = "fence" /\ line.char = marker.char /\ line.info = <<>>

Closes(line, marker) ==
  /\ line.kind = "fence"
  /\ line.char = marker.char
  /\ line.length >= marker.length
  /\ line.info = <<>>

IsPetrinet(marker) == marker.info # <<>> /\ marker.info[1] = "petrinet"

HasLint(marker) == "no-lint" \notin Seqs!ToSet(Tail(marker.info))

(* The scan keeps the open marker, a set of at most one, the number of its *)
(* line, the lines since, and the petrinet fences closed so far.           *)
Outside(fences) == [marker |-> {}, openedAt |-> 0, content |-> <<>>, fences |-> fences]

CloseFence(scan) ==
  LET marker == Elem(scan.marker)
  IN  Outside(scan.fences \o
        IF IsPetrinet(marker)
        THEN <<[content |-> scan.content, lineOffset |-> scan.openedAt,
                lint |-> HasLint(marker)]>>
        ELSE <<>>)

ScanLine(scan, line, number) ==
  CASE scan.marker = {} /\ Opens(line) ->
         [scan EXCEPT !.marker = {line}, !.openedAt = number]
    [] scan.marker = {} /\ ~Opens(line) -> scan
    [] scan.marker # {} ->
         IF Closes(line, Elem(scan.marker)) THEN CloseFence(scan)
         ELSE [scan EXCEPT !.content = Append(@, line)]

(* A fence nobody closes runs to the end of the file.                      *)
PetrinetFences(markdown) ==
  LET scan == Seqs!FoldLeft(LAMBDA s, n : ScanLine(s, markdown[n], n), Outside(<<>>),
                            [n \in DOMAIN markdown |-> n])
  IN  (IF scan.marker = {} THEN scan ELSE CloseFence(scan)).fences

-----------------------------------------------------------------------------

(* The source a fence's lines spell: a header first, if there is one.      *)
SourceOf(fence) ==
  LET texts == [i \in DOMAIN fence.content |-> fence.content[i].text]
      headed == texts # <<>> /\ texts[1].kind \in {"net", "composition"}
  IN  [header |-> IF headed THEN {texts[1]} ELSE {},
       statements |-> IF headed THEN Tail(texts) ELSE texts]

(* References of compositions are not followed.                            *)
VerdictAlone(tb) ==
  IF KindOf(tb.header) # "composition" THEN NetOutcome(tb).verdict
  ELSE IF tb.refused \/ tb.uses = <<>> THEN "refused" ELSE "resolved"

FenceVerdict(fence) == VerdictAlone(TablesOf(<<SourceOf(fence)>>))

(* Where line k of a fence's source is in the file.                        *)
Relocated(fence, k) == fence.lineOffset + k

(* How many fences were checked and skipped, and for each that does not    *)
(* compile the lines of the file that its source is on.                    *)
FenceReport(checked, failing, skipped) ==
  [checked |-> Len(checked), skipped |-> skipped,
   errors |-> [i \in DOMAIN failing |->
                 [k \in DOMAIN failing[i].content |-> Relocated(failing[i], k)]]]

CheckFences(fences) ==
  FenceReport(SelectSeq(fences, LAMBDA f : f.lint),
              SelectSeq(fences, LAMBDA f : f.lint /\ FenceVerdict(f) # "resolved"),
              Len(SelectSeq(fences, LAMBDA f : ~f.lint)))

CheckMarkdownFile(markdown) == CheckFences(PetrinetFences(markdown))

-----------------------------------------------------------------------------
(* Files and directories.                                                   *)

(* References of a composition in a file of its own are followed.          *)
CheckPetrinetFile(file) ==
  IF Outcome(TablesOf(<<file.source>>)).verdict = "resolved" THEN <<>>
  ELSE <<file.name>>

HasCheckedSuffix(path) == path.suffix \in {".petrinet", ".md"}

(* The files of a directory, then those of its directories.                *)
RECURSIVE Walk(_)
Walk(directory) ==
  LET files == SelectSeq(directory.entries, LAMBDA e : e.kind = "file")
      visited == SelectSeq(directory.entries,
                           LAMBDA e : e.kind = "directory" /\ ~e.hidden)
  IN  SelectSeq(files, HasCheckedSuffix)
      \o Seqs!FlattenSeq([i \in DOMAIN visited |-> Walk(visited[i])])

(* What there is to check among the paths given, and their complaints.     *)
CandidateFiles(paths) ==
  LET of(path) == CASE path.kind = "directory" -> Walk(path)
                    [] path.kind = "file" ->
                         IF HasCheckedSuffix(path) THEN <<path>> ELSE <<>>
                    [] path.kind = "absent" -> <<>>
      refused(path) ==
        \/ path.kind = "absent"
        \/ path.kind = "file" /\ ~HasCheckedSuffix(path)
  IN  [files |-> Seqs!FlattenSeq([i \in DOMAIN paths |-> of(paths[i])]),
       errors |-> LET wrong == SelectSeq(paths, refused)
                  IN  [i \in DOMAIN wrong |-> wrong[i].name]]

(* errors names the file of each.                                          *)
Summed(petrinet, markdown, complaints, reports) ==
  [petrinetFiles |-> Len(petrinet), markdownFiles |-> Len(markdown),
   fences |-> Seqs!FoldLeft(LAMBDA n, r : n + r.checked, 0, reports),
   skipped |-> Seqs!FoldLeft(LAMBDA n, r : n + r.skipped, 0, reports),
   errors |-> complaints
     \o Seqs!FlattenSeq([i \in DOMAIN petrinet |-> CheckPetrinetFile(petrinet[i])])
     \o Seqs!FlattenSeq([i \in DOMAIN markdown |->
          [k \in DOMAIN reports[i].errors |-> markdown[i].name]])]

CheckFiles(petrinet, markdown, complaints) ==
  Summed(petrinet, markdown, complaints,
         [i \in DOMAIN markdown |-> CheckMarkdownFile(markdown[i].lines)])

CheckCandidates(candidates) ==
  CheckFiles(SelectSeq(candidates.files, LAMBDA f : f.suffix = ".petrinet"),
             SelectSeq(candidates.files, LAMBDA f : f.suffix # ".petrinet"),
             candidates.errors)

CheckPaths(paths) == CheckCandidates(CandidateFiles(paths))
=============================================================================

---------------------------- MODULE PictureLaws ----------------------------
(***************************************************************************)
(* What the readers of a document are promised: the pictures of a net show *)
(* the net, and checking a Markdown file checks the sources in its fences. *)
(***************************************************************************)
EXTENDS DocumentLaws, Drawing, MarkdownCheck

Styles == [html : BOOLEAN, tooltips : BOOLEAN]

LinesOf(lines, kind) == SelectSeq(lines, LAMBDA line : line.kind = kind)

NodeIds(lines) ==
  {node.ends[1] : node \in Seqs!ToSet(LinesOf(lines, "node"))}

(* The name an id stands for: an instance stands for its place.            *)
ReadName(id) == IF Len(id) = 3 THEN id[1] ELSE id[Len(id)]

-----------------------------------------------------------------------------
(* The pictures.                                                            *)

NamesApart(net) == NamesIn(net.places) \cap NamesIn(net.transitions) = {}

(* Every node is drawn once and every edge joins drawn nodes; the edges,   *)
(* read in order, are the arcs; and the tokens of every place are counted  *)
(* at each of its nodes.  A fusion place no arc touches is not drawn.      *)
PictureShowsTheNet(net, lines, fuse) ==
  LET nodes == LinesOf(lines, "node")
      edges == LinesOf(lines, "edge")
      read(id) == ReadName(id)
      marked(p) == IF p \in DOMAIN net.marking THEN net.marking[p] ELSE <<>>
      groups(node) == {k \in DOMAIN node.label : node.label[k][1] = "tokens"}
  IN  /\ \A i, j \in DOMAIN nodes : nodes[i].ends = nodes[j].ends => i = j
      /\ \A i \in DOMAIN edges : Seqs!ToSet(edges[i].ends) \subseteq NodeIds(lines)
      /\ [i \in DOMAIN edges |-> <<read(edges[i].ends[1]), read(edges[i].ends[2]),
                                   edges[i].look>>] =
           [i \in DOMAIN net.arcs |-> <<net.arcs[i].from[2], net.arcs[i].to[2],
                                        net.arcs[i].mode>>]
      /\ NamesIn(net.places) \ {read(id) : id \in NodeIds(lines)} =
           {p \in FusionPlaces(net) : fuse /\ \A i \in DOMAIN net.arcs :
                                                Touches(net.arcs[i]).place # p}
      /\ \A i \in DOMAIN nodes :
           nodes[i].look # "transition" /\ nodes[i].look # "guarded" =>
             LET p == read(nodes[i].ends[1])
             IN  \/ Sets!MapThenSumSet(LAMBDA k : nodes[i].label[k][2],
                                       groups(nodes[i])) = Len(marked(p))
                 \/ Cardinality(Seqs!ToSet(marked(p))) > TokenGroupLimit

(* A route is drawn along the edge of its handle's arc and no other, and   *)
(* every node of a positioned subject is placed, in every view, unless a   *)
(* line above shows an arrow of its own.  Whatever the compiler lets into  *)
(* a named marking can be selected and drawn.                              *)
GeometryFollowsItsSubjects(net, lines, style) ==
  LET arrowless == \A i \in DOMAIN lines :
                     ShowsArrow(lines[i], style) => lines[i].kind = "edge"
  IN  /\ \A m \in DOMAIN net.named : SelectedMarking(net, {m}) # {}
      /\ \A view \in {v.about[3] : v \in net.views} :
           LET drawn == SelectedViewDot(net, lines, view, style)
               with(tag, value) ==
                 {i \in DOMAIN drawn : <<tag, value>> \in Seqs!ToSet(drawn[i].pos)}
           IN  /\ ViewApplies(net, view)
               /\ arrowless =>
                    \A route \in GeometryOf(net, "view.route", view) :
                      \A i \in DOMAIN drawn :
                        LET chain == Elem({s \in Seqs!ToSet(Written(sources)) :
                                             /\ s.kind = "chain"
                                             /\ s.handle = {route.about[2][2]}})
                            arc == chain.segments[1]
                        IN  RoutedBy(net, route, lines, i, style) =>
                              /\ drawn[i].look = arc.mode
                              /\ {ReadName(drawn[i].ends[1]),
                                  ReadName(drawn[i].ends[2])} =
                                   {arc.place, arc.transition}
               /\ \A route \in GeometryOf(net, "view.route", view) :
                    arrowless => with("route", route.given) # {}
               /\ \A p \in GeometryOf(net, "view.position", view) :
                    \A i \in DOMAIN drawn :
                      drawn[i].kind = "node" /\ ReadName(drawn[i].ends[1]) = p.about[2][2]
                        => i \in with("position", p.given)

PicturesShowTheNet ==
  \A net \in {n \in ResolvedNets : NamesApart(n)}, style \in Styles, fuse \in BOOLEAN :
    LET shown(lines) == /\ PictureShowsTheNet(net, lines, fuse)
                        /\ GeometryFollowsItsSubjects(net, lines, style)
    IN  shown(NetToDot(net, net.marking, style, fuse))

ArcsOf(lines) == SelectSeq(LinesOf(lines, "edge"), LAMBDA e : e.look # "wire")

WiresOf(lines) == SelectSeq(LinesOf(lines, "edge"), LAMBDA e : e.look = "wire")

(* Edges with their ends as At reads them.                                 *)
ShownBy(edges, At(_)) ==
  BagOf([i \in DOMAIN edges |->
    <<At(edges[i].ends[1]), At(edges[i].ends[2]), edges[i].look,
      SelectSeq(edges[i].label, LAMBDA part : part[1] # "cel")>>])

(* Every end of the edges that Matters is a node of the picture.           *)
EndsDrawn(lines, edges, Matters(_)) ==
  LET drawn == NodeIds(lines)
  IN  \A i \in DOMAIN edges : {n \in Seqs!ToSet(edges[i].ends) : Matters(n)} \subseteq drawn

PicturesOfOneAgree(full, ports, merged, Image(_), Instanced(_)) ==
  LET any(n) == TRUE
      whole(n) == ~Instanced(n)
  IN  /\ ShownBy(ArcsOf(full), Image) = ShownBy(ArcsOf(merged), ReadName)
      /\ EndsDrawn(full, ArcsOf(full), any) /\ EndsDrawn(merged, ArcsOf(merged), any)
      /\ EndsDrawn(ports, WiresOf(ports), any)
      /\ EndsDrawn(full, WiresOf(full), whole)

(* The merged picture of a composition shows the arcs of the full one      *)
(* between the places its wires have made one; every wire of the picture   *)
(* of ports joins drawn ports, and so does every wire of the full picture  *)
(* unless a port is drawn as local instances.                              *)
PicturesAgree ==
  \A c \in ResolvedCompositions, style \in Styles, fuse \in BOOLEAN :
    LET port(id) == <<id[1], id[2]>>
        image(id) == IF port(id) \in PortsIn(c.uses)
                     THEN Renamed(RewriteMap(c.uses, Fusion(c.wires)), port(id))
                     ELSE {port(id)}
        instanced(n) == fuse /\ n[2] \in FusionPlaces(UsedNet(c.uses, n[1]))
    IN  PicturesOfOneAgree(CompositionToDot(c.uses, c.wires, style, fuse),
                           CompositionPortsDot(c.uses, c.wires, style),
                           MergedToDot(c.uses, c.wires, style, fuse),
                           image, instanced)

(* A reader of any picture sees the net, whichever picture it is.          *)
PicturesAreFaithful == PicturesShowTheNet /\ PicturesAgree

-----------------------------------------------------------------------------
(* Markdown.                                                                *)

Fence(char, length, info) ==
  [kind |-> "fence", char |-> char, length |-> length, info |-> info,
   ticked |-> FALSE]

Text(x) == [kind |-> "text", text |-> x]

Prose == Text([kind |-> "prose"])

LinesOfSource(source) ==
  [i \in 1..Cardinality(source.header) |-> Text(Elem(source.header))] \o
  [i \in DOMAIN source.statements |-> Text(source.statements[i])]

(* A file with prose, a line that only looks like a fence, a fence of      *)
(* another language that quotes one of ours, a fence that opts out, and    *)
(* the sources, the last fence unclosed.                                   *)
MarkdownOf(srcs, char, length) ==
  LET open == Fence(char, length, <<"petrinet">>)
      close == Fence(char, length + 1, <<>>)
      quoted == <<Fence("tilde", 5, <<"text">>), Fence("tilde", 3, <<"petrinet">>), Prose,
                  Fence("tilde", 3, <<>>), Fence("tilde", 5, <<>>)>>
  IN  <<Prose, [Fence("tick", 3, <<"petrinet">>) EXCEPT !.ticked = TRUE]>>
      \o quoted
      \o <<Fence(char, length, <<"petrinet", "no-lint">>), Prose, close>>
      \o Seqs!FlattenSeq([i \in DOMAIN srcs |->
           <<Prose, open>> \o LinesOfSource(srcs[i]) \o
           IF i = Len(srcs) THEN <<>> ELSE <<close>>])

FencesReported(markdown, report, failing) ==
  /\ report.checked = Len(sources) /\ report.skipped = 1
  /\ [i \in DOMAIN report.errors |->
        [k \in DOMAIN report.errors[i] |-> markdown[report.errors[i][k]]]] =
       [i \in DOMAIN failing |-> LinesOfSource(failing[i])]

(* What a fence is checked for: the references of compositions are not     *)
(* followed.                                                               *)
CompilesAlone(source) ==
  LET sound(tb) == IF KindOf(tb.header) = "composition"
                   THEN ~tb.refused /\ tb.uses # <<>>
                   ELSE NetOutcome(tb).verdict = "resolved"
  IN  sound(TablesOf(<<source>>))

(* Checking the file checks each source once and reports exactly those     *)
(* that do not compile, at the lines they are on.                          *)
FencesAreFound ==
  document # {} =>
    \A char \in {"tick", "tilde"}, length \in 3..4 :
      LET markdown == MarkdownOf(sources, char, length)
          failing == SelectSeq(sources, LAMBDA s : ~CompilesAlone(s))
      IN  FencesReported(markdown, CheckMarkdownFile(markdown), failing)

NoteFile(markdown) ==
  [kind |-> "file", name |-> <<"note">>, suffix |-> ".md", lines |-> markdown]

SourceFile(i) ==
  [kind |-> "file", name |-> <<"net", i>>, suffix |-> ".petrinet", source |-> sources[i]]

OtherFile == [kind |-> "file", name |-> <<"other">>, suffix |-> ".txt"]

Folder(name, hidden, entries) ==
  [kind |-> "directory", name |-> name, hidden |-> hidden, entries |-> entries]

(* A folder with a hidden and another folder, a file that is no source,    *)
(* the hidden folder, and a path to nowhere.                               *)
PathsTo(note) ==
  LET hidden == Folder("hidden", TRUE, <<SourceFile(1)>>)
      below == Folder("below", FALSE, <<note, OtherFile>>)
  IN  <<Folder("tree", FALSE,
               <<hidden, below>> \o [i \in DOMAIN sources |-> SourceFile(i)]),
        OtherFile, hidden, [kind |-> "absent", name |-> <<"gone">>]>>

FilesReported(report, noted) ==
  LET wrong(i) == Outcome(TablesOf(<<sources[i]>>)).verdict # "resolved"
      times(name) == Cardinality({i \in DOMAIN report.errors : report.errors[i] = name})
  IN  /\ <<report.petrinetFiles, report.markdownFiles>> = <<Len(sources) + 1, 1>>
      /\ <<report.fences, report.skipped>> = <<Len(sources), 1>>
      /\ \A i \in DOMAIN sources :
           times(<<"net", i>>) = IF ~wrong(i) THEN 0 ELSE IF i = 1 THEN 2 ELSE 1
      /\ times(<<"other">>) = 1 /\ times(<<"gone">>) = 1
      /\ times(<<"note">>) = Len(noted.errors)

(* Checking a directory checks every file in it and below, once, except    *)
(* below hidden directories, which are checked when they are asked for by  *)
(* name; a file that is no source and a path that leads nowhere are errors *)
(* only when they are asked for by name.                                   *)
FilesAreFound ==
  document # {} =>
    LET markdown == MarkdownOf(sources, "tick", 3)
    IN  FilesReported(CheckPaths(PathsTo(NoteFile(markdown))),
                      CheckMarkdownFile(markdown))

(* Every source a check is pointed at is checked, wherever it is.          *)
ChecksAreComplete == FencesAreFound /\ FilesAreFound
=============================================================================

---------------------------- MODULE ReportRender ----------------------------
(***************************************************************************)
(* How the blocks of a report become a page (tools/report_html.go).        *)
(*                                                                         *)
(* A block's text is a sequence of symbols: the heading markers "h1".."h3", *)
(* each followed by the title it introduces, placeholders, which are       *)
(* written as the chart they name, and words.  A page is a sequence of     *)
(* sections, each with the block it comes from and the symbols it shows.   *)
(* Styles, escaping, lists and tables are left out.                        *)
(***************************************************************************)
EXTENDS Naturals, Sequences, FiniteSets, SequencesExt

CONSTANTS Charts,          \* chart ids
          OverviewTitles   \* titles that say overview, summary, ...

\* The positions of a sequence for which a condition holds, in order.
Positions(seq, S) == FlattenSeq([i \in 1..Len(seq) |-> IF i \in S THEN <<i>> ELSE <<>>])

Markers  == {"h1", "h2", "h3"}
Level(s) == CASE s = "h1" -> 1 [] s = "h2" -> 2 [] s = "h3" -> 3 [] OTHER -> 0

\* The first heading of a text: its title, or "".
HeadingTitle(text) ==
    LET i == SelectInSeq(text, LAMBDA s : s \in Markers)
    IN  IF i = 0 \/ i = Len(text) THEN "" ELSE text[i + 1]

HeadingLevel(text) ==
    LET i == SelectInSeq(text, LAMBDA s : s \in Markers)
    IN  IF i = 0 THEN 0 ELSE Level(text[i])

BlockDisplayTitle(b) == IF HeadingTitle(b.text) # "" THEN HeadingTitle(b.text) ELSE b.title

\* Near matches of long titles are taken for equal titles.
TitlesReferToSameReport(t, reportTitle) == t # "" /\ t = reportTitle

RepeatsReportTitle(b, reportTitle) ==
    /\ b.kind = "markdown"
    /\ Len(b.text) >= 2 /\ b.text[1] = "h1"
    /\ TitlesReferToSameReport(b.text[2], reportTitle)

\* The first text that opens with the report's own title loses that heading.
NormalizeReportBlocksForRendering(blocks, reportTitle) ==
    LET i == SelectInSeq(blocks, LAMBDA b : RepeatsReportTitle(b, reportTitle))
    IN  IF reportTitle = "" \/ i = 0 THEN blocks
        ELSE [blocks EXCEPT ![i].text  = SubSeq(@, 3, Len(@)),
                            ![i].title = IF @ = reportTitle THEN "" ELSE @]

IsTextRenderBlock(b)       == b.kind \in {"markdown", "html"}
ShouldAttachChartInline(b) == b.kind = "chart" /\ b.title = ""

\* Ids are names that share no word with a title or a chart.
BlockRenderTokens(b)    == {b.title, b.chart, BlockDisplayTitle(b)} \ {""}
IsOverviewLikeBlock(b)  == {b.title, BlockDisplayTitle(b)} \cap OverviewTitles # {}
PositiveDistanceScore(d) == IF d >= 8 THEN 0 ELSE 8 - d

\* Raised by 4, so that the penalty leaves a natural number.
ScoreInlineChartAnchor(c, t, distance) ==
    PositiveDistanceScore(distance)
      + 10 * Cardinality(BlockRenderTokens(c) \cap BlockRenderTokens(t))
      + (IF IsOverviewLikeBlock(t) THEN 0 ELSE 4)

\* The text block that an untitled chart block is shown in, or 0.
FindInlineChartAnchorIndex(blocks, i) ==
    LET before == {j \in 1..(i - 1) : IsTextRenderBlock(blocks[j])}
        after  == {j \in (i + 1)..Len(blocks) : IsTextRenderBlock(blocks[j])}
        prev   == IF before = {} THEN 0 ELSE Max(before)
        next   == IF after = {} THEN 0 ELSE Min(after)
        score(j, d) == ScoreInlineChartAnchor(blocks[i], blocks[j], d)
    IN  IF prev = 0 THEN next
        ELSE IF next = 0 THEN prev
        ELSE IF score(next, next - i) > score(prev, i - prev) THEN next ELSE prev

\* The block that each block is shown in; 0: it is shown by itself.
ChartAnchors(bs) == [i \in DOMAIN bs |-> IF ShouldAttachChartInline(bs[i])
                                         THEN FindInlineChartAnchorIndex(bs, i) ELSE 0]

\* Every block that is not attached to another, with the charts attached to it.
RenderUnits(bs, anchor) ==
    LET order     == Positions(bs, {i \in DOMAIN bs : anchor[i] = 0})
        charts(i) == Positions(bs, {j \in DOMAIN bs : anchor[j] = i})
    IN  [k \in DOMAIN order |->
            [block    |-> bs[order[k]],
             attached |-> [n \in DOMAIN charts(order[k]) |-> bs[charts(order[k])[n]]]]]

AttachCharts(bs) == RenderUnits(bs, ChartAnchors(bs))

BuildBaseRenderUnits(blocks, reportTitle) ==
    AttachCharts(NormalizeReportBlocksForRendering(blocks, reportTitle))

\* The parts of a text that begin at the given positions.
CutText(text, cuts) ==
    LET end(k) == IF k = Len(cuts) THEN Len(text) ELSE cuts[k + 1] - 1
    IN  [k \in DOMAIN cuts |-> SubSeq(text, cuts[k], end(k))]

\* A text with several headings of its topmost level is cut before each.
SplitMarkdownIntoTopLevelSections(text) ==
    LET levels == {Level(text[i]) : i \in DOMAIN text} \cap {1, 2}
        tops   == {i \in DOMAIN text : levels # {} /\ Level(text[i]) = Min(levels)}
    IN  IF Cardinality(tops) <= 1 THEN <<text>> ELSE CutText(text, Positions(text, {1} \cup tops))

\* Mutant: every part gets the charts attached to the block.
ChartsInEveryPart(u) ==
    LET parts == SplitMarkdownIntoTopLevelSections(u.block.text)
    IN  IF u.block.kind # "markdown" THEN <<u>>
        ELSE [k \in DOMAIN parts |->
                [u EXCEPT !.block = [u.block EXCEPT !.text = parts[k]]]]

SplitRenderUnitSections(u) ==
    LET parts == SplitMarkdownIntoTopLevelSections(u.block.text)
    IN  IF u.block.kind # "markdown" THEN <<u>>
        ELSE [k \in DOMAIN parts |->
                [block    |-> [u.block EXCEPT !.text = parts[k]],
                 attached |-> IF k = 1 THEN u.attached ELSE <<>>]]

SplitRenderUnits(base) == FlattenSeq([k \in DOMAIN base |-> SplitRenderUnitSections(base[k])])

BuildRenderUnits(blocks, reportTitle) ==
    SplitRenderUnits(BuildBaseRenderUnits(blocks, reportTitle))

\* Placeholders become charts; those of charts the report lacks vanish.
ProcessContent(text, have) ==
    FlattenSeq([i \in 1..Len(text) |->
                   IF text[i] \notin Charts \/ text[i] \in have THEN <<text[i]>> ELSE <<>>])

\* An html block and a heading keep their placeholders as plain text.
Unprocessed(text) == [i \in DOMAIN text |-> IF text[i] \in Charts THEN "literal" ELSE text[i]]

Heading(title) == IF title = "" THEN <<>> ELSE Unprocessed(<<title>>)

RenderTextBlock(b, have) ==
    Heading(IF HeadingTitle(b.text) = "" THEN b.title ELSE "")
      \o (IF b.kind = "html" THEN Unprocessed(b.text) ELSE ProcessContent(b.text, have))

RenderChartBlockHTML(b, have) ==
    Heading(BlockDisplayTitle(b)) \o ProcessContent(<<b.chart>> \o b.text, have)

RenderAttachedChartsInline(attached, have) ==
    FlattenSeq([k \in DOMAIN attached |-> RenderChartBlockHTML(attached[k], have)])

RenderUnit(u, have) ==
    IF u.block.kind = "chart" THEN RenderChartBlockHTML(u.block, have)
    ELSE RenderTextBlock(u.block, have) \o RenderAttachedChartsInline(u.attached, have)

RenderSections(units, have) ==
    [n \in DOMAIN units |-> [id |-> units[n].block.id, body |-> RenderUnit(units[n], have)]]

\* The sections of the page; section n has the anchor n.
RenderReportHTML(blocks, have, reportTitle) ==
    RenderSections(BuildRenderUnits(blocks, reportTitle), have)

---------------------------------------------------------------------------
(* The table of contents counts the sections on its own. *)

StructuredBlockTOCTitle(b, reportTitle) ==
    IF \/ TitlesReferToSameReport(b.title, reportTitle)
       \/ b.kind = "markdown" /\ HeadingLevel(b.text) > 2
    THEN "" ELSE b.title

DocumentTOCTitle(b, reportTitle) ==
    LET own(t) == IF TitlesReferToSameReport(t, reportTitle) THEN "" ELSE t
        level  == IF b.kind = "chart" THEN 0 ELSE HeadingLevel(b.text)
        head   == IF level > 0 THEN own(HeadingTitle(b.text)) ELSE ""
    IN  IF b.kind = "markdown" /\ level > 2 THEN ""
        ELSE IF head # "" THEN head ELSE own(b.title)

\* Mutant: one section for each block.
OnePerBlock(parts, k) == k - 1

\* The sections of the blocks before the k-th, counted block by block.
SectionsBefore(parts, k) ==
    LET counted[j \in 0..Len(parts)] == IF j = 0 THEN 0 ELSE counted[j - 1] + Len(parts[j])
    IN  counted[k - 1]

\* One entry for a block with a title of its own, else one for each titled section.
BlockTOCItems(block, whole, parts, before, reportTitle) ==
    LET item(j, title) == [anchor |-> before + j, id |-> block.id, title |-> title]
        own(j)  == DocumentTOCTitle(parts[j].block, reportTitle)
        titled  == Positions(parts, {j \in 1..Len(parts) : own(j) # ""})
    IN  IF whole # "" THEN <<item(1, whole)>>
        ELSE [k \in 1..Len(titled) |-> item(titled[k], own(titled[k]))]

TOCItems(base, parts, reportTitle) ==
    FlattenSeq([k \in DOMAIN base |->
        BlockTOCItems(base[k].block, StructuredBlockTOCTitle(base[k].block, reportTitle),
                      parts[k], SectionsBefore(parts, k), reportTitle)])

TOCOfUnits(base, reportTitle) ==
    TOCItems(base, [k \in DOMAIN base |-> SplitRenderUnitSections(base[k])], reportTitle)

BuildReportTOCItems(blocks, reportTitle) ==
    TOCOfUnits(BuildBaseRenderUnits(blocks, reportTitle), reportTitle)
=============================================================================

----------------------------- MODULE ReportDraft -----------------------------
(***************************************************************************)
(* The report of a session: the tools that change it (tools/report_*.go,   *)
(* tools/chart.go), the edit scope that restricts them, finalizing, saving *)
(* the finalized report (handler/ws.go, service/file_service.go) and what  *)
(* a restarted server finds of it in the event log.                        *)
(*                                                                         *)
(* The engine's goroutine carries out one tool call at a time: it changes  *)
(* the report under the report's lock, then emits the result, and what is  *)
(* to be saved is saved by the hooks of that event.  A WebSocket handler   *)
(* may stop the run or reset the session between any two of these steps,   *)
(* uploads and confirmations change which sources are ambiguous, and the   *)
(* server may restart.  A block id is a number: `block-N' is N, and so is  *)
(* any other name.                                                         *)
(***************************************************************************)
EXTENDS ReportRender

CONSTANTS Drafts,      \* blocks the model may write, without id
          Scopes,      \* edit scopes a user may ask for
          Options,     \* definitions of a chart, numbers from 1
          Places,      \* pairs <<before_block_id, after_block_id>> of a call
          MaxBlocks,   \* bound: blocks of the report, and ids
          MaxRuns,     \* bound: runs of the session
          MaxWrites    \* bound: calls that may change the report

\* ReportBlock, ReportState, ReportEditScope
Block     == [id : Nat, kind : {"markdown", "html", "chart"}, title : STRING,
              text : Seq(STRING), chart : STRING, src : STRING]
Report    == [blocks : Seq(Block), charts : [Charts -> Nat], layout : {"", "css"},
              title : {"", "T"}, needs : BOOLEAN]
EditScope == [mode : STRING, block : Nat, chart : STRING, preserve : BOOLEAN,
              text : Seq(STRING), start : Nat, end : Nat]

ASSUME ReportDraftAssumption ==
    /\ MaxBlocks \in Nat /\ MaxRuns \in Nat /\ MaxWrites \in Nat
    /\ Places \subseteq (0..MaxBlocks) \X (0..MaxBlocks)
    /\ Drafts \subseteq Block /\ Scopes \subseteq EditScope
    /\ Options \subseteq Nat \ {0} /\ Charts \subseteq STRING
    /\ Charts \cap (Markers \cup {"T", "literal"}) = {}

Ids  == 1..MaxBlocks
Runs == 1..MaxRuns
NoId == 0

VARIABLES
    report,     \* ReportState: blocks, charts (the option of each, 0: no such chart),
                \*   layout, title (FinalTitle), needs (NeedsFinalize)
    edit,       \* ReportEditState
    run,        \* the last run
    pc,         \* where the engine's goroutine is
    call,       \* the tool call being carried out
    cancelled,  \* the run's context is done
    disk,       \* the report row of each run: is there one, and its snapshot
    logged,     \* the report in the last report event of the log
    writes,     \* calls that may have changed the report
    base,       \* history: the report when the edit scope was set
    unsaved     \* history: finalized reports whose result a stop has dropped

vars == <<report, edit, run, pc, call, cancelled, disk, logged, writes,
          base, unsaved>>

EmptyReport == [blocks |-> <<>>, charts |-> [c \in Charts |-> 0], layout |-> "",
                title |-> "", needs |-> FALSE]
NoScope     == [mode |-> "", block |-> NoId, chart |-> "", preserve |-> FALSE,
                text |-> <<>>, start |-> 0, end |-> 0]
NoTarget    == [text |-> <<>>, kind |-> "", title |-> "", chart |-> "", src |-> ""]
NoEdit      == [scope |-> NoScope, allowed |-> {}, target |-> NoTarget]
NoCall      == [tool |-> "none", ok |-> FALSE, ambiguous |-> FALSE, title |-> ""]
NoRow       == [row |-> FALSE, doc |-> EmptyReport]

Init ==
    /\ report = EmptyReport /\ edit = NoEdit
    /\ run = 0 /\ pc = "none" /\ call = NoCall /\ cancelled = FALSE
    /\ disk = [r \in Runs |-> NoRow] /\ logged = EmptyReport
    /\ writes = 0
    /\ base = EmptyReport /\ unsaved = {}

Have(doc)        == {c \in Charts : doc.charts[c] > 0}
HasContent(doc)  == doc.blocks # <<>> \/ Have(doc) # {}
IsFinalized(doc) == HasContent(doc) /\ ~doc.needs /\ doc.title # ""

---------------------------------------------------------------------------
(* The edit scope *)

\* Mutant: the search stops before the last block.
FindSkipsLast(blocks, id) == SelectInSeq(SubSeq(blocks, 1, Len(blocks) - 1), LAMBDA b : b.id = id)

FindReportBlockIndex(blocks, id) == SelectInSeq(blocks, LAMBDA b : b.id = id)

ChartRefs(text) == ToSet(text) \cap Charts

ScopeKind(scope) ==
    CASE scope.mode = "layout"                               -> "layout"
      [] scope.mode # "layout" /\ scope.chart # ""           -> "partial_chart"
      [] /\ scope.mode = "selection" /\ scope.chart = ""
         /\ scope.text # <<>>                                -> "partial_selection"
      [] OTHER                                               -> "block_or_report"

\* collectEditableChartIDs
EditableCharts(doc, scope) ==
    LET i == FindReportBlockIndex(doc.blocks, scope.block)
    IN  ({scope.chart} \ {""})
          \cup (IF scope.block = NoId \/ i = 0 THEN {}
                ELSE ({doc.blocks[i].chart} \ {""}) \cup ChartRefs(doc.blocks[i].text))

\* RefreshFromReportState: what the scope protects is fixed when it is set.
ConfigureEditState(doc, scope) ==
    LET i == FindReportBlockIndex(doc.blocks, scope.block)
        b == doc.blocks[i]
    IN  [scope   |-> scope,
         allowed |-> EditableCharts(doc, scope),
         target  |-> IF scope.block = NoId \/ i = 0 THEN NoTarget
                     ELSE [text |-> b.text, kind |-> b.kind, title |-> b.title,
                           chart |-> b.chart, src |-> b.src]]

Preserving == edit.scope.mode # "" /\ edit.scope.preserve

\* Mutant: only writing is restricted.
RemovalUnchecked(action, id) ==
    Preserving => action = "remove" \/ id = edit.scope.block

BlockMutationAllowed(action, id) ==
    Preserving => action = "upsert" /\ edit.scope.block # NoId /\ id = edit.scope.block

ChartMutationAllowed(c) == Preserving => c \in edit.allowed

\* The text the user saw: the symbols that are not markup, by their position.
ProjectReportContentText(text) ==
    Positions(text, {i \in DOMAIN text : text[i] \notin Markers})

\* The selected range as positions in the text, <<>> if it is not there any more.
SelectionBounds(text, scope) ==
    LET shown == ProjectReportContentText(text)
    IN  IF \/ scope.end <= scope.start \/ scope.end > Len(shown)
           \/ scope.text # [k \in 1..(scope.end - scope.start) |->
                              text[shown[scope.start + k]]]
        THEN <<>>
        ELSE <<shown[scope.start + 1], shown[scope.end] + 1>>

SelectionMutationAllowed(id, text) ==
    LET old    == edit.target.text
        bounds == SelectionBounds(old, edit.scope)
    IN  \/ edit.scope.mode = "" \/ ScopeKind(edit.scope) # "partial_selection"
        \/ /\ id = edit.scope.block /\ old # <<>> /\ bounds # <<>>
           /\ IsPrefix(SubSeq(old, 1, bounds[1] - 1), text)
           /\ IsSuffix(SubSeq(old, bounds[2], Len(old)), text)

SelectionBlockMutationAllowed(b) ==
    /\ SelectionMutationAllowed(b.id, b.text)
    /\ \/ edit.scope.mode = "" \/ ScopeKind(edit.scope) # "partial_selection"
       \/ /\ edit.target.kind \in {"", b.kind}
          /\ <<b.title, b.chart, b.src>>
               = <<edit.target.title, edit.target.chart, edit.target.src>>

---------------------------------------------------------------------------
(* Blocks, charts and layout *)

\* The position of a block put before or after another one; 0: no such place.
ResolveReportBlockInsertIndex(blocks, before, after) ==
    CASE before # NoId /\ after # NoId -> 0
      [] before # NoId /\ after = NoId -> FindReportBlockIndex(blocks, before)
      [] before = NoId /\ after # NoId ->
            LET i == FindReportBlockIndex(blocks, after) IN IF i = 0 THEN 0 ELSE i + 1
      [] OTHER -> Len(blocks) + 1

\* A block without an id of its own gets the next number.
BuildReportBlock(draft, id) ==
    [draft EXCEPT !.id = IF id = NoId THEN Len(report.blocks) + 1 ELSE id]

\* The block that takes the place of an earlier one keeps the earlier one's sources.
KeepSources(b, i) ==
    IF i > 0 /\ b.src = "" THEN [b EXCEPT !.src = report.blocks[i].src] ELSE b

\* The old block is gone before the place of the new one is known to exist.
UpsertReportBlock(action, draft, id, before, after) ==
    LET new  == BuildReportBlock(draft, id)
        old  == FindReportBlockIndex(report.blocks, new.id)
        b    == KeepSources(new, old)
        rest == IF old = 0 THEN report.blocks ELSE RemoveAt(report.blocks, old)
        at   == IF old > 0 /\ before = NoId /\ after = NoId THEN old
                ELSE ResolveReportBlockInsertIndex(rest, before, after)
    IN  /\ Len(rest) < MaxBlocks
        /\ IF ~BlockMutationAllowed(action, b.id) \/ ~SelectionBlockMutationAllowed(b)
           THEN report' = report
           ELSE IF at = 0 THEN report' = [report EXCEPT !.blocks = rest]
           ELSE report' = [report EXCEPT !.blocks = InsertAt(rest, at, b), !.needs = TRUE]

RemoveReportBlock(id) ==
    LET i == FindReportBlockIndex(report.blocks, id)
    IN  report' = IF BlockMutationAllowed("remove", id) /\ i > 0
                  THEN [report EXCEPT !.blocks = RemoveAt(@, i), !.needs = TRUE]
                  ELSE report

MoveReportBlock(id, before, after) ==
    LET i    == FindReportBlockIndex(report.blocks, id)
        rest == RemoveAt(report.blocks, i)
        at   == ResolveReportBlockInsertIndex(rest, before, after)
    IN  report' = IF ~BlockMutationAllowed("move", id) \/ i = 0 THEN report
                  ELSE IF at = 0 THEN report
                  ELSE [report EXCEPT !.blocks = InsertAt(rest, at, report.blocks[i]),
                                      !.needs  = TRUE]

\* The chart that a definition describes, an option given as it is or put together
\* from columns and series; 0: it is rejected.
BuildOptionFromDSL == Options \cup {0}

\* A chart that is replaced keeps its id; an invalid definition changes nothing.
ApplyReportChartMutation(c, option) ==
    report' = IF option \in Options /\ ChartMutationAllowed(c)
              THEN [report EXCEPT !.charts[c] = option, !.needs = TRUE]
              ELSE report

ApplyReportLayoutMutation(layout) ==
    report' = [report EXCEPT !.layout = layout, !.needs = TRUE]

---------------------------------------------------------------------------
(* Tool calls of the engine *)

\* A call that may change the report; the result is emitted by the next step.
Calls == pc = "turn" /\ ~cancelled /\ writes < MaxWrites

Wrote(tool) ==
    /\ writes' = writes + 1
    /\ pc' = "emit" /\ call' = [NoCall EXCEPT !.tool = tool]
    /\ UNCHANGED <<edit, run, cancelled, disk, logged, base, unsaved>>

ManageReportBlocks ==
    /\ Calls
    /\ \/ \E id \in Ids \cup {NoId}, at \in Places, draft \in Drafts,
             action \in {"append", "upsert"} :
                /\ id = NoId => action = "append"
                /\ UpsertReportBlock(action, draft, id, at[1], at[2])
       \/ \E id \in Ids : RemoveReportBlock(id)
       \/ \E id \in Ids, at \in Places : MoveReportBlock(id, at[1], at[2])
    /\ Wrote("blocks")

CreateChart ==
    /\ Calls
    /\ \E c \in Charts, option \in BuildOptionFromDSL : ApplyReportChartMutation(c, option)
    /\ Wrote("chart")

ConfigureReport ==
    /\ Calls
    /\ \E layout \in {"", "css"} : ApplyReportLayoutMutation(layout)
    /\ Wrote("layout")

\* Charts shown more than once, a chart block's caption left out of the count.
RefCount(blocks, c) ==
    Cardinality({i \in DOMAIN blocks : IF blocks[i].kind = "chart" THEN blocks[i].chart = c
                                       ELSE c \in ChartRefs(blocks[i].text)})

ReportFinalizeIssues(doc) ==
    (IF doc.blocks = <<>> THEN {<<"no_blocks", "">>} ELSE {})
      \cup {<<"missing", c>>   : c \in {c \in Charts \ Have(doc) : RefCount(doc.blocks, c) > 0}}
      \cup {<<"duplicate", c>> : c \in {c \in Charts : RefCount(doc.blocks, c) > 1}}

\* Execute asks which sources are ambiguous (Sources) before it takes the report's lock.
FinalizeReadSources(title, ambiguous) ==
    /\ pc = "turn" /\ ~cancelled
    /\ pc' = "finalize"
    /\ call' = [tool |-> "finalize", ok |-> FALSE, ambiguous |-> ambiguous, title |-> title]
    /\ UNCHANGED <<report, edit, run, cancelled, disk, logged, writes,
                   base, unsaved>>

\* An active blocking goal may forbid it (GoalTree).
FinalizeReport ==
    /\ pc = "finalize"
    /\ pc' = "emit"
    /\ \E goalsBlock \in BOOLEAN :
          IF \/ IsFinalized(report) \/ goalsBlock
             \/ ReportFinalizeIssues(report) # {} \/ call.ambiguous
          THEN UNCHANGED <<report, call>>
          ELSE /\ report' = [report EXCEPT !.title = call.title, !.needs = FALSE]
               /\ call' = [call EXCEPT !.ok = TRUE]
    /\ UNCHANGED <<edit, run, cancelled, disk, logged, writes, base, unsaved>>

---------------------------------------------------------------------------
(* Results *)

\* FinishRun clears the edit scope.
Ends ==
    /\ pc' = "none" /\ call' = NoCall /\ cancelled' = FALSE
    /\ edit' = NoEdit /\ base' = EmptyReport

\* A call that was stopped while it ran has no result.
DropResult ==
    /\ pc = "emit" /\ cancelled
    /\ Ends
    /\ unsaved' = unsaved \cup (IF call.ok THEN {report} ELSE {})
    /\ UNCHANGED <<report, run, disk, logged, writes>>

\* Mutant: any result of report_finalize starts the saving.
SavesUnchecked ==
    /\ pc = "emit" /\ ~cancelled
    /\ IF call.tool = "finalize" THEN pc' = "saving" /\ call' = call
       ELSE pc' = "turn" /\ call' = NoCall
    /\ logged' = IF call.tool = "finalize" THEN logged ELSE report
    /\ UNCHANGED <<report, edit, run, cancelled, disk, writes, base, unsaved>>

\* reportLifecycleHook: a preview of the draft, or saving what was finalized.
EmitResult ==
    /\ pc = "emit" /\ ~cancelled
    /\ IF call.ok THEN pc' = "saving" /\ call' = call
       ELSE pc' = "turn" /\ call' = NoCall
    /\ logged' = IF call.tool = "finalize" THEN logged ELSE report
    /\ UNCHANGED <<report, edit, run, cancelled, disk, writes, base, unsaved>>

\* The report row is there or not.  Object and file row go with it (SessionRegistry).
Stores(row) ==
    disk' = [disk EXCEPT ![run] = [row |-> row, doc |-> IF row THEN report ELSE EmptyReport]]

\* SaveReportHTML and BindReportFile.
FinalizeAndPersistReport ==
    /\ pc = "saving"
    /\ Stores(TRUE)
    /\ logged' = report
    /\ pc' = "done" /\ call' = NoCall
    /\ UNCHANGED <<report, edit, run, cancelled, writes, base, unsaved>>

\* Mutant: no rollback.
SaveFailsQuietly ==
    /\ pc = "saving"
    /\ \E rowLeft \in BOOLEAN : Stores(rowLeft)
    /\ Ends
    /\ UNCHANGED <<report, run, logged, writes, unsaved>>

\* One of the steps fails and DeleteReportFile takes the row back, or fails in its
\* turn unseen.  rollbackFinalizeDraft; the run is cancelled and has failed.
SaveFails ==
    /\ pc = "saving"
    /\ \E rowLeft \in BOOLEAN : Stores(rowLeft)
    /\ report' = [report EXCEPT !.needs = TRUE, !.title = call.title]
    /\ Ends
    /\ UNCHANGED <<run, logged, writes, unsaved>>

\* The model answers without a call, fails, or notices that it was stopped.
EndRun ==
    /\ pc \in {"turn", "done"}
    /\ Ends
    /\ UNCHANGED <<report, run, disk, logged, writes, unsaved>>

---------------------------------------------------------------------------
(* The user, the HTTP handlers and the server *)

\* LoadReportSnapshot of the handler: the report row of the run, or the live draft.
TargetReport(r) == IF disk[r].row THEN disk[r].doc ELSE report

PrepareUserRun(target, scope) ==
    /\ pc = "none" /\ run < MaxRuns
    /\ target # 0 => target \in 1..run /\ (disk[target].row \/ HasContent(report))
    /\ run' = run + 1 /\ pc' = "turn"
    /\ report' = IF target = 0 THEN report ELSE TargetReport(target)
    /\ edit' = ConfigureEditState(report', scope)
    /\ base' = IF scope = NoScope THEN EmptyReport ELSE report'
    /\ UNCHANGED <<call, cancelled, disk, logged, writes, unsaved>>

\* A stop before the next call only ends the run (EndRun).
Stop ==
    /\ pc \in {"finalize", "emit", "saving"} /\ ~cancelled
    /\ cancelled' = TRUE
    /\ UNCHANGED <<report, edit, run, pc, call, disk, logged, writes, base, unsaved>>

\* Session.Reset; nothing of it reaches the log.
Reset ==
    /\ report' = EmptyReport /\ edit' = NoEdit /\ base' = EmptyReport
    /\ cancelled' = (pc # "none")
    /\ UNCHANGED <<run, pc, call, disk, logged, writes, unsaved>>

\* hydrateSession: the next run sets the edit scope anew.
Restart ==
    /\ report' = logged
    /\ Ends
    /\ UNCHANGED <<run, disk, logged, writes, unsaved>>

Next ==
    \/ ManageReportBlocks \/ CreateChart \/ ConfigureReport
    \/ \E title \in {"", "T"}, ambiguous \in BOOLEAN :
          FinalizeReadSources(title, ambiguous)
    \/ FinalizeReport
    \/ DropResult \/ EmitResult \/ FinalizeAndPersistReport \/ SaveFails \/ EndRun
    \/ \E target \in 0..MaxRuns, scope \in Scopes : PrepareUserRun(target, scope)
    \/ Stop \/ Reset \/ Restart

Spec == Init /\ [][Next]_vars

---------------------------------------------------------------------------
(* Properties *)

\* No two blocks of a report share an id, whatever is appended, replaced, moved,
\* removed or loaded (report_blocks.go finds a block by its id only).
UniqueIds ==
    \A doc \in {report} \cup {disk[r].doc : r \in Runs} :
        \A i, j \in DOMAIN doc.blocks : doc.blocks[i].id = doc.blocks[j].id => i = j

\* The document is that of another one, blocks of which may be lost.
PartOf(doc, whole) ==
    /\ \E from \in [DOMAIN doc.blocks -> DOMAIN whole.blocks] :
          /\ \A i, j \in DOMAIN doc.blocks : i < j => from[i] < from[j]
          /\ \A i \in DOMAIN doc.blocks : doc.blocks[i] = whole.blocks[from[i]]
    /\ <<doc.charts, doc.layout, doc.title>> = <<whole.charts, whole.layout, whole.title>>

\* A report that calls itself finalized has been saved: nothing in it is newer than
\* the stored report of some run.  Between the finalize call and the end of saving,
\* and where a stop dropped the call's result, it is not saved yet (ws.go,
\* runtime_hooks.go, engine.go).
FinalizedIsSaved ==
    \A doc \in {logged} \cup (IF call.ok THEN {} ELSE {report}) :
        IsFinalized(doc) => \/ \E r \in Runs : disk[r].row /\ PartOf(doc, disk[r].doc)
                            \/ \E d \in unsaved : PartOf(doc, d)

\* Whatever is stored for a run has passed the checks of report_finalize, but for
\* the empty report that a reset leaves for the saving of the report it cleared.
SavedPassedChecks ==
    \A r \in Runs : disk[r].row =>
        \/ ReportFinalizeIssues(disk[r].doc) = {} /\ ~disk[r].doc.needs
        \/ disk[r].doc = EmptyReport

\* The blocks with another id than the given one are the same, in the same order.
Others(blocks, id) == {i \in DOMAIN blocks : blocks[i].id # id}

SameOthers(blocks, old, id) ==
    \E from \in [Others(blocks, id) -> Others(old, id)] :
        /\ \A i, j \in Others(blocks, id) : i < j => from[i] < from[j]
        /\ \A j \in Others(old, id) : \E i \in Others(blocks, id) : from[i] = j
        /\ \A i \in Others(blocks, id) : blocks[i] = old[from[i]]

\* While a scope preserves the other blocks, they and the charts that are not the
\* target's are as they were when the run began.
OthersKept ==
    (pc # "none" /\ Preserving) =>
        /\ SameOthers(report.blocks, base.blocks, edit.scope.block)
        /\ \A c \in Charts \ EditableCharts(base, edit.scope) :
                report.charts[c] = base.charts[c]

\* Rewriting a selection leaves the block's kind, title, chart and sources and the
\* text around the selection.
SelectionKept ==
    (pc # "none" /\ edit.scope.mode # "" /\ ScopeKind(edit.scope) = "partial_selection") =>
        \A i \in DOMAIN report.blocks, j \in DOMAIN base.blocks :
            LET b == report.blocks[i]
                o == base.blocks[j]
                bounds == SelectionBounds(o.text, edit.scope)
            IN  b.id = edit.scope.block /\ o.id = b.id /\ b # o =>
                    /\ bounds # <<>>
                    /\ [b EXCEPT !.text = <<>>] = [o EXCEPT !.text = <<>>]
                    /\ IsPrefix(SubSeq(o.text, 1, bounds[1] - 1), b.text)
                    /\ IsSuffix(SubSeq(o.text, bounds[2], Len(o.text)), b.text)

\* Whatever number of calls a run makes, what its edit scope does not name is as it was
\* when the run began, in the same order: the other blocks and charts, and the text
\* around a selection (report_guardrails.go).
ScopePreserved == OthersKept /\ SelectionKept

Page(doc)       == RenderReportHTML(doc.blocks, Have(doc), doc.title)
Occurs(s, text) == Cardinality({i \in DOMAIN text : text[i] = s})
PageText(page)  == FlattenSeq([n \in DOMAIN page |-> page[n].body])

\* What a block names for a chart to be shown: html is not searched for placeholders.
ChartsNamed(b) == CASE b.kind = "chart"    -> <<b.chart>> \o b.text
                    [] b.kind = "markdown" -> b.text
                    [] OTHER               -> <<>>

\* The words of the blocks, but for the report's own title.
WordsOf(doc) == (UNION {ToSet(doc.blocks[i].text) : i \in DOMAIN doc.blocks})
                  \ (Charts \cup Markers \cup {"T"})

\* Every word, and every chart that a block names.
ShowsAll(page, doc) ==
    /\ \A w \in WordsOf(doc) :
          Occurs(w, PageText(page))
             >= Occurs(w, FlattenSeq([i \in DOMAIN doc.blocks |-> doc.blocks[i].text]))
    /\ \A c \in Have(doc) :
          Occurs(c, PageText(page))
             = Occurs(c, FlattenSeq([i \in DOMAIN doc.blocks |-> ChartsNamed(doc.blocks[i])]))

\* Rendering loses and repeats nothing: every word but the report's own title is on
\* the page as often as in the blocks, where it is no title, and every chart as often
\* as chart blocks and the texts of markdown blocks and captions name it.  Asked
\* whenever a call may have changed the report (report_html.go).
RenderComplete == pc = "emit" => ShowsAll(Page(report), report)

Resolve(toc, page) ==
    /\ \A k \in DOMAIN toc : /\ toc[k].anchor \in DOMAIN page
                             /\ page[toc[k].anchor].id = toc[k].id
    /\ \A k, l \in DOMAIN toc : k < l => toc[k].anchor < toc[l].anchor

\* The anchors of the table of contents rise, and each is a section of the block that
\* the entry is about; the two are counted apart (report_html.go).
TocResolves ==
    pc = "emit" => Resolve(BuildReportTOCItems(report.blocks, report.title), Page(report))

=============================================================================

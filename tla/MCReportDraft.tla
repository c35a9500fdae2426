--------------------------- MODULE MCReportDraft ---------------------------
EXTENDS ReportDraft

Draft(kind, title, text, chart, src) ==
    [id |-> NoId, kind |-> kind, title |-> title, text |-> text, chart |-> chart, src |-> src]

Scope(mode, block, chart, preserve) ==
    [NoScope EXCEPT !.mode = mode, !.block = block, !.chart = chart, !.preserve = preserve]

\* Two top headings, the first the report's title; a chart in a text, and the same
\* text with its first word rewritten; an untitled chart with a caption; an html block
\* with a placeholder.
MCDrafts ==
    {Draft("markdown", "S", <<"h1", "T", "u", "h1", "S", "v">>, "", "s1"),
     Draft("markdown", "", <<"u", "c1", "v">>, "", ""),
     Draft("markdown", "", <<"w", "c1", "v">>, "", ""),
     Draft("chart", "", <<"v">>, "c1", ""),
     Draft("html", "S", <<"h2", "S", "c1", "v">>, "", "")}

Selection(preserve) ==
    [NoScope EXCEPT !.mode = "selection", !.block = 1, !.preserve = preserve,
                    !.text = <<"u">>, !.start = 0, !.end = 1]

\* Nowhere in particular, before or after a block, both.
MCPlaces == {<<0, 0>>, <<1, 0>>, <<0, 1>>, <<1, 1>>}

MCScopes ==
    {NoScope, Scope("revise", 1, "", TRUE), Scope("revise", NoId, "c1", TRUE),
     Selection(FALSE)}
=============================================================================

----------------------------- MODULE MCPipeline -----------------------------
(* The stages a document passes, side by side: a behaviour takes one input   *)
(* through the stage that focus names.  The inputs are listed here: small    *)
(* pages, files, texts and runs in which every branch of a stage is met.     *)
EXTENDS Naturals, Sequences, FiniteSets, TLC

CONSTANTS Parts, None,
          Rows, Margin, Strips, Overlap, Confs, MaxAttempts,
          Letters, ChunkSize, Leftover, MaxBytes, MaxFile,
          Radius, TitleLength, TermMin, TermMax,
          Summaries,
          Pages, Configs, Inputs, Tokens, Patterns, CategoryTerms, Tenders, Evidence,
          Requirements, Library, Wanted, Evaluations

VARIABLES focus,
    cfg, page, stage, result, tiles, attempt, out, sent,
    input, outcome, output, reader, scan,
    tender, evidence, at, cursor, turn, found, requirements, all_text,
    reqs, stored, reports, shown

ovars == <<cfg, page, stage, result, tiles, attempt, out, sent>>
dvars == <<input, outcome, output, reader, scan>>
rvars == <<tender, evidence, at, cursor, turn, found, requirements, all_text>>
svars == <<reqs, stored, reports, shown>>
vars  == <<focus, ovars, dvars, rvars, svars>>

UpTo(S, n)  == UNION {[1..k -> S] : k \in 0..n}
Some(S, n)  == UpTo(S, n) \ {<<>>}

-----------------------------------------------------------------------------
(* Pages and environments for PageOcr *)

Kinds == {"plain", "long", "pii", "label", "seal", "hint"}

MCPages ==
    [rows : {r \in [1..Rows -> Kinds \cup {"blank"}] :
                Cardinality({i \in 1..Rows : r[i] # "blank"}) <= 2},
     native : {0}, tall : BOOLEAN]
    \cup {[rows |-> [i \in 1..Rows |-> IF i = 2 THEN "plain" ELSE "blank"],
           native |-> n, tall |-> TRUE] : n \in 1..2}

Environment(provider, primary, fallback, cloud, mode, allowed, boxes) ==
    [provider |-> provider, primary |-> primary, fallback |-> fallback, key |-> TRUE,
     allowed |-> allowed, mode |-> mode, cloud |-> cloud, tiling |-> TRUE, boxes |-> boxes]

MCConfigs ==
    {Environment("local", "local", "disabled", "qwen", "redacted_only", TRUE, TRUE),
     Environment("hybrid", "local", "local", "qwen", "vpc_private", TRUE, TRUE),
     Environment("local", "local", "disabled", "qwen", "redacted_only", TRUE, FALSE),
     Environment("hybrid", "qwen", "disabled", "qwen", "redacted_only", TRUE, TRUE),
     Environment("qwen", "local", "disabled", "qwen", "never", FALSE, TRUE),
     Environment("hybrid", "bogus", "disabled", "qwen", "never", FALSE, TRUE),
     Environment("disabled", "bogus", "disabled", "qwen", "never", FALSE, TRUE),
     Environment("local", "local", "disabled", "bogus", "redacted_only", TRUE, TRUE)}

-----------------------------------------------------------------------------
(* Documents and uploads for Documents *)

T == {"", "a", "b"}

Cell(r, t)    == [r |-> r, text |-> t, shared |-> FALSE, index |-> 0]
SharedCell(i) == [r |-> <<>>, text |-> "9", shared |-> TRUE, index |-> i]
RowOf(texts)  == [r |-> 0, cells |-> [k \in DOMAIN texts |-> Cell(<<>>, texts[k])]]
Part(kind, rows)     == [kind |-> kind, rows |-> rows]
Document(suffix, ps) == [suffix |-> suffix, parts |-> ps, names |-> <<>>, shared |-> <<>>]

Bodies == UpTo({Part("p", <<RowOf(<<t>>)>>) : t \in T} \cup {Part("sect", <<RowOf(<<"a">>)>>)}
               \cup {Part("tbl", [i \in DOMAIN r |-> RowOf(r[i])]) :
                        r \in UpTo({<<>>, <<"a">>, <<"", "b">>}, 2)}, 3)

\* A sheet has either no coordinates or its own, each row once.
SheetRows ==
    {s \in UpTo([r : {0}, cells : UpTo({Cell(<<>>, "a"), Cell(<<>>, ""), SharedCell(0), SharedCell(1)}, 2)]
                \cup {[r |-> 7, cells |-> <<Cell(<<<<1>>, 7>>, "a"), Cell(<<<<3>>, 7>>, "b")>>],
                      [r |-> 8, cells |-> <<Cell(<<<<1>>, 8>>, "b")>>]}, 2) :
        \A i, k \in DOMAIN s : i # k /\ s[i].r # 0 => s[i] # s[k]}
Wide  == <<RowOf([j \in 1..14 |-> "a"])>>
Last_ == <<RowOf(<<"z">>)>>
Sheet(rows) == Part("sheet", rows)

Books ==
    {[suffix |-> "xlsx", shared |-> <<"s">>, names |-> n, parts |-> f] :
        n \in {<<>>, <<"S">>, <<"", "T">>},
        f \in {2 :> Sheet(s) : s \in SheetRows} \cup {2 :> Sheet(s) @@ 5 :> Sheet(Last_) : s \in SheetRows}
              \cup {1 :> Sheet(Wide), <<>>, 1 :> Sheet(Last_) @@ 2 :> Part("broken", <<>>)}}

Slides == {Part("slide", <<RowOf(p), RowOf(l)>>) : p \in UpTo(T, 2), l \in UpTo({"", "x"}, 2)}
Decks ==
    {Document("pptx", f) :
        f \in {<<>>} \cup {1 :> s : s \in Slides}
              \cup {2 :> s @@ 10 :> Part("slide", <<RowOf(<<"k">>), RowOf(<<>>)>>) : s \in Slides}}

Docs == {Document("txt", <<Part("lines", <<RowOf(l)>>)>>) : l \in UpTo(T, 3)}
        \cup {Document("docx", b) : b \in Bodies}
        \cup Books \cup Decks \cup {Document("doc", <<>>)}

\* Every PDF of up to MaxFile bytes over two values, and packages of up to six entries.
Files ==
    [suffix : {"pdf"}, signature : {TRUE}, entries : {{}}, bytes : UpTo({0, 1}, MaxFile)]
    \cup [suffix : {"office"}, signature : BOOLEAN, bytes : {<<>>},
          entries : SUBSET [issue : {"none", "external", "macro"}, large : BOOLEAN]]
    \cup [suffix : {"exe"}, signature : {TRUE}, bytes : {<<>>}, entries : {{}}]

MCInputs == [what : {"document"}, doc : Docs] \cup [what : {"upload"}, file : Files]
MCTokens == {<<1, 1, 0>>, <<1, 0, 1, 1>>}

-----------------------------------------------------------------------------
(* Texts for Rules: 0 is white space *)

MCPatterns ==
    << [label |-> "L1", category |-> "QUALIFICATION", words |-> <<<<1, 2>>, <<1, 0, 2>>, <<2, 1>>>>],
       [label |-> "L2", category |-> "CREDENTIAL", words |-> <<<<2>>>>],
       [label |-> "L3", category |-> "SCORING", words |-> <<<<1>>, <<1, 1>>>>] >>
MCCategoryTerms == [c \in {"QUALIFICATION", "CREDENTIAL", "SCORING"} |->
                    IF c = "CREDENTIAL" THEN {<<2, 2>>} ELSE {<<1, 1, 1>>}]

\* The text of a page is that of its blocks, or, of a paragraph, without any.
Spaced(a, b)    == a \o <<0>> \o b
TextPage(t, bs) == [text |-> t, blocks |-> bs, failed |-> FALSE]
Pieces          == Some({1, 2}, 2)

TenderPages == {TextPage(b, <<b>>) : b \in Pieces} \cup {TextPage(Spaced(b, c), <<b, c>>) : b, c \in Pieces}
               \cup {TextPage(t, <<>>) : t \in UpTo({0, 1, 2}, 3)}
               \cup {TextPage(<<1, 2, 0, 0, 1, 0, 2, 1, 0>>, <<>>), TextPage(<<0, 2, 1, 2, 1, 2, 1, 2>>, <<>>)}
MCTenders   == UpTo(TenderPages, 1)
               \cup {<<TextPage(<<1, 0, 2>>, <<<<1>>, <<2>>>>), t>> : t \in {p \in TenderPages : Len(p.text) <= 2}}

EvidencePages ==
    {TextPage(<<1>>, <<<<1>>>>), TextPage(<<2>>, <<<<2>>>>), TextPage(<<1, 1, 0, 1>>, <<>>),
     TextPage(<<2, 0, 2, 1>>, <<<<2>>, <<2, 1>>>>), TextPage(<<1, 0, 2>>, <<<<1>>, <<2>>>>),
     [text |-> <<1, 2>>, blocks |-> <<<<1, 2>>>>, failed |-> TRUE]}
MCEvidence == UpTo(EvidencePages, 2)

-----------------------------------------------------------------------------
(* Runs, selections and evaluations for Reports *)

Found(category, cited, lines) == [category |-> category, cited |-> cited, lines |-> lines]

MCRequirements ==
    UpTo({Found("FATAL", TRUE, 5), Found("QUALIFICATION", FALSE, 30), Found("SCORING", TRUE, 58)}, 2)
    \cup {<<a, a, a>> : a \in {Found("QUALIFICATION", TRUE, 20), Found("FATAL", FALSE, 18)}}

MCLibrary == "r1" :> [workspace |-> "ours", stem |-> "a", short |-> "x"]
        @@ "r2" :> [workspace |-> "ours", stem |-> "a", short |-> "x"]
        @@ "r3" :> [workspace |-> "ours", stem |-> "b", short |-> "x"]
        @@ "r4" :> [workspace |-> "theirs", stem |-> "b", short |-> "y"]
MCWanted == {<<"r1", "r2", "r1">>, <<"r4", "r3">>, <<"r3", "r2", "r1">>, <<"r4", "r5">>}

Metric == {"line_cer", "key_field_f1", "teds"}
MCEvaluations == {[m \in Metric |-> IF m = "teds" THEN x ELSE y] : x, y \in {"absent", "good", "bad"}}

-----------------------------------------------------------------------------

O == INSTANCE PageOcr
D == INSTANCE Documents
R == INSTANCE Rules
S == INSTANCE Reports

\* The inputs have the shapes the stages read.
ASSUME PipelineAssumption == O!OcrFit /\ D!IntakeFit /\ D!DocumentsFit /\ R!RulesFit /\ S!ReportsFit

AnInput   == CHOOSE i \in Inputs : i.what = "upload"
AReport   == CHOOSE e \in Evaluations : TRUE
AnEnvironment == CHOOSE c \in Configs : TRUE
APage     == CHOOSE p \in Pages : TRUE

Init ==
    /\ focus \in Parts
    /\ IF focus = "ocr" THEN TRUE ELSE cfg = AnEnvironment /\ page = APage
    /\ O!Init
    /\ IF focus = "documents" THEN TRUE ELSE input = AnInput
    /\ D!Init
    /\ IF focus = "rules" THEN TRUE ELSE tender = <<>> /\ evidence = <<>>
    /\ R!Init
    /\ S!Init /\ (focus # "reports" => reqs = <<>> /\ reports = AReport)

Next ==
    \/ focus = "ocr" /\ O!Next /\ UNCHANGED <<focus, dvars, rvars, svars>>
    \/ focus = "documents" /\ D!Next /\ UNCHANGED <<focus, ovars, rvars, svars>>
    \/ focus = "rules" /\ R!Next /\ UNCHANGED <<focus, ovars, dvars, svars>>
    \/ focus = "reports" /\ S!Next /\ UNCHANGED <<focus, ovars, dvars, rvars>>

Spec == Init /\ [][Next]_vars

\* The properties of the stages; each is described where it is defined.
ReadSafely      == O!ReadSafely
BoxesOnPage     == O!BoxesOnPage
AcceptedIsInert == D!AcceptedIsInert
SourcesKept     == D!SourcesKept
FindingsStand   == R!FindingsStand
ReviewStands    == S!ReviewStands
ExportsStand    == S!ExportsStand

=============================================================================

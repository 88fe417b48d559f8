------------------------------ MODULE PageOcr ------------------------------
(* Reading one PDF page: src/app/extraction.py extract_pdf, with the engines *)
(* of src/app/ocr.py and the privacy gate of src/app/ocr_privacy.py.         *)
(*                                                                           *)
(* A page is a column of rows, each blank or holding one line of a kind the  *)
(* gate tells apart:                                                         *)
(*   plain, long   no pattern matches (long: 600 characters, others 30);     *)
(*   pii           a PII_LINE_PATTERN matches: telephone, contact, URL;      *)
(*   label         an identity number's label: high risk, but not maskable;  *)
(*   seal          a BLOCK_ESCALATION_PATTERN matches;                       *)
(*   hint          an ESCALATE_HINT_PATTERN matches.                         *)
(* A line read by an engine carries the row it really is on, the row at the  *)
(* top of the image it was read from, and the row of that image its box is   *)
(* on (0: no box).  Two local engines, PaddleOCR and RapidOCR, appear as     *)
(* one, "local"; the cloud one is "qwen".                                    *)
EXTENDS Naturals, Sequences, FiniteSets, SequencesExt

CONSTANTS
    Rows,         \* rows of a page image
    Margin,       \* rows of the header band, and of the footer band
    Strips,       \* vertical strips of a tiled pass (BID_OCR_TILE_STRIPS)
    Overlap,      \* rows by which neighbouring strips overlap
    Pages,        \* pages tried: [rows, native (lines of embedded text), tall]
    Configs,      \* environments tried, see GetOcrAdapter
    Confs,        \* confidences an engine reports, in percent
    MaxAttempts,  \* QWEN_OCR_MAX_ATTEMPTS
    None          \* no confidence

VARIABLES
    cfg, page,    \* the environment and the page
    stage,        \* where extract_pdf is with the page
    result,       \* the OCRResult so far
    tiles,        \* what the strips have given so far
    attempt,      \* requests made to the cloud with the redacted image
    out,          \* the page_data: text, flags and ocr_* fields
    sent          \* the images that left the process

vars == <<cfg, page, stage, result, tiles, attempt, out, sent>>

-----------------------------------------------------------------------------
(* Engines and their selection *)

Off    == [kind |-> "off", first |-> "none", second |-> "none"]
Broken == [kind |-> "error", first |-> "none", second |-> "none"]
One(e) == [kind |-> "one", first |-> e, second |-> "none"]

\* An unknown name raises ValueError; Qwen without a key is disabled.
BuildNamedAdapter(c, name) ==
    CASE name = "disabled" -> Off
      [] name = "qwen"     -> IF c.key THEN One("qwen") ELSE Off
      [] name = "local"    -> One("local")
      [] OTHER             -> Broken

Lenient(a) == IF a = Broken THEN Off ELSE a

EgressAllowed(c) == c.allowed /\ c.mode \in {"redacted_only", "vpc_private"}

GetCloudOcrAdapter(c) ==
    IF EgressAllowed(c) THEN BuildNamedAdapter(c, c.cloud) ELSE Off

LocalAdapterMutant(c) ==
    CASE c.provider = "hybrid" -> BuildNamedAdapter(c, c.primary)
      [] c.provider = "qwen" -> Off
      [] OTHER -> Lenient(BuildNamedAdapter(c, c.provider))
GetLocalOcrAdapter(c) ==
    CASE c.provider = "hybrid" ->
            BuildNamedAdapter(c, IF c.primary = "qwen" THEN "local" ELSE c.primary)
      [] c.provider = "qwen" -> Off
      [] OTHER -> Lenient(BuildNamedAdapter(c, c.provider))

Hybrid(p, f) ==
    IF Broken \in {p, f} THEN Broken
    ELSE IF p = Off THEN f
    ELSE IF f = Off THEN [p EXCEPT !.kind = "hybrid"]
    ELSE [kind |-> "hybrid", first |-> p.first, second |-> f.first]

\* The cloud is forced out of the fallback, not out of the primary.
GetOcrAdapter(c) ==
    IF c.provider = "hybrid"
    THEN Hybrid(BuildNamedAdapter(c, c.primary),
                BuildNamedAdapter(c, IF c.fallback = "qwen" THEN "disabled" ELSE c.fallback))
    ELSE Lenient(BuildNamedAdapter(c, c.provider))

\* The adapter extract_pdf uses for the first reading of its pages.
PageAdapter(c) ==
    IF EgressAllowed(c) /\ GetLocalOcrAdapter(c) # Off
    THEN GetLocalOcrAdapter(c) ELSE GetOcrAdapter(c)

-----------------------------------------------------------------------------
(* Texts, lines and what an engine may return *)

Kinds == {"plain", "long", "pii", "label", "seal", "hint"}

\* A text is a sequence of lines; one that is empty, or was not read, is blank.
Of(text, kinds) == {i \in DOMAIN text : text[i].kind \in kinds}
Written(text) == Of(text, Kinds) # {}
Chars(text) == 600 * Cardinality(Of(text, {"long"})) + 30 * Cardinality(Of(text, Kinds \ {"long"}))

Blank(l) == [l EXCEPT !.kind = "blank", !.at = 0]

\* The lines of rows first..last as an engine sees them: boxes count from the image's
\* own top row, so a strip's boxes are relative to the strip.
View(p, first, last, boxed) ==
    [i \in 1..(last + 1 - first) |->
        LET row == first + i - 1 IN
        [row |-> row, top |-> first, kind |-> p.rows[row],
         at |-> IF boxed /\ p.rows[row] # "blank" THEN i ELSE 0]]

\* What is left of a view when only some of its lines are read, or seen.
Only(view, some) == [i \in DOMAIN view |-> IF i \in some THEN view[i] ELSE Blank(view[i])]

Readings(view) == {Only(view, some) : some \in SUBSET Of(view, Kinds)}

Failed == [text |-> <<>>, lines |-> <<>>, conf |-> None, by |-> <<"failed">>]

\* An engine raises OCRUnavailable when it reads nothing: an empty reading is Failed.
\* The cloud returns no lines, and a confidence only when its answer was wrapped.
LocalExtract(view, confs) ==
    {IF Written(t) THEN [text |-> t, lines |-> t, conf |-> c, by |-> <<"local">>] ELSE Failed :
        t \in Readings(view), c \in confs}
QwenExtract(view) ==
    {IF Written(t) THEN [text |-> t, lines |-> <<>>, conf |-> c, by |-> <<"qwen">>] ELSE Failed :
        t \in Readings(view), c \in {None, 35}}
EngineExtract(e, view, confs) ==
    IF e = "qwen" THEN QwenExtract(view) ELSE LocalExtract(view, confs)

Low(r, bound) == r.conf # None /\ r.conf < bound

ShouldTryFallback(r) == Low(r, 50) \/ Chars(r.text) < 40

\* HybridOCRAdapter.extract with the answers p and f of its two engines.
HybridExtract(p, f) ==
    IF f = Failed \/ (p # Failed /\ ~ShouldTryFallback(p)) THEN p
    ELSE IF p = Failed THEN [f EXCEPT !.by = <<"hybrid">> \o f.by]
    ELSE [(IF 10 * Chars(f.text) > 11 * Chars(p.text) THEN f ELSE p)
            EXCEPT !.by = <<"hybrid">> \o p.by \o f.by]

Extract(a, view, confs) ==
    CASE a.kind = "one" -> EngineExtract(a.first, view, confs)
      [] a.kind = "hybrid" ->
            {HybridExtract(p, f) :
                p \in EngineExtract(a.first, view, confs),
                f \in IF a.second = "none" THEN {Failed}
                      ELSE EngineExtract(a.second, view, confs)}

\* The full image or a strip leaves the process when the adapter asks the cloud.
RawSent(a) == IF "qwen" \in {a.first, a.second} THEN {[redacted |-> FALSE]} ELSE {}

-----------------------------------------------------------------------------
(* The privacy gate *)

HasKind(text, kinds) == \E i \in DOMAIN text : text[i].kind \in kinds

\* should_escalate_to_cloud on the classification of the local text; the label is
\* an identity card's word, which blocks the page like a seal.
Blocked(text) == HasKind(text, {"seal", "label"})
ShouldEscalate(r, p) ==
    /\ ~Blocked(r.text)
    /\ \/ Low(r, 55)
       \/ Chars(r.text) < 40
       \/ p.tall /\ Chars(r.text) < 500
       \/ HasKind(r.text, {"hint"})

LineNeedsMask(l) == l.kind = "pii"

\* redact_png_bytes: the rows blacked out, and whether the image may be sent.
Masked(lines) ==
    {r \in 1..Rows : r <= Margin \/ r > Rows - Margin}
      \cup {lines[i].at : i \in {j \in DOMAIN lines : LineNeedsMask(lines[j]) /\ lines[j].at # 0}}
Clean(lines) ==
    \A i \in DOMAIN lines :
        IF LineNeedsMask(lines[i]) THEN lines[i].at # 0 ELSE lines[i].kind # "label"

\* int(len * 1.05)
MergeOcrTexts(local, cloud) ==
    IF ~Written(cloud) \/ (Written(local) /\ Chars(cloud) < (105 * Chars(local)) \div 100)
    THEN local ELSE cloud

-----------------------------------------------------------------------------
(* The steps of extract_pdf on the page *)

NoTiles == [n |-> 0, text |-> <<>>, confs |-> <<>>, lines |-> <<>>]

NativeText(p) == [i \in 1..p.native |-> [row |-> 0, top |-> 1, kind |-> "plain", at |-> 0]]
Sparse(p) == 0 < Chars(NativeText(p)) /\ Chars(NativeText(p)) < 50

Native(p) ==
    [text |-> NativeText(p), hasText |-> p.native > 0, low |-> Sparse(p), status |-> "none",
     egress |-> "none", by |-> <<>>, blocks |-> <<>>]

Init ==
    /\ cfg \in Configs
    /\ page \in Pages
    /\ stage = "open"
    /\ result = Failed
    /\ tiles = NoTiles
    /\ attempt = 0
    /\ out = Native(page)
    /\ sent = {}

\* The page's own text decides whether it is read at all. An unknown engine name
\* under "hybrid" is a ValueError that nothing here catches.
Open ==
    /\ stage = "open"
    /\ LET a == PageAdapter(cfg) IN
       \/ /\ a = Broken
          /\ stage' = "raised"
          /\ UNCHANGED out
       \/ /\ a \notin {Broken, Off}
          /\ page.native = 0 \/ Sparse(page)
          /\ stage' = "full"
          /\ UNCHANGED out
       \/ /\ a = Off \/ (a # Broken /\ page.native > 0 /\ ~Sparse(page))
          /\ stage' = "done"
          /\ out' = IF page.native = 0 THEN [out EXCEPT !.status = "DISABLED"] ELSE out
    /\ UNCHANGED <<cfg, page, result, tiles, attempt, sent>>

NeedsPageTiling(r, p) ==
    /\ cfg.tiling
    /\ \/ Low(r, 50)
       \/ /\ r.lines = <<>> \/ r.conf = None
          /\ p.tall
          /\ Chars(r.text) < 500

\* The except branch: whatever text the page had stays, marked as doubtful.
OcrFailed ==
    /\ stage' = "done"
    /\ out' = [out EXCEPT !.status = "FAILED", !.low = TRUE, !.egress = "none"]

FullPass ==
    /\ stage = "full"
    /\ sent' = sent \cup RawSent(PageAdapter(cfg))
    /\ \E r \in Extract(PageAdapter(cfg), View(page, 1, Rows, cfg.boxes), Confs) :
          /\ result' = r
          /\ IF r = Failed THEN OcrFailed
             ELSE /\ stage' = IF NeedsPageTiling(r, page) THEN "tiles" ELSE "read"
                  /\ UNCHANGED out
    /\ tiles' = NoTiles
    /\ UNCHANGED <<cfg, page, attempt>>

Within(row) == IF row < 1 THEN 1 ELSE IF row > Rows THEN Rows ELSE row
StripTop(k)    == Within((k * Rows) \div Strips + 1 - (IF k = 0 THEN 0 ELSE Overlap))
StripBottom(k) == Within(((k + 1) * Rows) \div Strips + (IF k = Strips - 1 THEN 0 ELSE Overlap))

Mean(confs) == FoldLeft(+, 0, confs) \div Len(confs)

\* The stitched text replaces the full pass only when it is longer; the lines of the
\* full pass are kept and those of the strips follow.
Stitched(full, t) ==
    IF Chars(t.text) <= Chars(full.text) THEN full
    ELSE [text  |-> t.text, lines |-> full.lines \o t.lines, by |-> full.by \o <<"tiles">>,
          conf  |-> IF t.confs = <<>> THEN full.conf ELSE Mean(t.confs)]

Tile ==
    /\ stage = "tiles"
    /\ sent' = sent \cup RawSent(PageAdapter(cfg))
    /\ \E r \in Extract(PageAdapter(cfg),
                        View(page, StripTop(tiles.n), StripBottom(tiles.n), cfg.boxes), Confs) :
          LET t == [n |-> tiles.n + 1, text |-> tiles.text \o r.text,
                    confs |-> IF r.conf = None THEN tiles.confs ELSE Append(tiles.confs, r.conf),
                    lines |-> tiles.lines \o r.lines]
          IN  IF t.n < Strips
              THEN tiles' = t /\ UNCHANGED <<stage, result>>
              ELSE tiles' = NoTiles /\ stage' = "read" /\ result' = Stitched(result, t)
    /\ UNCHANGED <<cfg, page, attempt, out>>

\* The page takes the text, the provider and the blocks of the result.
Publish(r, egress) ==
    /\ stage' = "done"
    /\ result' = r
    /\ out' = [text |-> r.text, hasText |-> TRUE, low |-> out.low \/ Low(r, 50),
               status |-> "EXTRACTED", egress |-> egress, by |-> r.by, blocks |-> r.lines]

\* _maybe_escalate_cloud up to the request.
Decide ==
    /\ stage = "read"
    /\ \/ /\ ~EgressAllowed(cfg)
          /\ Publish(result, "none")
       \/ /\ EgressAllowed(cfg)
          /\ ~ShouldEscalate(result, page)
          /\ Publish(result, IF Blocked(result.text) THEN "blocked_sensitive_page" ELSE "none")
       \/ /\ EgressAllowed(cfg)
          /\ ShouldEscalate(result, page)
          /\ LET a == GetCloudOcrAdapter(cfg) IN
             CASE a = Broken -> stage' = "raised" /\ UNCHANGED <<out, result>>
               [] a = Off -> Publish(result, "cloud_unavailable")
               [] a \notin {Broken, Off} /\ ~Clean(result.lines) ->
                    Publish(result, "blocked_residual_pii")
               [] OTHER -> stage' = "cloud" /\ UNCHANGED <<out, result>>
    /\ UNCHANGED <<cfg, page, tiles, attempt, sent>>

\* One request: answered, refused for good (400, 401, 403), or failed and retried.
Cloud ==
    /\ stage = "cloud"
    /\ attempt' = attempt + 1
    /\ sent' = sent \cup {[redacted |-> TRUE, local |-> result, rows |-> 1..Rows \ Masked(result.lines)]}
    /\ \/ /\ attempt' < MaxAttempts
          /\ UNCHANGED <<stage, out, result>>
       \/ Publish(result, "cloud_failed")
       \/ \E r \in QwenExtract(Only(View(page, 1, Rows, FALSE), 1..Rows \ Masked(result.lines))) :
             /\ r # Failed
             /\ IF Chars(r.text) > Chars(result.text)
                THEN Publish([text |-> MergeOcrTexts(result.text, r.text),
                              lines |-> result.lines,
                              conf |-> IF r.conf = None THEN result.conf ELSE r.conf,
                              by |-> result.by \o <<"redacted">> \o r.by],
                             IF cfg.mode = "redacted_only" THEN "redacted_cloud" ELSE "vpc")
                ELSE Publish(result, "redacted_cloud_unused")
    /\ UNCHANGED <<cfg, page, tiles>>

Next == Open \/ FullPass \/ Tile \/ Decide \/ Cloud

Spec == Init /\ [][Next]_vars

-----------------------------------------------------------------------------
(* Properties *)

\* A box of an image that begins at the top of the page is where its line is on the page.
LineT == {l \in [row : 0..Rows, top : 1..Rows, kind : Kinds \cup {"blank"}, at : 0..Rows] :
            l.top = 1 => l.at \in {0, l.row}}

TypeOK ==
    /\ stage \in {"open", "full", "tiles", "read", "cloud", "done", "raised"}
    /\ result.conf \in Confs \cup {None, 35} \/ result.conf \in 0..100
    /\ \A i \in DOMAIN result.lines : result.lines[i] \in LineT
    /\ \A i \in DOMAIN out.text : out.text[i] \in LineT
    /\ tiles.n \in 0..(Strips - 1)
    /\ attempt \in 0..MaxAttempts

\* Where egress is allowed and a local engine is configured, an image leaves the process only
\* redacted, never for a page whose local text showed a seal or an identity label, and never with
\* a line to be masked that the local reading left without a box. The row on which such a line
\* really is does not show, if the line was read from the whole page or from its first strip; the
\* box of a line from a lower strip is taken for a place on the page that it is not (BoxesOnPage), so
\* such a line may leave readable (get_local_ocr_adapter, redact_png_bytes, _maybe_escalate_cloud).
OnlyScrubbedLeaves ==
    EgressAllowed(cfg) /\ GetLocalOcrAdapter(cfg) # Off =>
        \A s \in sent :
            /\ s.redacted
            /\ ~Blocked(s.local.text)
            /\ \A i \in DOMAIN s.local.lines :
                  LET l == s.local.lines[i] IN
                  LineNeedsMask(l) => l.at # 0 /\ (l.top = 1 => l.row \notin s.rows)

\* A finished page that claims text has some, and one without text says why: the engines
\* raise on an empty reading, so has_text may be set without looking at the text.
TextOrReason ==
    stage = "done" =>
        /\ out.hasText <=> Written(out.text)
        /\ ~out.hasText => out.status \in {"DISABLED", "FAILED"}

\* No later pass loses what an earlier one read: tiling, fallback and cloud replace the
\* text only by a longer one.
NeverShorter == [][result # Failed => Chars(result'.text) >= Chars(result.text)]_vars

\* "OCR boxes are in rendered image pixels": the box of every block of a page is where
\* its line is on the page.
BoxesOnPage ==
    stage = "done" => \A i \in DOMAIN out.blocks : out.blocks[i].at \in {0, out.blocks[i].row}

\* Reading a page again, elsewhere or by other means neither discloses what has to stay, as far
\* as the boxes of the local reading are those of the page, nor loses what was read.
ReadSafely == [](OnlyScrubbedLeaves /\ TextOrReason) /\ NeverShorter

-----------------------------------------------------------------------------
(* The inductive invariant *)

\* What is assumed of the inputs: a page has its rows.
OcrFit ==
    /\ Rows \in Nat \ {0} /\ Strips \in Nat \ {0} /\ Overlap \in Nat
    /\ \A p \in Pages : p.rows \in [1..Rows -> Kinds \cup {"blank"}] /\ p.native \in Nat

\* Where the page is decides what there is of its result.
PageProgress ==
    /\ stage \in {"open", "full", "tiles", "read", "cloud", "done", "raised"}
    /\ stage \in {"open", "full"} => result = Failed
    /\ stage \in {"full", "tiles"} => PageAdapter(cfg) \notin {Broken, Off}
    /\ stage \in {"tiles", "read", "cloud"} => Written(result.text)
    /\ stage \notin {"done", "raised"} => out = Native(page)
    /\ stage = "cloud" => ~Blocked(result.text) /\ Clean(result.lines)

OcrInv ==
    /\ page \in Pages
    /\ result.text \in Seq(LineT) /\ tiles.text \in Seq(LineT) /\ tiles.n \in Nat
    /\ result.lines \in Seq(LineT) /\ tiles.lines \in Seq(LineT)
    /\ PageProgress /\ OnlyScrubbedLeaves /\ TextOrReason

=============================================================================

------------------------------ MODULE Documents ------------------------------
(* Uploads and what is read from them without OCR: src/app/uploads.py,       *)
(* src/app/file_safety.py and the text and Office readers of                 *)
(* src/app/extraction.py.  A text is "" when nothing but white space is left *)
(* of it.  A document is given by the nodes its reader looks at, part by     *)
(* part: the children of the body, the sheets or the slides by number, one   *)
(* part for a text.  A part has rows of cells; a paragraph is one cell, the  *)
(* lines of a text one row, the paragraphs of a slide a row and the texts    *)
(* outside of them another.                                                  *)
EXTENDS Naturals, Sequences, FiniteSets

CONSTANTS
    Inputs,     \* the documents and files of the run
    Letters,    \* letters of a column label, 26 in the code
    Tokens,     \* PDF_ACTIVE_TOKENS, as sequences of bytes
    ChunkSize,  \* bytes per read, 65536 in the code
    Leftover,   \* bytes kept between reads, 32 in the code
    MaxBytes    \* MAX_UPLOAD_BYTES

VARIABLES
    input,
    outcome,    \* "pending", "read" or "error" of a document; of an upload, "scanning" or its status
    output,     \* the pages read
    reader,     \* of a document: the next node, 0 between two parts, and the loops' variables
    scan        \* of a PDF: how many bytes were read, and what is kept of them

vars == <<input, outcome, output, reader, scan>>

-----------------------------------------------------------------------------
(* Nodes and pages *)

\* A child of a body that is neither a paragraph nor a table is passed over.
RowsOf(doc, p) ==
    IF doc.suffix = "docx" /\ doc.parts[p].kind \notin {"p", "tbl"} THEN <<>> ELSE doc.parts[p].rows

\* A cell of a sheet that refers to a shared string holds its index, counted from 0.
CellText(doc, cell) ==
    IF cell.shared /\ cell.index < Len(doc.shared) THEN doc.shared[cell.index + 1] ELSE cell.text

\* A node is <<part, row, cell>>.
TextOf(doc, node) == CellText(doc, RowsOf(doc, node[1])[node[2]].cells[node[3]])

\* The node a text was taken from is not kept by the program: the properties compare by it.
Block(text, locator, node) == [text |-> text, locator |-> locator, node |-> node]

\* _text_page: the text of a page is given by the texts joined in it.
TextPage(texts, n, locator, node) ==
    [page |-> n, text |-> texts, has_text |-> texts # <<>>, ocr_required |-> texts = <<>>,
     blocks |-> <<>>, locator |-> locator, node |-> node]

\* _column_label, as a sequence of letters 1..Letters, least significant last: divmod gives
\* the rest of the column number and the letter.
Rest(n)   == (n - 1) \div Letters
Letter(n) == ((n - 1) % Letters) + 1

ColumnLabel[n \in Nat] == IF n = 0 THEN <<>> ELSE Append(ColumnLabel[Rest(n)], Letter(n))

\* r is the coordinate a row or a cell carries; 0 or <<>> when it carries none.
CoordinateMutant(doc, node) ==
    LET row == RowsOf(doc, node[1])[node[2]] IN
    IF row.cells[node[3]].r # <<>> THEN row.cells[node[3]].r ELSE <<ColumnLabel[node[3]], row.r>>
Coordinate(doc, node) ==
    LET row == RowsOf(doc, node[1])[node[2]] IN
    IF row.cells[node[3]].r # <<>> THEN row.cells[node[3]].r
    ELSE <<ColumnLabel[node[3]], IF row.r = 0 THEN node[2] ELSE row.r>>

\* A sheet is named by the entry of the workbook at its place, if there is one.
SheetName(doc, index) ==
    IF index <= Len(doc.names) /\ doc.names[index] # "" THEN <<doc.names[index]>> ELSE <<>>

\* The k-th text of page number index, for the readers that give a page its blocks.
BlockLocator(doc, node, index, k) ==
    CASE doc.suffix = "txt"  -> <<"line", node[3]>>
      [] doc.suffix = "xlsx" -> <<"cell", index, SheetName(doc, index), Coordinate(doc, node)>>
      [] OTHER               -> <<"slide_block", index, k>>

PageLocator(doc, index) ==
    CASE doc.suffix = "txt"  -> LET lines == Len(RowsOf(doc, 1)[1].cells) IN
                                <<"lines", 1, IF lines > 1 THEN lines ELSE 1>>
      [] doc.suffix = "docx" -> <<"paragraph", index>>
      [] doc.suffix = "xlsx" -> <<"sheet", index, SheetName(doc, index)>>
      [] OTHER               -> <<"slide", index>>

Nowhere == <<0, 0, 0>>

\* The page of a text, a sheet or a slide.
PartPage(doc, blocks, n) ==
    LET texts == [k \in DOMAIN blocks |-> blocks[k].text] IN
    [page |-> n, text |-> texts, has_text |-> texts # <<>>,
     ocr_required |-> texts = <<>> /\ doc.suffix # "txt",
     blocks |-> blocks, locator |-> PageLocator(doc, n), node |-> Nowhere]

-----------------------------------------------------------------------------
(* Intake *)

\* The token stands in the bytes after the first i.
StandsAt(bytes, token, i) ==
    i + Len(token) <= Len(bytes) /\ \A k \in 1..Len(token) : bytes[i + k] = token[k]
HoldsToken(bytes, token) == \E i \in 0..Len(bytes) : StandsAt(bytes, token, i)

\* The bytes of the next read.
Chunk(bytes, at) ==
    SubSeq(bytes, at + 1, IF at + ChunkSize < Len(bytes) THEN at + ChunkSize ELSE Len(bytes))

\* window[-32:]
KeptMutant(window) ==
    IF Len(window) < Leftover THEN window
    ELSE SubSeq(window, Len(window) + 2 - Leftover, Len(window))
Kept(window) ==
    IF Len(window) <= Leftover THEN window
    ELSE SubSeq(window, Len(window) + 1 - Leftover, Len(window))

\* _scan_ooxml: the entries of the archive by what is wrong with them; a relationship part
\* of more than 2 MiB is not read.
OoxmlIssues(file) ==
    {e.issue : e \in {x \in file.entries : x.issue # "none" /\ ~(x.issue = "external" /\ x.large)}}

\* save_upload, then validate_upload_content up to the scan of a PDF: the status of the upload.
Intake(file) ==
    IF file.suffix \notin {"pdf", "office", "text"} THEN "422"
    ELSE IF Len(file.bytes) > MaxBytes THEN "413"
    ELSE IF ~file.signature THEN "422"
    ELSE IF file.suffix = "pdf" THEN "scanning"
    ELSE IF file.suffix = "office" /\ OoxmlIssues(file) # {} THEN "422"
    ELSE "kept"

-----------------------------------------------------------------------------

Init ==
    /\ input \in Inputs /\ outcome = "pending" /\ output = <<>>
    /\ reader = [part |-> 0, row |-> 0, cell |-> 0, paragraphs |-> 0, tables |-> 0, blocks |-> <<>>]
    /\ scan = [at |-> 0, leftover |-> <<>>]

Reading == input.what = "document" /\ outcome = "pending"

Ahead == {p \in DOMAIN input.doc.parts : p > reader.part}

InPart == Reading /\ reader.row # 0 /\ reader.row <= Len(RowsOf(input.doc, reader.part))
InRow  == InPart /\ reader.cell <= Len(RowsOf(input.doc, reader.part)[reader.row].cells)

Node  == <<reader.part, reader.row, reader.cell>>
Kind  == input.doc.parts[reader.part].kind
Fresh == Len(output) + 1

\* extract_file by suffix: ExtractionError for the others.
Refuse ==
    /\ Reading /\ input.doc.suffix \notin {"txt", "docx", "xlsx", "pptx"}
    /\ outcome' = "error"
    /\ UNCHANGED <<input, output, reader, scan>>

\* The next part, in the order of the body or of the numbers in the members' names. One
\* that cannot be parsed ends the extraction; what was read before it is dropped.
OpenPart ==
    /\ Reading /\ input.doc.suffix \in {"txt", "docx", "xlsx", "pptx"}
    /\ reader.row = 0 /\ Ahead # {}
    /\ LET p    == CHOOSE p \in Ahead : \A q \in Ahead : p <= q
           kind == input.doc.parts[p].kind
       IN  IF kind = "broken" THEN outcome' = "error" /\ output' = <<>> /\ UNCHANGED reader
           ELSE /\ reader' = [reader EXCEPT !.part = p, !.row = 1, !.cell = 1, !.blocks = <<>>,
                                            !.tables = IF kind = "tbl" THEN @ + 1 ELSE @]
                /\ UNCHANGED <<outcome, output>>
    /\ UNCHANGED <<input, scan>>

PassBlank ==
    /\ InRow /\ TextOf(input.doc, Node) = ""
    /\ reader' = [reader EXCEPT !.cell = @ + 1]
    /\ UNCHANGED <<input, outcome, output, scan>>

\* _docx_sources: a page for every paragraph and every cell of a table.
ReadParagraph ==
    /\ InRow /\ TextOf(input.doc, Node) # "" /\ input.doc.suffix = "docx" /\ Kind = "p"
    /\ output' = Append(output, TextPage(<<TextOf(input.doc, Node)>>, Fresh,
                                         <<"paragraph", reader.paragraphs + 1>>, Node))
    /\ reader' = [reader EXCEPT !.cell = @ + 1, !.paragraphs = @ + 1]
    /\ UNCHANGED <<input, outcome, scan>>

ReadTableCell ==
    /\ InRow /\ TextOf(input.doc, Node) # "" /\ input.doc.suffix = "docx" /\ Kind = "tbl"
    /\ output' = Append(output, TextPage(<<TextOf(input.doc, Node)>>, Fresh,
                                <<"table_cell", reader.tables, reader.row, reader.cell>>, Node))
    /\ reader' = [reader EXCEPT !.cell = @ + 1]
    /\ UNCHANGED <<input, outcome, scan>>

\* The other readers: a block for every line, cell or text of the page.
ReadBlock ==
    /\ InRow /\ TextOf(input.doc, Node) # "" /\ input.doc.suffix # "docx"
    /\ reader' = [reader EXCEPT !.cell = @ + 1,
                     !.blocks = Append(@, Block(TextOf(input.doc, Node),
                                   BlockLocator(input.doc, Node, Fresh, Len(@) + 1), Node))]
    /\ UNCHANGED <<input, outcome, output, scan>>

\* _pptx_slide_data looks at the texts outside of paragraphs only when these gave none.
NextRow ==
    /\ InPart /\ ~InRow
    /\ reader' = [reader EXCEPT !.cell = 1,
                     !.row = IF input.doc.suffix = "pptx" /\ reader.blocks # <<>>
                             THEN Len(RowsOf(input.doc, reader.part)) + 1 ELSE @ + 1]
    /\ UNCHANGED <<input, outcome, output, scan>>

ClosePart ==
    /\ Reading /\ reader.row # 0 /\ reader.row > Len(RowsOf(input.doc, reader.part))
    /\ output' = IF input.doc.suffix = "docx" THEN output
                 ELSE Append(output, PartPage(input.doc, reader.blocks, Fresh))
    /\ reader' = [reader EXCEPT !.row = 0, !.blocks = <<>>]
    /\ UNCHANGED <<input, outcome, scan>>

\* A document without a page gets an empty one.
Finish ==
    /\ Reading /\ input.doc.suffix \in {"txt", "docx", "xlsx", "pptx"}
    /\ reader.row = 0 /\ Ahead = {}
    /\ output' = IF output = <<>> THEN <<TextPage(<<>>, 1, PageLocator(input.doc, 1), Nowhere)>>
                 ELSE output
    /\ outcome' = "read"
    /\ UNCHANGED <<input, reader, scan>>

Accept ==
    /\ input.what = "upload" /\ outcome = "pending"
    /\ outcome' = Intake(input.file)
    /\ UNCHANGED <<input, output, reader, scan>>

\* One turn of the loop of _pdf_contains_active_content; the read at the end of the file
\* returns nothing and ends it.
ScanChunk ==
    /\ outcome = "scanning"
    /\ LET chunk  == Chunk(input.file.bytes, scan.at)
           window == scan.leftover \o chunk
       IN  \/ chunk = <<>> /\ outcome' = "kept" /\ UNCHANGED scan
           \/ /\ chunk # <<>> /\ \E t \in Tokens : HoldsToken(window, t)
              /\ outcome' = "422" /\ UNCHANGED scan
           \/ /\ chunk # <<>> /\ \A t \in Tokens : ~HoldsToken(window, t)
              /\ scan' = [at |-> scan.at + Len(chunk), leftover |-> Kept(window)]
              /\ UNCHANGED outcome
    /\ UNCHANGED <<input, output, reader>>

Next ==
    \/ Refuse \/ OpenPart \/ PassBlank \/ ReadParagraph \/ ReadTableCell \/ ReadBlock
    \/ NextRow \/ ClosePart \/ Finish
    \/ Accept \/ ScanChunk

Spec == Init /\ [][Next]_vars

-----------------------------------------------------------------------------

\* What a finding can point at on a page: its blocks if it has some, or the page.
Sources(page) ==
    IF page.blocks # <<>> THEN page.blocks
    ELSE IF page.has_text THEN <<Block(page.text[1], page.locator, page.node)>> ELSE <<>>

\* The places of pages, <<page, block>>, in their order, and what stands there.
Places(pages)    == UNION {{i} \X DOMAIN Sources(pages[i]) : i \in DOMAIN pages}
At(pages, place) == Sources(pages[place[1]])[place[2]]
Precedes(x, y)   == x[1] < y[1] \/ (x[1] = y[1] /\ x[2] < y[2])

\* The nodes of a document in their order.
Nodes(doc) ==
    UNION {UNION {{<<p, i, j>> : j \in DOMAIN RowsOf(doc, p)[i].cells} : i \in DOMAIN RowsOf(doc, p)} :
           p \in DOMAIN doc.parts}
NodePrecedes(m, n) ==
    m[1] < n[1] \/ (m[1] = n[1] /\ (m[2] < n[2] \/ (m[2] = n[2] /\ m[3] < n[3])))

\* The nodes a document's text is in: all with text, of a slide those of the first row with any.
Filled(doc) ==
    {n \in Nodes(doc) : TextOf(doc, n) # "" /\
        (doc.suffix = "pptx" => \A m \in Nodes(doc) : m[1] = n[1] /\ m[2] < n[2] => TextOf(doc, m) = "")}

Extracted == outcome = "read"

TypeOK == outcome \in {"pending", "read", "error", "scanning", "kept", "413", "422"}

\* The rows and cells of a sheet carry coordinates, each cell its own, or none of them does.
Located(doc) ==
    \A p \in DOMAIN doc.parts :
        LET rows == doc.parts[p].rows
            all  == UNION {{i} \X DOMAIN rows[i].cells : i \in DOMAIN rows}
            r(x) == rows[x[1]].cells[x[2]].r
        IN  \/ \A x \in all : r(x) # <<>> /\ \A y \in all : x # y => r(x) # r(y)
            \/ \A x \in all : r(x) = <<>> /\ rows[x[1]].r = 0

\* No two texts of a document have the same locator, so a finding points at one place, and
\* pages are numbered without gaps. (In a workbook, when its nodes carry all coordinates or
\* none.)
LocatorsDistinct ==
    Extracted /\ (input.doc.suffix = "xlsx" => Located(input.doc)) =>
        /\ \A x, y \in Places(output) : x # y => At(output, x).locator # At(output, y).locator
        /\ \A i, k \in DOMAIN output : i # k => output[i].locator # output[k].locator
        /\ \A i \in DOMAIN output : output[i].page = i

\* The texts on the pages are those of the nodes that have some, each once and in their order.
FoundIn(doc, pages, nodes) ==
    /\ {At(pages, x).node : x \in Places(pages)} = Filled(doc) \cap nodes
    /\ \A x \in Places(pages) : At(pages, x).text = TextOf(doc, At(pages, x).node)
    /\ \A x, y \in Places(pages) :
          Precedes(x, y) => NodePrecedes(At(pages, x).node, At(pages, y).node)

\* Nothing a reader looks at is lost, repeated or moved: the texts found are those of the
\* document, in its order; a document asks for OCR page by page only where it has no text.
TextKept ==
    Extracted =>
        /\ FoundIn(input.doc, output, Nodes(input.doc))
        /\ \A i \in DOMAIN output : output[i].ocr_required => Sources(output[i]) = <<>>

\* An accepted PDF holds none of the tokens anywhere, also where two reads meet.
AcceptedIsInert ==
    outcome = "kept" /\ input.file.suffix = "pdf" =>
        \A t \in Tokens : ~HoldsToken(input.file.bytes, t)

\* A label read as a number with the digits 1..Letters.
Number[label \in Seq(Nat)] ==
    IF label = <<>> THEN 0
    ELSE Number[SubSeq(label, 1, Len(label) - 1)] * Letters + label[Len(label)]

\* Column labels are what a spreadsheet uses: read as a number, a label gives the column back.
LabelIsColumn ==
    Extracted /\ input.doc.suffix = "xlsx" =>
        \A n \in Nodes(input.doc) : Number[ColumnLabel[n[3]]] = n[3]

\* Each text of a document is found once, at its place, under a name of its own.
SourcesKept == LocatorsDistinct /\ TextKept /\ LabelIsColumn

-----------------------------------------------------------------------------
(* The inductive invariant of the scan *)

\* What is assumed of the constants: a token fits into the bytes kept and one more, so its
\* last byte is new to some window.
IntakeFit ==
    /\ ChunkSize \in Nat \ {0} /\ Leftover \in Nat
    /\ \A t \in Tokens : t \in Seq(Nat) /\ Len(t) \in 1..(Leftover + 1)
    /\ \A i \in Inputs : i.what = "upload" => i.file.bytes \in Seq(Nat)

\* No token ends within the first n bytes.
InertUpTo(bytes, n) ==
    \A t \in Tokens, i \in 0..Len(bytes) : StandsAt(bytes, t, i) => i + Len(t) > n

\* While a PDF is scanned, what is kept is the end of what was read, and a whole token of it
\* would have been found.
ScanInv ==
    /\ input \in Inputs
    /\ outcome \in {"scanning", "kept"} => input.what = "upload"
    /\ outcome = "scanning" =>
          LET bytes == input.file.bytes IN
          /\ scan.at \in 0..Len(bytes)
          /\ scan.leftover = SubSeq(bytes, scan.at + 1 - Len(scan.leftover), scan.at)
          /\ Len(scan.leftover) = IF scan.at <= Leftover THEN scan.at ELSE Leftover
          /\ InertUpTo(bytes, scan.at)
    /\ outcome = "pending" => scan = [at |-> 0, leftover |-> <<>>]
    /\ outcome = "kept" /\ input.file.suffix = "pdf" => InertUpTo(input.file.bytes, Len(input.file.bytes))

-----------------------------------------------------------------------------
(* The inductive invariant of the readers *)

\* A sequence, of whatever its elements are.
Listed(s) == s \in Seq({s[i] : i \in DOMAIN s})

\* What is assumed of the documents: parts have numbers, rows and cells an order, and a text
\* is one row of one part.
DocumentsFit ==
    /\ Letters \in Nat \ {0}
    /\ \A i \in Inputs : i.what = "document" =>
          /\ DOMAIN i.doc.parts \subseteq Nat \ {0}
          /\ \A p \in DOMAIN i.doc.parts :
                /\ Listed(i.doc.parts[p].rows)
                /\ \A k \in DOMAIN i.doc.parts[p].rows : Listed(i.doc.parts[p].rows[k].cells)
          /\ i.doc.suffix = "txt" => DOMAIN i.doc.parts = {1} /\ Len(i.doc.parts[1].rows) = 1

\* r is the reader's record. The pages with the one that is being read:
SoFar(doc, done, r) ==
    IF doc.suffix = "docx" \/ r.row = 0 THEN done ELSE Append(done, PartPage(doc, r.blocks, Len(done) + 1))

\* The nodes the reader is past.
Seen(doc, r) ==
    {n \in Nodes(doc) :
        \/ n[1] < r.part
        \/ /\ n[1] = r.part
           /\ r.row = 0 \/ n[2] < r.row \/ (n[2] = r.row /\ n[3] < r.cell)}

ReaderOK(doc, done, r) ==
    /\ r \in [part : Nat, row : Nat, cell : Nat, paragraphs : Nat, tables : Nat, blocks : {r.blocks}]
    /\ Listed(r.blocks) /\ Listed(done)
    /\ r.row = 0 \/ doc.suffix = "docx" => r.blocks = <<>>
    /\ r.row # 0 => r.part \in DOMAIN doc.parts /\ r.cell # 0
    /\ doc.suffix = "txt" => r.part \in {0, 1} /\ Len(SoFar(doc, done, r)) = r.part

\* Pages are numbered; those of a text, a book or a deck have the locators of their places,
\* and those of a Word document are one text each. A document without any gets an empty one.
PagesOK(doc, pages, finished) ==
    \A i \in DOMAIN pages :
        /\ pages[i].page = i
        /\ Listed(Sources(pages[i]))
        /\ pages[i].ocr_required => Sources(pages[i]) = <<>>
        /\ IF doc.suffix # "docx" THEN pages[i].locator = PageLocator(doc, i)
           ELSE pages[i].blocks = <<>> /\ (pages[i].has_text \/ (finished /\ Len(pages) = 1))

\* In a part that has given no text yet, the nodes seen have none; a second row of a slide is
\* looked at only then.
NothingYet(doc, r) ==
    r.row # 0 /\ doc.suffix # "docx" =>
        /\ r.blocks = <<>> => \A n \in Seen(doc, r) : n[1] = r.part => TextOf(doc, n) = ""
        /\ doc.suffix = "pptx" /\ r.row <= Len(RowsOf(doc, r.part)) =>
              \A n \in Nodes(doc) : n[1] = r.part /\ n[2] < r.row => TextOf(doc, n) = ""

\* The locators of a text, a book or a deck tell the place, and a page is one part of it.
NamedByPlace(doc, pages, r) ==
    doc.suffix # "docx" =>
        /\ \A x \in Places(pages) :
              At(pages, x).locator = BlockLocator(doc, At(pages, x).node, x[1], x[2])
        /\ \A x, y \in Places(pages) : x[1] = y[1] => At(pages, x).node[1] = At(pages, y).node[1]
        /\ \A k \in DOMAIN r.blocks : r.blocks[k].node[1] = r.part

\* Those of a Word document count the paragraphs with text and the tables.
KindAt(doc, pages, x) == doc.parts[At(pages, x).node[1]].kind
CountAt(pages, x)     == At(pages, x).locator[2]

NamedByCount(doc, pages, r) ==
    doc.suffix = "docx" =>
        /\ \A x \in Places(pages) :
              \/ /\ KindAt(doc, pages, x) = "p" /\ CountAt(pages, x) \in 0..r.paragraphs
                 /\ At(pages, x).locator = <<"paragraph", CountAt(pages, x)>>
              \/ /\ KindAt(doc, pages, x) = "tbl" /\ CountAt(pages, x) \in 0..r.tables
                 /\ At(pages, x).locator = <<"table_cell", CountAt(pages, x),
                                             At(pages, x).node[2], At(pages, x).node[3]>>
                 /\ r.row # 0 /\ doc.parts[r.part].kind = "tbl" /\ CountAt(pages, x) = r.tables
                       => At(pages, x).node[1] = r.part
        /\ \A x, y \in Places(pages) :
              KindAt(doc, pages, x) = "p" /\ KindAt(doc, pages, y) = "p" /\ Precedes(x, y)
                 => CountAt(pages, x) < CountAt(pages, y)
        /\ \A x, y \in Places(pages) :
              KindAt(doc, pages, x) = "tbl" /\ KindAt(doc, pages, y) = "tbl"
                 /\ CountAt(pages, x) = CountAt(pages, y) => At(pages, x).node[1] = At(pages, y).node[1]

ReadInv ==
    /\ input \in Inputs
    /\ outcome = "read" => input.what = "document"
    /\ input.what = "document" /\ outcome \in {"pending", "read"} =>
          LET pages == SoFar(input.doc, output, reader) IN
          /\ ReaderOK(input.doc, output, reader)
          /\ PagesOK(input.doc, pages, outcome = "read")
          /\ FoundIn(input.doc, pages, Seen(input.doc, reader))
          /\ NothingYet(input.doc, reader)
          /\ NamedByPlace(input.doc, pages, reader)
          /\ NamedByCount(input.doc, pages, reader)
          /\ outcome = "read" => reader.row = 0 /\ Seen(input.doc, reader) = Nodes(input.doc)

=============================================================================

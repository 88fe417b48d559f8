------------------------------- MODULE Rules -------------------------------
(* Requirements found in a tender and evidence matched to them:              *)
(* src/app/rules.py, as scan_service calls it.  A text is a sequence of      *)
(* characters without case, 0 being white space; a page has a text and the   *)
(* texts of its blocks.                                                      *)
EXTENDS Naturals, Sequences, FiniteSets

CONSTANTS
    Patterns,        \* REQUIREMENT_PATTERNS: a sequence of [label, category, words], words the
                     \* texts a pattern matches, in the order of its alternatives
    CategoryTerms,   \* category_terms: a set of texts for every category
    Radius,          \* of _snippet, 110 in the code
    TitleLength,     \* characters of a title, 160 in the code
    TermMin, TermMax,\* the lengths of a term of a title, 2 and 8 in the code
    Tenders, Evidence \* sequences of pages: [text, blocks, failed]

EVIDENCE_CATEGORIES == {"QUALIFICATION", "SIGNATURE", "BOND", "CREDENTIAL"}

VARIABLES
    tender, evidence,
    at,             \* the loop the rules are in, "done" after the last
    cursor,         \* where finditer goes on: page, pattern and character
    turn,           \* the next turn of one of the other loops
    found,          \* the requirements before _deduplicate
    requirements,
    all_text          \* the evidence's texts, without white space

vars == <<tender, evidence, at, cursor, turn, found, requirements, all_text>>

-----------------------------------------------------------------------------
(* Texts *)

First(S) == CHOOSE i \in S : \A k \in S : i <= k
Last(S)  == CHOOSE i \in S : \A k \in S : k <= i

FoundAt(word, text) ==
    {i \in 1..(Len(text) + 1) :
        i + Len(word) <= Len(text) + 1 /\ \A k \in 1..Len(word) : text[i + k - 1] = word[k]}
Has(text, word) == FoundAt(word, text) # {}

Blank(text) == \A i \in DOMAIN text : text[i] = 0

\* gap.join(text.split())
Respaced(gap, text) ==
    LET J[t \in Seq(Nat)] ==
            IF t = <<>> THEN <<>>
            ELSE LET before == J[SubSeq(t, 1, Len(t) - 1)]
                     last   == t[Len(t)]
                 IN  IF last = 0 THEN before
                     ELSE IF before # <<>> /\ t[Len(t) - 1] = 0 THEN Append(before \o gap, last)
                     ELSE Append(before, last)
    IN  J[text]

\* re.sub(r"\s+", "", text)
Compact(text) == Respaced(<<>>, text)

\* l characters from i on, with Radius before and after them.
Window(text, i, l) ==
    SubSeq(text, IF i > Radius THEN i - Radius ELSE 1,
                 IF i + l - 1 + Radius < Len(text) THEN i + l - 1 + Radius ELSE Len(text))

\* _snippet
Snippet(text, i, l) == Respaced(<<0>>, Window(text, i, l))

-----------------------------------------------------------------------------
(* What is listed and matched *)

\* The first block that has something, 0 for the page itself.
FirstBlock(hits) == IF hits = {} THEN 0 ELSE First(hits)

\* The words of the match are not kept by the program: the properties compare by them.
Requirement(p, page, pattern, word, i) ==
    LET quote == Snippet(page.text, i, Len(word)) IN
    [category |-> pattern.category, label |-> pattern.label, page |-> p, quote |-> quote,
     title |-> SubSeq(quote, 1, IF Len(quote) < TitleLength THEN Len(quote) ELSE TitleLength),
     word |-> word, block |-> FirstBlock({b \in DOMAIN page.blocks : Has(page.blocks[b], word)}),
     status |-> "NEEDS_REVIEW", suggested |-> "none", cites |-> <<0, 0>>]

Key(r) == <<r.category, r.label, r.quote, r.page>>

\* The title's words, cut after TermMax characters.
TitleTerms(title) ==
    LET solid(i, k) == \A m \in i..k : title[m] # 0
        begin(k)    == First({i \in 1..k : solid(i, k)})
        starts      == {i \in DOMAIN title : title[i] # 0 /\ (i - begin(i)) % TermMax = 0}
        end(i)      == Last({k \in i..Len(title) : k < i + TermMax /\ solid(i, k)})
    IN  {SubSeq(title, i, end(i)) : i \in {s \in starts : end(s) + 1 - s >= TermMin}}

TermsFor(r) == TitleTerms(r.title) \cup CategoryTerms[r.category]

Mentions(text, terms) == \E t \in terms : Has(Compact(text), t)

\* One requirement. The joined texts decide whether there is anything to look for; a term
\* that only arises where two pages meet has no page to cite.
MatchedMutant(r, all, pages) ==
    LET terms  == TermsFor(r)
        hits   == {i \in DOMAIN pages : Mentions(pages[i].text, terms)}
        hit    == First(hits)
        blocks == {b \in DOMAIN pages[hit].blocks : Mentions(pages[hit].blocks[b], terms)}
    IN  IF r.category \notin EVIDENCE_CATEGORIES THEN r
        ELSE IF (\A t \in terms : ~Has(all, t)) \/ hits = {} THEN [r EXCEPT !.status = "UNKNOWN"]
        ELSE [r EXCEPT !.status = "NEEDS_REVIEW", !.suggested = "PASS",
                       !.cites = <<hit, FirstBlock(blocks)>>]
Matched(r, all, pages) ==
    LET terms  == TermsFor(r)
        hits   == {i \in DOMAIN pages : ~pages[i].failed /\ Mentions(pages[i].text, terms)}
        hit    == First(hits)
        blocks == {b \in DOMAIN pages[hit].blocks : Mentions(pages[hit].blocks[b], terms)}
    IN  IF r.category \notin EVIDENCE_CATEGORIES THEN r
        ELSE IF (\A t \in terms : ~Has(all, t)) \/ hits = {} THEN [r EXCEPT !.status = "UNKNOWN"]
        ELSE [r EXCEPT !.status = "NEEDS_REVIEW", !.suggested = "PASS",
                       !.cites = <<hit, FirstBlock(blocks)>>]

-----------------------------------------------------------------------------

Init ==
    /\ tender \in Tenders /\ evidence \in Evidence
    /\ at = "extract" /\ cursor = [page |-> 1, pattern |-> 1, from |-> 1] /\ turn = 1
    /\ found = <<>> /\ requirements = <<>> /\ all_text = <<>>

InPage ==
    /\ at = "extract" /\ cursor.page <= Len(tender) /\ ~Blank(tender[cursor.page].text)
    /\ cursor.pattern <= Len(Patterns)

Text  == tender[cursor.page].text
Words == Patterns[cursor.pattern].words
Hits  == {i \in UNION {FoundAt(Words[a], Text) : a \in DOMAIN Words} : i >= cursor.from}

\* finditer: the leftmost match, by the first alternative that matches there.
FindMatch ==
    /\ InPage /\ Hits # {}
    /\ LET i    == First(Hits)
           word == Words[First({a \in DOMAIN Words : i \in FoundAt(Words[a], Text)})]
       IN  /\ found' = Append(found, Requirement(cursor.page, tender[cursor.page],
                                                 Patterns[cursor.pattern], word, i))
           /\ cursor' = [cursor EXCEPT !.from = i + Len(word)]
    /\ UNCHANGED <<tender, evidence, at, turn, requirements, all_text>>

NextPattern ==
    /\ InPage /\ Hits = {}
    /\ cursor' = [cursor EXCEPT !.pattern = @ + 1, !.from = 1]
    /\ UNCHANGED <<tender, evidence, at, turn, found, requirements, all_text>>

\* A page without text is passed over.
NextPage ==
    /\ at = "extract" /\ cursor.page <= Len(tender) /\ ~InPage
    /\ cursor' = [page |-> cursor.page + 1, pattern |-> 1, from |-> 1]
    /\ UNCHANGED <<tender, evidence, at, turn, found, requirements, all_text>>

\* _deduplicate
Deduplicate ==
    /\ at = "deduplicate" /\ turn <= Len(found)
    /\ requirements' = IF \E k \in DOMAIN requirements : Key(requirements[k]) = Key(found[turn])
                       THEN requirements ELSE Append(requirements, found[turn])
    /\ turn' = turn + 1
    /\ UNCHANGED <<tender, evidence, at, cursor, found, all_text>>

\* The newline between two pages goes with the other white space.
Join ==
    /\ at = "join" /\ turn <= Len(evidence)
    /\ all_text' = IF evidence[turn].failed THEN all_text ELSE all_text \o Compact(evidence[turn].text)
    /\ turn' = turn + 1
    /\ UNCHANGED <<tender, evidence, at, cursor, found, requirements>>

MatchEvidence ==
    /\ at = "match" /\ turn <= Len(requirements)
    /\ requirements' = [requirements EXCEPT ![turn] = Matched(@, all_text, evidence)]
    /\ turn' = turn + 1
    /\ UNCHANGED <<tender, evidence, at, cursor, found, all_text>>

\* scan_service calls match_evidence only where evidence was uploaded.
NextLoop ==
    /\ \/ at = "extract" /\ cursor.page > Len(tender) /\ at' = "deduplicate"
       \/ /\ at = "deduplicate" /\ turn > Len(found)
          /\ at' = IF evidence = <<>> THEN "done" ELSE "join"
       \/ at = "join" /\ turn > Len(evidence) /\ at' = "match"
       \/ at = "match" /\ turn > Len(requirements) /\ at' = "done"
    /\ turn' = 1
    /\ UNCHANGED <<tender, evidence, cursor, found, requirements, all_text>>

Next == FindMatch \/ NextPattern \/ NextPage \/ Deduplicate \/ Join \/ MatchEvidence \/ NextLoop

Spec == Init /\ [][Next]_vars

-----------------------------------------------------------------------------

TypeOK ==
    /\ at \in {"extract", "deduplicate", "join", "match", "done"}
    /\ turn \in Nat \ {0}
    /\ cursor \in [page : Nat \ {0}, pattern : Nat \ {0}, from : Nat \ {0}]

\* A requirement quotes the words of a match from its page, and the block it points at has
\* them.
Quoted(r, pages) ==
    /\ r.page \in DOMAIN pages
    /\ Has(Compact(pages[r.page].text), Compact(r.quote))
    /\ Has(Compact(r.quote), Compact(r.word))
    /\ r.block # 0 => Has(pages[r.page].blocks[r.block], r.word)

\* A text that a pattern matches on page p is listed under the pattern's label, and quoted.
Lists(items, label, p, word) ==
    \E k \in DOMAIN items :
        /\ items[k].label = label /\ items[k].page = p
        /\ Has(Compact(items[k].quote), Compact(word))

\* Neither a match that is skipped, as it overlaps another one, nor removing duplicates loses
\* a finding a reviewer needs: wherever a page of the tender has a text of a pattern, a
\* requirement of that label is listed for that page and quotes it. No two are the same.
NoFindingLost ==
    at \notin {"extract", "deduplicate"} =>
        /\ \A p \in DOMAIN tender, n \in DOMAIN Patterns : \A a \in DOMAIN Patterns[n].words :
              Has(tender[p].text, Patterns[n].words[a])
                 => Lists(requirements, Patterns[n].label, p, Patterns[n].words[a])
        /\ \A k \in DOMAIN requirements : Quoted(requirements[k], tender)
        /\ \A k, m \in DOMAIN requirements : k # m => Key(requirements[k]) # Key(requirements[m])

Unmatched(r) == r.status = "NEEDS_REVIEW" /\ r.suggested = "none"

\* A requirement is called matched only on the strength of a page that could be read and
\* mentions a term by itself; it is left UNKNOWN only if no such page exists; and the
\* matcher never passes a requirement, it only suggests.
Cited(r, pages) ==
    IF r.category \notin EVIDENCE_CATEGORIES THEN Unmatched(r)
    ELSE \/ /\ r.status = "UNKNOWN" /\ r.suggested = "none"
            /\ \A i \in DOMAIN pages : pages[i].failed \/ ~Mentions(pages[i].text, TermsFor(r))
         \/ /\ r.status = "NEEDS_REVIEW" /\ r.suggested = "PASS"
            /\ r.cites[1] \in DOMAIN pages /\ ~pages[r.cites[1]].failed
            /\ Mentions(pages[r.cites[1]].text, TermsFor(r))
            /\ r.cites[2] # 0 => Mentions(pages[r.cites[1]].blocks[r.cites[2]], TermsFor(r))

CitationStands ==
    at = "done" /\ evidence # <<>> => \A k \in DOMAIN requirements : Cited(requirements[k], evidence)

\* What the rules list is in the tender, all of it, and what they match is in the evidence.
FindingsStand == NoFindingLost /\ CitationStands

-----------------------------------------------------------------------------
(* The inductive invariant *)

Listed(s) == s \in Seq({s[i] : i \in DOMAIN s})

\* What is assumed of the constants: no text of a pattern is blank, and one that begins inside
\* a match of the same pattern ends within Radius of the match's end.
WordsFit(words) ==
    /\ Listed(words)
    /\ \A a \in DOMAIN words : words[a] \in Seq(Nat) /\ ~Blank(words[a])
    /\ \A a, b \in DOMAIN words : \A k \in DOMAIN words[a] :
          (\A m \in DOMAIN words[b] : k + m - 1 \in DOMAIN words[a] => words[a][k + m - 1] = words[b][m])
             => k - 1 + Len(words[b]) <= Len(words[a]) + Radius

PagesFit(pages) ==
    /\ Listed(pages)
    /\ \A p \in DOMAIN pages : pages[p].text \in Seq(Nat) /\ Listed(pages[p].blocks)

RulesFit ==
    /\ Radius \in Nat /\ TitleLength \in Nat /\ TermMax \in Nat \ {0} /\ Listed(Patterns)
    /\ \A n \in DOMAIN Patterns :
          WordsFit(Patterns[n].words) /\ CategoryTerms[Patterns[n].category] \subseteq Seq(Nat)
    /\ \A pages \in Tenders \cup Evidence : PagesFit(pages)

\* finditer, at c, is past character i of page p with pattern n.
Past(c, p, n, i) ==
    p < c.page \/ (p = c.page /\ (n < c.pattern \/ (n = c.pattern /\ i < c.from)))

\* Every text finditer is past is listed among the items found.
PastIsListed(pages, items, c) ==
    \A p \in DOMAIN pages, n \in DOMAIN Patterns : \A a \in DOMAIN Patterns[n].words :
        \A i \in FoundAt(Patterns[n].words[a], pages[p].text) :
            Past(c, p, n, i) => Lists(items, Patterns[n].label, p, Patterns[n].words[a])

Shaped(r) ==
    /\ r \in [category : {r.category}, label : {r.label}, page : {r.page}, quote : {r.quote},
              title : {r.title}, word : {r.word}, block : {r.block},
              status : {r.status}, suggested : {r.suggested}, cites : {r.cites}]
    /\ TermsFor(r) \subseteq Seq(Nat)

AllQuoted(items, pages) ==
    Listed(items) /\ \A k \in DOMAIN items : Shaped(items[k]) /\ Quoted(items[k], pages)

\* After n turns of _deduplicate: each of the first n items has a requirement with its key.
KeysKept(items, rs, n) ==
    /\ \A k \in DOMAIN items : k <= n => \E m \in DOMAIN rs : Key(rs[m]) = Key(items[k])
    /\ \A k, m \in DOMAIN rs : k # m => Key(rs[k]) # Key(rs[m])

\* After n turns of the join: the texts of the pages that could be read are in the whole.
PagesJoined(all, pages, n) ==
    /\ all \in Seq(Nat)
    /\ \A i \in DOMAIN pages : i <= n => pages[i].failed \/ Has(all, Compact(pages[i].text))

\* After n turns of match_evidence.
CitedUpTo(rs, pages, n) ==
    \A k \in DOMAIN rs : IF k <= n THEN Cited(rs[k], pages) ELSE Unmatched(rs[k])

\* The turns of the three loops that are over.
Deduplicated ==
    IF at = "extract" THEN 0 ELSE IF at = "deduplicate" THEN turn - 1 ELSE Len(found)
PagesDone ==
    IF at = "join" THEN turn - 1 ELSE IF at = "match" THEN Len(evidence) ELSE 0
MatchesDone ==
    IF at = "match" THEN turn - 1
    ELSE IF at = "done" /\ evidence # <<>> THEN Len(requirements) ELSE 0

RulesInv ==
    /\ TypeOK
    /\ tender \in Tenders /\ evidence \in Evidence
    /\ at # "extract" => cursor.page > Len(tender)
    /\ at \in {"join", "match"} => evidence # <<>>
    /\ AllQuoted(found, tender) /\ \A k \in DOMAIN found : Unmatched(found[k])
    /\ AllQuoted(requirements, tender)
    /\ PastIsListed(tender, found, cursor)
    /\ KeysKept(found, requirements, Deduplicated)
    /\ PagesJoined(all_text, evidence, PagesDone)
    /\ CitedUpTo(requirements, evidence, MatchesDone)

=============================================================================

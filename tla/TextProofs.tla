---------------------------- MODULE TextProofs ----------------------------
(***************************************************************************)
(* From a text to the windows that are attested, and from a copied passage *)
(* to the windows that are looked up.  The text reaches the desktop in the *)
(* layout of a file, of the text layer of a PDF or of the lines that OCR   *)
(* reads; the passage is copied with a layout of its own.  Both must come  *)
(* down to the same tokens, on two machines that never meet.               *)
(*                                                                         *)
(* A text is a sequence of symbols: pieces of words and the separators     *)
(* below.  Case, ligatures and smart punctuation, which one table maps on  *)
(* both sides, are left out; "." stands for the punctuation.               *)
(***************************************************************************)
EXTENDS ApiRequests, Naturals, SequencesExt

CONSTANTS
  Documents,       \* documents: [words : sequence of sequences of pieces, starts : first words of paragraphs]
  Window, Stride,   \* PRESETS.standard
  MinTokens   \* PDF_TEXT_LAYER_MIN_TOKENS

ASSUME PresetAssumption == Window \in Nat \ {0} /\ Stride \in Nat \ {0} /\ MinTokens \in Nat

VARIABLES
  source,    \* the file that the desktop attests: a document and how it is laid out
  pages,     \* what OCR said of its pages so far
  proof,     \* the content proof of the file, and what it was extracted with
  copied,    \* the passage: words of a document, and how they were copied
  found      \* the question that was asked of the API, and whether it matched

textVars == <<source, pages, proof, copied, found>>

Blank == {" ", "nl", "cr"}
Methods == {"plain-text/v1", "pdf-text-layer/v1", "ocr-tesseract/v1"}
FileKinds == {"text", "pdf"}
Newlines == {<<"nl">>, <<"nl", " ">>, <<"cr", "nl">>}   \* the next line may be indented
PageEnd == <<"ff">>
Askers == {"page", "cli", "sdk"}   \* the verifier's page, `proveria verify passage`, the SDK

-----------------------------------------------------------------------------
\* shingling

\* a hyphen at the end of a line goes with the line break and the blanks after it
Hyphenates(s, i) == s[i] = "-" /\ i < Len(s) /\ s[i + 1] = "nl"
\* mutant: the blanks stay, so that an indented line begins another word
GoesWithoutBlanks(s, j) == \E i \in 1..j : Hyphenates(s, i) /\ j <= i + 1

Goes(s, j) ==
  \E i \in 1..j : Hyphenates(s, i) /\ \A k \in (i + 2)..j : s[k] = " "

Joined(s) ==
  LET kept == SelectSeq([i \in DOMAIN s |-> i], LAMBDA i : ~Goes(s, i))
  IN  [k \in DOMAIN kept |-> s[kept[k]]]

\* a page ends the paragraph
Paged(s) == FlattenSeq([i \in DOMAIN s |-> IF s[i] = "ff" THEN <<"nl", "nl">> ELSE <<s[i]>>])

\* the text so far: its paragraphs, its last token and the line breaks after it;
\* punctuation separates tokens and stands in a paragraph
EndToken(read) ==
  IF read.token = <<>> THEN read
  ELSE [read EXCEPT !.token = <<>>,
                    !.paragraphs[Len(read.paragraphs)] = Append(@, read.token)]
InParagraph(read) ==
  [read EXCEPT !.breaks = 0, !.paragraphs = IF read.breaks >= 2 THEN Append(@, <<>>) ELSE @]
ReadSymbol(read, c) ==
  CASE c = "nl"             -> [EndToken(read) EXCEPT !.breaks = @ + 1]
    [] c \in Blank \ {"nl"} -> EndToken(read)
    [] c = "."              -> InParagraph(EndToken(read))
    [] OTHER                -> [InParagraph(read) EXCEPT !.token = Append(@, c)]

\* the paragraphs of a text, each a sequence of tokens; the command line has a normaliser
\* of its own, which takes the two replacements in the other order
ParagraphsIn(s) ==
  LET start == [paragraphs |-> << <<>> >>, token |-> <<>>, breaks |-> 0]
  IN  EndToken(FoldLeft(ReadSymbol, start, s)).paragraphs
Paragraphs(s) == ParagraphsIn(Paged(Joined(s)))
CliParagraphs(s) == ParagraphsIn(Joined(Paged(s)))

TokenCount(s) == LET paras == Paragraphs(s)
                 IN  Len(FlattenSeq(paras))

\* windows do not cross paragraphs; equal ones are attested once
WindowsIn(tokens) ==
  {SubSeq(tokens, i, i + Window - 1) :
     i \in {k \in 1..Len(tokens) : k % Stride = 1 % Stride /\ k + Window - 1 <= Len(tokens)}}
ShinglesOf(paragraphs) == UNION {WindowsIn(p) : p \in ToSet(paragraphs)}
Shingles(s) == ShinglesOf(Paragraphs(s))

\* What is hashed, in a browser and in the desktop's own process: the preset and the method
\* are part of it.
BrowserPayload(method, w) == <<"standard", method, w>>
ShinglePayload(w) == <<"standard", "ocr-tesseract/v1", w>>

Hashes(s, method) == {BrowserPayload(method, w) : w \in Shingles(s)}

-----------------------------------------------------------------------------
\* layout

\* A layout has at most one irregularity: a line that ends between two words, or inside
\* the word `at` after its piece `piece`, or a page that ends after the word `page`.
Layouts(doc) ==
  LET words == DOMAIN doc.words
      last == Len(doc.words)
      between == {[at |-> w, piece |-> Len(doc.words[w])] : w \in words \ {last}}
      inside(w) == {[at |-> w, piece |-> k] :
        k \in {x \in 1..(Len(doc.words[w]) - 1) : doc.words[w][x + 1] \notin {"-", "."}}}
      breaks == between \cup UNION {inside(w) : w \in words}
  IN  [line : {None}, newline : {<<"nl">>}, page : (words \cup {0}) \ {last}]
        \cup [line : breaks, newline : Newlines, page : {0}]

\* the layouts of the words from first to last: what is copied may also have the end of a
\* page where a line ends
CopyLayouts(doc, first, last) ==
  LET copy(l) == {l} \cup (IF l.line = None THEN {} ELSE {[l EXCEPT !.newline = PageEnd]})
  IN  UNION {copy(l) : l \in {m \in Layouts(doc) : m.page = 0 /\ (m.line # None =>
        /\ m.line.at \in first..last
        /\ m.line.piece = Len(doc.words[m.line.at]) => m.line.at # last)}}

LineEndsAfter(doc, layout, w) ==
  layout.line # None /\ layout.line.at = w /\ layout.line.piece = Len(doc.words[w])

BreaksInside(doc, layout, w) ==
  layout.line # None /\ layout.line.at = w /\ layout.line.piece < Len(doc.words[w])

\* a word that is broken gets a hyphen, unless it is broken after its own
Word(doc, layout, w) ==
  LET word == doc.words[w]
      k == layout.line.piece
  IN  IF ~BreaksInside(doc, layout, w) THEN word
      ELSE SubSeq(word, 1, k) \o (IF word[k] = "-" THEN <<>> ELSE <<"-">>)
             \o layout.newline \o SubSeq(word, k + 1, Len(word))

\* what stands before a word that is not the first
Gap(doc, layout, w) ==
  LET ends == LineEndsAfter(doc, layout, w - 1)
      line == IF layout.newline = PageEnd THEN <<"nl">> ELSE layout.newline
  IN  CASE w \in doc.starts           -> line \o line
        [] w \notin doc.starts /\ ends -> layout.newline
        [] OTHER                      -> <<" ">>

\* the words from first to last, in a row
Laid(doc, layout, first, last) ==
  FlattenSeq([i \in 1..(last - first + 1) |->
    (IF i = 1 THEN <<>> ELSE Gap(doc, layout, first + i - 1)) \o Word(doc, layout, first + i - 1)])

\* the first and the last word of each page
PageRanges(doc, layout) ==
  LET n == Len(doc.words)
  IN  IF layout.page = 0 THEN <<<<1, n>>>> ELSE <<<<1, layout.page>>, <<layout.page + 1, n>>>>
PageText(f, p) ==
  LET range == PageRanges(f.doc, f.layout)[p] IN Laid(f.doc, f.layout, range[1], range[2])
PagesOf(f) == DOMAIN PageRanges(f.doc, f.layout)

-----------------------------------------------------------------------------
\* the three extractions

\* pages one after the other
InPages(text) ==
  FlattenSeq([p \in DOMAIN text |-> (IF p = 1 THEN <<>> ELSE <<"ff">>) \o text[p]])

FileText(f) == InPages([p \in PagesOf(f) |-> PageText(f, p)])

\* The items of the text layer are the lines of the page, joined with blanks; a scanned
\* page has none.
LayerText(f) ==
  LET item(c) == IF c \in {"nl", "cr"} THEN " " ELSE c
      line(p) == PageText(f, p)
  IN  InPages([p \in PagesOf(f) |->
        IF p \in f.scanned THEN <<>> ELSE [i \in DOMAIN line(p) |-> item(line(p)[i])]])

\* one image for each page
RenderedPages(f) == PagesOf(f)

\* a page that could not be read is empty, and still ends with a page break
OcrText(f) ==
  InPages([p \in RenderedPages(f) |->
    CASE pages[p] = "read"    -> PageText(f, p)
      [] pages[p] = "misread" -> [i \in DOMAIN PageText(f, p) |-> " "] \o <<"?">>
      [] OTHER                -> <<>>])

-----------------------------------------------------------------------------
\* the desktop: buildContentProof

TextInit ==
  /\ source = None /\ pages = <<>> /\ proof = None
  /\ copied = None /\ found = None

ChooseFile(f) ==
  /\ source = None
  /\ source' = f
  /\ UNCHANGED <<pages, proof, copied, found>>

Proof(method, s) ==
  IF Shingles(s) = {} THEN [method |-> None, leaves |-> {}]
  ELSE [method |-> method, leaves |-> Hashes(s, method)]

\* the text layer is used when it has enough tokens and a window
LayerServes(f) == TokenCount(LayerText(f)) >= MinTokens /\ Shingles(LayerText(f)) # {}

BuildTextProof ==
  /\ source # None /\ proof = None /\ source.kind = "text"
  /\ proof' = Proof("plain-text/v1", FileText(source))
  /\ UNCHANGED <<source, pages, copied, found>>

BuildLayerProof ==
  /\ source # None /\ proof = None /\ source.kind = "pdf" /\ pages = <<>>
  /\ LayerServes(source)
  /\ proof' = Proof("pdf-text-layer/v1", LayerText(source))
  /\ UNCHANGED <<source, pages, copied, found>>

\* runOcr reads one page after the other; one that fails does not end it
OcrPage(outcome) ==
  /\ source # None /\ proof = None /\ source.kind = "pdf"
  /\ ~LayerServes(source) /\ Len(pages) < Cardinality(RenderedPages(source))
  /\ pages' = Append(pages, outcome)
  /\ UNCHANGED <<source, proof, copied, found>>

\* no page read, or no window: the file is submitted without a content proof
BuildOcrProof ==
  /\ source # None /\ proof = None /\ Len(pages) = Cardinality(RenderedPages(source))
  /\ LET leaves == {ShinglePayload(w) : w \in Shingles(OcrText(source))}
     IN  proof' = IF ToSet(pages) = {"failed"} \/ leaves = {} THEN [method |-> None, leaves |-> {}]
                  ELSE [method |-> "ocr-tesseract/v1", leaves |-> leaves]
  /\ UNCHANGED <<source, pages, copied, found>>

-----------------------------------------------------------------------------
\* the verifier: hashPassage and the lookup

CopiedText == Laid(copied.doc, copied.layout, copied.first, copied.last)

Copy(c) ==
  /\ proof # None /\ copied = None
  /\ copied' = c
  /\ UNCHANGED <<source, pages, proof, found>>

\* The page and the command line hash with every method, whichever the attestation
\* lists, the SDK with the one its caller names.
PageMethods == Methods
PageHashes(s) == UNION {Hashes(s, m) : m \in PageMethods}
CliHashes(s) == {BrowserPayload(m, w) : m \in Methods, w \in ShinglesOf(CliParagraphs(s))}
SdkHashes(s, method) == Hashes(s, method)

\* The page and the command line send all their hashes at once.  The SDK sends one, with
\* or without a kind, and never a candidate.
Batch(hashes) ==
  IF hashes = {} THEN {}
  ELSE {[kind |-> "content", submitted |-> CHOOSE x \in hashes : TRUE, candidates |-> hashes]}
Questions ==
  CASE copied.asker = "page" -> Batch(PageHashes(CopiedText))
    [] copied.asker = "cli"  -> Batch(CliHashes(CopiedText))
    [] copied.asker = "sdk"  ->
         [kind : {"content", "any"}, submitted : UNION {SdkHashes(CopiedText, m) : m \in Methods},
          candidates : {{}}]

\* what the API looks for: when content is asked for, the candidates and nothing else
Sought(q) == IF q.kind = "content" THEN q.candidates ELSE {q.submitted}

LookUpPassage ==
  /\ copied # None /\ found = None
  /\ \E q \in Questions : found' = [question |-> q, match |-> Sought(q) \cap proof.leaves # {}]
  /\ UNCHANGED <<source, pages, proof, copied>>

\* without a window of the preset that is attested nothing is asked, or in vain
RefusePassage ==
  /\ copied # None /\ found = None
  /\ Questions = {}
  /\ found' = [question |-> None, match |-> FALSE]
  /\ UNCHANGED <<source, pages, proof, copied>>

TextNext ==
  \/ \E doc \in Documents, kind \in FileKinds : \E layout \in Layouts(doc), scanned \in SUBSET (1..2) :
       /\ kind = "text" => scanned = {}
       /\ scanned \subseteq DOMAIN PageRanges(doc, layout)
       /\ ChooseFile([doc |-> doc, kind |-> kind, layout |-> layout, scanned |-> scanned])
  \/ BuildTextProof \/ BuildLayerProof
  \/ \E outcome \in {"read", "misread", "failed"} : OcrPage(outcome)
  \/ BuildOcrProof
  \/ \E doc \in Documents, asker \in Askers : \E last \in DOMAIN doc.words : \E first \in 1..last :
       \E layout \in CopyLayouts(doc, first, last) :
         Copy([doc |-> doc, layout |-> layout, asker |-> asker, first |-> first, last |-> last])
  \/ LookUpPassage \/ RefusePassage

-----------------------------------------------------------------------------
TextTypeOK ==
  /\ source = None \/ source \in
       [doc : Documents, kind : FileKinds, layout : UNION {Layouts(d) : d \in Documents}, scanned : SUBSET (1..2)]
  /\ \A p \in DOMAIN pages : pages[p] \in {"read", "misread", "failed"}
  /\ proof # None => proof.method \in Methods \cup {None}
  /\ copied # None => copied.doc \in Documents /\ copied.asker \in Askers
  /\ found # None =>
       found.match \in BOOLEAN /\ (found.question # None => found.question.kind \in {"content", "any"})

-----------------------------------------------------------------------------
\* the reference: words that follow each other, whatever the layout

Bare(word) == SelectSeq(word, LAMBDA c : c # ".")

\* the rows of Window words from first to last that a paragraph contains
RowsIn(doc, first, last) ==
  {w \in first..last : w + Window - 1 <= last
                         /\ \A k \in (w + 1)..(w + Window - 1) : k \notin doc.starts}
RowText(doc, w) == [k \in 1..Window |-> Bare(doc.words[w + k - 1])]

\* A word is garbled when its tokens are not those of the word: it is broken at a line end
\* that has a carriage return, at the end of a page, in a text layer, or after a hyphen of
\* its own.
Garbled(doc, layout, layer, w) ==
  /\ BreaksInside(doc, layout, w)
  /\ layer \/ layout.newline \in {<<"cr", "nl">>, PageEnd} \/ doc.words[w][layout.line.piece] = "-"
GarbledRow(doc, layout, layer, w) ==
  \E k \in w..(w + Window - 1) : Garbled(doc, layout, layer, k)

\* the pages whose text can be in the proof: a text layer has no scanned one
Layered == source.kind = "pdf" /\ LayerServes(source)
Readable(p) ==
  IF source.kind = "text" THEN TRUE
  ELSE IF Layered THEN p \notin source.scanned ELSE pages[p] = "read"

SourceRows ==
  UNION {LET range == PageRanges(source.doc, source.layout)[p]
         IN  {RowText(source.doc, w) :
                w \in {r \in RowsIn(source.doc, range[1], range[2]) :
                         ~GarbledRow(source.doc, source.layout, Layered, r)}}
           : p \in {q \in PagesOf(source) : Readable(q)}}
\* a row that the end of a page cuts
CutRow(doc, layout, w) ==
  layout.newline = PageEnd /\ \E k \in w..(w + Window - 2) : LineEndsAfter(doc, layout, k)
CopiedRows ==
  {RowText(copied.doc, w) :
     w \in {r \in RowsIn(copied.doc, copied.first, copied.last) :
              /\ ~GarbledRow(copied.doc, copied.layout, FALSE, r)
              /\ ~CutRow(copied.doc, copied.layout, r)}}

\* the words stand on one page, in one paragraph unless the text layer has lost those
Stands(row) ==
  \E p \in PagesOf(source) :
    LET range == PageRanges(source.doc, source.layout)[p]
    IN  \E w \in range[1]..(range[2] + 1 - Window) :
          /\ RowText(source.doc, w) = row
          /\ Layered \/ w \in RowsIn(source.doc, range[1], range[2])

\* the one row that a question of the SDK without a kind looks for, by the proof's method
OneRow(rows) == {row \in rows : found.question.submitted = BrowserPayload(proof.method, row)}
SoughtRows ==
  LET rows == SourceRows \cap CopiedRows
  IN  CASE copied.asker # "sdk"                                     -> rows
        [] copied.asker = "sdk" /\ found.question.kind = "any"      -> OneRow(rows)
        [] copied.asker = "sdk" /\ found.question.kind = "content"  -> {}

\* A passage with a row of words can be asked for, and is found when a row that is looked
\* for stands on a readable page of the file, and only then: however the lines of the one
\* and of the other are broken, whichever of the three ways the text was extracted, by
\* either normaliser, and although no text is ever compared.  Exceptions are words that a
\* line end garbles; and of the SDK, which asks for one window, the method must be the
\* proof's and the kind be left out, for with "content" it finds nothing.
PassageFound ==
  found # None =>
    /\ CopiedRows # {} => found.question # None
    /\ found.question # None /\ SoughtRows # {} => found.match
    /\ found.match => \/ \E row \in CopiedRows : Stands(row)
                      \/ \E w \in copied.first..copied.last :
                           Garbled(copied.doc, copied.layout, FALSE, w)
                      \/ \E w \in DOMAIN source.doc.words :
                           Garbled(source.doc, source.layout, Layered, w)
=============================================================================

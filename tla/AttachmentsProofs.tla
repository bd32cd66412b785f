------------------------- MODULE AttachmentsProofs -------------------------
(***************************************************************************)
(* Attachments keeps its types, and its properties hold for any bytes and  *)
(* any number of passes.                                                   *)
(***************************************************************************)
EXTENDS Attachments, TLAPS

(* A row without a file has the upstream text or none.                     *)
Bare(r) == r.path = Nowhere => r.text \in {NoText, Upstream}

(* What a pass holds at each place, and that rows do not lose their file.  *)
AtWork(p) ==
    /\ pc[p] = "saved" => bytes[p] \in Contents /\ TypeOf(bytes[p]) \in Stored
    /\ pc[p] = "read" => bytes[p] \in Contents /\ loaded[p].path # Nowhere
    /\ loaded[p].path # Nowhere => row.path # Nowhere
    /\ Bare(loaded[p])

(* Who runs alone has the row as it is; while nothing is muddled, whoever  *)
(* runs does so alone; an outcome is there until the next pass starts.     *)
Solitude ==
    /\ \A p \in Passes : alone[p] => /\ pc[p] # "idle" /\ loaded[p] = row
                                     /\ \A q \in Passes \ {p} : pc[q] = "idle"
    /\ ~muddled => \A p \in Passes : pc[p] # "idle" => alone[p]
    /\ outcome # "none" => \A p \in Passes : pc[p] = "idle"

(* A forced pass that runs alone parses what it has downloaded.            *)
Redone(p) ==
    alone[p] /\ mode[p] = "force" =>
        /\ pc[p] = "saved" => file[TypeOf(bytes[p])] = bytes[p]
        /\ pc[p] \in {"parse", "read"} =>
              /\ loaded[p].path \in Stored /\ loaded[p].hash \in Contents
              /\ file[loaded[p].path] = loaded[p].hash
        /\ pc[p] = "read" => bytes[p] = loaded[p].hash

Inv ==
    /\ TypeOK /\ Bare(row) /\ Solitude
    /\ \A p \in Passes : AtWork(p) /\ Redone(p)
    /\ ParsedTextIsOfItsBytes /\ PassLeavesOutcome

(* The parts of the two properties that are about one row.                 *)
Consistent(r) ==
    Indexable(r) => r.text = IF r.parser = "upstream" THEN Upstream ELSE r.hash
Left(r, m) ==
    /\ r.parse # "pending"
    /\ r.parse # "parsed" => r.error # NoError
    /\ m = "force" /\ r.download = "completed" /\ r.parse = "parsed"
          => /\ r.text = r.hash /\ r.path # Nowhere /\ r.hash # NoBytes
             /\ file[r.path] = r.hash /\ r.error = NoError

-----------------------------------------------------------------------------
(* Rows.                                                                   *)

Columns == {"download", "downloadError", "parse", "error", "hash", "path", "suffix",
            "name", "text", "parser", "ocr"}

LEMMA RowColumns == ASSUME NEW r \in Rows PROVE DOMAIN r = Columns
BY DEF Rows, Columns

LEMMA FlushedRow ==
    ASSUME row \in Rows, NEW p \in Passes, loaded[p] \in Rows, NEW new \in Rows,
           Flush(p, new)
    PROVE  /\ row' \in Rows
           /\ row'.path = IF new.path = loaded[p].path THEN row.path ELSE new.path
           /\ row'.text = IF new.text = loaded[p].text THEN row.text ELSE new.text
<1> DEFINE l == loaded[p]
<1>1. row' = [f \in Columns |-> IF new[f] = l[f] THEN row[f] ELSE new[f]]
  BY RowColumns DEF Flush
<1>2. /\ row'.path = IF new.path = l.path THEN row.path ELSE new.path
      /\ row'.text = IF new.text = l.text THEN row.text ELSE new.text
  BY <1>1 DEF Columns
<1>3. row' = [download |-> row'.download, downloadError |-> row'.downloadError,
              parse |-> row'.parse, error |-> row'.error, hash |-> row'.hash,
              path |-> row'.path, suffix |-> row'.suffix, name |-> row'.name,
              text |-> row'.text, parser |-> row'.parser, ocr |-> row'.ocr]
  BY <1>1, Zenon DEF Columns
<1>4. row' \in Rows
  BY <1>1, <1>3 DEF Rows, Columns
<1> QED BY <1>2, <1>4

LEMMA FlushedAlone ==
    ASSUME row \in Rows, NEW p \in Passes, loaded[p] = row, NEW new \in Rows, Flush(p, new)
    PROVE  row' = new
<1>1. row' = [f \in Columns |-> IF new[f] = row[f] THEN row[f] ELSE new[f]]
  BY RowColumns DEF Flush
<1>2. \A f \in Columns : row'[f] = new[f]
  BY <1>1
<1>3. new = [f \in Columns |-> new[f]]
  BY RowColumns DEF Rows
<1> QED BY <1>1, <1>2, <1>3

LEMMA DownloadErrorTyped ==
    ASSUME NEW e \in Raised
    PROVE  DownloadError(e) \in DownloadErrors /\ DownloadError(e) # NoError
BY ErrorAssumption DEF DownloadErrors, DownloadError, FetchErrors, ResolverErrors, NoError

LEMMA TypeOfTyped ==
    ASSUME NEW c \in Contents
    PROVE  TypeOf(c) \in Suffixes
BY KindAssumption DEF TypeOf, Kinds, Suffixes, Stored

LEMMA SavedTyped ==
    ASSUME NEW r \in Rows, NEW c \in Contents, TypeOf(c) \in Stored
    PROVE  /\ Saved(r, c) \in Rows /\ Saved(r, c).path = TypeOf(c)
           /\ Saved(r, c).hash = c /\ Saved(r, c).parse = "pending"
           /\ Saved(r, c).text = r.text
<1> DEFINE t == TypeOf(c)
<1>1. t \in Places /\ t \in Suffixes /\ NoError \in Errors
  BY DEF Places, Suffixes, Errors
<1> HIDE DEF t
<1>2. Saved(r, c) = [r EXCEPT !.download = "completed", !.downloadError = NoError,
                              !.hash = c, !.suffix = t, !.path = t,
                              !.parse = "pending", !.error = NoError]
  BY DEF Saved, t
<1>3. Saved(r, c) \in Rows /\ Saved(r, c).path = t
      /\ Saved(r, c).hash = c /\ Saved(r, c).parse = "pending"
      /\ Saved(r, c).text = r.text
  BY <1>1, <1>2 DEF Rows
<1> QED BY <1>3 DEF t

LEMMA MarkFailureTyped ==
    ASSUME NEW r \in Rows, NEW status \in {"failed", "unsupported"}, NEW code \in Errors
    PROVE  /\ MarkFailure(r, status, code) \in Rows
           /\ MarkFailure(r, status, code).parse = status
           /\ MarkFailure(r, status, code).error = code
           /\ MarkFailure(r, status, code).path = r.path
           /\ MarkFailure(r, status, code).text = r.text
BY DEF MarkFailure, Rows

LEMMA MarkParsedTyped ==
    ASSUME NEW r \in Rows
    PROVE  /\ MarkParsed(r) \in Rows
           /\ MarkParsed(r).parse = "parsed" /\ MarkParsed(r).error = NoError
           /\ MarkParsed(r).path = r.path /\ MarkParsed(r).text = r.text
           /\ MarkParsed(r).hash = r.hash /\ MarkParsed(r).parser = r.parser
BY DEF MarkParsed, Rows, Errors

(* What a parser may make of a row.                                        *)
Parsed(r, c, new) ==
    /\ new \in Rows /\ new.path = r.path
    /\ \/ new.parse = "parsed" /\ new.error = NoError /\ new.text = c /\ new.hash = c
          /\ new.parser \in {"parser", "ocr"}
       \/ new.parse = "failed" /\ new.error # NoError

LEMMA FailedParsed ==
    ASSUME NEW r \in Rows, NEW q \in Rows, q.path = r.path, NEW c \in Contents,
           NEW code \in Errors, code # NoError
    PROVE  Parsed(r, c, MarkFailure(q, "failed", code))
<1>1. "failed" \in {"failed", "unsupported"}
  OBVIOUS
<1>2. /\ MarkFailure(q, "failed", code) \in Rows
      /\ MarkFailure(q, "failed", code).parse = "failed"
      /\ MarkFailure(q, "failed", code).error = code
      /\ MarkFailure(q, "failed", code).path = q.path
  BY <1>1, MarkFailureTyped
<1> QED BY <1>2 DEF Parsed

LEMMA RecognizedTyped ==
    ASSUME NEW r \in Rows, NEW c \in Contents, r.hash = c, NEW result \in OcrOutcomes
    PROVE  Parsed(r, c, Recognized(r, c, result))
<1> DEFINE asked == [r EXCEPT !.parser = "ocr", !.ocr = TRUE]
           empty == [asked EXCEPT !.text = NoText]
           found == [asked EXCEPT !.text = c]
<1>1. asked \in Rows /\ asked.path = r.path
  BY DEF Rows
<1>2. empty \in Rows /\ empty.path = r.path
  BY <1>1 DEF Rows
<1>3. found \in Rows /\ found.path = r.path /\ found.text = c /\ found.hash = c
      /\ found.parser = "ocr"
  BY <1>1 DEF Rows
<1>4. {"OCR_PROVIDER_UNAVAILABLE", "OCR_FAILED"} \subseteq Errors \ {NoError}
  BY DEF Errors, NoError
<1>5. Recognized(r, c, result) \in
         {MarkFailure(asked, "failed", "OCR_PROVIDER_UNAVAILABLE"),
          MarkFailure(asked, "failed", "OCR_FAILED"),
          MarkFailure(empty, "failed", "OCR_FAILED"), MarkParsed(found)}
  BY OcrAssumption DEF Recognized
<1> HIDE DEF asked, empty, found
<1>6. CASE Recognized(r, c, result) = MarkFailure(asked, "failed", "OCR_PROVIDER_UNAVAILABLE")
  BY <1>1, <1>4, <1>6, FailedParsed
<1>7. CASE Recognized(r, c, result) = MarkFailure(asked, "failed", "OCR_FAILED")
  BY <1>1, <1>4, <1>7, FailedParsed
<1>8. CASE Recognized(r, c, result) = MarkFailure(empty, "failed", "OCR_FAILED")
  BY <1>2, <1>4, <1>8, FailedParsed
<1>9. CASE Recognized(r, c, result) = MarkParsed(found)
  BY <1>3, <1>9, MarkParsedTyped DEF Parsed
<1> QED BY <1>5, <1>6, <1>7, <1>8, <1>9

LEMMA OutcomesTyped ==
    ASSUME NEW r \in Rows, NEW c \in Contents, NEW new \in Outcomes(r, c)
    PROVE  Parsed(r, c, new)
<1> DEFINE begun == [r EXCEPT !.hash = c]
           parsed(text) == [begun EXCEPT !.parser = "parser", !.text = text, !.ocr = FALSE]
<1>1. begun \in Rows /\ begun.path = r.path /\ begun.hash = c
  BY DEF Rows
<1>2. ASSUME NEW text \in {Blank, c}
      PROVE  /\ parsed(text) \in Rows /\ parsed(text).path = r.path
             /\ parsed(text).hash = c /\ parsed(text).text = text
             /\ parsed(text).parser = "parser"
  BY <1>1, <1>2 DEF Rows
<1>3. {"NO_TEXT_EXTRACTED", "PARSE_ERROR"} \subseteq Errors \ {NoError}
  BY DEF Errors, NoError
<1>4. \/ \E result \in OcrOutcomes : new = Recognized(begun, c, result)
      \/ \E result \in OcrOutcomes : new = Recognized(parsed(Blank), c, result)
      \/ new = MarkParsed(parsed(c))
      \/ new = MarkFailure(parsed(Blank), "failed", "NO_TEXT_EXTRACTED")
      \/ new = MarkFailure(begun, "failed", "PARSE_ERROR")
  BY DEF Outcomes
<1> HIDE DEF begun, parsed
<1>5. CASE \E result \in OcrOutcomes : new = Recognized(begun, c, result)
  BY <1>1, <1>5, RecognizedTyped DEF Parsed
<1>6. CASE \E result \in OcrOutcomes : new = Recognized(parsed(Blank), c, result)
  BY <1>2, <1>6, RecognizedTyped DEF Parsed
<1>7. CASE new = MarkParsed(parsed(c))
  BY <1>2, <1>7, MarkParsedTyped DEF Parsed
<1>8. CASE new = MarkFailure(parsed(Blank), "failed", "NO_TEXT_EXTRACTED")
  BY <1>2, <1>3, <1>8, FailedParsed
<1>9. CASE new = MarkFailure(begun, "failed", "PARSE_ERROR")
  BY <1>1, <1>3, <1>9, FailedParsed
<1> QED BY <1>4, <1>5, <1>6, <1>7, <1>8, <1>9

LEMMA FreshTyped ==
    ASSUME NEW name \in Suffixes
    PROVE  /\ Fresh(name) \in Rows
           /\ Fresh(name).parse = "pending" /\ Fresh(name).path = Nowhere
           /\ Fresh(name).text = NoText
BY DEF Fresh, Rows, Errors, Suffixes, Places

-----------------------------------------------------------------------------
(* Steps.                                                                  *)

LEMMA EndStep ==
    ASSUME Inv, NEW p \in Passes, pc[p] # "idle", NEW redone \in BOOLEAN,
           End(p, redone), UNCHANGED file,
           row' \in Rows, Bare(row)', row.path # Nowhere => row'.path # Nowhere,
           alone[p] /\ (~muddled \/ (redone /\ mode[p] = "force")) => Consistent(row'),
           alone[p] => Left(row', mode[p])
    PROVE  Inv'
<1>1. TypeOK /\ Solitude /\ \A q \in Passes : AtWork(q) /\ Redone(q)
  BY DEF Inv
<1>2. Fresh("unknown") \in Rows /\ Bare(Fresh("unknown"))
      /\ Fresh("unknown").path = Nowhere
  BY FreshTyped DEF Suffixes, Bare
<1>3. /\ pc'[p] = "idle" /\ loaded'[p] = Fresh("unknown") /\ ~alone'[p]
      /\ \A q \in Passes \ {p} :
            /\ pc'[q] = pc[q] /\ loaded'[q] = loaded[q] /\ bytes'[q] = bytes[q]
            /\ mode'[q] = mode[q] /\ alone'[q] = alone[q]
  BY <1>1 DEF End, Forget, GoTo, TypeOK
<1>4. TypeOK'
  <2>1. outcome' \in Modes \cup {"none"} /\ muddled' \in BOOLEAN
    BY <1>1 DEF End, TypeOK
  <2>2. mode' \in [Passes -> Modes] /\ loaded' \in [Passes -> Rows]
    BY <1>1, <1>2 DEF End, Forget, TypeOK, Modes
  <2>3. /\ pc' \in [Passes -> {"idle", "check", "fetch", "saved", "parse", "read"}]
        /\ valid' \in [Passes -> BOOLEAN] /\ alone' \in [Passes -> BOOLEAN]
        /\ bytes' \in [Passes -> Contents \cup {NoBytes}] /\ started' = started
    BY <1>1 DEF End, Forget, GoTo, TypeOK
  <2> QED BY <1>1, <2>1, <2>2, <2>3 DEF TypeOK
<1>5. alone[p] => \A q \in Passes : pc'[q] = "idle"
  BY <1>1, <1>3 DEF Solitude
<1>6. \A q \in Passes \ {p} : ~alone[q]
  BY <1>1 DEF Solitude
<1>7. Solitude'
  <2>1. outcome' # "none" => alone[p]
    BY DEF End
  <2>2. ~muddled' => ~muddled \/ alone[p]
    BY DEF End
  <2> QED BY <1>1, <1>3, <1>5, <1>6, <2>1, <2>2 DEF Solitude
<1>8. \A q \in Passes : AtWork(q)' /\ Redone(q)'
  BY <1>1, <1>2, <1>3, <1>6 DEF AtWork, Redone, Bare
<1>9. ParsedTextIsOfItsBytes'
  <2>1. ~muddled' => alone[p] /\ (~muddled \/ (redone /\ mode[p] = "force"))
    BY <1>1 DEF End, Solitude
  <2> QED BY <2>1 DEF ParsedTextIsOfItsBytes, Consistent
<1>10. PassLeavesOutcome'
  <2>1. outcome' # "none" => alone[p] /\ outcome' = mode[p]
    BY DEF End
  <2> QED BY <2>1 DEF PassLeavesOutcome, Left, HasValidBytes
<1> QED BY <1>4, <1>7, <1>8, <1>9, <1>10 DEF Inv

LEMMA MoveStep ==
    ASSUME Inv, NEW p \in Passes, pc[p] # "idle", pc'[p] # "idle",
           TypeOK', Bare(row)', row.path # Nowhere => row'.path # Nowhere,
           UNCHANGED <<passVars, muddled, outcome>>,
           \A q \in Passes \ {p} :
              pc'[q] = pc[q] /\ loaded'[q] = loaded[q] /\ bytes'[q] = bytes[q],
           AtWork(p)', Redone(p)', alone[p] => loaded'[p] = row',
           row' = row \/ ~Indexable(row')  \/ ~alone[p]
    PROVE  Inv'
<1>1. TypeOK /\ Solitude /\ ParsedTextIsOfItsBytes /\ PassLeavesOutcome
      /\ \A q \in Passes : AtWork(q) /\ Redone(q)
  BY DEF Inv
<1>2. \A q \in Passes \ {p} : ~alone[q]
  BY <1>1 DEF Solitude
<1>3. UNCHANGED <<mode, alone, muddled, outcome>> /\ outcome = "none"
  BY <1>1 DEF passVars, Solitude
<1>4. Solitude'
  BY <1>1, <1>2, <1>3 DEF Solitude
<1>5. \A q \in Passes \ {p} : AtWork(q)' /\ Redone(q)'
  BY <1>1, <1>2, <1>3 DEF AtWork, Redone, Bare
<1>6. ParsedTextIsOfItsBytes'
  BY <1>1, <1>3 DEF ParsedTextIsOfItsBytes, Solitude
<1>7. PassLeavesOutcome'
  BY <1>3 DEF PassLeavesOutcome
<1> QED BY <1>4, <1>5, <1>6, <1>7 DEF Inv

(* A pass that is done with its row has not given it another file.         *)
LEMMA FlushEnd ==
    ASSUME Inv, NEW p \in Passes, pc[p] # "idle", NEW redone \in BOOLEAN, NEW new \in Rows,
           new.path = loaded[p].path, Bare(new),
           Flush(p, new), End(p, redone), UNCHANGED file,
           alone[p] /\ (~muddled \/ (redone /\ mode[p] = "force")) => Consistent(new),
           alone[p] => Left(new, mode[p])
    PROVE  Inv'
<1>1. row \in Rows /\ loaded[p] \in Rows /\ Bare(row) /\ AtWork(p) /\ Solitude
  BY DEF Inv, TypeOK
<1>2. /\ row' \in Rows /\ row'.path = row.path
      /\ row'.text = IF new.text = loaded[p].text THEN row.text ELSE new.text
  BY <1>1, FlushedRow
<1>3. Bare(row)'
  BY <1>1, <1>2 DEF Bare, AtWork
<1>4. alone[p] => row' = new
  BY <1>1, FlushedAlone DEF Solitude
<1> QED BY <1>2, <1>3, <1>4, EndStep

LEMMA InvInit == Init => Inv
<1> SUFFICES ASSUME Init PROVE Inv
  OBVIOUS
<1>1. row \in Rows /\ row.parse = "pending" /\ Bare(row)
  <2>1. PICK name \in Suffixes :
           \/ \E text \in {NoText, Upstream}, ocr \in BOOLEAN :
                 row = Collected(name, text, ocr)
           \/ row = Missed(name)
           \/ \E c \in Contents : row = Crawled(name, c)
    BY DEF Init
  <2>2. PICK r \in Rows : /\ r = Fresh(name) /\ r.path = Nowhere
                          /\ r.parse = "pending" /\ r.text = NoText
    BY FreshTyped
  <2>3. CASE \E text \in {NoText, Upstream}, ocr \in BOOLEAN :
                row = Collected(name, text, ocr)
    <3>1. PICK text \in {NoText, Upstream}, ocr \in BOOLEAN :
             row = Collected(name, text, ocr)
      BY <2>3
    <3>2. PICK d \in {"pending", "completed"} :
             row = [r EXCEPT !.download = d, !.text = text, !.ocr = ocr]
      BY <2>2, <3>1, Zenon DEF Collected
    <3> QED BY <2>2, <3>2 DEF Rows, Bare
  <2>4. CASE row = Missed(name)
    BY <2>2, <2>4 DEF Missed, Rows, Bare
  <2>5. CASE \E c \in Contents : row = Crawled(name, c)
    <3>1. PICK c \in Contents : row = Crawled(name, c)
      BY <2>5
    <3>2. PICK place \in Places : place = "crawl"
      BY DEF Places
    <3>3. row = [r EXCEPT !.download = "completed", !.hash = c, !.path = place,
                          !.suffix = name]
      BY <2>2, <3>1, <3>2 DEF Crawled
    <3> QED BY <2>2, <3>2, <3>3 DEF Rows, Bare, Nowhere
  <2> QED BY <2>1, <2>3, <2>4, <2>5
<1>2. Fresh("unknown") \in Rows /\ Fresh("unknown").path = Nowhere
  BY FreshTyped DEF Suffixes
<1>3. file \in [Places -> Contents \cup {NoBytes}]
  BY DEF Init
<1>4. TypeOK
  <2>1. started \in 0 .. MaxPasses
    BY PassBound DEF Init
  <2>2. loaded \in [Passes -> Rows]
    BY <1>2 DEF Init, Idle
  <2>3. /\ pc \in [Passes -> {"idle", "check", "fetch", "saved", "parse", "read"}]
        /\ mode \in [Passes -> Modes] /\ valid \in [Passes -> BOOLEAN]
        /\ bytes \in [Passes -> Contents \cup {NoBytes}] /\ alone \in [Passes -> BOOLEAN]
    BY DEF Init, Idle, Modes
  <2> QED BY <1>1, <1>3, <2>1, <2>2, <2>3 DEF Init, TypeOK
<1>5. Solitude
  BY DEF Init, Idle, Solitude
<1>6. \A p \in Passes : AtWork(p) /\ Redone(p)
  BY <1>2, FreshTyped DEF Init, Idle, AtWork, Redone, Bare, Suffixes
<1>7. ParsedTextIsOfItsBytes /\ PassLeavesOutcome
  BY <1>1 DEF Init, ParsedTextIsOfItsBytes, PassLeavesOutcome, Indexable
<1> QED BY <1>1, <1>4, <1>5, <1>6, <1>7 DEF Inv

LEMMA StartKeeps ==
    ASSUME Inv, NEW p \in Passes, Start(p)
    PROVE  Inv'
<1>1. TypeOK /\ Solitude /\ Bare(row) /\ ParsedTextIsOfItsBytes
      /\ \A q \in Passes : AtWork(q) /\ Redone(q)
  BY DEF Inv
<1>2. PICK m \in Modes : /\ mode' = [mode EXCEPT ![p] = m]
                         /\ GoTo(p, IF m = "audit" THEN "parse" ELSE "check")
  BY DEF Start
<1>3. /\ pc'[p] \in {"parse", "check"} /\ (mode'[p] = "force" => pc'[p] = "check")
      /\ loaded'[p] = row /\ row' = row /\ pc[p] = "idle"
      /\ alone' = [q \in Passes |-> IF q = p THEN Running = {} ELSE FALSE]
      /\ \A q \in Passes \ {p} : /\ pc'[q] = pc[q] /\ loaded'[q] = loaded[q]
                                 /\ bytes'[q] = bytes[q]
  BY <1>1, <1>2 DEF Start, GoTo, TypeOK
<1>4. TypeOK'
  <2>1. started' \in 0 .. MaxPasses
    BY <1>1, PassBound DEF Start, TypeOK
  <2>2. loaded' \in [Passes -> Rows] /\ mode' \in [Passes -> Modes]
    BY <1>1, <1>2 DEF Start, TypeOK
  <2>3. /\ pc' \in [Passes -> {"idle", "check", "fetch", "saved", "parse", "read"}]
        /\ alone' \in [Passes -> BOOLEAN] /\ muddled' \in BOOLEAN
    BY <1>1, <1>2 DEF Start, GoTo, TypeOK
  <2> QED BY <1>1, <2>1, <2>2, <2>3 DEF Start, TypeOK
<1>5. Running = {} => \A q \in Passes : pc[q] = "idle"
  BY DEF Running
<1>6. Solitude'
  BY <1>1, <1>3, <1>5 DEF Start, Solitude
<1>7. \A q \in Passes : AtWork(q)' /\ Redone(q)'
  BY <1>1, <1>3 DEF AtWork, Redone, Bare
<1>8. ParsedTextIsOfItsBytes' /\ PassLeavesOutcome'
  BY <1>1 DEF Start, ParsedTextIsOfItsBytes, PassLeavesOutcome
<1> QED BY <1>1, <1>3, <1>4, <1>6, <1>7, <1>8 DEF Inv, Bare

LEMMA CheckLocalKeeps ==
    ASSUME Inv, NEW p \in Passes, CheckLocal(p)
    PROVE  Inv'
<1>1. TypeOK /\ Solitude /\ Bare(row) /\ AtWork(p) /\ Redone(p)
  BY DEF Inv
<1>2. /\ pc[p] = "check" /\ pc'[p] \in {"parse", "fetch"}
      /\ pc'[p] = "parse" => mode[p] # "force"
      /\ UNCHANGED <<row, file, loaded, bytes, passVars, muddled, outcome>>
      /\ \A q \in Passes \ {p} : pc'[q] = pc[q]
  BY <1>1 DEF CheckLocal, GoTo, TypeOK, CacheHit
<1>3. TypeOK'
  <2>1. valid' \in [Passes -> BOOLEAN]
    BY <1>1 DEF CheckLocal, TypeOK, HasValidBytes, CacheHit
  <2>2. pc' \in [Passes -> {"idle", "check", "fetch", "saved", "parse", "read"}]
    BY <1>1 DEF CheckLocal, TypeOK, GoTo
  <2> QED BY <1>1, <1>2, <2>1, <2>2 DEF TypeOK, passVars
<1>4. AtWork(p)' /\ Redone(p)'
  BY <1>1, <1>2 DEF AtWork, Redone, Bare, passVars
<1>5. Bare(row)' /\ (alone[p] => loaded'[p] = row') /\ row' = row
  BY <1>1, <1>2 DEF Bare, Solitude
<1> QED BY <1>1, <1>2, <1>3, <1>4, <1>5, MoveStep

LEMMA SaveFileKeeps ==
    ASSUME Inv, NEW p \in Passes, NEW c \in Contents, SaveFile(p, c)
    PROVE  Inv'
<1>1. TypeOK /\ Solitude /\ Bare(row) /\ AtWork(p)
  BY DEF Inv
<1>2. TypeOf(c) \in Places /\ TypeOf(c) \in Stored
  BY DEF SaveFile, Places
<1>3. /\ pc[p] = "fetch" /\ pc'[p] = "saved" /\ bytes'[p] = c /\ file'[TypeOf(c)] = c
      /\ UNCHANGED <<row, loaded, passVars, muddled, outcome>>
      /\ \A q \in Passes \ {p} : pc'[q] = pc[q] /\ bytes'[q] = bytes[q]
  BY <1>1, <1>2 DEF SaveFile, GoTo, TypeOK
<1>4. TypeOK'
  BY <1>1, <1>2, <1>3 DEF SaveFile, GoTo, TypeOK, passVars
<1>5. AtWork(p)' /\ Redone(p)'
  BY <1>1, <1>2, <1>3 DEF AtWork, Redone, Bare
<1>6. Bare(row)' /\ (alone[p] => loaded'[p] = row')
  BY <1>1, <1>3 DEF Bare, Solitude
<1> QED BY <1>1, <1>3, <1>4, <1>5, <1>6, MoveStep

LEMMA CommitDownloadKeeps ==
    ASSUME Inv, NEW p \in Passes, CommitDownload(p)
    PROVE  Inv'
<1> DEFINE c == bytes[p]
           new == Saved(loaded[p], c)
<1>1. TypeOK /\ Solitude /\ Bare(row) /\ AtWork(p) /\ Redone(p)
  BY DEF Inv
<1>2. row \in Rows /\ loaded[p] \in Rows /\ c \in Contents /\ TypeOf(c) \in Stored
  BY <1>1 DEF TypeOK, AtWork, CommitDownload
<1>3. /\ new \in Rows /\ new.path = TypeOf(c) /\ new.hash = c /\ new.parse = "pending"
  BY <1>2, SavedTyped
<1>4. Flush(p, new) /\ TypeOf(c) # Nowhere
  BY <1>2 DEF CommitDownload, Stored, Nowhere
<1> HIDE DEF new
<1>5. /\ row' \in Rows
      /\ row'.path = IF new.path = loaded[p].path THEN row.path ELSE new.path
  BY <1>2, <1>3, <1>4, FlushedRow
<1>6. row'.path # Nowhere
  BY <1>1, <1>3, <1>4, <1>5 DEF AtWork
<1>7. /\ pc[p] = "saved" /\ pc'[p] = "parse" /\ loaded'[p] = new
      /\ UNCHANGED <<file, valid, passVars, muddled, outcome>>
      /\ \A q \in Passes \ {p} :
            pc'[q] = pc[q] /\ loaded'[q] = loaded[q] /\ bytes'[q] = bytes[q]
  BY <1>1 DEF CommitDownload, GoTo, TypeOK, new
<1>8. TypeOK'
  <2>1. loaded' \in [Passes -> Rows]
    BY <1>1, <1>3 DEF CommitDownload, TypeOK, new
  <2>2. /\ bytes' \in [Passes -> Contents \cup {NoBytes}]
        /\ pc' \in [Passes -> {"idle", "check", "fetch", "saved", "parse", "read"}]
    BY <1>1 DEF CommitDownload, TypeOK, GoTo
  <2> QED BY <1>1, <1>5, <1>7, <2>1, <2>2 DEF TypeOK, passVars
<1>9. AtWork(p)' /\ Redone(p)'
  BY <1>1, <1>2, <1>3, <1>4, <1>6, <1>7 DEF AtWork, Redone, Bare, passVars
<1>10. alone[p] => row' = new
  BY <1>1, <1>2, <1>3, <1>4, FlushedAlone DEF Solitude
<1>11. Bare(row)' /\ (row' = row \/ ~Indexable(row') \/ ~alone[p])
  BY <1>3, <1>6, <1>10 DEF Bare, Indexable
<1> QED BY <1>6, <1>7, <1>8, <1>9, <1>10, <1>11, MoveStep

(* Where a pass stands, for the steps below.                               *)
LEMMA Standing ==
    ASSUME Inv, NEW p \in Passes, pc[p] # "idle"
    PROVE  /\ row \in Rows /\ loaded[p] \in Rows /\ Bare(row) /\ Bare(loaded[p])
           /\ AtWork(p) /\ Redone(p)
           /\ alone[p] => loaded[p] = row
           /\ alone[p] /\ ~muddled => Consistent(loaded[p])
BY DEF Inv, TypeOK, Solitude, AtWork, ParsedTextIsOfItsBytes, Consistent

LEMMA CommitUnsupportedKeeps ==
    ASSUME Inv, NEW p \in Passes, NEW c \in Contents, CommitUnsupported(p, c)
    PROVE  Inv'
<1> DEFINE r == loaded[p]
           t == TypeOf(c)
           code == "UNSUPPORTED_FILE_TYPE"
           new == [r EXCEPT !.download = "completed", !.downloadError = NoError,
                            !.hash = c, !.suffix = t, !.parse = "unsupported",
                            !.error = code]
<1>1. pc[p] # "idle" /\ Flush(p, new) /\ End(p, FALSE) /\ UNCHANGED file
  BY DEF CommitUnsupported
<1>2. r \in Rows /\ Bare(r)
  BY <1>1, Standing
<1>3. t \in Suffixes /\ code \in Errors /\ code # NoError
  BY TypeOfTyped DEF Errors, NoError
<1> HIDE DEF t, code
<1>4. /\ new \in Rows /\ new.path = r.path /\ new.text = r.text
      /\ new.parse = "unsupported" /\ new.error = code
  BY <1>2, <1>3 DEF Rows
<1> HIDE DEF new
<1>5. Bare(new) /\ Consistent(new) /\ Left(new, mode[p])
  BY <1>2, <1>3, <1>4 DEF Bare, Consistent, Indexable, Left
<1> QED BY <1>1, <1>4, <1>5, FlushEnd

LEMMA CommitFailureKeeps ==
    ASSUME Inv, NEW p \in Passes, NEW e \in Raised, CommitFailure(p, e)
    PROVE  Inv'
<1> DEFINE r == loaded[p]
           code == DownloadError(e)
           failed == [r EXCEPT !.download = "failed", !.downloadError = code]
           lost == [failed EXCEPT !.parse = "failed", !.error = code]
           new == IF KeepsParse(p) THEN failed ELSE lost
<1>1. pc[p] # "idle" /\ Flush(p, new) /\ End(p, FALSE) /\ UNCHANGED file
  BY DEF CommitFailure
<1>2. r \in Rows /\ Bare(r) /\ (alone[p] /\ ~muddled => Consistent(r))
  BY <1>1, Standing
<1>3. code \in DownloadErrors /\ code \in Errors /\ code # NoError
  BY DownloadErrorTyped DEF Errors
<1> HIDE DEF code
<1>4. CASE KeepsParse(p)
  <2>1. /\ failed \in Rows /\ failed.path = r.path /\ failed.text = r.text
        /\ failed.parse = "parsed" /\ failed.download = "failed"
        /\ failed.hash = r.hash /\ failed.parser = r.parser /\ r.parse = "parsed"
    BY <1>2, <1>3, <1>4 DEF Rows, KeepsParse
  <2>2. new = failed
    BY <1>4
  <2> HIDE DEF failed, new
  <2>3. Bare(new) /\ Left(new, mode[p]) /\ (alone[p] /\ ~muddled => Consistent(new))
    BY <1>2, <2>1, <2>2 DEF Bare, Consistent, Indexable, Left
  <2> QED BY <1>1, <2>1, <2>2, <2>3, FlushEnd
<1>5. CASE ~KeepsParse(p)
  <2>1. /\ lost \in Rows /\ lost.path = r.path /\ lost.text = r.text
        /\ lost.parse = "failed" /\ lost.error = code
    BY <1>2, <1>3 DEF Rows
  <2>2. new = lost
    BY <1>5
  <2> HIDE DEF lost, new
  <2>3. Bare(new) /\ Left(new, mode[p]) /\ Consistent(new)
    BY <1>2, <1>3, <2>1, <2>2 DEF Bare, Consistent, Indexable, Left
  <2> QED BY <1>1, <2>1, <2>2, <2>3, FlushEnd
<1> QED BY <1>4, <1>5

(* A failure leaves the text and the path, and a reason.                   *)
LEMMA FailedEnds ==
    ASSUME NEW p \in Passes, NEW r \in Rows, Bare(r),
           NEW status \in {"failed", "unsupported"}, NEW code \in Errors, code # NoError
    PROVE  LET new == MarkFailure(r, status, code)
           IN  /\ new \in Rows /\ new.path = r.path
               /\ Bare(new) /\ Consistent(new) /\ Left(new, mode[p])
<1> DEFINE new == MarkFailure(r, status, code)
<1>1. new \in Rows /\ new.parse = status /\ new.error = code
      /\ new.path = r.path /\ new.text = r.text
  BY MarkFailureTyped
<1> HIDE DEF new
<1>2. Bare(new) /\ Consistent(new) /\ Left(new, mode[p])
  BY <1>1 DEF Bare, Consistent, Indexable, Left
<1> QED BY <1>1, <1>2 DEF new

LEMMA UseUpstreamTextKeeps ==
    ASSUME Inv, NEW p \in Passes, UseUpstreamText(p)
    PROVE  Inv'
<1> DEFINE r == loaded[p]
           named == [r EXCEPT !.parser = "upstream"]
           unchanged == /\ mode[p] # "force"
                        /\ r.parse = "parsed" /\ r.parser = "upstream" /\ ~r.ocr
<1>1. /\ pc[p] = "parse" /\ End(p, TRUE) /\ UNCHANGED file
      /\ r.text \notin {NoText, Blank} /\ r.path = Nowhere
      /\ IF unchanged THEN UNCHANGED row
         ELSE Flush(p, IF r.ocr
                       THEN MarkFailure(named, "failed", "OCR_PROVIDER_UNAVAILABLE")
                       ELSE MarkParsed(named))
  BY DEF UseUpstreamText, HasUpstreamText
<1>2. /\ r \in Rows /\ Bare(r) /\ Redone(p) /\ row \in Rows /\ Bare(row)
      /\ alone[p] => r = row
  BY <1>1, Standing
<1>3. r.text = Upstream /\ r.parse \in {"pending", "parsed", "unsupported", "failed"}
  BY <1>1, <1>2 DEF Bare, Rows
<1>4. alone[p] => mode[p] # "force"
  BY <1>1, <1>2 DEF Redone, Stored, Nowhere
<1>5. CASE unchanged
  <2>1. row' = row
    BY <1>1, <1>5
  <2>2. Bare(row)'
    BY <1>2, <2>1 DEF Bare
  <2>3. alone[p] => Consistent(row') /\ Left(row', mode[p])
    BY <1>2, <1>3, <1>4, <1>5, <2>1 DEF Consistent, Left
  <2> QED BY <1>1, <1>2, <2>1, <2>2, <2>3, EndStep
<1>6. named \in Rows /\ named.path = r.path /\ named.text = Upstream
      /\ named.parser = "upstream"
  BY <1>2, <1>3 DEF Rows
<1>7. Bare(named)
  BY <1>6 DEF Bare
<1> HIDE DEF named
<1>8. CASE ~unchanged /\ r.ocr
  <2> DEFINE code == "OCR_PROVIDER_UNAVAILABLE"
             new == MarkFailure(named, "failed", code)
  <2>1. code \in Errors /\ code # NoError /\ "failed" \in {"failed", "unsupported"}
    BY DEF Errors, NoError
  <2>2. Flush(p, new)
    BY <1>1, <1>8
  <2> HIDE DEF code
  <2>3. new \in Rows /\ new.path = r.path /\ Bare(new) /\ Consistent(new)
        /\ Left(new, mode[p])
    BY <1>6, <1>7, <2>1, FailedEnds
  <2> QED BY <1>1, <2>2, <2>3, FlushEnd
<1>9. CASE ~unchanged /\ ~r.ocr
  <2> DEFINE new == MarkParsed(named)
  <2>1. Flush(p, new)
    BY <1>1, <1>9
  <2>2. /\ new \in Rows /\ new.parse = "parsed" /\ new.path = r.path
        /\ new.text = Upstream /\ new.parser = "upstream"
    BY <1>6, MarkParsedTyped
  <2> HIDE DEF new
  <2>3. Bare(new) /\ Consistent(new) /\ (alone[p] => Left(new, mode[p]))
    BY <1>4, <2>2 DEF Bare, Consistent, Left
  <2> QED BY <1>1, <2>1, <2>2, <2>3, FlushEnd
<1> QED BY <1>5, <1>8, <1>9

LEMMA RefuseUnreadKeeps ==
    ASSUME Inv, NEW p \in Passes, RefuseUnread(p)
    PROVE  Inv'
<1> DEFINE r == loaded[p]
<1>1. PICK status \in {"failed", "unsupported"}, code \in Errors \ {NoError} :
         Flush(p, MarkFailure(r, status, code))
  <2>1. {"FILE_TYPE_UNKNOWN", "UNSUPPORTED_FILE_TYPE", "ATTACHMENT_NOT_DOWNLOADED",
         "ATTACHMENT_FILE_MISSING"} \subseteq Errors \ {NoError}
    BY DEF Errors, NoError
  <2>2. \/ Flush(p, MarkFailure(r, "failed", "FILE_TYPE_UNKNOWN"))
        \/ Flush(p, MarkFailure(r, "unsupported", "UNSUPPORTED_FILE_TYPE"))
        \/ Flush(p, MarkFailure(r, "failed", "ATTACHMENT_NOT_DOWNLOADED"))
        \/ Flush(p, MarkFailure(r, "failed", "ATTACHMENT_FILE_MISSING"))
    BY DEF RefuseUnread
  <2> QED BY <2>1, <2>2
<1>2. pc[p] # "idle" /\ End(p, FALSE) /\ UNCHANGED file
  BY DEF RefuseUnread
<1>3. r \in Rows /\ Bare(r)
  BY <1>2, Standing
<1> DEFINE new == MarkFailure(r, status, code)
<1>4. new \in Rows /\ new.path = r.path /\ Bare(new) /\ Consistent(new)
      /\ Left(new, mode[p])
  BY <1>1, <1>3, FailedEnds
<1> QED BY <1>1, <1>2, <1>4, FlushEnd

LEMMA ReadFileKeeps ==
    ASSUME Inv, NEW p \in Passes, ReadFile(p)
    PROVE  Inv'
<1> DEFINE c == file[loaded[p].path]
<1>1. TypeOK /\ Solitude
  BY DEF Inv
<1>2. /\ pc[p] = "parse" /\ loaded[p].path # Nowhere /\ c # NoBytes
      /\ bytes' = [bytes EXCEPT ![p] = c] /\ GoTo(p, "read")
      /\ UNCHANGED <<row, file, loaded, valid, passVars, muddled, outcome>>
  BY DEF ReadFile
<1>3. /\ row \in Rows /\ loaded[p] \in Rows /\ Bare(row) /\ Bare(loaded[p])
      /\ AtWork(p) /\ Redone(p) /\ (alone[p] => loaded[p] = row)
  BY <1>2, Standing
<1>4. c \in Contents
  BY <1>1, <1>2, <1>3 DEF TypeOK, Rows
<1>5. /\ pc'[p] = "read" /\ bytes'[p] = c
      /\ \A q \in Passes \ {p} : pc'[q] = pc[q] /\ bytes'[q] = bytes[q]
  BY <1>1, <1>2 DEF GoTo, TypeOK
<1>6. TypeOK'
  BY <1>1, <1>2, <1>4 DEF TypeOK, GoTo, passVars
<1>7. AtWork(p)' /\ Redone(p)' /\ Bare(row)'
  BY <1>2, <1>3, <1>4, <1>5 DEF AtWork, Redone, Bare, passVars
<1> QED BY <1>2, <1>3, <1>5, <1>6, <1>7, MoveStep

LEMMA KeepCachedKeeps ==
    ASSUME Inv, NEW p \in Passes, KeepCached(p)
    PROVE  Inv'
<1>1. /\ pc[p] = "read" /\ mode[p] # "force" /\ loaded[p].parse = "parsed"
      /\ row' = row /\ End(p, FALSE) /\ UNCHANGED file
  BY DEF KeepCached, UsesCache, ParsedCacheValid
<1>2. /\ row \in Rows /\ Bare(row)
      /\ alone[p] => loaded[p] = row
      /\ alone[p] /\ ~muddled => Consistent(loaded[p])
  BY <1>1, Standing
<1>3. Bare(row)' /\ (alone[p] /\ ~muddled => Consistent(row'))
      /\ (alone[p] => Left(row', mode[p]))
  BY <1>1, <1>2 DEF Bare, Left
<1> QED BY <1>1, <1>2, <1>3, EndStep

LEMMA RefuseLegacyKeeps ==
    ASSUME Inv, NEW p \in Passes, RefuseLegacy(p)
    PROVE  Inv'
<1> DEFINE r == loaded[p]
           c == bytes[p]
           cleared == [r EXCEPT !.hash = c, !.suffix = "unknown", !.parser = "none",
                                !.text = NoText, !.ocr = FALSE]
           code == "UNSUPPORTED_LEGACY_FORMAT"
           new == MarkFailure(cleared, "unsupported", code)
<1>1. pc[p] = "read" /\ Flush(p, new) /\ End(p, TRUE) /\ UNCHANGED file
  BY DEF RefuseLegacy
<1>2. r \in Rows /\ c \in Contents
  BY <1>1, Standing DEF AtWork
<1>3. code \in Errors /\ code # NoError /\ "unsupported" \in {"failed", "unsupported"}
      /\ "unknown" \in Suffixes
  BY DEF Errors, NoError, Suffixes
<1>4. cleared \in Rows /\ cleared.path = r.path /\ Bare(cleared)
  BY <1>2, <1>3 DEF Rows, Bare
<1> HIDE DEF cleared, code
<1>5. new \in Rows /\ new.path = r.path /\ Bare(new) /\ Consistent(new)
      /\ Left(new, mode[p])
  BY <1>3, <1>4, FailedEnds
<1> QED BY <1>1, <1>5, FlushEnd

LEMMA ParseKeeps ==
    ASSUME Inv, NEW p \in Passes, Parse(p)
    PROVE  Inv'
<1> DEFINE r == loaded[p]
           c == bytes[p]
<1>1. pc[p] = "read" /\ End(p, TRUE) /\ UNCHANGED file
  BY DEF Parse
<1>2. PICK new \in Outcomes(r, c) : Flush(p, new)
  BY DEF Parse
<1>3. /\ r \in Rows /\ c \in Contents /\ r.path # Nowhere /\ Redone(p)
  BY <1>1, Standing DEF AtWork
<1>4. Parsed(r, c, new)
  BY <1>2, <1>3, OutcomesTyped
<1>5. c # NoBytes
  BY <1>3, ContentAssumption DEF NoBytes
<1>6. alone[p] /\ mode[p] = "force" => file[r.path] = c
  BY <1>1, <1>3 DEF Redone
<1>7. new \in Rows /\ new.path = r.path /\ Bare(new)
  BY <1>3, <1>4 DEF Parsed, Bare
<1>8. Consistent(new)
  BY <1>4 DEF Parsed, Consistent, Indexable
<1>9. alone[p] => Left(new, mode[p])
  BY <1>3, <1>4, <1>5, <1>6 DEF Parsed, Left
<1> QED BY <1>1, <1>2, <1>7, <1>8, <1>9, FlushEnd

LEMMA CrashKeeps ==
    ASSUME Inv, NEW p \in Passes, Crash(p)
    PROVE  Inv'
<1>1. TypeOK /\ Solitude /\ Bare(row) /\ ParsedTextIsOfItsBytes
      /\ \A q \in Passes : AtWork(q) /\ Redone(q)
  BY DEF Inv
<1>2. Fresh("unknown") \in Rows /\ Bare(Fresh("unknown"))
      /\ Fresh("unknown").path = Nowhere
  BY FreshTyped DEF Suffixes, Bare
<1>3. /\ pc[p] # "idle" /\ UNCHANGED <<row, file, muddled, outcome, started>>
      /\ pc'[p] = "idle" /\ loaded'[p] = Fresh("unknown") /\ ~alone'[p]
      /\ \A q \in Passes \ {p} :
            /\ pc'[q] = pc[q] /\ loaded'[q] = loaded[q] /\ bytes'[q] = bytes[q]
            /\ mode'[q] = mode[q] /\ alone'[q] = alone[q]
  BY <1>1 DEF Crash, Forget, GoTo, TypeOK
<1>4. TypeOK'
  <2>1. mode' \in [Passes -> Modes] /\ loaded' \in [Passes -> Rows]
    BY <1>1, <1>2 DEF Crash, Forget, TypeOK, Modes
  <2>2. /\ pc' \in [Passes -> {"idle", "check", "fetch", "saved", "parse", "read"}]
        /\ valid' \in [Passes -> BOOLEAN] /\ alone' \in [Passes -> BOOLEAN]
        /\ bytes' \in [Passes -> Contents \cup {NoBytes}]
    BY <1>1 DEF Crash, Forget, GoTo, TypeOK
  <2> QED BY <1>1, <1>3, <2>1, <2>2 DEF TypeOK
<1>5. Solitude'
  BY <1>1, <1>3 DEF Solitude
<1>6. \A q \in Passes : AtWork(q)' /\ Redone(q)'
  BY <1>1, <1>2, <1>3 DEF AtWork, Redone, Bare
<1>7. ParsedTextIsOfItsBytes' /\ PassLeavesOutcome' /\ Bare(row)'
  BY <1>1, <1>3 DEF ParsedTextIsOfItsBytes, PassLeavesOutcome, Solitude, Bare
<1> QED BY <1>4, <1>5, <1>6, <1>7 DEF Inv

LEMMA InvStep == Inv /\ [Next]_vars => Inv'
<1> SUFFICES ASSUME Inv, [Next]_vars PROVE Inv'
  OBVIOUS
<1>1. CASE Next
  <2>1. PICK p \in Passes :
           \/ Start(p) \/ CheckLocal(p) \/ CommitDownload(p)
           \/ \E c \in Contents : SaveFile(p, c) \/ CommitUnsupported(p, c)
           \/ \E e \in Raised : CommitFailure(p, e)
           \/ UseUpstreamText(p) \/ RefuseUnread(p) \/ ReadFile(p)
           \/ KeepCached(p) \/ RefuseLegacy(p) \/ Parse(p) \/ Crash(p)
    BY <1>1 DEF Next
  <2> QED BY <2>1, StartKeeps, CheckLocalKeeps, CommitDownloadKeeps, SaveFileKeeps,
             CommitUnsupportedKeeps, CommitFailureKeeps, UseUpstreamTextKeeps,
             RefuseUnreadKeeps, ReadFileKeeps, KeepCachedKeeps, RefuseLegacyKeeps,
             ParseKeeps, CrashKeeps
<1>2. CASE UNCHANGED vars
  BY <1>2 DEF vars, passVars, Inv, TypeOK, Bare, Solitude, AtWork, Redone,
              ParsedTextIsOfItsBytes, PassLeavesOutcome, HasValidBytes
<1> QED BY <1>1, <1>2

LEMMA Invariance == Spec => []Inv
BY InvInit, InvStep, PTL DEF Spec

-----------------------------------------------------------------------------
(* The theorems.                                                           *)

(* Rows, files and passes keep their types: a download or a parser writes  *)
(* only outcomes the attachments table has.                                *)
THEOREM Typing == Spec => []TypeOK
BY Invariance, PTL DEF Inv

(* The text that gets indexed is that of the bytes whose hash the row has, *)
(* or the upstream text, wherever passes die, as long as they did not      *)
(* overlap, and again once a forced pass has redone it                     *)
(* (AttachmentDownloadService.download, parse_attachment).                 *)
THEOREM TextIsOfItsBytes == Spec => []ParsedTextIsOfItsBytes
BY Invariance, PTL DEF Inv

(* A pass that ran alone leaves text or a reason, and a forced one the     *)
(* text of the file (process_one).                                         *)
THEOREM OutcomeIsLeft == Spec => []PassLeavesOutcome
BY Invariance, PTL DEF Inv

=============================================================================

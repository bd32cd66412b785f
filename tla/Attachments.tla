---------------------------- MODULE Attachments ----------------------------
(***************************************************************************)
(* Downloading and parsing the attachments of documents.                   *)
(*                                                                         *)
(* The crawl leaves a row for each attachment; scripts download its bytes  *)
(* to a file, extract its text and write the outcome to the row.  Such a   *)
(* pass loads all of its rows first and then works on one after the other. *)
(* Nothing keeps two passes apart, and a pass can die anywhere: the file   *)
(* and the row are not changed together.  Modelled is one row.             *)
(***************************************************************************)
EXTENDS Naturals, FiniteSets

CONSTANTS
    Passes,          \* processes running a pass
    Contents,        \* bytes the attachment's URL has had
    Kind,            \* what detection and the parsers make of them
    Raised,          \* what fetching its URL may raise
    OcrOutcomes,     \* what may come of asking for text recognition
    MaxPasses        \* bound: passes started

Kinds == {"text", "scan", "blank", "broken", "image", "legacy", "other"}
NoError == "none"

(* A name that the trusted resolver does not resolve is an unsafe URL when *)
(* the URL is validated and a failed connection when the socket is opened. *)
ResolverErrors == {"unsafe", "transport"}

(* What the fetcher of the attachments raises; "refused" stands for the    *)
(* 4xx statuses but 429, "other" for what the storage raises, too.         *)
FetchErrors == ResolverErrors \cup
    {"timeout", "too_large", "redirects", "limited", "unavailable", "refused", "other"}

(* _download_error.                                                        *)
DownloadError(e) ==
    CASE e = "timeout" -> "DOWNLOAD_TIMEOUT"
      [] e = "unsafe" -> "DOWNLOAD_SSRF_BLOCKED"
      [] e = "too_large" -> "DOWNLOAD_TOO_LARGE"
      [] e = "redirects" -> "DOWNLOAD_REDIRECT_LIMIT"
      [] e = "transport" -> "DOWNLOAD_TRANSPORT_ERROR"
      [] e = "limited" -> "DOWNLOAD_HTTP_429"
      [] e = "unavailable" -> "DOWNLOAD_HTTP_5XX"
      [] e = "refused" -> "DOWNLOAD_HTTP_4XX"
      [] e = "other" -> "DOWNLOAD_ERROR"
DownloadErrors == {DownloadError(e) : e \in Raised}

ASSUME ContentAssumption ==
    Contents \cap {"no_bytes", "no_text", "blank", "upstream"} = {}
ASSUME KindAssumption == Kind \in [Contents -> Kinds]
ASSUME ErrorAssumption == Raised \subseteq FetchErrors
ASSUME OcrAssumption ==
    OcrOutcomes \subseteq {"unavailable", "failed", "empty", "text"}
ASSUME PassBound == MaxPasses \in Nat

VARIABLES
    row,      \* the attachment's row
    file,     \* the bytes in each file it may have
    started,  \* passes started
    (* each pass *)
    pc,       \* what it does next
    mode,     \* "process", "force" or "audit"
    loaded,   \* its session's copy of the row, as loaded or last committed
    valid,    \* has_valid_local_bytes
    bytes,    \* the bytes it holds
    (* history variables: read by the properties only *)
    alone,    \* TRUE: no other pass has been running since it started
    muddled,  \* TRUE: passes have overlapped since the text was last redone
    outcome   \* the mode of the pass that ended last, if it ran alone

passVars == <<started, mode, alone>>
vars == <<row, file, pc, loaded, valid, bytes, passVars, muddled, outcome>>

-----------------------------------------------------------------------------
(* Rows and files.                                                         *)

Modes == {"process", "force", "audit"}
NoBytes == "no_bytes"
NoText == "no_text"
Blank == "blank"
Upstream == "upstream"    \* the text the collecting service sent along
Nowhere == "nowhere"
Stored == {"supported", "image"}
Suffixes == Stored \cup {"unsupported", "unknown"}
Places == {"crawl"} \cup Stored
Errors == {NoError, "UNSUPPORTED_FILE_TYPE", "UNSUPPORTED_LEGACY_FORMAT",
           "FILE_TYPE_UNKNOWN",
           "ATTACHMENT_NOT_DOWNLOADED", "ATTACHMENT_FILE_MISSING", "PARSE_ERROR",
           "NO_TEXT_EXTRACTED", "OCR_PROVIDER_UNAVAILABLE", "OCR_FAILED"}
          \cup DownloadErrors

Rows == [download : {"pending", "completed", "failed"},
         downloadError : {NoError} \cup DownloadErrors,
         parse : {"pending", "parsed", "unsupported", "failed"},
         error : Errors,
         hash : Contents \cup {NoBytes},       \* file_hash
         path : Places \cup {Nowhere},         \* local_path
         suffix : Suffixes,                    \* file_extension, mime_type
         name : Suffixes,                      \* the suffix of its name or URL
         text : Contents \cup {NoText, Blank, Upstream},
         parser : {"none", "upstream", "parser", "ocr"},
         ocr : BOOLEAN]                        \* requires_ocr

(* What detect_attachment_type makes of a response.                        *)
TypeOf(c) == CASE Kind[c] \in {"text", "scan", "blank", "broken"} -> "supported"
               [] Kind[c] = "image" -> "image"
               [] Kind[c] = "legacy" -> "unknown"
               [] Kind[c] = "other" -> "unsupported"

(* _filename: the stored extension, the name's or the URL's, the file's.   *)
SuffixOf(r) == IF r.suffix # "unknown" THEN r.suffix
               ELSE IF r.name # "unknown" THEN r.name
               ELSE IF r.path \in Stored THEN r.path ELSE "unknown"

TypeOK ==
    /\ row \in Rows
    /\ file \in [Places -> Contents \cup {NoBytes}]
    /\ started \in 0 .. MaxPasses
    /\ pc \in [Passes -> {"idle", "check", "fetch", "saved", "parse", "read"}]
    /\ mode \in [Passes -> Modes]
    /\ loaded \in [Passes -> Rows]
    /\ valid \in [Passes -> BOOLEAN]
    /\ bytes \in [Passes -> Contents \cup {NoBytes}]
    /\ alone \in [Passes -> BOOLEAN]
    /\ muddled \in BOOLEAN
    /\ outcome \in Modes \cup {"none"}

(* A row as the crawl has added it, before anything was stored.            *)
Fresh(name) ==
    [download |-> "pending", downloadError |-> NoError, parse |-> "pending",
     error |-> NoError, hash |-> NoBytes, path |-> Nowhere, suffix |-> "unknown",
     name |-> name, text |-> NoText, parser |-> "none", ocr |-> FALSE]

(* The collecting service names a URL and may send the text along.         *)
Collected(name, text, ocr) ==
    [Fresh(name) EXCEPT !.download = IF text = NoText THEN "pending" ELSE "completed",
                        !.text = text, !.ocr = ocr]

(* The generic crawl downloads at once, to a file named after the URL.     *)
Crawled(name, c) ==
    [Fresh(name) EXCEPT !.download = "completed", !.hash = c, !.path = "crawl",
                        !.suffix = name]
Missed(name) == [Fresh(name) EXCEPT !.download = "failed", !.suffix = name]

Idle ==
    /\ pc = [p \in Passes |-> "idle"] /\ mode = [p \in Passes |-> "process"]
    /\ loaded = [p \in Passes |-> Fresh("unknown")]
    /\ valid = [p \in Passes |-> FALSE] /\ bytes = [p \in Passes |-> NoBytes]
    /\ alone = [p \in Passes |-> FALSE]

(* Two URLs of a document that end alike share the crawl's file: it may    *)
(* hold what the other one had.                                            *)
Init ==
    /\ \E name \in Suffixes :
          \/ /\ \/ \E text \in {NoText, Upstream}, ocr \in BOOLEAN :
                      row = Collected(name, text, ocr)
                \/ row = Missed(name)
             /\ file = [f \in Places |-> NoBytes]
          \/ /\ \E c \in Contents : row = Crawled(name, c)
             /\ \E c \in Contents \cup {NoBytes} :
                   file = [f \in Places |-> IF f = "crawl" THEN c ELSE NoBytes]
    /\ started = 0 /\ muddled = FALSE /\ outcome = "none"
    /\ Idle

-----------------------------------------------------------------------------
(* Passes.                                                                 *)

Running == {p \in Passes : pc[p] # "idle"}

GoTo(p, s) == pc' = [pc EXCEPT ![p] = s]

(* An ORM update writes the columns that differ from those loaded.         *)
Flush(p, new) ==
    row' = [f \in DOMAIN row |-> IF new[f] = loaded[p][f] THEN row[f] ELSE new[f]]

(* The scripts list rows and load them: those named on the command line,   *)
(* or (--eligible-only) some of those; the audit lists pending ones.       *)
Start(p) ==
    /\ pc[p] = "idle" /\ started < MaxPasses
    /\ \E m \in Modes :
          /\ m = "audit" => row.parse = "pending"
          /\ mode' = [mode EXCEPT ![p] = m]
          /\ GoTo(p, IF m = "audit" THEN "parse" ELSE "check")
    /\ loaded' = [loaded EXCEPT ![p] = row]
    /\ started' = started + 1
    /\ alone' = [q \in Passes |-> IF q = p THEN Running = {} ELSE FALSE]
    /\ muddled' = (muddled \/ Running # {})
    /\ outcome' = "none"
    /\ UNCHANGED <<row, file, valid, bytes>>

(* It keeps nothing of this row when it is done with it, or dies.          *)
Forget(p) ==
    /\ GoTo(p, "idle")
    /\ mode' = [mode EXCEPT ![p] = "process"]
    /\ loaded' = [loaded EXCEPT ![p] = Fresh("unknown")]
    /\ valid' = [valid EXCEPT ![p] = FALSE]
    /\ bytes' = [bytes EXCEPT ![p] = NoBytes]
    /\ alone' = [alone EXCEPT ![p] = FALSE]
    /\ UNCHANGED started

End(p, redone) ==
    /\ outcome' = IF alone[p] THEN mode[p] ELSE "none"
    /\ muddled' = (muddled /\ ~(redone /\ alone[p] /\ mode[p] = "force"))
    /\ Forget(p)

Crash(p) ==
    /\ pc[p] # "idle"
    /\ Forget(p)
    /\ UNCHANGED <<row, file, muddled, outcome>>

-----------------------------------------------------------------------------
(* AttachmentDownloadService.download.                                     *)

HasValidBytes(r) ==
    r.path # Nowhere /\ r.hash # NoBytes /\ file[r.path] = r.hash

CacheHit(p) ==
    /\ mode[p] # "force" /\ HasValidBytes(loaded[p])
    /\ loaded[p].download = "completed" /\ loaded[p].downloadError = NoError

CheckLocal(p) ==
    /\ pc[p] = "check"
    /\ valid' = [valid EXCEPT ![p] = HasValidBytes(loaded[p]) /\ ~CacheHit(p)]
    /\ GoTo(p, IF CacheHit(p) THEN "parse" ELSE "fetch")
    /\ UNCHANGED <<row, file, loaded, bytes, passVars, muddled, outcome>>

(* FileStorage.save renames a complete file over the old one ...           *)
SaveFile(p, c) ==
    /\ pc[p] = "fetch" /\ TypeOf(c) \in Stored
    /\ file' = [file EXCEPT ![TypeOf(c)] = c]
    /\ bytes' = [bytes EXCEPT ![p] = c]
    /\ valid' = [valid EXCEPT ![p] = FALSE]
    /\ GoTo(p, "saved")
    /\ UNCHANGED <<row, loaded, passVars, muddled, outcome>>

(* Fault of Saved: the parse status is left as it was.                     *)
SavedUnmarked(r, c) ==
    [r EXCEPT !.download = "completed", !.downloadError = NoError, !.hash = c,
              !.suffix = TypeOf(c), !.path = TypeOf(c), !.error = NoError]

Saved(r, c) ==
    [r EXCEPT !.download = "completed", !.downloadError = NoError, !.hash = c,
              !.suffix = TypeOf(c), !.path = TypeOf(c), !.parse = "pending",
              !.error = NoError]

(* ... and the row that tells of it is committed afterwards.               *)
CommitDownload(p) ==
    /\ pc[p] = "saved"
    /\ Flush(p, Saved(loaded[p], bytes[p]))
    /\ loaded' = [loaded EXCEPT ![p] = Saved(@, bytes[p])]
    /\ GoTo(p, "parse")
    /\ bytes' = [bytes EXCEPT ![p] = NoBytes]
    /\ UNCHANGED <<file, valid, passVars, muddled, outcome>>

(* Bytes no parser reads are not stored: the row keeps its old path.       *)
CommitUnsupported(p, c) ==
    /\ pc[p] = "fetch" /\ TypeOf(c) \notin Stored
    /\ Flush(p, [loaded[p] EXCEPT
                   !.download = "completed", !.downloadError = NoError, !.hash = c,
                   !.suffix = TypeOf(c), !.parse = "unsupported",
                   !.error = "UNSUPPORTED_FILE_TYPE"])
    /\ End(p, FALSE)
    /\ UNCHANGED file

(* Fault of KeepsParse: whatever was made of valid bytes is kept.          *)
KeepsAnyParse(p) == valid[p]

KeepsParse(p) == valid[p] /\ loaded[p].parse = "parsed"

CommitFailure(p, e) ==
    /\ pc[p] = "fetch"
    /\ LET code == DownloadError(e)
           failed == [loaded[p] EXCEPT !.download = "failed", !.downloadError = code]
       IN  Flush(p, IF KeepsParse(p) THEN failed
                    ELSE [failed EXCEPT !.parse = "failed", !.error = code])
    /\ End(p, FALSE)
    /\ UNCHANGED file

-----------------------------------------------------------------------------
(* ParsingService.parse_attachment.                                        *)

(* _mark_failure.                                                          *)
MarkFailure(r, status, code) == [r EXCEPT !.parse = status, !.error = code]
MarkParsed(r) == [r EXCEPT !.parse = "parsed", !.error = NoError, !.ocr = FALSE]

HasUpstreamText(r) == r.text \notin {NoText, Blank} /\ r.path = Nowhere

(* Text that came with the article is used while there are no bytes.       *)
UseUpstreamText(p) ==
    LET r == loaded[p]
        named == [r EXCEPT !.parser = "upstream"]
    IN  /\ pc[p] = "parse" /\ HasUpstreamText(r)
        /\ IF /\ mode[p] # "force"
              /\ r.parse = "parsed" /\ r.parser = "upstream" /\ ~r.ocr
           THEN UNCHANGED row
           ELSE Flush(p, IF r.ocr
                         THEN MarkFailure(named, "failed", "OCR_PROVIDER_UNAVAILABLE")
                         ELSE MarkParsed(named))
        /\ End(p, TRUE)
        /\ UNCHANGED file

(* No type, no parser for it, no bytes, or no file.                        *)
RefuseUnread(p) ==
    LET r == loaded[p]
        s == SuffixOf(r)
    IN  /\ pc[p] = "parse" /\ ~HasUpstreamText(r)
        /\ \/ s = "unknown" /\ Flush(p, MarkFailure(r, "failed", "FILE_TYPE_UNKNOWN"))
           \/ /\ s = "unsupported"
              /\ Flush(p, MarkFailure(r, "unsupported", "UNSUPPORTED_FILE_TYPE"))
           \/ /\ s \in Stored /\ r.path = Nowhere
              /\ Flush(p, MarkFailure(r, "failed", "ATTACHMENT_NOT_DOWNLOADED"))
           \/ /\ s \in Stored /\ r.path # Nowhere
              /\ file[r.path] = NoBytes
              /\ Flush(p, MarkFailure(r, "failed", "ATTACHMENT_FILE_MISSING"))
        /\ End(p, FALSE)
        /\ UNCHANGED file

ReadFile(p) ==
    LET r == loaded[p]
    IN  /\ pc[p] = "parse" /\ ~HasUpstreamText(r)
        /\ SuffixOf(r) \in Stored /\ r.path # Nowhere
        /\ file[r.path] # NoBytes
        /\ bytes' = [bytes EXCEPT ![p] = file[r.path]]
        /\ GoTo(p, "read")
        /\ UNCHANGED <<row, file, loaded, valid, passVars, muddled, outcome>>

(* _parsed_cache_valid, with the one version of each parser.               *)
ParsedCacheValid(r, c) ==
    /\ r.parse = "parsed" /\ r.text # NoText /\ r.hash = c
    /\ r.parser = "ocr" \/ (SuffixOf(r) = "supported" /\ r.parser = "parser")

UsesCache(p) == mode[p] # "force" /\ ParsedCacheValid(loaded[p], bytes[p])

KeepCached(p) ==
    /\ pc[p] = "read" /\ Kind[bytes[p]] # "legacy" /\ UsesCache(p)
    /\ End(p, FALSE)
    /\ UNCHANGED <<row, file>>

RefuseLegacy(p) ==
    /\ pc[p] = "read" /\ Kind[bytes[p]] = "legacy"
    /\ Flush(p, MarkFailure([loaded[p] EXCEPT !.hash = bytes[p], !.suffix = "unknown",
                                              !.parser = "none", !.text = NoText,
                                              !.ocr = FALSE],
                            "unsupported", "UNSUPPORTED_LEGACY_FORMAT"))
    /\ End(p, TRUE)
    /\ UNCHANGED file

(* _ocr_attachment: r is the row so far, c the bytes.                      *)
Recognized(r, c, result) ==
    LET asked == [r EXCEPT !.parser = "ocr", !.ocr = TRUE]
    IN  CASE result = "unavailable" ->
                MarkFailure(asked, "failed", "OCR_PROVIDER_UNAVAILABLE")
          [] result = "failed" -> MarkFailure(asked, "failed", "OCR_FAILED")
          [] result = "empty" ->
                MarkFailure([asked EXCEPT !.text = NoText], "failed", "OCR_FAILED")
          [] result = "text" -> MarkParsed([asked EXCEPT !.text = c])

(* The rows a parser may make of r and the bytes c.                        *)
Outcomes(r, c) ==
    LET begun == [r EXCEPT !.hash = c]
        parsed(text) == [begun EXCEPT !.parser = "parser", !.text = text, !.ocr = FALSE]
        recognized(q) == {Recognized(q, c, result) : result \in OcrOutcomes}
        misread == {MarkFailure(begun, "failed", "PARSE_ERROR")}
    IN  CASE SuffixOf(r) = "image" -> recognized(begun)
          [] Kind[c] = "scan" -> recognized(parsed(Blank))
          [] Kind[c] = "text" ->
                {MarkParsed(parsed(c))} \cup (IF r.path = "crawl" THEN misread ELSE {})
          [] Kind[c] = "blank" ->
                {MarkFailure(parsed(Blank), "failed", "NO_TEXT_EXTRACTED")}
          [] OTHER -> misread

Parse(p) ==
    /\ pc[p] = "read" /\ Kind[bytes[p]] # "legacy" /\ ~UsesCache(p)
    /\ \E new \in Outcomes(loaded[p], bytes[p]) : Flush(p, new)
    /\ End(p, TRUE)
    /\ UNCHANGED file

-----------------------------------------------------------------------------
Next == \E p \in Passes :
    \/ Start(p) \/ CheckLocal(p) \/ CommitDownload(p)
    \/ \E c \in Contents : SaveFile(p, c) \/ CommitUnsupported(p, c)
    \/ \E e \in Raised : CommitFailure(p, e)
    \/ UseUpstreamText(p) \/ RefuseUnread(p) \/ ReadFile(p)
    \/ KeepCached(p) \/ RefuseLegacy(p) \/ Parse(p) \/ Crash(p)

Spec == Init /\ [][Next]_vars

-----------------------------------------------------------------------------
(* Properties.                                                             *)

(* list_indexable_attachments.                                             *)
Indexable(r) == r.parse = "parsed" /\ r.text \notin {NoText, Blank}

(* The text that gets indexed is that of the bytes whose hash the row has, *)
(* or the upstream text: whatever passes ran, and died between the file    *)
(* and the row, as long as they did not overlap, and again as soon as a    *)
(* forced pass has redone it alone (download, parse_attachment).           *)
ParsedTextIsOfItsBytes ==
    Indexable(row) /\ ~muddled =>
        row.text = IF row.parser = "upstream" THEN Upstream ELSE row.hash

(* ParsingService persists a terminal outcome before raising, and so does  *)
(* the download: a pass that ran alone leaves no row pending and none      *)
(* without text or a reason; a forced one that downloaded leaves the text  *)
(* of the file, whatever passes that overlapped before had left behind     *)
(* (process_one, audit_pending_attachments).                               *)
PassLeavesOutcome ==
    outcome # "none" =>
        /\ row.parse # "pending"
        /\ row.parse # "parsed" => row.error # NoError
        /\ outcome = "force" /\ row.download = "completed" /\ row.parse = "parsed"
              => row.text = row.hash /\ HasValidBytes(row) /\ row.error = NoError

=============================================================================

----------------------------- MODULE ColumnCrawl ----------------------------
(***************************************************************************)
(* One crawl of a source column, from the first request to the rows of the *)
(* task: the local provider walks the list pages of the site, falls back   *)
(* to an API that the page names, fetches the articles it has found and    *)
(* reports a batch; the Coze provider receives a batch from a workflow.    *)
(* The service saves the articles of the batch and records its failures.   *)
(*                                                                         *)
(* The site answers as it likes: every response is a choice.  Claiming,    *)
(* cancelling and recovering the task is the subject of CrawlTask; nothing *)
(* else writes the task here.                                              *)
(***************************************************************************)
EXTENDS Integers, Sequences, FiniteSets

CONSTANTS
    Articles,      \* detail pages of the site
    Endpoints,     \* API addresses of the site
    LastPage,      \* bound: the largest number of a list page
    MaxPages,      \* crawl_tasks.max_pages
    MaxArticles,   \* bound: the largest crawl_tasks.max_articles
    StopAfter,     \* stop_after_no_new_pages
    ApiPages,      \* api_max_pages
    MaxAttempts,   \* attempts of a fetch
    MaxRedirects,  \* crawler_max_redirects
    MaxRetries,    \* retries of a call to Coze
    MaxHints       \* API addresses that are tried

ASSUME LimitsAssumption ==
    /\ {MaxPages, MaxArticles, StopAfter, ApiPages, MaxAttempts} \subseteq Nat \ {0}
    /\ {LastPage, MaxRedirects, MaxRetries, MaxHints} \subseteq Nat

VARIABLES
    step,        \* what the crawl does next
    job,         \* provider, adapter and max_articles of the task
    fetch,       \* the fetch in progress
    scan,        \* local variables of the discovery
    candidates,  \* state.candidates
    seen,        \* seen_details
    failures,    \* state.failures, then failed_urls of the batch
    articles,    \* articles of the batch
    claim,       \* what else the batch says
    next,        \* index of the candidate or article in hand
    task         \* the task, its failure rows and the documents of its lineage

discoveryVars == <<scan, candidates, seen>>
batchVars == <<failures, articles, claim>>
columnVars == <<step, job, fetch, discoveryVars, batchVars, next, task>>

-----------------------------------------------------------------------------
(* URLs.  List pages are numbered; the column's own URL has no number.     *)
(* APIs may belong to any site.                                            *)

Column == <<"list", 0>>
Foreign == <<"foreign", 0>>     \* a page of another site
Malformed == <<"malformed", 0>>
None == <<"none", 0>>
ListUrls == {"list"} \X (0 .. LastPage)

(* _replace_query appends the parameter that normalize_url sorts.          *)
Generated == {"generated"} \X (0 .. LastPage)
ArticleUrls == {"article"} \X Articles
ApiUrls == {"api"} \X Endpoints
PageUrls == ListUrls \cup {Foreign}
Fetchable == ListUrls \cup Generated \cup ArticleUrls \cup ApiUrls \cup {Foreign}

normalize_url(u) == IF u[1] = "generated" THEN <<"list", u[2]>> ELSE u
SameSite(u) == u # Foreign

(* _current_page_number; -1 when there is none.                            *)
PageNumber(u) == IF u[1] \in {"list", "generated"} /\ u[2] > 0 THEN u[2] ELSE -1

-----------------------------------------------------------------------------
(* State.                                                                  *)

Jobs ==
    [provider : {"local"}, adapter : {"generic", "govcn"}, limit : 1 .. MaxArticles]
    \cup [provider : {"coze"}, adapter : {"none"}, limit : {MaxArticles}]
Steps == {"start", "list", "fetching", "links", "api", "items", "turn",
          "detail", "coze", "save", "done"}

NoFetch == [for |-> "none", url |-> None, to |-> None, checked |-> None, hop |-> 0, attempt |-> 0]
NoApi == [hints |-> <<>>, relative |-> FALSE, hint |-> 1, url |-> None, page |-> 0]
NoScan == [page |-> 0,          \* page_index
           current |-> Column,  \* current_url
           at |-> None,         \* response.url
           visited |-> {},      \* visited_pages, the URLs that were requested
           answered |-> {},     \* state.visited_pages, the URLs that answered
           links |-> {},        \* links or items still to be looked at
           barren |-> 0,        \* no_new_pages
           api |-> NoApi]       \* the API that is tried

Failure(u, stage, code, retryable) ==
    [url |-> u, stage |-> stage, code |-> code, retryable |-> retryable]

Ended == {"completed", "waiting_review", "partial_failed"}
TaskStatus == {"running", "saving_documents", "failed"} \cup Ended
DocumentStates == {"pending", "rejected", "accepted", "manual"}

ColumnInit ==
    /\ step = "start"
    /\ job \in Jobs
    /\ fetch = NoFetch /\ scan = NoScan
    /\ candidates = <<>> /\ seen = {}
    /\ failures = <<>> /\ articles = <<>>
    /\ claim = [discovered |-> 0, success |-> TRUE, empty |-> FALSE]
    /\ next = 1
    /\ task = [status |-> "running", failed |-> 0, rows |-> {}, docs |-> <<>>]

Full == Len(candidates) >= job.limit
Fail(f) == failures' = Append(failures, f)

(* The local provider raises: the transaction is rolled back, the task     *)
(* fails.                                                                  *)
Abort ==
    /\ task' = [task EXCEPT !.status = "failed", !.failed = 1, !.rows = {}, !.docs = <<>>]
    /\ step' = "done"

(* Discovery is over; what it needs no more is gone.                       *)
EndDiscovery == step' = "detail" /\ scan' = NoScan

-----------------------------------------------------------------------------
(* HttpFetcher.fetch.                                                      *)

BeginFetch(purpose, u) ==
    /\ fetch' = [for |-> purpose, url |-> u, to |-> u, checked |-> None, hop |-> 0, attempt |-> 1]
    /\ step' = "fetching"

(* What it may raise: UnsafeUrlError, a validation that takes too long,    *)
(* ConnectError, ReadTimeout, 429, other statuses that are worth a retry,  *)
(* 401 and 403, and responses that are too long or redirect too often.     *)
CheckErrors == {"unsafe", "slow"}
RequestErrors == {"connect", "timeout", "limited", "busy", "blocked", "invalid"}

(* The two adapters do not agree about what is worth a retry.              *)
retryable_exception(e) ==
    \/ e \in {"slow", "timeout"}
    \/ job.adapter = "generic" /\ e \in {"connect", "limited", "busy"}

ErrorCode(e) ==
    CASE job.adapter = "generic" /\ e = "blocked" -> "SOURCE_BLOCKED"
      [] job.adapter = "generic" /\ e = "limited" -> "RATE_LIMITED"
      [] OTHER -> "ARTICLE_FETCH_FAILED"

(* The first page decides about the crawl, a later one ends the paging.    *)
ListError(e) ==
    IF scan.page = 0
    THEN Abort /\ UNCHANGED <<failures, scan, next>>
    ELSE /\ Fail(Failure(fetch.url, "pagination", "PAGINATION_FAILED", retryable_exception(e)))
         /\ EndDiscovery
         /\ UNCHANGED <<next, task>>

(* The next hint is tried, unless the last one brought candidates; after   *)
(* an error it is tried in any case.                                       *)
TryHint(i) == [scan.api EXCEPT !.hint = i, !.url = scan.api.hints[i], !.page = 0]
NextHint(answered) ==
    LET i == scan.api.hint + 1 IN
    IF i > Len(scan.api.hints)
    THEN scan' = [scan EXCEPT !.api = NoApi, !.answered = answered] /\ step' = "turn"
    ELSE scan' = [scan EXCEPT !.api = TryHint(i), !.answered = answered] /\ step' = "api"
HintDone(answered) ==
    IF candidates = <<>> THEN NextHint(answered)
    ELSE scan' = [scan EXCEPT !.api = NoApi, !.answered = answered] /\ step' = "turn"

(* The failure names the hint as it was configured, which may be relative. *)
HintFailure(retryable) ==
    Failure(IF scan.api.relative THEN Malformed ELSE scan.api.hints[scan.api.hint], "api",
            IF scan.api.hint = 1 THEN "LIST_SCHEMA_UNKNOWN" ELSE "SPA_API_REQUEST_FAILED", retryable)

(* _discover_api_fallback catches ValueError and HTTPError: a validation   *)
(* that takes too long raises neither.                                     *)
ApiError(e) ==
    IF e = "slow"
    THEN Abort /\ UNCHANGED <<failures, scan, next>>
    ELSE /\ Fail(HintFailure(retryable_exception(e)))
         /\ NextHint(scan.answered)
         /\ UNCHANGED <<next, task>>

DetailError(e) ==
    /\ Fail(Failure(fetch.url, "detail", ErrorCode(e), retryable_exception(e)))
    /\ step' = "detail" /\ next' = next + 1
    /\ UNCHANGED <<scan, task>>

Handle(e) ==
    /\ fetch' = NoFetch
    /\ CASE fetch.for = "list" -> ListError(e)
         [] fetch.for = "api" -> ApiError(e)
         [] fetch.for = "detail" -> DetailError(e)

(* Fault of Raise: attempts are not counted.                               *)
RaiseForever(e) ==
    IF e \in {"connect", "timeout"}
    THEN /\ fetch' = [fetch EXCEPT !.to = fetch.url, !.checked = None, !.hop = 0]
         /\ UNCHANGED <<step, failures, scan, next, task>>
    ELSE Handle(e)

(* Connections that fail are tried again, from the first URL.              *)
Raise(e) ==
    IF e \in {"connect", "timeout"} /\ fetch.attempt < MaxAttempts
    THEN /\ fetch' = [fetch EXCEPT !.to = fetch.url, !.checked = None, !.hop = 0, !.attempt = @ + 1]
         /\ UNCHANGED <<step, failures, scan, next, task>>
    ELSE Handle(e)

(* validate_public_url.                                                    *)
CheckHop ==
    /\ step = "fetching" /\ fetch.checked = None
    /\ \/ /\ fetch' = [fetch EXCEPT !.checked = fetch.to]
          /\ UNCHANGED <<step, failures, scan, next, task>>
       \/ \E e \in CheckErrors : Raise(e)
    /\ UNCHANGED <<job, candidates, seen, articles, claim>>

(* Fault of Redirect: the new URL is not checked.                          *)
RedirectUnchecked(u) ==
    IF fetch.hop >= MaxRedirects THEN Raise("invalid")
    ELSE /\ fetch' = [fetch EXCEPT !.to = u, !.hop = @ + 1]
         /\ UNCHANGED <<step, failures, scan, next, task>>

Redirect(u) ==
    IF fetch.hop >= MaxRedirects THEN Raise("invalid")
    ELSE /\ fetch' = [fetch EXCEPT !.to = u, !.checked = None, !.hop = @ + 1]
         /\ UNCHANGED <<step, failures, scan, next, task>>

Request ==
    /\ step = "fetching" /\ fetch.checked # None
    /\ \/ \E u \in {v \in Fetchable : v[1] = fetch.url[1]} \cup {Foreign} : Redirect(u)
       \/ \E e \in RequestErrors : Raise(e)
    /\ UNCHANGED <<job, candidates, seen, articles, claim>>

(* A response that is read to its end.                                     *)
Responds(purpose) == step = "fetching" /\ fetch.checked # None /\ fetch.for = purpose

-----------------------------------------------------------------------------
(* GenericCrawler._discover_result.                                        *)

Start ==
    /\ step = "start"
    /\ \/ job.provider = "coze" /\ step' = "coze" /\ UNCHANGED task
       \/ job.provider = "local" /\ step' = "list" /\ UNCHANGED task
       \/ job.provider = "local" /\ job.adapter = "generic" /\ Abort   \* the site is disabled
    /\ UNCHANGED <<job, fetch, discoveryVars, batchVars, next>>

ListPage ==
    /\ step = "list"
    /\ IF scan.page = MaxPages \/ scan.current \in scan.visited \/ Full
       THEN EndDiscovery /\ UNCHANGED fetch
       ELSE /\ BeginFetch("list", scan.current)
            /\ scan' = [scan EXCEPT !.visited = @ \cup {scan.current}]
    /\ UNCHANGED <<job, candidates, seen, batchVars, next, task>>

(* _extract_candidates: links to pages of the site, other than the one     *)
(* that was requested.                                                     *)
IsCandidate(u) == SameSite(u) /\ u # scan.current
LinkUrls == ArticleUrls \cup {Column, Foreign}

(* A selector of the column that is malformed raises.                      *)
ListResponse ==
    /\ Responds("list") /\ job.adapter = "generic"
    /\ \/ Abort /\ UNCHANGED scan
       \/ /\ \E links \in SUBSET LinkUrls :
                LET new == {u \in links : IsCandidate(u)} IN
                scan' = [scan EXCEPT !.links = new, !.answered = @ \cup {normalize_url(fetch.to)},
                                     !.barren = IF new \subseteq seen THEN @ + 1 ELSE 0,
                                     !.at = fetch.to]
          /\ step' = "links" /\ UNCHANGED task
    /\ fetch' = NoFetch
    /\ UNCHANGED <<job, candidates, seen, batchVars, next>>

Candidate(u, content, direct) == [url |-> u, content |-> content, direct |-> direct]

(* Fault of AddLink: links are not remembered.                             *)
AddLinkForgets ==
    /\ step = "links" /\ scan.links # {}
    /\ \E u \in scan.links :
       /\ candidates' = Append(candidates, Candidate(u, FALSE, FALSE))
       /\ scan' = [scan EXCEPT !.links = IF Len(candidates) + 1 >= job.limit THEN {} ELSE @ \ {u}]
    /\ UNCHANGED <<step, job, fetch, seen, batchVars, next, task>>

(* Links are taken in the order of their score, until the task is full.    *)
AddLink ==
    /\ step = "links" /\ scan.links # {}
    /\ \E u \in scan.links :
       IF u \in seen
       THEN scan' = [scan EXCEPT !.links = @ \ {u}] /\ UNCHANGED <<candidates, seen>>
       ELSE /\ candidates' = Append(candidates, Candidate(u, FALSE, FALSE))
            /\ seen' = seen \cup {u}
            /\ scan' = [scan EXCEPT !.links = IF Len(candidates) + 1 >= job.limit THEN {} ELSE @ \ {u}]
    /\ UNCHANGED <<step, job, fetch, batchVars, next, task>>

(* A first page without links may be an article itself; seen_details does  *)
(* not learn about it.  Otherwise an API may be named, by the              *)
(* configuration or by the page.                                           *)
Hints == UNION {{h \in [1 .. n -> ApiUrls] : \A i, j \in 1 .. n : i # j => h[i] # h[j]} : n \in 1 .. MaxHints}

Fallback ==
    /\ step = "links" /\ scan.links = {}
    /\ IF scan.page > 0 \/ candidates # <<>>
       THEN step' = "turn" /\ UNCHANGED <<scan, candidates>>
       ELSE \/ /\ candidates' = <<Candidate(normalize_url(scan.at), FALSE, TRUE)>>
               /\ step' = "turn" /\ UNCHANGED scan
            \/ step' = "turn" /\ UNCHANGED <<scan, candidates>>
            \/ \E hints \in Hints, relative \in BOOLEAN :
               /\ relative => Len(hints) = 1
               /\ scan' = [scan EXCEPT !.api = [hints |-> hints, relative |-> relative, hint |-> 1,
                                                url |-> hints[1], page |-> 0]]
               /\ step' = "api" /\ UNCHANGED candidates
    /\ UNCHANGED <<job, fetch, seen, batchVars, next, task>>

(* The next page of a hint, unless there are too many or it has answered.  *)
ApiPage ==
    /\ step = "api"
    /\ IF scan.api.page = ApiPages \/ scan.api.url \in scan.answered
       THEN HintDone(scan.answered) /\ UNCHANGED fetch
       ELSE BeginFetch("api", scan.api.url) /\ UNCHANGED scan
    /\ UNCHANGED <<job, candidates, seen, batchVars, next, task>>

(* The payload cannot be read, has no items, or has some.                  *)
ApiResponse ==
    /\ Responds("api")
    /\ LET answered == scan.answered \cup {normalize_url(fetch.to)} IN
       \/ Fail(HintFailure(FALSE)) /\ NextHint(answered)
       \/ HintDone(answered) /\ UNCHANGED failures
       \/ \E items \in SUBSET LinkUrls \ {{}} :
             /\ scan' = [scan EXCEPT !.answered = answered, !.links = items]
             /\ step' = "items" /\ UNCHANGED failures
    /\ fetch' = NoFetch
    /\ UNCHANGED <<job, candidates, seen, articles, claim, next, task>>

AddItem ==
    /\ step = "items" /\ scan.links # {}
    /\ \E u \in scan.links, content \in BOOLEAN :
       IF u \in seen \/ ~SameSite(u)
       THEN scan' = [scan EXCEPT !.links = @ \ {u}] /\ UNCHANGED <<candidates, seen>>
       ELSE /\ candidates' = Append(candidates, Candidate(u, content, FALSE))
            /\ seen' = seen \cup {u}
            /\ scan' = [scan EXCEPT !.links = IF Len(candidates) + 1 >= job.limit THEN {} ELSE @ \ {u}]
    /\ UNCHANGED <<step, job, fetch, batchVars, next, task>>

(* _next_api_url; the next page is compared with responses, not with       *)
(* requests.                                                               *)
NextApiPage ==
    /\ step = "items" /\ scan.links = {}
    /\ \E u \in ApiUrls \cup {None} :
       IF Full \/ u = None \/ u \in scan.answered
       THEN HintDone(scan.answered)
       ELSE scan' = [scan EXCEPT !.api.url = u, !.api.page = @ + 1] /\ step' = "api"
    /\ UNCHANGED <<job, fetch, candidates, seen, batchVars, next, task>>

(* _find_next_page: rel=next, then the first link with a label that says   *)
(* so, each unless it was visited, then the link with the smallest page    *)
(* number above this one, then the page parameter plus one.                *)
NextPages(rel, labelled, numbered, param) ==
    LET n == PageNumber(scan.at)
        successor == (IF n = -1 THEN 1 ELSE n) + 1
    IN IF rel \notin scan.visited \cup {None} THEN {rel}
       ELSE IF labelled # None THEN {labelled}
       ELSE IF numbered # None THEN {numbered}
       ELSE IF param /\ successor <= LastPage THEN {"list", "generated"} \X {successor}
       ELSE {None}

Turn ==
    /\ step = "turn"
    /\ IF Full \/ scan.barren >= StopAfter
       THEN EndDiscovery
       ELSE \E rel \in PageUrls \cup {None}, labelled \in (PageUrls \ scan.visited) \cup {None},
               numbered \in {u \in ListUrls : PageNumber(u) > PageNumber(scan.at)} \cup {None},
               param \in BOOLEAN :
            \E u \in NextPages(rel, labelled, numbered, param) :
               IF u = None THEN EndDiscovery
               ELSE scan' = [scan EXCEPT !.current = u, !.page = @ + 1] /\ step' = "list"
    /\ UNCHANGED <<job, fetch, candidates, seen, batchVars, next, task>>

(* GovCnLatestJsonAdapter: the feed lists the articles, repeated ones and  *)
(* malformed ones too; a payload that is not a list raises.                *)
FeedUrls == ArticleUrls \cup {Foreign, Malformed}

FeedResponse ==
    /\ Responds("list") /\ job.adapter = "govcn"
    /\ fetch' = NoFetch
    /\ \/ Abort /\ UNCHANGED <<scan, candidates>>
       \/ \E n \in 0 .. job.limit : \E feed \in [1 .. n -> FeedUrls] :
             /\ candidates' = [i \in 1 .. n |-> Candidate(feed[i], FALSE, FALSE)]
             /\ EndDiscovery /\ UNCHANGED task
    /\ UNCHANGED <<job, seen, batchVars, next>>

-----------------------------------------------------------------------------
(* crawl_column_with_diagnostics: the articles.                            *)

AddArticle(of, u) == articles' = Append(articles, [of |-> of, url |-> u, decision |-> "pending_review"])

(* An item of an API may bring the article along.  A malformed URL is      *)
(* noticed outside of the try block.                                       *)
FetchDetail ==
    /\ step = "detail" /\ next <= Len(candidates)
    /\ LET c == candidates[next] IN
       IF c.url = Malformed THEN Abort /\ UNCHANGED <<fetch, articles, next>>
       ELSE IF c.content
       THEN AddArticle(c.url, c.url) /\ next' = next + 1 /\ UNCHANGED <<step, fetch, task>>
       ELSE BeginFetch("detail", c.url) /\ UNCHANGED <<articles, next, task>>
    /\ UNCHANGED <<job, discoveryVars, failures, claim>>

(* parse_detail_response.                                                  *)
SchemaCodes ==
    IF job.adapter = "generic" THEN {"DETAIL_SCHEMA_UNKNOWN"}
    ELSE {"DETAIL_SCHEMA_UNKNOWN", "ARTICLE_FETCH_FAILED"}

DetailResponse ==
    /\ Responds("detail")
    /\ fetch' = NoFetch /\ step' = "detail" /\ next' = next + 1
    /\ \/ AddArticle(fetch.url, normalize_url(fetch.to)) /\ UNCHANGED failures
       \/ /\ \E code \in SchemaCodes : Fail(Failure(fetch.url, "detail", code, FALSE))
          /\ UNCHANGED articles
    /\ UNCHANGED <<job, discoveryVars, claim, task>>

(* _persist_batch_failures: failures with the same URL, stage and code     *)
(* share a row, which keeps the last answer to whether a retry is worth    *)
(* it.                                                                     *)
Identity(f) == <<f.url, f.stage, f.code>>
AddRow(rows, f) == {r \in rows : Identity(r) # Identity(f)} \cup {f}
RowsOf(s) == {s[i] : i \in {j \in 1 .. Len(s) : \A k \in j + 1 .. Len(s) : Identity(s[k]) # Identity(s[j])}}

BeginSave(failed, failed_urls) ==
    /\ task' = [task EXCEPT !.status = "saving_documents", !.failed = failed, !.rows = RowsOf(failed_urls)]
    /\ step' = "save" /\ next' = 1

(* LocalCrawlProvider.start_crawl: failed URLs have to be URLs.            *)
LocalBatch ==
    /\ step = "detail" /\ next > Len(candidates)
    /\ IF \E i \in 1 .. Len(failures) : failures[i].url = Malformed
       THEN Abort /\ UNCHANGED <<claim, next>>
       ELSE /\ claim' = [discovered |-> Len(candidates), success |-> failures = <<>>,
                         empty |-> articles = <<>> /\ failures = <<>>]
            /\ BeginSave(Len(failures), failures)
    /\ UNCHANGED <<job, fetch, discoveryVars, failures, articles>>

-----------------------------------------------------------------------------
(* CozeCrawlProvider.                                                      *)

(* The task fails; what was saved before the error is committed.           *)
CozeAbort ==
    /\ task' = [task EXCEPT !.status = "failed", !.failed = @ + 1]
    /\ step' = "done"

(* _post_with_retry: timeouts, network errors and some statuses are tried  *)
(* again, other statuses are not.                                          *)
CozePost ==
    /\ step = "coze"
    /\ fetch.attempt <= MaxRetries
    /\ fetch' = [fetch EXCEPT !.for = "coze", !.attempt = @ + 1]
    /\ UNCHANGED <<step, job, discoveryVars, batchVars, next, task>>

(* The credentials or the request are refused, the retries are used up, or *)
(* the answer cannot be read: it is no JSON, has too many wrappers, lacks  *)
(* a field or follows the other contract.                                  *)
CozeFails ==
    /\ step = "coze"
    /\ CozeAbort
    /\ fetch' = NoFetch
    /\ UNCHANGED <<job, discoveryVars, batchVars, next>>

Decisions == {"accepted", "rejected", "pending_review", "failed"}
FailedIn(s) == Cardinality({i \in 1 .. Len(s) : s[i].decision = "failed"})

(* validate_statistics, and the task's own identifier.                     *)
Conforms(reported, same_task, s, f) == reported = FailedIn(s) + Len(f) /\ same_task

(* What a workflow may answer: bound, two articles and one failed URL.     *)
BatchArticles == UNION {[1 .. n -> [of : {None}, url : ArticleUrls, decision : Decisions]] : n \in 0 .. 2}
BatchFailedUrls == {<<>>} \cup {<<Failure(u, "detail", "PROVIDER", TRUE)>> : u \in ArticleUrls}

CozeResponse ==
    /\ step = "coze" /\ fetch.attempt > 0
    /\ \E s \in BatchArticles, f \in BatchFailedUrls : \E reported \in 0 .. 3, same_task \in BOOLEAN :
       IF Conforms(reported, same_task, s, f)
       THEN /\ articles' = s /\ failures' = f
            /\ claim' \in [discovered : {0, 1}, success : BOOLEAN, empty : BOOLEAN]
            /\ BeginSave(reported, f)
       ELSE CozeAbort /\ UNCHANGED <<batchVars, next>>
    /\ fetch' = NoFetch
    /\ UNCHANGED <<job, discoveryVars>>

-----------------------------------------------------------------------------
(* CrawlService: the batch is saved, article by article.                   *)

Saving == step = "save" /\ next <= Len(articles)

PersistFailedArticle ==
    /\ Saving /\ articles[next].decision = "failed"
    /\ task' = [task EXCEPT !.rows = AddRow(@, Failure(articles[next].url, "article", "ARTICLE_FAILED", TRUE))]
    /\ next' = next + 1
    /\ UNCHANGED <<step, job, fetch, discoveryVars, batchVars>>

(* _save_coze_article and _refresh_coze_document: a manual decision about  *)
(* an unchanged document stands, any other is replaced.                    *)
Reviewed(known, changed, decision) ==
    IF known = "manual" /\ ~changed THEN "manual"
    ELSE IF decision = "rejected" THEN "rejected" ELSE "pending"

(* A document that this task has saved already is known.                   *)
Known(u) == IF u \in DOMAIN task.docs THEN {task.docs[u]} ELSE {"none"} \cup DocumentStates
SetDoc(u, state) == [v \in DOMAIN task.docs \cup {u} |-> IF v = u THEN state ELSE task.docs[v]]

SaveArticle ==
    /\ Saving /\ articles[next].decision # "failed"
    /\ LET a == articles[next] IN
       \E known \in Known(a.url), changed \in BOOLEAN :
          \/ task' = [task EXCEPT !.docs = SetDoc(a.url, Reviewed(known, changed, a.decision))]
          \/ /\ known # "none" /\ ~changed   \* nor has the provider's review
             /\ task' = [task EXCEPT !.docs = SetDoc(a.url, known)]
    /\ next' = next + 1
    /\ UNCHANGED <<step, job, fetch, discoveryVars, batchVars>>

(* Fault of SaveFails: the article is dropped.                             *)
SaveFailsSilently ==
    /\ Saving /\ articles[next].decision # "failed"
    /\ next' = next + 1
    /\ UNCHANGED <<step, job, fetch, discoveryVars, batchVars, task>>

(* The savepoint is rolled back and the failure recorded; but a duplicate  *)
(* has been counted in the task, which the rollback expires, and the       *)
(* handler raises while it reads the task's id.                            *)
SaveFails ==
    /\ Saving /\ articles[next].decision # "failed"
    /\ LET a == articles[next] IN
       \E known \in Known(a.url) :
          IF known = "none"
          THEN /\ task' = [task EXCEPT !.rows = AddRow(@, Failure(a.url, "saving_documents", "SAVE_FAILED", TRUE)),
                                       !.failed = @ + 1]
               /\ next' = next + 1 /\ UNCHANGED step
          ELSE /\ IF job.provider = "local" THEN Abort ELSE CozeAbort
               /\ UNCHANGED next
    /\ UNCHANGED <<job, fetch, discoveryVars, batchVars>>

(* Fault of FinalStatus: failures of the batch do not matter.              *)
FinalStatusHopeful ==
    IF ~claim.success /\ articles = <<>> THEN "partial_failed"
    ELSE IF \E u \in DOMAIN task.docs : task.docs[u] = "pending" THEN "waiting_review" ELSE "completed"

FinalStatus ==
    LET no_articles == claim.discovered = 0 /\ articles = <<>> /\ task.failed = 0
                       /\ (claim.success \/ claim.empty)
    IN IF ~no_articles /\ (task.failed > 0 \/ ~claim.success) THEN "partial_failed"
       ELSE IF \E u \in DOMAIN task.docs : task.docs[u] = "pending" THEN "waiting_review"
       ELSE "completed"

Finish ==
    /\ step = "save" /\ next > Len(articles)
    /\ task' = [task EXCEPT !.status = FinalStatus]
    /\ step' = "done"
    /\ UNCHANGED <<job, fetch, discoveryVars, batchVars, next>>

-----------------------------------------------------------------------------
Discover ==
    \/ ListPage \/ ListResponse \/ AddLink \/ Fallback \/ ApiPage \/ ApiResponse \/ AddItem
    \/ NextApiPage \/ Turn \/ FeedResponse

Save == PersistFailedArticle \/ SaveArticle \/ SaveFails \/ Finish

ColumnNext ==
    \/ Start \/ CheckHop \/ Request \/ Discover
    \/ FetchDetail \/ DetailResponse \/ LocalBatch
    \/ CozePost \/ CozeFails \/ CozeResponse
    \/ Save

ColumnSpec == ColumnInit /\ [][ColumnNext]_columnVars

(* A running crawl goes on.                                                *)
ColumnFairSpec == ColumnSpec /\ WF_columnVars(ColumnNext)

-----------------------------------------------------------------------------
(* Properties.                                                             *)

Urls == PageUrls \cup Generated \cup ArticleUrls \cup ApiUrls \cup {Malformed, None}

(* Types.                                                                  *)
ColumnTypeOK ==
    /\ step \in Steps /\ job \in Jobs /\ next \in Nat \ {0}
    /\ fetch \in [for : {"none", "list", "api", "detail", "coze"}, url : Urls, to : Urls,
                   checked : Urls, hop : 0 .. MaxRedirects, attempt : Nat]
    /\ scan.page \in 0 .. MaxPages /\ scan.current \in Urls /\ scan.barren \in 0 .. StopAfter
    /\ scan.visited \cup scan.answered \cup scan.links \subseteq Urls
    /\ scan.api.page \in 0 .. ApiPages
    /\ \A i \in 1 .. Len(candidates) : candidates[i].url \in Urls
    /\ task.status \in TaskStatus /\ task.failed \in Nat
    /\ \A u \in DOMAIN task.docs : task.docs[u] \in DocumentStates

(* HttpFetcher sends no request to an address that has not been validated: *)
(* what was validated is what is requested, after every redirect and       *)
(* retry.                                                                  *)
EveryHopValidated == fetch.checked \in {None, fetch.to}

(* Links, the API and the direct candidate together respect max_articles   *)
(* and the pages max_pages, and the generic crawler fetches no article     *)
(* twice, however often pages and APIs list it; only the column's page     *)
(* that was taken for an article may be listed again by a later page.      *)
(* Every page, hop and row stays in its range (GenericCrawler, fetch).     *)
WithinLimits ==
    /\ ColumnTypeOK
    /\ Len(candidates) <= job.limit /\ Cardinality(scan.visited) <= MaxPages
    /\ job.adapter = "generic" =>
        \A i, j \in 1 .. Len(candidates) :
            i < j /\ candidates[i].url = candidates[j].url => candidates[i].direct

Recorded(u) == u \in DOMAIN task.docs \/ \E r \in task.rows : r.url = u

(* A crawl that ends without failing loses nothing: every candidate has    *)
(* become a document or a failure that can be looked at, and so has every  *)
(* article and failed URL of the batch.                                    *)
NothingLost ==
    task.status \in Ended =>
        /\ \A i \in 1 .. Len(failures) : Recorded(failures[i].url)
        /\ \A i \in 1 .. Len(articles) : Recorded(articles[i].url)
        /\ \A i \in 1 .. Len(candidates) :
              Recorded(candidates[i].url) \/ \E j \in 1 .. Len(articles) : articles[j].of = candidates[i].url

Distinct(s) == \A i, j \in 1 .. Len(s) : i # j => s[i].url # s[j].url

(* A task that is completed or waits for its review has no failure on      *)
(* record, and a provider that spoke of success or of an empty column; the *)
(* failed_count of any other that ended is the number of failures on       *)
(* record, unless a URL was reported twice.                                *)
SuccessIsComplete ==
    /\ task.status \in {"completed", "waiting_review"} =>
          task.rows = {} /\ (claim.success \/ claim.empty)
    /\ task.status \in Ended /\ Distinct(failures) /\ Distinct(articles) =>
          task.failed = Cardinality(task.rows)

(* Loops of pages, redirects and APIs, failing connections and a provider  *)
(* that does not answer keep no crawl from its end.                        *)
CrawlEnds == <>(step = "done")

=============================================================================

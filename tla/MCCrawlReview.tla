--------------------------- MODULE MCCrawlReview ---------------------------
(* CrawlReview for TLC: documents and reviewers are interchangeable.      *)
EXTENDS CrawlReview, TLC

Interchangeable == Permutations(Docs) \cup Permutations(Reviewers)

=============================================================================

--------------------------- MODULE MCFailedUrls ---------------------------
EXTENDS FailedUrls, TLC

(* Workers, rows and codes are told apart by their names only.              *)
Interchangeable == Permutations(Workers) \cup Permutations(Failures) \cup Permutations(Codes)

(* No guard reads failed_count or a copy of it, and no property does once   *)
(* the count is given up: states that differ in nothing else are one.       *)
Busy(s) == s.pc # "idle"
Counted ==
    IF counting THEN vars
    ELSE <<row, task.status, messages,
           [w \in Workers |-> IF Busy(worker[w]) THEN [worker[w] EXCEPT !.failed = 0]
                              ELSE worker[w]],
           request, IF crawl.pc = "saving" THEN [crawl EXCEPT !.failed = 0] ELSE crawl,
           historyVars>>
=============================================================================

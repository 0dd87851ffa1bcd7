---------------------------- MODULE MCReviewQueue ----------------------------
(* A candidate for a task and one for a fact, two decisions, one text, one change by    *)
(* others.  An inspection lists the fact under two of its gaps, or both cards elsewhere.  *)
EXTENDS ReviewQueue

CONSTANTS t1, n1
MCCards   == {t1, n1}
MCReports == {[gaps |-> <<n1, n1>>, lists |-> << >>], [gaps |-> << >>, lists |-> <<n1, t1, n1>>]}
=============================================================================

--------------------------- MODULE MCHistoryPages ---------------------------
EXTENDS HistoryPages

CONSTANTS a1, a2, s1, s2, s3, s4, x1, x2

\* The addresses share a transaction, one page repeats a row of the page before,
\* and one row has no signature.
MCHistory == (a1 :> <<<<s1, s2>>, <<s2, s3>>>>) @@ (a2 :> <<<<s3, None>>, <<s4>>>>)
MCTransfers == (a1 :> <<<<<<s1, 1>>, <<s1, 2>>>>, <<<<s1, 2>>, <<s3, 1>>>>>>)
               @@ (a2 :> <<<<<<s4, 1>>>>>>)
=============================================================================

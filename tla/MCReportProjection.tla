------------------------ MODULE MCReportProjection ------------------------
(* An instance of ReportProjection for TLC.                                  *)
EXTENDS ReportProjection, TLC

CONSTANTS m1, m2, m3, c1, c2

MCChunkOf == m1 :> c1 @@ m2 :> c1 @@ m3 :> c2

Report(m, s, t, k) == [msg |-> m, status |-> s, time |-> t, key |-> k]

\* Reports of every class for one message, with ties down to the key, and one
\* for a message an old release writes.
MCReports ==
  {Report(m1, 0, 3, 1), Report(m1, 2, 2, 3), Report(m1, 99, 2, 4), Report(m1, 99, 2, 5),
   Report(m1, 1, 1, 7), Report(m3, 3, 1, 9)}
===========================================================================

---------------------------- MODULE MCRequestLog ----------------------------
(* The request log with two requests and reports over two ranges.           *)
EXTENDS RequestLog
CONSTANTS r1, r2
MCRequest == {r1, r2}
MCSpan == {0, 1}
=============================================================================

---------------------------- MODULE MCTraceWriter ----------------------------
(* A run with one spilled payload: three calls of append(), awaited or not. *)
EXTENDS TraceWriter

CONSTANT blobA

MCContents == {blobA}
MCEvents ==
  [type : {"run.start", "run.end"}, spill : {NoSpill}]
    \union [type : {"other"}, spill : MCContents]
=============================================================================

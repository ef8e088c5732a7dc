------------------------------ MODULE TraceLog ------------------------------
(***************************************************************************)
(* What a run's events.jsonl promises its readers (spec/orca-trace-v0.md   *)
(* sections 2 and 6): a log that only grows, that takes each accepted call *)
(* of append() at most once and in call order, and that never changes      *)
(* again once the manifest carries its digest.                             *)
(***************************************************************************)
EXTENDS Naturals, Sequences

CONSTANT Calls   \* the numbers of the accepted calls

VARIABLES
  log,      \* the calls whose events are in the file, by call number
  sealed    \* the manifest with the digest is on disk

logVars == <<log, sealed>>

LogInit == log = << >> /\ sealed = FALSE

Extend(call) ==
  /\ ~ sealed
  /\ \A k \in 1..Len(log) : log[k] < call
  /\ log' = Append(log, call)
  /\ UNCHANGED sealed

Seal ==
  /\ sealed' = TRUE
  /\ UNCHANGED log

LogNext == Seal \/ \E call \in Calls : Extend(call)

LogSpec == LogInit /\ [][LogNext]_logVars
=============================================================================

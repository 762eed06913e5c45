------------------------------ MODULE MCMount ------------------------------
(***************************************************************************)
(* Mount with one file below the limit, one above it, and one above it     *)
(* whose size the archive does not report.                                 *)
(***************************************************************************)
EXTENDS Mount

CONSTANTS small, plain, huge

MCSize(f) == CASE f = small -> 1 [] f = plain -> 3 [] f = huge -> 3

MCSized(f) == f # huge
=============================================================================

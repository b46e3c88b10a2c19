------------------------------ MODULE MCIngest ------------------------------
(***************************************************************************)
(* Two programs and four transactions.  Both programs report 2 and 4; 3 is *)
(* one the normaliser makes no event of, which a cursor still points at.   *)
(* Two transactions per response let a gap form.                           *)
(***************************************************************************)
EXTENDS Ingest

CONSTANTS p1, p2

TwoPrograms == <<p1, p2>>

FourTouches == <<{p1}, {p1, p2}, {p2}, {p1, p2}>>
=============================================================================

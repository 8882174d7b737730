--------------------------- MODULE MCQwen35Session ---------------------------
(***************************************************************************)
(* Instances of Qwen35Session.                                             *)
(***************************************************************************)
EXTENDS Qwen35Session

CONSTANTS e1, e2

OneEntry == <<e1>>
TwoEntries == <<e1, e2>>
=============================================================================

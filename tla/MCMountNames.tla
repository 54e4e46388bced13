---------------------------- MODULE MCMountNames ----------------------------
(* Names as Windows sees them: 2 "A" and 4 "a" are one, 3 "B" another; the *)
(* name -5 is one that sorts before ".", such as "$Recycle.Bin".           *)
EXTENDS MountNames

CaseClass(n) == IF n = 4 THEN 2 ELSE n
BelowDot     == {-5, 2}
=============================================================================

------------------------------- MODULE MCMount -------------------------------
(* On FUSE one mount with any options; on WinFsp, where two mounts meet in  *)
(* the named objects of their mountpoint, a second one after it.            *)
EXTENDS Mount

Plain == [sync |-> FALSE, mode |-> "Keep"]
TwoOnWinFsp(b, m) ==
    IF b # "winfsp" THEN IF m = 1 THEN AllOptions ELSE {}
    ELSE IF m = 1 THEN {Plain, [sync |-> TRUE, mode |-> "Ask"]} ELSE {Plain}
FewOnWinFsp(b) == IF b = "winfsp" THEN 1 ELSE 3
=============================================================================

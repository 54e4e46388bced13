------------------------------- MODULE MCGui --------------------------------
(* One vault file and every button of the sidebar. *)
EXTENDS Gui
AllTargets == NavigateAction \ {"Welcome"}
=============================================================================

----------------------------- MODULE MCRunsPage -----------------------------
(* Two runs on the page: what matters of a run is whether it is the one that   *)
(* was clicked last.                                                          *)
EXTENDS RunsPage
=============================================================================

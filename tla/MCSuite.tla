------------------------------ MODULE MCSuite ------------------------------
(* Login, work, cleanup, farewell: the second stores a key, the third runs  *)
(* always and uses it, the last one uses a key of the initial context.      *)
EXTENDS Suite

MCKeys == {"session", "url"}
MCInitialKeys == {"url"}
MCStores == <<{}, {"session"}, {"url"}, {}>>
MCReads == <<{}, {}, {"session"}, {"url"}>>
MCAlwaysRun == {3}
=============================================================================

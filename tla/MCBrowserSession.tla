--------------------------- MODULE MCBrowserSession ---------------------------
(* Two tabs of one browser. *)
EXTENDS BrowserSession
=============================================================================

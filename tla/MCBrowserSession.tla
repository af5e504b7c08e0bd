-------------------------- MODULE MCBrowserSession ---------------------------
(* Instance of BrowserSession for TLC: the short id s2 stands for r2.      *)
EXTENDS BrowserSession

CONSTANTS r2, s2

MCRealOf == [s \in {s2} |-> r2]

=============================================================================

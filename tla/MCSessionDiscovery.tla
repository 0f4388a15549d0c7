------------------------- MODULE MCSessionDiscovery -------------------------
(***************************************************************************)
(* An instance of SessionDiscovery with two sessions of each provider.     *)
(* The second Claude session was started in another directory with the    *)
(* same project key, the second OpenCode session in another directory.     *)
(***************************************************************************)
EXTENDS SessionDiscovery

CONSTANTS c1, c2, x1, x2, o1, o2

MCHome == [s \in Sessions |-> CASE s = c2 -> "/a-b" [] s = o2 -> "/c" [] OTHER -> "/a/b"]
MCKey == [d \in {"/a/b", "/a-b", "/c"} |-> IF d = "/c" THEN "-c" ELSE "-a-b"]
=============================================================================

----------------------------- MODULE MCRequests -----------------------------
(* One request, with every combination of a body, hooks, an error handler,  *)
(* at most two middleware functions and a route of each kind.               *)
EXTENDS Requests

MCChains == {<< >>, <<"plain">>, <<"plain", "error">>, <<"plain", "plain">>}
MCPhaseLists == {<<"mw">>, <<"core">>, <<"mw", "core">>, <<"core", "mw">>}
MCRoutes == {"none", "fast", "phased", "direct"}

=============================================================================

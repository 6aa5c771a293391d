------------------------------ MODULE MCSession ------------------------------
(***************************************************************************)
(* Instances of SessionLifecycle for TLC.                                  *)
(***************************************************************************)
EXTENDS SessionLifecycle, TLC

\* One server: an MCP client that sends one call at a time, and the SessionEnd
\* hook that posts to /end-session.
HookHome == [w \in {"mcp", "hook"} |-> "A"]
HookCan == ("mcp" :> {"start", "end"}) @@ ("hook" :> {"post"})

\* Two servers, each with an MCP client that sends one call at a time.
PairHome == ("mcpA" :> "A") @@ ("mcpB" :> "B")
PairCan == [w \in {"mcpA", "mcpB"} |-> {"start", "end"}]

\* One server, one client, one call at a time.
SoloHome == [w \in {"mcp"} |-> "A"]
SoloCan == [w \in {"mcp"} |-> {"start", "end"}]
=============================================================================

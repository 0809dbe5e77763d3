---------------------------- MODULE MCToolLedger -----------------------------
(* A tool, a sub-agent with one tool call inside, and an MCP call.          *)
EXTENDS ToolLedger, TLC

CONSTANTS tool, agent, inside, mcp

OnePlatform == {tool, agent}
OneInner    == {inside}
OneNative   == {mcp}
OneOwner    == inside :> agent
=============================================================================

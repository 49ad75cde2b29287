---------------------------- MODULE MCToolCalls ----------------------------
(* Batches of three calls in which the cases meet: identical searches beside   *)
(* reads, refusals beside executions, writes between two fan-outs.            *)
EXTENDS ToolCalls
MCPlans ==
    {<<"search", "search", "read">>, <<"search", "search", "mcp">>, <<"read", "unknown", "search">>,
     <<"search", "exec", "search">>, <<"read", "write", "mcpWrite">>, <<"read", "read", "read">>,
     <<"exec", "exec", "unknown">>}
=============================================================================

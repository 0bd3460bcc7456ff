----------------------------- MODULE MCToolLoop -----------------------------
(* A tool of the server's, one of the client's that the server has too, and  *)
(* two candidates in either order.                                           *)
EXTENDS ToolLoop

MCBatches == {<<>>, <<"srv">>, <<"cli">>, <<"srv", "srv">>, <<"srv", "cli">>}
MCOrders == {<<"openai", "gemini">>, <<"gemini", "openai">>, <<"anthropic", "openai">>}
=============================================================================

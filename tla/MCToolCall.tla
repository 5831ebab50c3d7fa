----------------------------- MODULE MCToolCall -----------------------------
(* The calls of a session share the setting and the object only: one call, *)
(* tried twice, meets everything that can happen around it.                *)
EXTENDS ToolCall
CONSTANT c1
MCCalls == {c1}
=============================================================================

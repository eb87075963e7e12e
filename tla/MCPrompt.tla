------------------------------- MODULE MCPrompt -------------------------------
(* Budgets 8 and (at the floor) 3 beside system prompts of 3 and 9, with a *)
(* trigger of 8; for an agentic profile 12, with a trigger of 9.           *)
EXTENDS Prompt

MCSections == <<6>>
=============================================================================

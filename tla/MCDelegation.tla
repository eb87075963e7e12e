---------------------------- MODULE MCDelegation ----------------------------
(* The profiles and subagents the run of Delegation uses.                  *)
EXTENDS Delegation

MCChain == [p \in Profiles |->
  CASE p = "code"  -> <<"sub">>
    [] p = "mixed" -> <<"http", "sub">>]

MCAgentProfile == [a \in Agents |-> CASE a = "scout" -> "mixed" [] a = "coder" -> "code"]
=============================================================================

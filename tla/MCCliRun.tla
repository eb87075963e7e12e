------------------------------ MODULE MCCliRun ------------------------------
(* A chain of claude and opencode. The texts a line may carry: a part of a *)
(* paragraph, a whole one, and a paragraph that opens or closes a fence.   *)
EXTENDS CliRun

MCFlavors == <<"claude", "opencode">>
MCChunks  == {<<"word">>, <<"word", NL, NL>>, <<Fence, NL, NL>>}
=============================================================================

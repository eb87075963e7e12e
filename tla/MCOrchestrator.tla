---------------------------- MODULE MCOrchestrator ----------------------------
(***************************************************************************)
(* The profiles the runs of Orchestrator use, one per shape of chain and   *)
(* comms mode the code tells apart.                                        *)
(***************************************************************************)
EXTENDS Orchestrator, TLC

MCMode == [p \in Profiles |->
  CASE p = "chat"  -> "sync"
    [] p = "code"  -> "async"
    [] p = "build" -> "auto"
    [] p = "ops"   -> "sync"
    [] p = "mixed" -> "async"]

MCChain == [p \in Profiles |->
  CASE p = "chat"  -> <<"http">>
    [] p = "code"  -> <<"sub">>
    [] p = "build" -> <<"sub", "http">>
    [] p = "ops"   -> <<"sub", "sub">>
    [] p = "mixed" -> <<"http", "sub">>]

(* Rooms are interchangeable where none of them requires a mention.        *)
RoomSymmetry == Permutations(Rooms)
=============================================================================

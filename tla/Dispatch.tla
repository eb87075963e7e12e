------------------------------- MODULE Dispatch -------------------------------
(***************************************************************************)
(* What roger promises of the turns it is sent, without the machinery: a   *)
(* room opens its turns one at a time and in the order they arrived; a     *)
(* turn is served as plain or as agentic work, at most one agentic turn    *)
(* per room at any time; a held turn keeps the room until it is closed,    *)
(* any other may leave the room to the next while it is still served.      *)
(***************************************************************************)
EXTENDS Naturals, Sequences

CONSTANTS Rooms, MaxTurns

Turns  == 1 .. MaxTurns
NoTurn == 0

VARIABLES
  home,    (* the rooms of the turns, in the order of arrival              *)
  stage,   (* how far each turn has come                                   *)
  held,    (* the turns that keep their room until they are closed         *)
  front    (* the turn each room is occupied with, or NoTurn               *)

vars == <<home, stage, held, front>>

Stages == {"absent", "queued", "opened", "plain", "agentic", "closed"}

TypeOK ==
  /\ home  \in Seq(Rooms) /\ Len(home) <= MaxTurns
  /\ stage \in [Turns -> Stages]
  /\ held  \in SUBSET Turns
  /\ front \in [Rooms -> Turns \cup {NoTurn}]

Init ==
  /\ home  = <<>>
  /\ stage = [t \in Turns |-> "absent"]
  /\ held  = {}
  /\ front = [r \in Rooms |-> NoTurn]

Arrived == 1 .. Len(home)

(* The turn is the next of its room, and the room is free for it.          *)
IsNext(t) ==
  /\ t \in Arrived /\ stage[t] = "queued"
  /\ \A u \in Arrived : u < t /\ home[u] = home[t] => stage[u] # "queued"
  /\ front[home[t]] = NoTurn

Arrive(r) ==
  /\ Len(home) < MaxTurns
  /\ home'  = Append(home, r)
  /\ stage' = [stage EXCEPT ![Len(home) + 1] = "queued"]
  /\ UNCHANGED <<held, front>>

(* A turn that is not meant for the bot is closed unserved.                *)
Skip(t) ==
  /\ IsNext(t)
  /\ stage' = [stage EXCEPT ![t] = "closed"]
  /\ UNCHANGED <<home, held, front>>

Open(t) ==
  /\ IsNext(t)
  /\ stage' = [stage EXCEPT ![t] = "opened"]
  /\ front' = [front EXCEPT ![home[t]] = t]
  /\ UNCHANGED <<home, held>>

Serve(t, kind, hold) ==
  /\ stage[t] = "opened"
  /\ kind = "agentic" =>
       \A u \in Arrived : home[u] = home[t] => stage[u] # "agentic"
  /\ stage' = [stage EXCEPT ![t] = kind]
  /\ held'  = IF hold THEN held \cup {t} ELSE held
  /\ UNCHANGED <<home, front>>

Close(t) ==
  /\ stage[t] \in {"plain", "agentic"}
  /\ stage' = [stage EXCEPT ![t] = "closed"]
  /\ UNCHANGED <<home, held, front>>

(* The room goes on to its next turn.                                      *)
Yield(r) ==
  LET t == front[r] IN
  /\ t # NoTurn
  /\ stage[t] \in {"plain", "agentic", "closed"}
  /\ t \in held => stage[t] = "closed"
  /\ front' = [front EXCEPT ![r] = NoTurn]
  /\ UNCHANGED <<home, stage, held>>

Advance(t) ==
  \/ Skip(t) \/ Open(t)
  \/ \E kind \in {"plain", "agentic"}, hold \in BOOLEAN : Serve(t, kind, hold)

Next ==
  \/ \E r \in Rooms : Arrive(r) \/ Yield(r)
  \/ \E t \in Turns : Advance(t) \/ Close(t)

Spec == Init /\ [][Next]_vars

(* The promise of progress: a turn that can advance does, a served turn is *)
(* closed, and a room that may go on goes on.                              *)
Fairness ==
  /\ \A t \in Turns : WF_vars(Advance(t)) /\ WF_vars(Close(t))
  /\ \A r \in Rooms : WF_vars(Yield(r))

FairSpec == Spec /\ Fairness
=============================================================================
